------------------------------ MODULE SSEStream ------------------------------
(***************************************************************************)
(* One server-sent event stream: the handler's end, the lines on their way *)
(* and the caller's end.  GoSSEServer, TSSSEServer and RustSSEServer give  *)
(* the steps of the three servers, SSE those of the six clients.           *)
(*                                                                         *)
(* An event is its JSON and what matters about it: whether it encodes,     *)
(* whether its variant's name can name a frame, how many lines it takes.   *)
(***************************************************************************)
EXTENDS Naturals, Sequences

CONSTANTS
  Pairs,        \* the servers and clients that meet: <<"Go", "Dart">> and so on
  Event,
  Wide,         \* a json field of theirs holds a line break
  Long,         \* a line of theirs exceeds the clients' limit
  Unencodable,  \* AppendJSON or the encode function fails
  Unnamed,      \* no name, or one that cannot name a frame
  Misnamed,     \* of these, the ones that have such a name
  Reserved,     \* the variant is called "error"
  Sender,       \* goroutines of a Go handler that send
  MaxEvents, MaxPings

Servers == {"Go", "TypeScript", "Rust"}
Clients == Servers \cup {"Python", "Dart", "Swift"}

ASSUME StreamAssumption ==
  /\ Pairs \subseteq Servers \X Clients
  /\ Wide \cup Long \cup Unencodable \cup Unnamed \cup Reserved \subseteq Event
  /\ Misnamed \subseteq Unnamed /\ Unnamed \cap Reserved = {}
  /\ MaxEvents \in Nat /\ MaxPings \in Nat
  /\ "free" \notin Sender   \* it stands for a lock nobody has
  /\ "error" \notin Event    \* it stands for the body of an error frame

VARIABLES
  server,    \* "Go", "TypeScript" or "Rust"
  client,    \* these, "Python", "Dart" or "Swift"
  conn,      \* see below
  wire,      \* lines written and not read
  handler,   \* "running", "ended", "failed" or "panicked"
  told,      \* the handler has been told to stop: its context is done, its
             \* stream cancelled or dropped
  route,     \* where the response is
  started,   \* a status of 200 is on its way
  hb,        \* the heartbeat: "off", "wait" or "lock"
  mu,        \* who holds the lock of a Go sender between steps, or "free"
  at,        \* of each goroutine: "idle", "lock" or "write"
  what,      \* the event it sends
  frame,     \* sseSender.frame, shared by them
  budget,    \* how many more events the handler may send
  pings,     \* how many pings are on record
  produced,  \* the events written, until something failed
  fin,       \* "open", or what came first: "ok" or "failed"
  choked,    \* what could not be encoded: "nothing", "event" or "error"
  begun,     \* the caller has the status
  name,      \* the name of the frame it reads
  data,      \* its data lines so far
  got,       \* the events it has delivered
  outcome    \* "open", "whole", "failed" or "left"

choice     == <<server, client>>
netVars    == <<conn, wire>>
goVars     == <<mu, at, what, frame>>
reportVars == <<produced, fin, choked>>
serverVars == <<handler, told, route, started, hb, goVars, budget, pings, reportVars>>
clientVars == <<begun, name, data, got, outcome>>
vars == <<choice, netVars, serverVars, clientVars>>

-----------------------------------------------------------------------------
(* Lines.  The status and the end of the response are lines of the wire    *)
(* too: HTTP tells an end from a connection that broke.                    *)

Status(code) == <<"status", code, 0>>
Name(n)      == <<"name", n, 0>>
Data(e, i)   == <<"data", e, i>>
Blank        == <<"blank", "", 0>>
Comment      == <<"comment", "", 0>>
End          == <<"end", "", 0>>

Line ==
  {Status("ok"), Status("error"), Name("error"), Name("variant"), Blank, Comment, End}
    \cup {Data(e, i) : e \in Event, i \in 1..2} \cup {Data("error", 1)}

NameLine(e) ==
  IF e \in Unnamed THEN <<>> ELSE <<Name(IF e \in Reserved THEN "error" ELSE "variant")>>

\* A frame with its data in n lines.
EventFrame(e, n) == NameLine(e) \o [i \in 1..n |-> Data(e, i)] \o <<Blank>>
ErrorFrame == <<Name("error"), Data("error", 1), Blank>>
Ping == <<Comment, Blank>>

\* The lines of e from this server: a json value keeps its line breaks in Go.
Lines(e) == IF server = "Go" /\ e \in Wide THEN 2 ELSE 1

\* Types; and whoever has a frame in the sender's buffer has its lock.
TypeOK ==
  /\ server \in Servers /\ client \in Clients
  /\ conn \in {"open", "cut", "left", "silent", "dying", "dead"} /\ wire \in Seq(Line)
  /\ handler \in {"running", "ended", "failed", "panicked"}
  /\ {told, started, begun} \subseteq BOOLEAN
  /\ route \in {"serve", "stop", "report", "finish", "first", "read", "call", "items", "over"}
  /\ hb \in {"off", "wait", "lock"} /\ mu \in Sender \cup {"free"}
  /\ at \in [Sender -> {"idle", "lock", "write"}]
  /\ \A s \in Sender : mu = s <=> at[s] = "write"
  /\ what \in [Sender -> Event \cup {"none"}]
  /\ frame \in Seq(Line)
  /\ budget \in 0..MaxEvents /\ pings \in 0..MaxPings
  /\ produced \in Seq(Event) /\ fin \in {"open", "ok", "failed"}
  /\ choked \in {"nothing", "event", "error"}
  /\ name \in {"", "error", "variant"} /\ data \in Seq(Line) /\ got \in Seq(Event)
  /\ outcome \in {"open", "whole", "failed", "left"}

Init ==
  /\ \E pair \in Pairs : server = pair[1] /\ client = pair[2]
  /\ conn = "open" /\ wire = <<>>
  /\ handler = "running" /\ told = FALSE /\ started = FALSE
  /\ route = CASE server = "Go" -> "serve" [] server = "TypeScript" -> "first" [] OTHER -> "call"
  /\ hb = IF server = "Go" THEN "wait" ELSE "off"
  /\ mu = "free" /\ at = [s \in Sender |-> "idle"] /\ what = [s \in Sender |-> "none"]
  /\ frame = <<>> /\ budget = MaxEvents /\ pings = 0
  /\ produced = <<>> /\ fin = "open" /\ choked = "nothing"
  /\ begun = FALSE /\ name = "" /\ data = <<>> /\ got = <<>> /\ outcome = "open"

-----------------------------------------------------------------------------
(* The connection: "open"; "cut", which both ends see; "left" by the       *)
(* caller; "silent" since the caller's host has gone, "dying" once         *)
(* something was written to it and "dead" once that has timed out.         *)

ServerSees == conn \in {"cut", "left", "dead"}

Fin(how) == fin' = IF fin = "open" THEN how ELSE fin

\* A write goes out whole, and none does on a connection that is gone.
Writes(lines) ==
  /\ wire' = IF conn = "open" THEN wire \o lines ELSE wire
  /\ conn' = IF conn = "silent" THEN "dying" ELSE conn

\* An event that was written before anything failed.
Produces(e) ==
  produced' = IF fin = "open" /\ ~ServerSees THEN Append(produced, e) ELSE produced

Break ==
  /\ conn' = "cut" /\ \E n \in 0..Len(wire) : wire' = SubSeq(wire, 1, n)

ConnectionBreaks ==
  /\ conn = "open" /\ Break
  /\ UNCHANGED <<choice, serverVars, clientVars>>

CallerVanishes ==
  /\ conn = "open" /\ conn' = "silent" /\ wire' = <<>>
  /\ UNCHANGED <<choice, serverVars, clientVars>>

WriteTimesOut ==
  /\ conn = "dying" /\ conn' = "dead"
  /\ UNCHANGED <<choice, wire, serverVars, clientVars>>

\* Pings on an open connection are bounded by MaxPings.
MayPing == conn \in {"open", "silent"} /\ (conn = "open" => pings < MaxPings)
CountPing == pings' = IF conn = "open" THEN pings + 1 ELSE pings
=============================================================================

------------------------------ MODULE SSE_proofs ------------------------------
(***************************************************************************)
(* The heartbeats of the three servers, the types of the state, and that   *)
(* every pair of a server and a client keeps the promise of EventStream,   *)
(* for any events, goroutines, pings and pairs of the two.                 *)
(*                                                                         *)
(* The last goes by what the lines on the wire will do to the reader who   *)
(* finds them: they take it from where it is to where the server is, past  *)
(* the events it has not delivered and to the end that the handler came to *)
(* (ReadInv).  A server's step extends that way, a reader's shortens it.   *)
(***************************************************************************)
EXTENDS SSE, TLAPS

\* Where a heartbeat can be.  A Go route passes "stop" only when it is gone and
\* nothing starts it again; the other two start it with the stream.
HeartbeatInv ==
  /\ route \in {"first", "call"} => hb = "off"
  /\ server = "Go" /\ route \in {"report", "finish", "over"} /\ handler # "panicked" => hb = "off"
  /\ server # "Go" /\ route = "over" => hb = "off"

\* A Go heartbeat that has seen the end does not tick again (heartbeat).
LEMMA GoHandlerStep ==
  ASSUME HeartbeatInv, server = "Go", GoServer!HandlerStep PROVE HeartbeatInv'
<1> USE DEF HeartbeatInv, GoServer!choice
<1>1. ASSUME NEW s \in Sender, NEW e \in Event, GoServer!Send(s, e) PROVE HeartbeatInv'
  BY <1>1 DEF GoServer!Send
<1>2. CASE GoServer!HandlerReturns
  BY <1>2 DEF GoServer!HandlerReturns
<1>3. CASE GoServer!HandlerPanics
  BY <1>3 DEF GoServer!HandlerPanics
<1> QED
  BY <1>1, <1>2, <1>3 DEF GoServer!HandlerStep

\* The route goes past "stop" with the heartbeat gone (stopHeartbeat).
LEMMA GoRouteStep ==
  ASSUME HeartbeatInv, server = "Go", GoServer!RouteStep PROVE HeartbeatInv'
<1> USE DEF HeartbeatInv, GoServer!choice
<1>1. ASSUME NEW s \in Sender, GoServer!Encode(s) PROVE HeartbeatInv'
  BY <1>1 DEF GoServer!Encode
<1>2. ASSUME NEW s \in Sender, GoServer!SendWrite(s) PROVE HeartbeatInv'
  BY <1>2 DEF GoServer!SendWrite
<1>3. CASE GoServer!Stopped
  BY <1>3 DEF GoServer!Stopped
<1>4. CASE GoServer!ReportStatus
  BY <1>4 DEF GoServer!ReportStatus
<1>5. CASE GoServer!ReportFrame
  BY <1>5 DEF GoServer!ReportFrame
<1>6. CASE GoServer!Finish
  BY <1>6 DEF GoServer!Finish
<1>7. CASE GoServer!ContextDone
  BY <1>7 DEF GoServer!ContextDone
<1> QED
  BY <1>1, <1>2, <1>3, <1>4, <1>5, <1>6, <1>7 DEF GoServer!RouteStep

\* Ticks and pings come from a heartbeat that is running.
LEMMA GoPingStep ==
  ASSUME HeartbeatInv, server = "Go", GoServer!PingStep PROVE HeartbeatInv'
<1> USE DEF HeartbeatInv, GoServer!choice
<1>1. CASE GoServer!Tick
  BY <1>1 DEF GoServer!Tick
<1>2. CASE GoServer!PingWrite
  BY <1>2 DEF GoServer!PingWrite
<1>3. CASE GoServer!HeartbeatEnds
  BY <1>3 DEF GoServer!HeartbeatEnds
<1> QED
  BY <1>1, <1>2, <1>3 DEF GoServer!PingStep

\* Every way out of sseResponse clears the interval, or has not set it.
LEMMA TSStep ==
  ASSUME HeartbeatInv, server = "TypeScript",
         TSServer!HandlerStep \/ TSServer!RouteStep \/ TSServer!PingStep
  PROVE  HeartbeatInv'
<1> USE DEF HeartbeatInv, TSServer!choice
<1>1. ASSUME NEW e \in Event, TSServer!FirstChunk(e) PROVE HeartbeatInv'
  BY <1>1 DEF TSServer!FirstChunk, TSServer!Chunk
<1>2. ASSUME NEW e \in Event, TSServer!ReadChunk(e) PROVE HeartbeatInv'
  BY <1>2 DEF TSServer!ReadChunk, TSServer!Chunk
<1>3. CASE TSServer!FirstDone
  BY <1>3 DEF TSServer!FirstDone
<1>4. CASE TSServer!FirstFails
  BY <1>4 DEF TSServer!FirstFails
<1>5. CASE TSServer!ReadDone
  BY <1>5 DEF TSServer!ReadDone
<1>6. CASE TSServer!ReadFails
  BY <1>6 DEF TSServer!ReadFails
<1>7. CASE TSServer!FirstLate
  BY <1>7 DEF TSServer!FirstLate
<1>8. CASE TSServer!Report
  BY <1>8 DEF TSServer!Report
<1>9. CASE TSServer!Cancel
  BY <1>9 DEF TSServer!Cancel
<1>10. CASE TSServer!SendPing
  BY <1>10 DEF TSServer!SendPing
<1> QED
  BY <1>1, <1>2, <1>3, <1>4, <1>5, <1>6, <1>7, <1>8, <1>9, <1>10
     DEF TSServer!HandlerStep, TSServer!RouteStep, TSServer!PingStep

\* axum's keep-alive lives as long as the response.
LEMMA RustStep ==
  ASSUME HeartbeatInv, server = "Rust",
         RustServer!HandlerStep \/ RustServer!RouteStep \/ RustServer!PingStep
  PROVE  HeartbeatInv'
<1> USE DEF HeartbeatInv, RustServer!choice
<1>1. CASE RustServer!CallOk
  BY <1>1 DEF RustServer!CallOk
<1>2. CASE RustServer!CallFails
  BY <1>2 DEF RustServer!CallFails
<1>3. ASSUME NEW e \in Event, RustServer!Item(e) PROVE HeartbeatInv'
  BY <1>3 DEF RustServer!Item
<1>4. CASE RustServer!FailedItem
  BY <1>4 DEF RustServer!FailedItem
<1>5. CASE RustServer!StreamEnds
  BY <1>5 DEF RustServer!StreamEnds
<1>6. CASE RustServer!Dropped
  BY <1>6 DEF RustServer!Dropped
<1>7. CASE RustServer!SendPing
  BY <1>7 DEF RustServer!SendPing
<1> QED
  BY <1>1, <1>2, <1>3, <1>4, <1>5, <1>6, <1>7
     DEF RustServer!HandlerStep, RustServer!RouteStep, RustServer!PingStep

\* A client and the network have no hand in the server's variables.
LEMMA FarStep ==
  ASSUME ReadStep \/ CallerStep \/ ConnectionBreaks \/ CallerVanishes \/ WriteTimesOut
  PROVE  UNCHANGED <<choice, serverVars>>
<1>1. CASE ReadStatus
  BY <1>1 DEF ReadStatus
<1>2. CASE ReadBreaks
  BY <1>2 DEF ReadBreaks
<1>3. CASE ReadField
  BY <1>3 DEF ReadField
<1>4. CASE GoBlank
  BY <1>4 DEF GoBlank
<1>5. CASE TSBlank \/ PyBlank \/ DartBlank \/ SwiftBlank
  BY <1>5 DEF TSBlank, PyBlank, DartBlank, SwiftBlank, AtBlank
<1>6. CASE ReadEnd
  BY <1>6 DEF ReadEnd
<1>7. CASE RustGathers \/ RustTooLong \/ RustFrame
  BY <1>7 DEF RustGathers, RustTooLong, RustFrame
<1>8. CASE Leave \/ GoClose \/ RustDrops
  BY <1>8 DEF Leave, GoClose, RustDrops
<1>9. CASE ConnectionBreaks \/ CallerVanishes \/ WriteTimesOut
  BY <1>9 DEF ConnectionBreaks, CallerVanishes, WriteTimesOut
<1> QED
  BY <1>1, <1>2, <1>3, <1>4, <1>5, <1>6, <1>7, <1>8, <1>9 DEF ReadStep, CallerStep

\* A heartbeat is where HeartbeatInv has it, whatever runs when.
LEMMA HeartbeatInvariant == Spec => []HeartbeatInv
<1>1. Init => HeartbeatInv
  BY DEF Init, HeartbeatInv
<1>2. HeartbeatInv /\ [Next]_vars => HeartbeatInv'
  <2> SUFFICES ASSUME HeartbeatInv, [Next]_vars PROVE HeartbeatInv'
    OBVIOUS
  <2>1. CASE HandlerStep
    BY <2>1, GoHandlerStep, TSStep, RustStep DEF HandlerStep
  <2>2. CASE RouteStep
    BY <2>2, GoRouteStep, TSStep, RustStep DEF RouteStep
  <2>3. CASE PingStep
    BY <2>3, GoPingStep, TSStep, RustStep DEF PingStep
  <2>4. CASE ReadStep \/ CallerStep \/ ConnectionBreaks \/ CallerVanishes \/ WriteTimesOut
    <3>1. UNCHANGED <<choice, serverVars>>
      BY <2>4, FarStep
    <3> QED
      BY <3>1 DEF HeartbeatInv, choice, serverVars
  <2>5. CASE UNCHANGED vars
    BY <2>5 DEF HeartbeatInv, vars, choice, serverVars
  <2> QED
    BY <2>1, <2>2, <2>3, <2>4, <2>5 DEF Next
<1> QED
  BY <1>1, <1>2, PTL DEF Spec

\* No heartbeat writes a response that is over: it is gone when the route is,
\* in each of the three servers (stopHeartbeat, clearInterval, axum's Sse).
THEOREM PingsEndWithRouteAlways == Spec => []PingsEndWithRoute
<1>1. HeartbeatInv => PingsEndWithRoute
  BY DEF HeartbeatInv, PingsEndWithRoute
<1> QED
  BY HeartbeatInvariant, <1>1, PTL

-----------------------------------------------------------------------------
(* Types.  A sender's lock and its buffer go together, a goroutine that    *)
(* sends has an event, and a Go heartbeat that is about to ping may.       *)

Conns == {"open", "cut", "left", "silent", "dying", "dead"}

NetTyped == conn \in Conns /\ wire \in Seq(Line)

ClientTyped ==
  /\ server \in Servers /\ client \in Clients /\ begun \in BOOLEAN
  /\ name \in {"", "error", "variant"} /\ data \in Seq(Line) /\ got \in Seq(Event)
  /\ outcome \in {"open", "whole", "failed", "left"}

GoTyped ==
  /\ mu \in Sender \cup {"free"} /\ at \in [Sender -> {"idle", "lock", "write"}]
  /\ \A s \in Sender : mu = s <=> at[s] = "write"
  /\ what \in [Sender -> Event \cup {"none"}]
  /\ \A s \in Sender : at[s] # "idle" => what[s] \in Event
  /\ frame \in Seq(Line)

RouteTyped ==
  /\ handler \in {"running", "ended", "failed", "panicked"}
  /\ told \in BOOLEAN /\ started \in BOOLEAN
  /\ route \in {"serve", "stop", "report", "finish", "first", "read", "call", "items", "over"}
  /\ budget \in 0..MaxEvents /\ produced \in Seq(Event)
  /\ fin \in {"open", "ok", "failed"} /\ choked \in {"nothing", "event", "error"}

PingTyped ==
  /\ hb \in {"off", "wait", "lock"} /\ pings \in 0..MaxPings
  /\ hb = "lock" => server = "Go" /\ (conn = "open" => pings < MaxPings)

ServerTyped == GoTyped /\ RouteTyped /\ PingTyped

TypeInv == NetTyped /\ ClientTyped /\ ServerTyped

\* What can be written are lines.
LEMMA FramesAreLines ==
  /\ Ping \in Seq(Line) /\ ErrorFrame \in Seq(Line)
  /\ <<End>> \in Seq(Line) /\ <<Status("error"), End>> \in Seq(Line)
  /\ <<Status("ok")>> \in Seq(Line) /\ <<Status("ok"), End>> \in Seq(Line)
  /\ \A e \in Event, n \in 1..2 : EventFrame(e, n) \in Seq(Line)
<1>1. /\ {Status("ok"), Status("error"), Name("error"), Name("variant"), Blank, Comment, End}
           \subseteq Line
      /\ Data("error", 1) \in Line
      /\ \A e \in Event, k \in 1..2 : Data(e, k) \in Line
  BY DEF Line
<1>2. ASSUME NEW e \in Event, NEW n \in 1..2 PROVE EventFrame(e, n) \in Seq(Line)
  <2> DEFINE lines == [k \in 1..n |-> Data(e, k)]
  <2>1. NameLine(e) \in Seq(Line)
    BY <1>1 DEF NameLine
  <2>2. lines \in Seq(Line)
    <3>1. n \in Nat /\ \A k \in 1..n : k \in 1..2
      OBVIOUS
    <3>2. \A k \in 1..n : Data(e, k) \in Line
      BY <1>1, <3>1
    <3> HIDE DEF Line
    <3> QED
      BY <3>1, <3>2
  <2>3. <<Blank>> \in Seq(Line)
    BY <1>1
  <2> HIDE DEF lines
  <2>4. (NameLine(e) \o lines) \o <<Blank>> \in Seq(Line)
    BY <2>1, <2>2, <2>3
  <2> QED
    BY <2>4 DEF EventFrame, lines
<1>3. Ping \in Seq(Line) /\ ErrorFrame \in Seq(Line)
  BY <1>1 DEF Ping, ErrorFrame
<1> QED
  BY <1>1, <1>2, <1>3

\* A write leaves lines on the wire, and opens no connection.
LEMMA WritesTyped ==
  ASSUME NetTyped, NEW lines \in Seq(Line), Writes(lines)
  PROVE  NetTyped' /\ (conn' = "open" => conn = "open")
<1>1. wire \o lines \in Seq(Line)
  BY DEF NetTyped
<1> QED
  BY <1>1 DEF NetTyped, Writes, Conns

\* So does a connection that breaks.
LEMMA BreakTyped ==
  ASSUME NetTyped, Break PROVE NetTyped' /\ conn' # "open"
<1>1. PICK n \in 0..Len(wire) : wire' = SubSeq(wire, 1, n)
  BY DEF Break
<1>2. SubSeq(wire, 1, n) \in Seq(Line)
  BY DEF NetTyped
<1> QED
  BY <1>1, <1>2 DEF NetTyped, Break, Conns

\* A Go route, its heartbeat and its handler's goroutines keep the types.
LEMMA GoTypes ==
  ASSUME TypeInv, server = "Go", GoServer!HandlerStep \/ GoServer!RouteStep \/ GoServer!PingStep
  PROVE  ServerTyped' /\ NetTyped'
<1> USE StreamAssumption
    DEF StreamAssumption, TypeInv, ServerTyped, GoServer!choice, GoServer!clientVars,
        GoServer!netVars, GoServer!goVars, GoServer!reportVars
<1>w. \A lines \in Seq(Line) : GoServer!Writes(lines) => NetTyped' /\ (conn' = "open" => conn = "open")
  BY WritesTyped DEF GoServer!Writes, Writes
<1>f. /\ GoServer!Ping = Ping /\ GoServer!ErrorFrame = ErrorFrame
      /\ GoServer!Status("ok") = Status("ok") /\ GoServer!Status("error") = Status("error")
      /\ GoServer!End = End
      /\ \A e, n : GoServer!EventFrame(e, n) = EventFrame(e, n)
  BY DEF GoServer!Ping, Ping, GoServer!ErrorFrame, ErrorFrame, GoServer!EventFrame, EventFrame,
         GoServer!NameLine, NameLine,
         GoServer!Name, Name, GoServer!Data, Data, GoServer!Blank, Blank, GoServer!Comment,
         Comment, GoServer!Status, Status, GoServer!End, End
<1>s. \A lines \in Seq(Line) : GoServer!Started(lines) \in Seq(Line)
  <2> SUFFICES ASSUME NEW lines \in Seq(Line) PROVE GoServer!Started(lines) \in Seq(Line)
    OBVIOUS
  <2>1. <<Status("ok")>> \o lines \in Seq(Line)
    BY FramesAreLines
  <2> QED
    BY <2>1, <1>f DEF GoServer!Started
<1>b. GoServer!Break => NetTyped' /\ conn' # "open"
  BY BreakTyped DEF GoServer!Break, Break
<1>n. \A e : GoServer!Lines(e) \in 1..2
  BY DEF GoServer!Lines
<1>1. ASSUME NEW s \in Sender, NEW e \in Event, GoServer!Send(s, e)
     PROVE  ServerTyped' /\ NetTyped'
  <2>1. NetTyped' /\ (conn' = "open" => conn = "open")
    BY <1>1 DEF GoServer!Send, NetTyped
  <2>2. GoTyped'
    BY <1>1 DEF GoServer!Send, GoTyped
  <2>3. RouteTyped'
    BY <1>1 DEF GoServer!Send, RouteTyped
  <2>4. PingTyped'
    BY <1>1, <2>1 DEF GoServer!Send, PingTyped
  <2> QED
    BY <2>1, <2>2, <2>3, <2>4
<1>2. CASE GoServer!HandlerReturns
  <2>1. NetTyped' /\ (conn' = "open" => conn = "open")
    BY <1>2 DEF GoServer!HandlerReturns, GoServer!Fin, NetTyped
  <2>2. GoTyped'
    BY <1>2 DEF GoServer!HandlerReturns, GoServer!Fin, GoTyped
  <2>3. RouteTyped'
    BY <1>2 DEF GoServer!HandlerReturns, GoServer!Fin, RouteTyped
  <2>4. PingTyped'
    BY <1>2, <2>1 DEF GoServer!HandlerReturns, GoServer!Fin, PingTyped
  <2> QED
    BY <2>1, <2>2, <2>3, <2>4
<1>3. CASE GoServer!HandlerPanics
  <2>1. NetTyped' /\ (conn' = "open" => conn = "open")
    BY <1>3, <1>b DEF GoServer!HandlerPanics, GoServer!Fin, NetTyped
  <2>2. GoTyped'
    BY <1>3 DEF GoServer!HandlerPanics, GoServer!Fin, GoTyped
  <2>3. RouteTyped'
    BY <1>3 DEF GoServer!HandlerPanics, GoServer!Fin, RouteTyped
  <2>4. PingTyped'
    BY <1>3, <2>1 DEF GoServer!HandlerPanics, GoServer!Fin, PingTyped
  <2> QED
    BY <2>1, <2>2, <2>3, <2>4
<1>4. ASSUME NEW s \in Sender, GoServer!Encode(s) PROVE ServerTyped' /\ NetTyped'
  <2>0. GoServer!EventFrame(what[s], GoServer!Lines(what[s])) \in Seq(Line)
    <3>1. what[s] \in Event
      BY <1>4 DEF GoServer!Encode, GoTyped
    <3> QED
      BY <1>f, <1>n, <3>1, FramesAreLines
  <2>1. NetTyped' /\ (conn' = "open" => conn = "open")
    BY <1>4 DEF GoServer!Encode, NetTyped
  <2>2. GoTyped'
    <3> DEFINE lines == GoServer!EventFrame(what[s], GoServer!Lines(what[s]))
    <3> USE <2>0
    <3> HIDE DEF Line
    <3>1. CASE what[s] \in Unencodable
      <4>1. <<>> \in Seq(Line)
        OBVIOUS
      <4> QED
        BY <1>4, <3>1, <4>1 DEF GoServer!Encode, GoTyped
    <3>2. CASE what[s] \notin Unencodable
      <4>1. lines \in Seq(Line)
        BY <2>0
      <4>2. frame' = lines /\ mu' = s /\ what' = what /\ at' = [at EXCEPT ![s] = "write"]
            /\ mu = "free" /\ at[s] = "lock"
        BY <1>4, <3>2 DEF GoServer!Encode
      <4> HIDE DEF lines
      <4> QED
        BY <1>4, <4>1, <4>2 DEF GoTyped
    <3> QED
      BY <3>1, <3>2
  <2>3. RouteTyped'
    BY <1>4 DEF GoServer!Encode, RouteTyped
  <2>4. PingTyped'
    BY <1>4, <2>1 DEF GoServer!Encode, PingTyped
  <2> QED
    BY <2>1, <2>2, <2>3, <2>4
<1>5. ASSUME NEW s \in Sender, GoServer!SendWrite(s) PROVE ServerTyped' /\ NetTyped'
  <2>1. NetTyped' /\ (conn' = "open" => conn = "open")
    BY <1>5, <1>w, <1>s DEF GoServer!SendWrite, GoServer!Produces, GoTyped, NetTyped
  <2>2. GoTyped'
    BY <1>5 DEF GoServer!SendWrite, GoServer!Produces, GoTyped
  <2>3. RouteTyped'
    BY <1>5 DEF GoServer!SendWrite, GoServer!Produces, RouteTyped, GoTyped
  <2>4. PingTyped'
    BY <1>5, <2>1 DEF GoServer!SendWrite, GoServer!Produces, PingTyped
  <2> QED
    BY <2>1, <2>2, <2>3, <2>4
<1>6. CASE GoServer!Stopped
  <2>1. NetTyped' /\ (conn' = "open" => conn = "open")
    BY <1>6 DEF GoServer!Stopped, NetTyped
  <2>2. GoTyped'
    BY <1>6 DEF GoServer!Stopped, GoTyped
  <2>3. RouteTyped'
    BY <1>6 DEF GoServer!Stopped, RouteTyped
  <2>4. PingTyped'
    BY <1>6, <2>1 DEF GoServer!Stopped, PingTyped
  <2> QED
    BY <2>1, <2>2, <2>3, <2>4
<1>7. CASE GoServer!ReportStatus
  <2>1. NetTyped' /\ (conn' = "open" => conn = "open")
    BY <1>7, <1>w, <1>f, FramesAreLines DEF GoServer!ReportStatus, NetTyped
  <2>2. GoTyped'
    BY <1>7 DEF GoServer!ReportStatus, GoTyped
  <2>3. RouteTyped'
    BY <1>7 DEF GoServer!ReportStatus, RouteTyped
  <2>4. PingTyped'
    BY <1>7, <2>1 DEF GoServer!ReportStatus, PingTyped
  <2> QED
    BY <2>1, <2>2, <2>3, <2>4
<1>8. CASE GoServer!ReportFrame
  <2>1. NetTyped' /\ (conn' = "open" => conn = "open")
    BY <1>8, <1>w, <1>f, FramesAreLines DEF GoServer!ReportFrame, NetTyped
  <2>2. GoTyped'
    BY <1>8 DEF GoServer!ReportFrame, GoTyped
  <2>3. RouteTyped'
    BY <1>8 DEF GoServer!ReportFrame, RouteTyped
  <2>4. PingTyped'
    BY <1>8, <2>1 DEF GoServer!ReportFrame, PingTyped
  <2> QED
    BY <2>1, <2>2, <2>3, <2>4
<1>9. CASE GoServer!Finish
  <2>1. NetTyped' /\ (conn' = "open" => conn = "open")
    BY <1>9, <1>w, <1>s, <1>f, FramesAreLines DEF GoServer!Finish, NetTyped
  <2>2. GoTyped'
    BY <1>9 DEF GoServer!Finish, GoTyped
  <2>3. RouteTyped'
    BY <1>9 DEF GoServer!Finish, RouteTyped
  <2>4. PingTyped'
    BY <1>9, <2>1 DEF GoServer!Finish, PingTyped
  <2> QED
    BY <2>1, <2>2, <2>3, <2>4
<1>10. CASE GoServer!ContextDone
  <2>1. NetTyped' /\ (conn' = "open" => conn = "open")
    BY <1>10 DEF GoServer!ContextDone, NetTyped
  <2>2. GoTyped'
    BY <1>10 DEF GoServer!ContextDone, GoTyped
  <2>3. RouteTyped'
    BY <1>10 DEF GoServer!ContextDone, RouteTyped
  <2>4. PingTyped'
    BY <1>10, <2>1 DEF GoServer!ContextDone, PingTyped
  <2> QED
    BY <2>1, <2>2, <2>3, <2>4
<1>11. CASE GoServer!Tick
  <2>1. NetTyped' /\ (conn' = "open" => conn = "open")
    BY <1>11 DEF GoServer!Tick, GoServer!MayPing, NetTyped
  <2>2. GoTyped'
    BY <1>11 DEF GoServer!Tick, GoServer!MayPing, GoTyped
  <2>3. RouteTyped'
    BY <1>11 DEF GoServer!Tick, GoServer!MayPing, RouteTyped
  <2>4. PingTyped'
    BY <1>11, <2>1 DEF GoServer!Tick, GoServer!MayPing, PingTyped
  <2> QED
    BY <2>1, <2>2, <2>3, <2>4
<1>12. CASE GoServer!PingWrite
  <2>1. NetTyped' /\ (conn' = "open" => conn = "open")
    BY <1>12, <1>w, <1>s, <1>f, FramesAreLines
       DEF GoServer!PingWrite, GoServer!CountPing, NetTyped
  <2>2. GoTyped'
    BY <1>12 DEF GoServer!PingWrite, GoServer!CountPing, GoTyped
  <2>3. RouteTyped'
    BY <1>12 DEF GoServer!PingWrite, GoServer!CountPing, RouteTyped
  <2>4. PingTyped'
    BY <1>12, <2>1 DEF GoServer!PingWrite, GoServer!CountPing, PingTyped
  <2> QED
    BY <2>1, <2>2, <2>3, <2>4
<1>13. CASE GoServer!HeartbeatEnds
  <2>1. NetTyped' /\ (conn' = "open" => conn = "open")
    BY <1>13 DEF GoServer!HeartbeatEnds, NetTyped
  <2>2. GoTyped'
    BY <1>13 DEF GoServer!HeartbeatEnds, GoTyped
  <2>3. RouteTyped'
    BY <1>13 DEF GoServer!HeartbeatEnds, RouteTyped
  <2>4. PingTyped'
    BY <1>13, <2>1 DEF GoServer!HeartbeatEnds, PingTyped
  <2> QED
    BY <2>1, <2>2, <2>3, <2>4
<1> QED
  BY <1>1, <1>2, <1>3, <1>4, <1>5, <1>6, <1>7, <1>8, <1>9, <1>10, <1>11, <1>12, <1>13
     DEF GoServer!HandlerStep, GoServer!RouteStep, GoServer!PingStep

\* So does sseResponse.
LEMMA TSTypes ==
  ASSUME TypeInv, server = "TypeScript",
         TSServer!HandlerStep \/ TSServer!RouteStep \/ TSServer!PingStep
  PROVE  ServerTyped' /\ NetTyped'
<1> USE StreamAssumption
    DEF StreamAssumption, TypeInv, ServerTyped, TSServer!choice, TSServer!clientVars,
        TSServer!netVars, TSServer!goVars, TSServer!reportVars
<1>w. \A lines \in Seq(Line) : TSServer!Writes(lines) => NetTyped' /\ (conn' = "open" => conn = "open")
  BY WritesTyped DEF TSServer!Writes, Writes
<1>f. /\ TSServer!Ping = Ping /\ TSServer!ErrorFrame = ErrorFrame
      /\ TSServer!Status("ok") = Status("ok") /\ TSServer!Status("error") = Status("error")
      /\ TSServer!End = End
      /\ \A e, n : TSServer!EventFrame(e, n) = EventFrame(e, n)
  BY DEF TSServer!Ping, Ping, TSServer!ErrorFrame, ErrorFrame, TSServer!EventFrame, EventFrame,
         TSServer!NameLine, NameLine,
         TSServer!Name, Name, TSServer!Data, Data, TSServer!Blank, Blank, TSServer!Comment,
         Comment, TSServer!Status, Status, TSServer!End, End
<1>c. \A a, b : a \in Seq(Line) /\ b \in Seq(Line) => a \o b \in Seq(Line)
  OBVIOUS
<1>1. ASSUME NEW e \in Event, TSServer!FirstChunk(e) PROVE ServerTyped' /\ NetTyped'
  <2>0. <<Status("ok")>> \o EventFrame(e, 1) \in Seq(Line)
    BY <1>c, FramesAreLines
  <2>1. NetTyped' /\ (conn' = "open" => conn = "open")
    BY <1>1, <1>w, <1>f, <2>0, FramesAreLines
       DEF TSServer!FirstChunk, TSServer!Chunk, TSServer!Produces, TSServer!Fin, NetTyped
  <2>2. GoTyped'
    BY <1>1 DEF TSServer!FirstChunk, TSServer!Chunk, TSServer!Produces, TSServer!Fin, GoTyped
  <2>3. RouteTyped'
    <3>1. budget > 0 /\ budget' = budget - 1 /\ budget' \in 0..MaxEvents
      BY <1>1 DEF TSServer!FirstChunk, TSServer!Chunk, RouteTyped
    <3>2. produced' \in Seq(Event)
      BY <1>1 DEF TSServer!FirstChunk, TSServer!Chunk, TSServer!Produces, RouteTyped
    <3>3. fin' \in {"open", "ok", "failed"} /\ choked' \in {"nothing", "event", "error"}
      BY <1>1 DEF TSServer!FirstChunk, TSServer!Chunk, TSServer!Fin, RouteTyped
    <3>4. /\ handler' = handler /\ told' = told /\ started' = TRUE
          /\ route' \in {"report", "read"}
      BY <1>1 DEF TSServer!FirstChunk, TSServer!Chunk
    <3> QED
      BY <3>1, <3>2, <3>3, <3>4 DEF RouteTyped
  <2>4. PingTyped'
    BY <1>1, <2>1 DEF TSServer!FirstChunk, TSServer!Chunk, TSServer!Produces, TSServer!Fin,
       PingTyped
  <2> QED
    BY <2>1, <2>2, <2>3, <2>4
<1>2. ASSUME NEW e \in Event, TSServer!ReadChunk(e) PROVE ServerTyped' /\ NetTyped'
  <2>0. <<>> \o EventFrame(e, 1) \in Seq(Line) /\ <<>> \in Seq(Line)
    BY <1>c, FramesAreLines
  <2>1. NetTyped' /\ (conn' = "open" => conn = "open")
    BY <1>2, <1>w, <1>f, <2>0 DEF TSServer!ReadChunk, TSServer!Chunk, TSServer!Produces,
       TSServer!Fin, NetTyped
  <2>2. GoTyped'
    BY <1>2 DEF TSServer!ReadChunk, TSServer!Chunk, TSServer!Produces, TSServer!Fin, GoTyped
  <2>3. RouteTyped'
    BY <1>2 DEF TSServer!ReadChunk, TSServer!Chunk, TSServer!Produces, TSServer!Fin, RouteTyped
  <2>4. PingTyped'
    BY <1>2, <2>1 DEF TSServer!ReadChunk, TSServer!Chunk, TSServer!Produces, TSServer!Fin,
       PingTyped
  <2> QED
    BY <2>1, <2>2, <2>3, <2>4
<1>3. CASE TSServer!FirstDone
  <2>1. NetTyped' /\ (conn' = "open" => conn = "open")
    BY <1>3, <1>w, <1>f, FramesAreLines DEF TSServer!FirstDone, TSServer!Fin, NetTyped
  <2>2. GoTyped'
    BY <1>3 DEF TSServer!FirstDone, TSServer!Fin, GoTyped
  <2>3. RouteTyped'
    BY <1>3 DEF TSServer!FirstDone, TSServer!Fin, RouteTyped
  <2>4. PingTyped'
    BY <1>3, <2>1 DEF TSServer!FirstDone, TSServer!Fin, PingTyped
  <2> QED
    BY <2>1, <2>2, <2>3, <2>4
<1>4. CASE TSServer!FirstFails
  <2>1. NetTyped' /\ (conn' = "open" => conn = "open")
    BY <1>4, <1>w, <1>f, FramesAreLines DEF TSServer!FirstFails, TSServer!Fin, NetTyped
  <2>2. GoTyped'
    BY <1>4 DEF TSServer!FirstFails, TSServer!Fin, GoTyped
  <2>3. RouteTyped'
    BY <1>4 DEF TSServer!FirstFails, TSServer!Fin, RouteTyped
  <2>4. PingTyped'
    BY <1>4, <2>1 DEF TSServer!FirstFails, TSServer!Fin, PingTyped
  <2> QED
    BY <2>1, <2>2, <2>3, <2>4
<1>5. CASE TSServer!ReadDone
  <2>1. NetTyped' /\ (conn' = "open" => conn = "open")
    BY <1>5, <1>w, <1>f, FramesAreLines DEF TSServer!ReadDone, TSServer!Fin, NetTyped
  <2>2. GoTyped'
    BY <1>5 DEF TSServer!ReadDone, TSServer!Fin, GoTyped
  <2>3. RouteTyped'
    BY <1>5 DEF TSServer!ReadDone, TSServer!Fin, RouteTyped
  <2>4. PingTyped'
    BY <1>5, <2>1 DEF TSServer!ReadDone, TSServer!Fin, PingTyped
  <2> QED
    BY <2>1, <2>2, <2>3, <2>4
<1>6. CASE TSServer!ReadFails
  <2>1. NetTyped' /\ (conn' = "open" => conn = "open")
    BY <1>6 DEF TSServer!ReadFails, TSServer!Fin, NetTyped
  <2>2. GoTyped'
    BY <1>6 DEF TSServer!ReadFails, TSServer!Fin, GoTyped
  <2>3. RouteTyped'
    BY <1>6 DEF TSServer!ReadFails, TSServer!Fin, RouteTyped
  <2>4. PingTyped'
    BY <1>6, <2>1 DEF TSServer!ReadFails, TSServer!Fin, PingTyped
  <2> QED
    BY <2>1, <2>2, <2>3, <2>4
<1>7. CASE TSServer!FirstLate
  <2>1. NetTyped' /\ (conn' = "open" => conn = "open")
    BY <1>7, <1>w, <1>f, FramesAreLines, <1>c DEF TSServer!FirstLate, NetTyped
  <2>2. GoTyped'
    BY <1>7 DEF TSServer!FirstLate, GoTyped
  <2>3. RouteTyped'
    BY <1>7 DEF TSServer!FirstLate, RouteTyped
  <2>4. PingTyped'
    BY <1>7, <2>1 DEF TSServer!FirstLate, PingTyped
  <2> QED
    BY <2>1, <2>2, <2>3, <2>4
<1>8. CASE TSServer!Report
  <2>1. NetTyped' /\ (conn' = "open" => conn = "open")
    BY <1>8, <1>w, <1>f, FramesAreLines, <1>c DEF TSServer!Report, NetTyped
  <2>2. GoTyped'
    BY <1>8 DEF TSServer!Report, GoTyped
  <2>3. RouteTyped'
    BY <1>8 DEF TSServer!Report, RouteTyped
  <2>4. PingTyped'
    BY <1>8, <2>1 DEF TSServer!Report, PingTyped
  <2> QED
    BY <2>1, <2>2, <2>3, <2>4
<1>9. CASE TSServer!Cancel
  <2>1. NetTyped' /\ (conn' = "open" => conn = "open")
    BY <1>9 DEF TSServer!Cancel, NetTyped
  <2>2. GoTyped'
    BY <1>9 DEF TSServer!Cancel, GoTyped
  <2>3. RouteTyped'
    BY <1>9 DEF TSServer!Cancel, RouteTyped
  <2>4. PingTyped'
    BY <1>9, <2>1 DEF TSServer!Cancel, PingTyped
  <2> QED
    BY <2>1, <2>2, <2>3, <2>4
<1>10. CASE TSServer!SendPing
  <2>1. NetTyped' /\ (conn' = "open" => conn = "open")
    BY <1>10, <1>w, <1>f, FramesAreLines
       DEF TSServer!SendPing, TSServer!MayPing, TSServer!CountPing, NetTyped
  <2>2. GoTyped'
    BY <1>10 DEF TSServer!SendPing, TSServer!MayPing, TSServer!CountPing, GoTyped
  <2>3. RouteTyped'
    BY <1>10 DEF TSServer!SendPing, TSServer!MayPing, TSServer!CountPing, RouteTyped
  <2>4. PingTyped'
    BY <1>10, <2>1 DEF TSServer!SendPing, TSServer!MayPing, TSServer!CountPing, PingTyped
  <2> QED
    BY <2>1, <2>2, <2>3, <2>4
<1> QED
  BY <1>1, <1>2, <1>3, <1>4, <1>5, <1>6, <1>7, <1>8, <1>9, <1>10
     DEF TSServer!HandlerStep, TSServer!RouteStep, TSServer!PingStep

\* So does the Rust route.
LEMMA RustTypes ==
  ASSUME TypeInv, server = "Rust",
         RustServer!HandlerStep \/ RustServer!RouteStep \/ RustServer!PingStep
  PROVE  ServerTyped' /\ NetTyped'
<1> USE StreamAssumption
    DEF StreamAssumption, TypeInv, ServerTyped, RustServer!choice, RustServer!clientVars,
        RustServer!netVars, RustServer!goVars, RustServer!reportVars
<1>w. \A lines \in Seq(Line) : RustServer!Writes(lines) => NetTyped' /\ (conn' = "open" => conn = "open")
  BY WritesTyped DEF RustServer!Writes, Writes
<1>f. /\ RustServer!Ping = Ping /\ RustServer!ErrorFrame = ErrorFrame
      /\ RustServer!Status("ok") = Status("ok")
      /\ RustServer!Status("error") = Status("error") /\ RustServer!End = End
      /\ \A e, n : RustServer!EventFrame(e, n) = EventFrame(e, n)
  BY DEF RustServer!Ping, Ping, RustServer!ErrorFrame, ErrorFrame, RustServer!EventFrame,
         EventFrame, RustServer!NameLine, NameLine,
         RustServer!Name, Name, RustServer!Data, Data, RustServer!Blank, Blank,
         RustServer!Comment, Comment, RustServer!Status, Status, RustServer!End, End
<1>1. CASE RustServer!CallOk
  <2>1. NetTyped' /\ (conn' = "open" => conn = "open")
    BY <1>1, <1>w, <1>f, FramesAreLines DEF RustServer!CallOk, NetTyped
  <2>2. GoTyped'
    BY <1>1 DEF RustServer!CallOk, GoTyped
  <2>3. RouteTyped'
    BY <1>1 DEF RustServer!CallOk, RouteTyped
  <2>4. PingTyped'
    BY <1>1, <2>1 DEF RustServer!CallOk, PingTyped
  <2> QED
    BY <2>1, <2>2, <2>3, <2>4
<1>2. CASE RustServer!CallFails
  <2>1. NetTyped' /\ (conn' = "open" => conn = "open")
    BY <1>2, <1>w, <1>f, FramesAreLines DEF RustServer!CallFails, RustServer!Fin, NetTyped
  <2>2. GoTyped'
    BY <1>2 DEF RustServer!CallFails, RustServer!Fin, GoTyped
  <2>3. RouteTyped'
    BY <1>2 DEF RustServer!CallFails, RustServer!Fin, RouteTyped
  <2>4. PingTyped'
    BY <1>2, <2>1 DEF RustServer!CallFails, RustServer!Fin, PingTyped
  <2> QED
    BY <2>1, <2>2, <2>3, <2>4
<1>3. ASSUME NEW e \in Event, RustServer!Item(e) PROVE ServerTyped' /\ NetTyped'
  <2>1. NetTyped' /\ (conn' = "open" => conn = "open")
    BY <1>3, <1>w, <1>f, FramesAreLines
       DEF RustServer!Item, RustServer!Produces, RustServer!Fin, NetTyped
  <2>2. GoTyped'
    BY <1>3 DEF RustServer!Item, RustServer!Produces, RustServer!Fin, GoTyped
  <2>3. RouteTyped'
    BY <1>3 DEF RustServer!Item, RustServer!Produces, RustServer!Fin, RouteTyped
  <2>4. PingTyped'
    BY <1>3, <2>1 DEF RustServer!Item, RustServer!Produces, RustServer!Fin, PingTyped
  <2> QED
    BY <2>1, <2>2, <2>3, <2>4
<1>4. CASE RustServer!FailedItem
  <2>1. NetTyped' /\ (conn' = "open" => conn = "open")
    BY <1>4, <1>w, <1>f, FramesAreLines DEF RustServer!FailedItem, RustServer!Fin, NetTyped
  <2>2. GoTyped'
    BY <1>4 DEF RustServer!FailedItem, RustServer!Fin, GoTyped
  <2>3. RouteTyped'
    BY <1>4 DEF RustServer!FailedItem, RustServer!Fin, RouteTyped
  <2>4. PingTyped'
    BY <1>4, <2>1 DEF RustServer!FailedItem, RustServer!Fin, PingTyped
  <2> QED
    BY <2>1, <2>2, <2>3, <2>4
<1>5. CASE RustServer!StreamEnds
  <2>1. NetTyped' /\ (conn' = "open" => conn = "open")
    BY <1>5, <1>w, <1>f, FramesAreLines DEF RustServer!StreamEnds, RustServer!Fin, NetTyped
  <2>2. GoTyped'
    BY <1>5 DEF RustServer!StreamEnds, RustServer!Fin, GoTyped
  <2>3. RouteTyped'
    BY <1>5 DEF RustServer!StreamEnds, RustServer!Fin, RouteTyped
  <2>4. PingTyped'
    BY <1>5, <2>1 DEF RustServer!StreamEnds, RustServer!Fin, PingTyped
  <2> QED
    BY <2>1, <2>2, <2>3, <2>4
<1>6. CASE RustServer!Dropped
  <2>1. NetTyped' /\ (conn' = "open" => conn = "open")
    BY <1>6 DEF RustServer!Dropped, NetTyped
  <2>2. GoTyped'
    BY <1>6 DEF RustServer!Dropped, GoTyped
  <2>3. RouteTyped'
    BY <1>6 DEF RustServer!Dropped, RouteTyped
  <2>4. PingTyped'
    BY <1>6, <2>1 DEF RustServer!Dropped, PingTyped
  <2> QED
    BY <2>1, <2>2, <2>3, <2>4
<1>7. CASE RustServer!SendPing
  <2>1. NetTyped' /\ (conn' = "open" => conn = "open")
    BY <1>7, <1>w, <1>f, FramesAreLines
       DEF RustServer!SendPing, RustServer!MayPing, RustServer!CountPing, NetTyped
  <2>2. GoTyped'
    BY <1>7 DEF RustServer!SendPing, RustServer!MayPing, RustServer!CountPing, GoTyped
  <2>3. RouteTyped'
    BY <1>7 DEF RustServer!SendPing, RustServer!MayPing, RustServer!CountPing, RouteTyped
  <2>4. PingTyped'
    BY <1>7, <2>1 DEF RustServer!SendPing, RustServer!MayPing, RustServer!CountPing, PingTyped
  <2> QED
    BY <2>1, <2>2, <2>3, <2>4
<1> QED
  BY <1>1, <1>2, <1>3, <1>4, <1>5, <1>6, <1>7
     DEF RustServer!HandlerStep, RustServer!RouteStep, RustServer!PingStep

\* The rest of a sequence of lines, a line more, and what a line can say.
LEMMA LinesTyped ==
  /\ \A w \in Seq(Line) : w # <<>> => Head(w) \in Line /\ Tail(w) \in Seq(Line)
  /\ \A d \in Seq(Line), line \in Line : Append(d, line) \in Seq(Line)
  /\ \A line \in Line : line[1] = "name" => line[2] \in {"error", "variant"}
  /\ \A lines : Decodes(lines) => lines[1][2] \in Event
<1>1. \A w \in Seq(Line) : w # <<>> => Head(w) \in Line /\ Tail(w) \in Seq(Line)
  <2> HIDE DEF Line
  <2> QED
    OBVIOUS
<1>2. \A d \in Seq(Line), line \in Line : Append(d, line) \in Seq(Line)
  <2> HIDE DEF Line
  <2> QED
    OBVIOUS
<1>3. ASSUME NEW line \in Line, line[1] = "name" PROVE line[2] \in {"error", "variant"}
  <2> USE DEF Status, Name, Data, Blank, Comment, End
  <2>1. CASE line \in {Status("ok"), Status("error"), Name("error"), Name("variant"), Blank,
                       Comment, End}
    <3>1. CASE line \in {Status("ok"), Status("error"), Blank, Comment, End}
      <4>1. CASE line = Status("ok") \/ line = Status("error")
        <5>1. line[1] = "status"
          BY <4>1
        <5> QED
          BY <1>3, <5>1
      <4>2. CASE line = Blank
        <5>1. line[1] = "blank"
          BY <4>2
        <5> QED
          BY <1>3, <5>1
      <4>3. CASE line = Comment
        <5>1. line[1] = "comment"
          BY <4>3
        <5> QED
          BY <1>3, <5>1
      <4>4. CASE line = End
        <5>1. line[1] = "end"
          BY <4>4
        <5> QED
          BY <1>3, <5>1
      <4> HIDE DEF Status, Name, Data, Blank, Comment, End
      <4> QED
        BY <3>1, <4>1, <4>2, <4>3, <4>4
    <3>2. CASE line \in {Name("error"), Name("variant")}
      BY <3>2
    <3> HIDE DEF Status, Name, Data, Blank, Comment, End
    <3> QED
      BY <2>1, <3>1, <3>2
  <2>2. ASSUME NEW e, NEW n, line = Data(e, n) PROVE FALSE
    BY <1>3, <2>2
  <2>3. \/ line \in {Status("ok"), Status("error"), Name("error"), Name("variant"), Blank,
                     Comment, End}
        \/ \E e \in Event, n \in 1..2 : line = Data(e, n)
        \/ line = Data("error", 1)
    <3> HIDE DEF Status, Name, Data, Blank, Comment, End
    <3> QED
      BY DEF Line
  <2> QED
    BY <2>1, <2>2, <2>3
<1>4. ASSUME NEW lines, Decodes(lines) PROVE lines[1][2] \in Event
  <2>1. PICK e \in Event : lines = [k \in 1..Lines(e) |-> Data(e, k)]
    BY <1>4 DEF Decodes
  <2>2. 1 \in 1..Lines(e)
    BY DEF Lines
  <2>3. lines[1] = Data(e, 1)
    BY <2>1, <2>2
  <2> QED
    BY <2>3 DEF Data
<1> QED
  BY <1>1, <1>2, <1>3, <1>4

\* What a client delivers are events.
LEMMA DeliveredTyped ==
  ASSUME ClientTyped, NEW lines, Decodes(lines) PROVE Append(got, lines[1][2]) \in Seq(Event)
<1>1. lines[1][2] \in Event
  BY LinesTyped
<1>2. \A e \in Event : Append(got, e) \in Seq(Event)
  <2>1. got \in Seq(Event)
    BY DEF ClientTyped
  <2>2. \A s \in Seq(Event), e \in Event : Append(s, e) \in Seq(Event)
    OBVIOUS
  <2> QED
    BY <2>1, <2>2
<1> QED
  BY <1>1, <1>2

\* The steps of the callers' ends and the network: the six clients.
LEMMA ClientTypes ==
  ASSUME TypeInv,
         ReadStep \/ CallerStep \/ ConnectionBreaks \/ CallerVanishes \/ WriteTimesOut
  PROVE  NetTyped' /\ ClientTyped' /\ (conn' = "open" => conn = "open")
<1> USE DEF TypeInv
<1>h. wire # <<>> => l \in Line /\ Tail(wire) \in Seq(Line)
  BY LinesTyped DEF NetTyped, l
<1>e. <<>> \in Seq(Line)
  OBVIOUS
<1>g. \A lines : Decodes(lines) => Append(got, lines[1][2]) \in Seq(Event)
  BY DeliveredTyped
<1>x. Hangs => conn' \in Conns /\ conn' # "open"
  BY DEF Hangs, NetTyped, Conns
<1>f. Field(l) /\ l \in Line => name' \in {"", "error", "variant"} /\ data' \in Seq(Line)
  BY LinesTyped DEF Field, ClientTyped
<1>y. \A lines : Yields(lines) => got' \in Seq(Event) /\ outcome' \in {"open", "whole", "failed", "left"}
                                  /\ conn' \in Conns /\ (conn' = "open" => conn = "open")
  BY <1>g, <1>x DEF Yields, Throws, ClientTyped, NetTyped
<1>t. Throws => got' \in Seq(Event) /\ outcome' \in {"open", "whole", "failed", "left"}
                /\ conn' \in Conns /\ (conn' = "open" => conn = "open")
  BY <1>x DEF Throws, ClientTyped
<1>o. NoData => got' \in Seq(Event) /\ outcome' \in {"open", "whole", "failed", "left"}
                /\ conn' \in Conns /\ (conn' = "open" => conn = "open")
  BY DEF NoData, ClientTyped, NetTyped
<1> HIDE DEF Line
<1>1. CASE ReadStatus
  <2>1. NetTyped' /\ (conn' = "open" => conn = "open")
    BY <1>1, <1>h DEF ReadStatus, NetTyped, Conns
  <2>2. ClientTyped'
    BY <1>1, <1>h DEF ReadStatus, ClientTyped, choice
  <2> QED
    BY <2>1, <2>2
<1>2. CASE ReadBreaks
  <2>1. NetTyped' /\ (conn' = "open" => conn = "open")
    BY <1>2 DEF ReadBreaks, netVars, NetTyped, Conns
  <2>2. ClientTyped'
    BY <1>2 DEF ReadBreaks, netVars, ClientTyped, choice
  <2> QED
    BY <2>1, <2>2
<1>3. CASE ReadField
  <2>1. NetTyped' /\ (conn' = "open" => conn = "open")
    BY <1>3, <1>h, <1>f, <1>t DEF ReadField, Reads, NetTyped, Conns
  <2>2. ClientTyped'
    BY <1>3, <1>h, <1>f, <1>t DEF ReadField, Reads, ClientTyped, choice
  <2> QED
    BY <2>1, <2>2
<1>4. CASE GoBlank
  <2>1. NetTyped' /\ (conn' = "open" => conn = "open")
    BY <1>4, <1>h, <1>e, <1>g DEF GoBlank, Reads, Fresh, NetTyped, Conns
  <2>2. ClientTyped'
    BY <1>4, <1>h, <1>e, <1>g DEF GoBlank, Reads, Fresh, ClientTyped, choice
  <2> QED
    BY <2>1, <2>2
<1>5. CASE TSBlank
  <2>1. NetTyped' /\ (conn' = "open" => conn = "open")
    BY <1>5, <1>h, <1>e, <1>o, <1>t, <1>y DEF TSBlank, AtBlank, Reads, Fresh, NetTyped, Conns
  <2>2. ClientTyped'
    BY <1>5, <1>h, <1>e, <1>o, <1>t, <1>y DEF TSBlank, AtBlank, Reads, Fresh, ClientTyped, choice
  <2> QED
    BY <2>1, <2>2
<1>6. CASE PyBlank
  <2>1. NetTyped' /\ (conn' = "open" => conn = "open")
    BY <1>6, <1>h, <1>e, <1>o, <1>t, <1>y DEF PyBlank, AtBlank, Reads, Fresh, NetTyped, Conns
  <2>2. ClientTyped'
    BY <1>6, <1>h, <1>e, <1>o, <1>t, <1>y DEF PyBlank, AtBlank, Reads, Fresh, ClientTyped, choice
  <2> QED
    BY <2>1, <2>2
<1>7. CASE DartBlank
  <2>1. NetTyped' /\ (conn' = "open" => conn = "open")
    BY <1>7, <1>h, <1>e, <1>o, <1>t, <1>y DEF DartBlank, AtBlank, Reads, Fresh, NetTyped, Conns
  <2>2. ClientTyped'
    BY <1>7, <1>h, <1>e, <1>o, <1>t, <1>y
       DEF DartBlank, AtBlank, Reads, Fresh, ClientTyped, choice
  <2> QED
    BY <2>1, <2>2
<1>8. CASE SwiftBlank
  <2>1. NetTyped' /\ (conn' = "open" => conn = "open")
    BY <1>8, <1>h, <1>e, <1>o, <1>t, <1>y DEF SwiftBlank, AtBlank, Reads, Fresh, NetTyped, Conns
  <2>2. ClientTyped'
    BY <1>8, <1>h, <1>e, <1>o, <1>t, <1>y
       DEF SwiftBlank, AtBlank, Reads, Fresh, ClientTyped, choice
  <2> QED
    BY <2>1, <2>2
<1>9. CASE ReadEnd
  <2>1. NetTyped' /\ (conn' = "open" => conn = "open")
    BY <1>9, <1>h DEF ReadEnd, Reads, NetTyped, Conns
  <2>2. ClientTyped'
    BY <1>9, <1>h DEF ReadEnd, Reads, ClientTyped, choice
  <2> QED
    BY <2>1, <2>2
<1>10. CASE RustGathers
  <2>1. NetTyped' /\ (conn' = "open" => conn = "open")
    BY <1>10, <1>h, <1>f DEF RustGathers, RustReads, NetTyped, Conns
  <2>2. ClientTyped'
    BY <1>10, <1>h, <1>f DEF RustGathers, RustReads, ClientTyped, choice
  <2> QED
    BY <2>1, <2>2
<1>11. CASE RustTooLong
  <2>1. NetTyped' /\ (conn' = "open" => conn = "open")
    BY <1>11, <1>x DEF RustTooLong, RustReads, NetTyped, Conns
  <2>2. ClientTyped'
    BY <1>11, <1>x DEF RustTooLong, RustReads, ClientTyped, choice
  <2> QED
    BY <2>1, <2>2
<1>12. CASE RustFrame
  <2>1. NetTyped' /\ (conn' = "open" => conn = "open")
    BY <1>12, <1>h, <1>e, <1>g DEF RustFrame, RustReads, Fresh, NetTyped, Conns
  <2>2. ClientTyped'
    BY <1>12, <1>h, <1>e, <1>g DEF RustFrame, RustReads, Fresh, ClientTyped, choice
  <2> QED
    BY <2>1, <2>2
<1>13. CASE Leave
  <2>1. NetTyped' /\ (conn' = "open" => conn = "open")
    BY <1>13, <1>x DEF Leave, NetTyped, Conns
  <2>2. ClientTyped'
    BY <1>13, <1>x DEF Leave, ClientTyped, choice
  <2> QED
    BY <2>1, <2>2
<1>14. CASE GoClose
  <2>1. NetTyped' /\ (conn' = "open" => conn = "open")
    BY <1>14 DEF GoClose, clientVars, NetTyped, Conns
  <2>2. ClientTyped'
    BY <1>14 DEF GoClose, clientVars, ClientTyped, choice
  <2> QED
    BY <2>1, <2>2
<1>15. CASE RustDrops
  <2>1. NetTyped' /\ (conn' = "open" => conn = "open")
    BY <1>15 DEF RustDrops, clientVars, NetTyped, Conns
  <2>2. ClientTyped'
    BY <1>15 DEF RustDrops, clientVars, ClientTyped, choice
  <2> QED
    BY <2>1, <2>2
<1>16. CASE CallerVanishes
  <2>1. NetTyped' /\ (conn' = "open" => conn = "open")
    BY <1>16, <1>e DEF CallerVanishes, clientVars, NetTyped, Conns
  <2>2. ClientTyped'
    BY <1>16, <1>e DEF CallerVanishes, clientVars, ClientTyped, choice
  <2> QED
    BY <2>1, <2>2
<1>17. CASE WriteTimesOut
  <2>1. NetTyped' /\ (conn' = "open" => conn = "open")
    BY <1>17 DEF WriteTimesOut, clientVars, NetTyped, Conns
  <2>2. ClientTyped'
    BY <1>17 DEF WriteTimesOut, clientVars, ClientTyped, choice
  <2> QED
    BY <2>1, <2>2
<1>18. CASE ConnectionBreaks
  <2>1. NetTyped' /\ conn' # "open"
    BY <1>18, BreakTyped DEF ConnectionBreaks
  <2>2. ClientTyped'
    BY <1>18 DEF ConnectionBreaks, ClientTyped, choice, clientVars
  <2> QED
    BY <2>1, <2>2
<1> QED
  BY <1>1, <1>2, <1>3, <1>4, <1>5, <1>6, <1>7, <1>8, <1>9, <1>10, <1>11, <1>12, <1>13, <1>14,
     <1>15, <1>16, <1>17, <1>18
     DEF ReadStep, CallerStep

\* No server has a hand in its client's variables.
LEMMA GoIsFar ==
  ASSUME GoServer!HandlerStep \/ GoServer!RouteStep \/ GoServer!PingStep
  PROVE  UNCHANGED <<choice, clientVars>>
<1> USE DEF choice, clientVars, GoServer!choice, GoServer!clientVars
<1>1. ASSUME NEW s \in Sender, NEW e \in Event, GoServer!Send(s, e)
     PROVE  UNCHANGED <<choice, clientVars>>
  BY <1>1 DEF GoServer!Send
<1>2. CASE GoServer!HandlerReturns
  BY <1>2 DEF GoServer!HandlerReturns
<1>3. CASE GoServer!HandlerPanics
  BY <1>3 DEF GoServer!HandlerPanics
<1>4. ASSUME NEW s \in Sender, GoServer!Encode(s) PROVE UNCHANGED <<choice, clientVars>>
  BY <1>4 DEF GoServer!Encode
<1>5. ASSUME NEW s \in Sender, GoServer!SendWrite(s) PROVE UNCHANGED <<choice, clientVars>>
  BY <1>5 DEF GoServer!SendWrite
<1>6. CASE GoServer!Stopped
  BY <1>6 DEF GoServer!Stopped
<1>7. CASE GoServer!ReportStatus
  BY <1>7 DEF GoServer!ReportStatus
<1>8. CASE GoServer!ReportFrame
  BY <1>8 DEF GoServer!ReportFrame
<1>9. CASE GoServer!Finish
  BY <1>9 DEF GoServer!Finish
<1>10. CASE GoServer!ContextDone
  BY <1>10 DEF GoServer!ContextDone
<1>11. CASE GoServer!Tick
  BY <1>11 DEF GoServer!Tick
<1>12. CASE GoServer!PingWrite
  BY <1>12 DEF GoServer!PingWrite
<1>13. CASE GoServer!HeartbeatEnds
  BY <1>13 DEF GoServer!HeartbeatEnds
<1> QED
  BY <1>1, <1>2, <1>3, <1>4, <1>5, <1>6, <1>7, <1>8, <1>9, <1>10, <1>11, <1>12, <1>13
     DEF GoServer!HandlerStep, GoServer!RouteStep, GoServer!PingStep

\* Nor has a TypeScript server.
LEMMA TSIsFar ==
  ASSUME TSServer!HandlerStep \/ TSServer!RouteStep \/ TSServer!PingStep
  PROVE  UNCHANGED <<choice, clientVars>>
<1> USE DEF choice, clientVars, TSServer!choice, TSServer!clientVars
<1>1. ASSUME NEW e \in Event, TSServer!FirstChunk(e) PROVE UNCHANGED <<choice, clientVars>>
  BY <1>1 DEF TSServer!FirstChunk, TSServer!Chunk
<1>2. ASSUME NEW e \in Event, TSServer!ReadChunk(e) PROVE UNCHANGED <<choice, clientVars>>
  BY <1>2 DEF TSServer!ReadChunk, TSServer!Chunk
<1>3. CASE TSServer!FirstDone
  BY <1>3 DEF TSServer!FirstDone
<1>4. CASE TSServer!FirstFails
  BY <1>4 DEF TSServer!FirstFails
<1>5. CASE TSServer!ReadDone
  BY <1>5 DEF TSServer!ReadDone
<1>6. CASE TSServer!ReadFails
  BY <1>6 DEF TSServer!ReadFails
<1>7. CASE TSServer!FirstLate
  BY <1>7 DEF TSServer!FirstLate
<1>8. CASE TSServer!Report
  BY <1>8 DEF TSServer!Report
<1>9. CASE TSServer!Cancel
  BY <1>9 DEF TSServer!Cancel
<1>10. CASE TSServer!SendPing
  BY <1>10 DEF TSServer!SendPing
<1> QED
  BY <1>1, <1>2, <1>3, <1>4, <1>5, <1>6, <1>7, <1>8, <1>9, <1>10
     DEF TSServer!HandlerStep, TSServer!RouteStep, TSServer!PingStep

\* Nor has a Rust server.
LEMMA RustIsFar ==
  ASSUME RustServer!HandlerStep \/ RustServer!RouteStep \/ RustServer!PingStep
  PROVE  UNCHANGED <<choice, clientVars>>
<1> USE DEF choice, clientVars, RustServer!choice, RustServer!clientVars
<1>1. CASE RustServer!CallOk
  BY <1>1 DEF RustServer!CallOk
<1>2. CASE RustServer!CallFails
  BY <1>2 DEF RustServer!CallFails
<1>3. ASSUME NEW e \in Event, RustServer!Item(e) PROVE UNCHANGED <<choice, clientVars>>
  BY <1>3 DEF RustServer!Item
<1>4. CASE RustServer!FailedItem
  BY <1>4 DEF RustServer!FailedItem
<1>5. CASE RustServer!StreamEnds
  BY <1>5 DEF RustServer!StreamEnds
<1>6. CASE RustServer!Dropped
  BY <1>6 DEF RustServer!Dropped
<1>7. CASE RustServer!SendPing
  BY <1>7 DEF RustServer!SendPing
<1> QED
  BY <1>1, <1>2, <1>3, <1>4, <1>5, <1>6, <1>7
     DEF RustServer!HandlerStep, RustServer!RouteStep, RustServer!PingStep

\* The types hold at the start.
LEMMA InitTypeInv == Init => TypeInv
<1> SUFFICES ASSUME Init PROVE TypeInv
  OBVIOUS
<1>1. server \in Servers /\ client \in Clients
  BY StreamAssumption DEF Init, StreamAssumption
<1>n. MaxEvents \in 0..MaxEvents /\ 0 \in 0..MaxPings
  <2>1. MaxEvents \in Nat /\ MaxPings \in Nat
    BY StreamAssumption DEF StreamAssumption
  <2> QED
    BY <2>1
<1>2. <<>> \in Seq(Line) /\ <<>> \in Seq(Event)
  OBVIOUS
<1>3. NetTyped /\ ClientTyped
  BY <1>1, <1>2 DEF Init, NetTyped, ClientTyped, Conns
<1>4. GoTyped
  BY <1>2, StreamAssumption DEF Init, GoTyped, StreamAssumption
<1>5. RouteTyped
  <2>1. route \in {"serve", "first", "call"}
    BY <1>1 DEF Init, Servers
  <2> QED
    BY <2>1, <1>2, <1>n DEF Init, RouteTyped
<1>6. PingTyped
  <2>1. hb \in {"off", "wait"}
    BY DEF Init
  <2> QED
    BY <2>1, <1>n DEF Init, PingTyped
<1> QED
  BY <1>3, <1>4, <1>5, <1>6 DEF TypeInv, ServerTyped

\* Every step keeps them.
LEMMA NextTypeInv == TypeInv /\ [Next]_vars => TypeInv'
<1> SUFFICES ASSUME TypeInv, [Next]_vars PROVE TypeInv'
  OBVIOUS
<1>1. ASSUME HandlerStep \/ RouteStep \/ PingStep PROVE TypeInv'
  <2>1. ServerTyped' /\ NetTyped'
    BY <1>1, GoTypes, TSTypes, RustTypes DEF HandlerStep, RouteStep, PingStep
  <2>2. UNCHANGED <<choice, clientVars>>
    BY <1>1, GoIsFar, TSIsFar, RustIsFar DEF HandlerStep, RouteStep, PingStep
  <2>3. ClientTyped'
    BY <2>2 DEF TypeInv, ClientTyped, choice, clientVars
  <2> QED
    BY <2>1, <2>3 DEF TypeInv
<1>2. ASSUME ReadStep \/ CallerStep \/ ConnectionBreaks \/ CallerVanishes \/ WriteTimesOut
      PROVE  TypeInv'
  <2>1. NetTyped' /\ ClientTyped' /\ (conn' = "open" => conn = "open")
    BY <1>2, ClientTypes
  <2>2. UNCHANGED <<choice, serverVars>>
    BY <1>2, FarStep
  <2>3. GoTyped' /\ RouteTyped'
    BY <2>2 DEF TypeInv, ServerTyped, GoTyped, RouteTyped, serverVars, goVars, reportVars
  <2>4. PingTyped'
    BY <2>1, <2>2 DEF TypeInv, ServerTyped, PingTyped, serverVars, choice
  <2> QED
    BY <2>1, <2>3, <2>4 DEF TypeInv, ServerTyped
<1>3. CASE UNCHANGED vars
  <2> USE <1>3 DEF vars, choice, netVars, serverVars, clientVars, goVars, reportVars
  <2>1. NetTyped' /\ ClientTyped'
    BY DEF TypeInv, NetTyped, ClientTyped
  <2>2. GoTyped' /\ RouteTyped' /\ PingTyped'
    BY DEF TypeInv, ServerTyped, GoTyped, RouteTyped, PingTyped
  <2> QED
    BY <2>1, <2>2 DEF TypeInv, ServerTyped
<1> QED
  BY <1>1, <1>2, <1>3 DEF Next

\* Every variable of a stream has its type, and whoever has a frame in a Go
\* sender's buffer has the sender's lock (sseSender.mu): no two frames are
\* encoded into one buffer.
THEOREM TypeCorrect == Spec => []TypeOK
<1>1. TypeInv => TypeOK
  BY DEF TypeInv, NetTyped, ClientTyped, ServerTyped, GoTyped, RouteTyped, PingTyped, TypeOK,
         Conns
<1> QED
  BY InitTypeInv, NextTypeInv, <1>1, PTL DEF Spec
-----------------------------------------------------------------------------
(* What the lines on the wire amount to.  A reader goes from place to      *)
(* place: before the status, among the frames or past what matters, with   *)
(* the fields of the frame it is in and the number of events behind it.    *)

Place ==
  [mode : {"new", "on", "over"}, name : {"", "error", "variant"}, data : Seq(Line), n : Nat]

At(m, k, d, n) == [mode |-> m, name |-> k, data |-> d, n |-> n]
Tip(m, n) == At(m, "", <<>>, n)
Beyond == Tip("over", 0)
Here   == At(IF begun THEN "on" ELSE "new", name, data, Len(got))

Between(r) == r.mode = "on" /\ r.name = "" /\ r.data = <<>>

LinesFrom(v, e) == IF v = "Go" /\ e \in Wide THEN 2 ELSE 1
WholeData(v, e) == IF LinesFrom(v, e) = 2 THEN <<Data(e, 1), Data(e, 2)>> ELSE <<Data(e, 1)>>

\* The lines a reader may find at r, and the places s behind them, while the
\* handler of a server v has sent the events p and its response has come to f.
IsStatus(p, f, r, line, s) ==
  /\ r.mode = "new"
  /\ \/ line = Status("ok") /\ s = At("on", r.name, r.data, r.n)
     \/ line = Status("error") /\ f = "failed" /\ r.n = Len(p) /\ s = Beyond

IsPing(r, line, s) ==
  /\ Between(r) /\ line \in {Comment, Blank} /\ s = r

IsName(r, line, s) ==
  /\ Between(r)
  /\ \E k \in {"error", "variant"} : line = Name(k) /\ s = At("on", k, <<>>, r.n)

IsData(v, e, r, line, s) ==
  /\ r.mode = "on" /\ (r.name = "error" <=> e \in Reserved)
  /\ \/ r.data = <<>> /\ line = Data(e, 1)
     \/ r.data = <<Data(e, 1)>> /\ line = Data(e, 2) /\ LinesFrom(v, e) = 2
  /\ s = At("on", r.name, r.data \o <<line>>, r.n)

IsWhole(v, e, r, line, s) ==
  /\ r.mode = "on" /\ (r.name = "error" <=> e \in Reserved)
  /\ r.data = WholeData(v, e) /\ line = Blank
  /\ s = Tip("on", r.n + 1)

IsFailure(p, f, r, line, s) ==
  /\ r.mode = "on" /\ r.name = "error" /\ f = "failed" /\ r.n = Len(p)
  /\ \/ r.data = <<>> /\ line = Data("error", 1) /\ s = At("on", "error", <<line>>, r.n)
     \/ r.data = <<Data("error", 1)>> /\ line = Blank /\ s = Beyond

IsEnd(p, f, r, line, s) ==
  /\ Between(r) /\ line = End /\ f = "ok" /\ r.n = Len(p) /\ s = Beyond

Follows(v, p, f, r, line, s) ==
  \/ r = Beyond /\ s = Beyond
  \/ IsStatus(p, f, r, line, s) \/ IsPing(r, line, s) \/ IsName(r, line, s)
  \/ r.n < Len(p) /\ (IsData(v, p[r.n + 1], r, line, s) \/ IsWhole(v, p[r.n + 1], r, line, s))
  \/ IsFailure(p, f, r, line, s) \/ IsEnd(p, f, r, line, s)

\* The lines w lead a reader from a to b.
Path(v, p, f, w, a, b) ==
  \E run \in [0..Len(w) -> Place] :
    /\ run[0] = a /\ run[Len(w)] = b
    /\ \A i \in 1..Len(w) : Follows(v, p, f, run[i - 1], w[i], run[i])

\* Where they leave it when the server goes on writing: past everything, or
\* between two frames, with all that was sent behind it and an end to come.
EndToCome ==
  \/ fin = "open"
  \/ server = "Go" /\ route \in {"stop", "report"}
  \/ server = "Go" /\ route = "finish" /\ absFin = "ok"
  \/ server = "TypeScript" /\ route = "report"

AtTip(b) ==
  \/ b = Beyond
  \/ /\ b = Tip(IF started THEN "on" ELSE "new", Len(produced))
     /\ route # "over" /\ EndToCome

\* A caller that reads has the first of the events, and the lines to come give
\* it the others and the end.
ReadInv ==
  outcome = "open" =>
    /\ Len(got) <= Len(produced) /\ \A i \in 1..Len(got) : got[i] = produced[i]
    /\ \E b \in Place :
         Path(server, produced, absFin, wire, Here, b) /\ (conn = "open" => AtTip(b))

\* Where a Go route is: how its handler came back, and that nothing has been
\* sent when it has no status yet.
GoControl ==
  /\ route \in {"serve", "stop", "report", "finish", "over"}
  /\ choked \in {"nothing", "error"}
  /\ route = "serve" => handler = "running" /\ fin = "open"
  /\ route \in {"stop", "report", "finish"} =>
       \/ handler = "ended" /\ fin = "ok" /\ choked = "nothing" /\ route # "report"
       \/ handler = "failed" /\ fin = "failed"
  /\ route = "over" => fin # "open"
  /\ choked = "error" => started /\ route \in {"finish", "over"}
  /\ ~started => produced = <<>>

\* Its senders come back before it does, and each writes what it encoded.
GoFrames ==
  /\ route # "serve" => \A s \in Sender : at[s] = "idle"
  /\ \A s \in Sender : at[s] = "write" => frame = EventFrame(what[s], LinesFrom("Go", what[s]))

\* Where a TypeScript response is.
TSControl ==
  /\ route \in {"first", "read", "report", "over"}
  /\ choked \in {"nothing", "event"}
  /\ route = "first" => ~started /\ produced = <<>> /\ fin = "open"
  /\ route = "read" => started /\ fin = "open"
  /\ route = "report" => started /\ fin = "failed"
  /\ told => ServerSees

\* Where a Rust response is.
RustControl ==
  /\ route \in {"call", "items", "over"}
  /\ choked \in {"nothing", "event"}
  /\ route = "call" => ~started /\ produced = <<>> /\ fin = "open"
  /\ route = "items" => started

ServerInv ==
  /\ server = "Go" => GoControl /\ GoFrames
  /\ server = "TypeScript" => TSControl
  /\ server = "Rust" => RustControl

\* Lines are told apart by their kind, and by what they carry.
LEMMA LinesDiffer ==
  /\ \A c : Status(c)[1] = "status" /\ Status(c)[2] = c
  /\ \A c : Name(c)[1] = "name" /\ Name(c)[2] = c
  /\ \A e, i : Data(e, i)[1] = "data" /\ Data(e, i)[2] = e /\ Data(e, i)[3] = i
  /\ Blank[1] = "blank" /\ Comment[1] = "comment" /\ End[1] = "end"
BY DEF Status, Name, Data, Blank, Comment, End

\* No lines lead nowhere.
LEMMA PathEmpty ==
  ASSUME NEW v, NEW p, NEW f, NEW a \in Place PROVE Path(v, p, f, <<>>, a, a)
<1> HIDE DEF Place, Follows
<1> DEFINE run == [i \in 0..0 |-> a]
<1>1. run \in [0..0 -> Place] /\ run[0] = a
  OBVIOUS
<1>2. Len(<<>>) = 0 /\ \A i \in 1..0 : FALSE
  OBVIOUS
<1> QED
  BY <1>1, <1>2 DEF Path

\* One more line.
LEMMA PathExtends ==
  ASSUME NEW v, NEW p, NEW f, NEW w \in Seq(Line), NEW x \in Line, NEW a, NEW b, NEW c \in Place,
         Path(v, p, f, w, a, b), Follows(v, p, f, b, x, c)
  PROVE  Path(v, p, f, Append(w, x), a, c)
<1> HIDE DEF Place, Follows, Line
<1> DEFINE n == Len(w)
           w2 == Append(w, x)
<1>1. n \in Nat /\ Len(w2) = n + 1 /\ w2[n + 1] = x /\ \A i \in 1..n : w2[i] = w[i]
  OBVIOUS
<1>2. PICK run \in [0..n -> Place] :
        /\ run[0] = a /\ run[n] = b
        /\ \A i \in 1..n : Follows(v, p, f, run[i - 1], w[i], run[i])
  BY DEF Path
<1> HIDE DEF n, w2
<1> DEFINE next == [i \in 0..(n + 1) |-> IF i = n + 1 THEN c ELSE run[i]]
<1>3. next \in [0..(n + 1) -> Place] /\ next[0] = a /\ next[n + 1] = c
  BY <1>1, <1>2
<1>4. ASSUME NEW i \in 1..(n + 1) PROVE Follows(v, p, f, next[i - 1], w2[i], next[i])
  <2>1. CASE i = n + 1
    <3>1. i - 1 \in 0..(n + 1) /\ i - 1 = n /\ n # n + 1
      BY <1>1, <2>1
    <3>2. next[i - 1] = b /\ next[i] = c /\ w2[i] = x
      BY <1>1, <1>2, <1>3, <2>1, <3>1
    <3> HIDE DEF next
    <3> QED
      BY <3>2
  <2>2. CASE i # n + 1
    <3>1. /\ i \in 1..n /\ i - 1 \in 0..(n + 1) /\ i \in 0..(n + 1) /\ i - 1 # n + 1
      BY <1>1, <2>2
    <3>2. next[i - 1] = run[i - 1] /\ next[i] = run[i] /\ w2[i] = w[i]
      BY <1>1, <2>2, <3>1
    <3> HIDE DEF next
    <3> QED
      BY <1>2, <3>1, <3>2
  <2> QED
    BY <2>1, <2>2
<1> HIDE DEF next
<1>5. Path(v, p, f, w2, a, c)
  BY <1>1, <1>3, <1>4 DEF Path
<1> QED
  BY <1>5 DEF w2

\* The first line, and what is left.
LEMMA PathAdvances ==
  ASSUME NEW v, NEW p, NEW f, NEW w \in Seq(Line), w # <<>>, NEW a, NEW b,
         Path(v, p, f, w, a, b)
  PROVE  \E c \in Place : Follows(v, p, f, a, Head(w), c) /\ Path(v, p, f, Tail(w), c, b)
<1> HIDE DEF Place, Follows, Line
<1> DEFINE n == Len(w)
           w2 == Tail(w)
<1>1. /\ n \in Nat /\ n > 0 /\ Len(w2) = n - 1 /\ Head(w) = w[1]
      /\ \A i \in 1..(n - 1) : w2[i] = w[i + 1]
  OBVIOUS
<1>2. PICK run \in [0..n -> Place] :
        /\ run[0] = a /\ run[n] = b
        /\ \A i \in 1..n : Follows(v, p, f, run[i - 1], w[i], run[i])
  BY DEF Path
<1> HIDE DEF n, w2
<1> DEFINE next == [i \in 0..(n - 1) |-> run[i + 1]]
<1>3. /\ next \in [0..(n - 1) -> Place] /\ next[0] = run[1] /\ next[n - 1] = b
      /\ \A i \in 0..(n - 1) : next[i] = run[i + 1]
  <2>1. \A i \in 0..(n - 1) : i + 1 \in 0..n
    BY <1>1
  <2>2. 0 \in 0..(n - 1) /\ n - 1 \in 0..(n - 1) /\ 0 + 1 = 1 /\ (n - 1) + 1 = n
    BY <1>1
  <2> QED
    BY <1>2, <2>1, <2>2
<1>4. ASSUME NEW i \in 1..(n - 1) PROVE Follows(v, p, f, next[i - 1], w2[i], next[i])
  <2>1. i + 1 \in 1..n /\ (i + 1) - 1 = i /\ i - 1 \in 0..(n - 1) /\ i \in 0..(n - 1)
        /\ (i - 1) + 1 = i
    BY <1>1
  <2>2. next[i - 1] = run[i] /\ next[i] = run[i + 1] /\ w2[i] = w[i + 1]
    BY <1>1, <1>3, <2>1
  <2> HIDE DEF next
  <2>3. Follows(v, p, f, run[(i + 1) - 1], w[i + 1], run[i + 1])
    BY <1>2, <2>1
  <2> QED
    BY <2>1, <2>2, <2>3
<1> HIDE DEF next
<1>5. Path(v, p, f, w2, run[1], b)
  BY <1>1, <1>3, <1>4 DEF Path
<1>6. run[1] \in Place /\ Follows(v, p, f, a, Head(w), run[1])
  <2>1. 1 \in 1..n /\ 1 \in 0..n /\ 1 - 1 = 0
    BY <1>1
  <2>2. Follows(v, p, f, run[1 - 1], w[1], run[1])
    BY <1>2, <2>1
  <2> QED
    BY <1>1, <1>2, <2>1, <2>2
<1> QED
  BY <1>5, <1>6 DEF w2

\* What is left of the lines when the connection breaks.
LEMMA PathPrefix ==
  ASSUME NEW v, NEW p, NEW f, NEW w \in Seq(Line), NEW a, NEW b, NEW k \in 0..Len(w),
         Path(v, p, f, w, a, b)
  PROVE  \E c \in Place : Path(v, p, f, SubSeq(w, 1, k), a, c)
<1> HIDE DEF Place, Follows, Line
<1> DEFINE n == Len(w)
           w2 == SubSeq(w, 1, k)
<1>1. n \in Nat /\ k \in 0..n /\ Len(w2) = k /\ \A i \in 1..k : w2[i] = w[i]
  OBVIOUS
<1>2. PICK run \in [0..n -> Place] :
        /\ run[0] = a
        /\ \A i \in 1..n : Follows(v, p, f, run[i - 1], w[i], run[i])
  BY DEF Path
<1> HIDE DEF n, w2
<1> DEFINE next == [i \in 0..k |-> run[i]]
<1>3. /\ next \in [0..k -> Place] /\ next[0] = a /\ next[k] \in Place
      /\ \A i \in 0..k : next[i] = run[i]
  BY <1>1, <1>2
<1>4. ASSUME NEW i \in 1..k PROVE Follows(v, p, f, next[i - 1], w2[i], next[i])
  <2>1. i \in 1..n /\ i \in 0..k /\ i - 1 \in 0..k
    BY <1>1
  <2>2. next[i - 1] = run[i - 1] /\ next[i] = run[i] /\ w2[i] = w[i]
    BY <1>1, <1>3, <2>1
  <2> HIDE DEF next
  <2> QED
    BY <1>2, <2>1, <2>2
<1> HIDE DEF next
<1>5. Path(v, p, f, w2, a, next[k])
  BY <1>1, <1>3, <1>4 DEF Path
<1> QED
  BY <1>3, <1>5 DEF w2

\* Nothing a server sends after an end or a failure is of any consequence.
LEMMA PathBeyond ==
  ASSUME NEW v, NEW p, NEW f, NEW w \in Seq(Line), NEW x \in Seq(Line), NEW a,
         Path(v, p, f, w, a, Beyond)
  PROVE  Path(v, p, f, w \o x, a, Beyond)
<1>p. Beyond \in Place /\ \A y : Follows(v, p, f, Beyond, y, Beyond)
  <2>1. Beyond \in Place
    <3>1. <<>> \in Seq(Line)
      OBVIOUS
    <3> QED
      BY <3>1 DEF Beyond, Tip, At, Place
  <2> QED
    BY <2>1 DEF Follows
<1> HIDE DEF Place, Follows, Line, Beyond
<1> DEFINE n == Len(w)
           m == Len(w \o x)
           w2 == w \o x
<1>1. n \in Nat /\ m \in Nat /\ n <= m /\ Len(w2) = m /\ \A i \in 1..n : w2[i] = w[i]
  OBVIOUS
<1>2. PICK run \in [0..n -> Place] :
        /\ run[0] = a /\ run[n] = Beyond
        /\ \A i \in 1..n : Follows(v, p, f, run[i - 1], w[i], run[i])
  BY DEF Path
<1> HIDE DEF n, m, w2
<1> DEFINE next == [i \in 0..m |-> IF i <= n THEN run[i] ELSE Beyond]
<1>3. /\ next \in [0..m -> Place] /\ next[0] = a /\ next[m] = Beyond
      /\ \A i \in 0..m : /\ i <= n => next[i] = run[i]
                         /\ i >= n => next[i] = Beyond
  <2>1. \A i \in 0..m : i <= n => i \in 0..n
    BY <1>1
  <2>2. next \in [0..m -> Place]
    BY <1>p, <1>2, <2>1
  <2>3. ASSUME NEW i \in 0..m PROVE next[i] = IF i <= n THEN run[i] ELSE Beyond
    OBVIOUS
  <2> HIDE DEF next
  <2>4. ASSUME NEW i \in 0..m, i >= n PROVE next[i] = Beyond
    <3>1. i <= n => i = n
      BY <1>1, <2>4
    <3> QED
      BY <1>2, <2>3, <3>1
  <2>5. 0 \in 0..m /\ 0 <= n /\ m \in 0..m /\ m >= n
    BY <1>1
  <2> QED
    BY <1>2, <2>2, <2>3, <2>4, <2>5
<1>4. ASSUME NEW i \in 1..m PROVE Follows(v, p, f, next[i - 1], w2[i], next[i])
  <2>0. i \in 0..m /\ i - 1 \in 0..m
    BY <1>1
  <2>1. CASE i <= n
    <3>1. i \in 1..n /\ i - 1 <= n
      BY <1>1, <2>1
    <3>2. next[i - 1] = run[i - 1] /\ next[i] = run[i] /\ w2[i] = w[i]
      BY <1>1, <1>3, <2>0, <2>1, <3>1
    <3> HIDE DEF next
    <3> QED
      BY <1>2, <3>1, <3>2
  <2>2. CASE ~(i <= n)
    <3>1. i >= n /\ i - 1 >= n
      BY <1>1, <2>2
    <3>2. next[i - 1] = Beyond /\ next[i] = Beyond
      BY <1>3, <2>0, <3>1
    <3> HIDE DEF next
    <3> QED
      BY <1>p, <3>2
  <2> QED
    BY <2>1, <2>2
<1> HIDE DEF next
<1>5. Path(v, p, f, w2, a, Beyond)
  BY <1>1, <1>3, <1>4 DEF Path
<1> QED
  BY <1>5 DEF w2

\* What is on the wire stays right when the handler sends more, and when its
\* response comes to an end.
LEMMA PathStays ==
  ASSUME NEW v, NEW p \in Seq(Event), NEW f, NEW w \in Seq(Line), NEW a, NEW b,
         NEW q \in Seq(Event), NEW g,
         Len(p) <= Len(q), \A i \in 1..Len(p) : q[i] = p[i],
         f = "open" \/ (f = g /\ q = p), f \in {"open", "ok", "failed"},
         Path(v, p, f, w, a, b)
  PROVE  Path(v, q, g, w, a, b)
<1>1. ASSUME NEW r \in Place, NEW line, NEW s, Follows(v, p, f, r, line, s)
      PROVE  Follows(v, q, g, r, line, s)
  <2>1. CASE f = "open"
    <3>1. ~IsFailure(p, f, r, line, s) /\ ~IsEnd(p, f, r, line, s)
      BY <2>1 DEF IsFailure, IsEnd
    <3>2. IsStatus(p, f, r, line, s) => IsStatus(q, g, r, line, s)
      BY <2>1 DEF IsStatus
    <3>3. r.n < Len(p) => r.n < Len(q) /\ q[r.n + 1] = p[r.n + 1]
      <4>1. r.n \in Nat
        BY DEF Place
      <4>2. Len(p) \in Nat /\ Len(q) \in Nat
        OBVIOUS
      <4>3. ASSUME r.n < Len(p) PROVE r.n < Len(q) /\ r.n + 1 \in 1..Len(p)
        BY <4>1, <4>2, <4>3
      <4> QED
        BY <4>3
    <3> QED
      BY <1>1, <3>1, <3>2, <3>3 DEF Follows
  <2>2. CASE f # "open"
    BY <1>1, <2>2
  <2> QED
    BY <2>1, <2>2
<1> HIDE DEF Place, Follows, Line
<1> DEFINE n == Len(w)
<1>2. n \in Nat
  OBVIOUS
<1>3. PICK run \in [0..n -> Place] :
        /\ run[0] = a /\ run[n] = b
        /\ \A i \in 1..n : Follows(v, p, f, run[i - 1], w[i], run[i])
  BY DEF Path
<1> HIDE DEF n
<1>4. ASSUME NEW i \in 1..n PROVE Follows(v, q, g, run[i - 1], w[i], run[i])
  <2>1. i - 1 \in 0..n
    BY <1>2
  <2>2. run[i - 1] \in Place /\ Follows(v, p, f, run[i - 1], w[i], run[i])
    BY <1>3, <2>1
  <2> QED
    BY <1>1, <2>2
<1> QED
  BY <1>3, <1>4 DEF Path, n

\* The lines x lead from b to c wherever they are written.
Adds(v, p, f, b, x, c) ==
  \A w \in Seq(Line) : \A a : Path(v, p, f, w, a, b) => Path(v, p, f, w \o x, a, c)

\* One more line leads one place on.
LEMMA AddsOne ==
  ASSUME NEW v, NEW p, NEW f, NEW b, NEW x \in Line, NEW c \in Place, Follows(v, p, f, b, x, c)
  PROVE  Adds(v, p, f, b, <<x>>, c)
<1> SUFFICES ASSUME NEW w \in Seq(Line), NEW a, Path(v, p, f, w, a, b)
             PROVE  Path(v, p, f, w \o <<x>>, a, c)
  BY DEF Adds
<1> HIDE DEF Place, Line
<1>1. w \o <<x>> = Append(w, x)
  OBVIOUS
<1>2. Path(v, p, f, Append(w, x), a, c)
  BY PathExtends
<1> QED
  BY <1>1, <1>2

\* What leads from b to c and then to d leads from b to d.
LEMMA AddsMore ==
  ASSUME NEW v, NEW p, NEW f, NEW b, NEW c, NEW d, NEW x \in Seq(Line), NEW y \in Seq(Line),
         Adds(v, p, f, b, x, c), Adds(v, p, f, c, y, d)
  PROVE  Adds(v, p, f, b, x \o y, d)
<1> SUFFICES ASSUME NEW w \in Seq(Line), NEW a, Path(v, p, f, w, a, b)
             PROVE  Path(v, p, f, w \o (x \o y), a, d)
  BY DEF Adds
<1> HIDE DEF Line
<1>1. w \o x \in Seq(Line) /\ (w \o x) \o y = w \o (x \o y)
  OBVIOUS
<1>2. Path(v, p, f, w \o x, a, c)
  BY DEF Adds
<1>3. Path(v, p, f, (w \o x) \o y, a, d)
  BY <1>1, <1>2 DEF Adds
<1> QED
  BY <1>1, <1>3

\* Past what matters nothing matters.
LEMMA AddsBeyond ==
  ASSUME NEW v, NEW p, NEW f, NEW x \in Seq(Line) PROVE Adds(v, p, f, Beyond, x, Beyond)
BY PathBeyond DEF Adds

\* Where a reader can be is a place.
LEMMA Places ==
  \A m \in {"new", "on", "over"}, k \in {"", "error", "variant"}, d \in Seq(Line), n \in Nat :
    At(m, k, d, n) \in Place
BY DEF At, Place

\* The tips and the lines that are written one by one.
LEMMA TipsAndLines ==
  /\ \A m \in {"new", "on", "over"}, n \in Nat : Tip(m, n) \in Place
  /\ \A m, n : Tip(m, n).mode = m /\ Tip(m, n).name = "" /\ Tip(m, n).data = <<>> /\ Tip(m, n).n = n
  /\ Beyond \in Place
  /\ {Status("ok"), Status("error"), Name("error"), Name("variant"), Blank, Comment, End,
      Data("error", 1)} \subseteq Line
  /\ \A e \in Event : Data(e, 1) \in Line /\ Data(e, 2) \in Line
<1>1. <<>> \in Seq(Line)
  OBVIOUS
<1>2. \A m \in {"new", "on", "over"}, n \in Nat : Tip(m, n) \in Place
  BY <1>1, Places DEF Tip
<1>3. Beyond \in Place
  BY <1>2 DEF Beyond
<1>4. \A m, n : Tip(m, n).mode = m /\ Tip(m, n).name = "" /\ Tip(m, n).data = <<>> /\ Tip(m, n).n = n
  BY DEF Tip, At
<1>5. /\ {Status("ok"), Status("error"), Name("error"), Name("variant"), Blank, Comment, End,
          Data("error", 1)} \subseteq Line
      /\ \A e \in Event : Data(e, 1) \in Line /\ Data(e, 2) \in Line
  BY DEF Line
<1> QED
  BY <1>2, <1>3, <1>4, <1>5

\* The shortest sequences of lines.
LEMMA LineSequences ==
  /\ <<>> \in Seq(Line) /\ \A x \in Line : <<x>> \in Seq(Line)
  /\ <<Status("error")>> \in Seq(Line) /\ <<Status("ok")>> \in Seq(Line) /\ <<End>> \in Seq(Line)
  /\ <<Name("error")>> \in Seq(Line) /\ <<Name("variant")>> \in Seq(Line)
  /\ <<Blank>> \in Seq(Line) /\ <<Comment>> \in Seq(Line) /\ <<Data("error", 1)>> \in Seq(Line)
  /\ \A e \in Event : /\ <<Data(e, 1)>> \in Seq(Line)
                      /\ <<Data(e, 1), Data(e, 2)>> \in Seq(Line)
<1>1. <<>> \in Seq(Line) /\ \A x \in Line : <<x>> \in Seq(Line)
  OBVIOUS
<1>2. \A x, y \in Line : <<x, y>> \in Seq(Line)
  OBVIOUS
<1> QED
  BY <1>1, <1>2, TipsAndLines

\* The status opens the response.
LEMMA AddsStatus ==
  ASSUME NEW v, NEW p, NEW f, NEW n \in Nat
  PROVE  Adds(v, p, f, Tip("new", n), <<Status("ok")>>, Tip("on", n))
<1>1. Follows(v, p, f, Tip("new", n), Status("ok"), Tip("on", n))
  BY TipsAndLines DEF Follows, IsStatus, Tip
<1> QED
  BY <1>1, AddsOne, TipsAndLines

\* A ping leaves its reader where it was.
LEMMA AddsPing ==
  ASSUME NEW v, NEW p, NEW f, NEW n \in Nat
  PROVE  Adds(v, p, f, Tip("on", n), Ping, Tip("on", n))
<1>1. /\ Follows(v, p, f, Tip("on", n), Comment, Tip("on", n))
      /\ Follows(v, p, f, Tip("on", n), Blank, Tip("on", n))
  BY DEF Follows, IsPing, Between, Tip, At
<1>2. Ping = <<Comment>> \o <<Blank>> /\ <<Comment>> \in Seq(Line) /\ <<Blank>> \in Seq(Line)
  BY LineSequences DEF Ping
<1>3. Adds(v, p, f, Tip("on", n), <<Comment>>, Tip("on", n))
  BY <1>1, AddsOne, TipsAndLines
<1>4. Adds(v, p, f, Tip("on", n), <<Blank>>, Tip("on", n))
  BY <1>1, AddsOne, TipsAndLines
<1> QED
  BY <1>2, <1>3, <1>4, AddsMore

\* The end of a response that is whole, and a status that is an error.
LEMMA AddsEnd ==
  ASSUME NEW v, NEW p, NEW f, f = "ok", Len(p) \in Nat
  PROVE  Adds(v, p, f, Tip("on", Len(p)), <<End>>, Beyond)
<1>1. Follows(v, p, f, Tip("on", Len(p)), End, Beyond)
  BY TipsAndLines DEF Follows, IsEnd, Between
<1> QED
  BY <1>1, AddsOne, TipsAndLines

\* An error status says that the handler has failed before it sent anything.
LEMMA AddsRefusal ==
  ASSUME NEW v, NEW p, NEW f, f = "failed", Len(p) \in Nat
  PROVE  Adds(v, p, f, Tip("new", Len(p)), <<Status("error"), End>>, Beyond)
<1>1. Follows(v, p, f, Tip("new", Len(p)), Status("error"), Beyond)
  BY TipsAndLines DEF Follows, IsStatus
<1>2. /\ <<Status("error"), End>> = <<Status("error")>> \o <<End>>
      /\ <<Status("error")>> \in Seq(Line) /\ <<End>> \in Seq(Line)
  BY LineSequences
<1>3. Adds(v, p, f, Tip("new", Len(p)), <<Status("error")>>, Beyond)
  BY <1>1, AddsOne, TipsAndLines
<1> QED
  BY <1>2, <1>3, AddsBeyond, AddsMore

\* An error frame.
LEMMA AddsError ==
  ASSUME NEW v, NEW p, NEW f, f = "failed", Len(p) \in Nat
  PROVE  Adds(v, p, f, Tip("on", Len(p)), ErrorFrame, Beyond)
<1> DEFINE n == Len(p)
           b == At("on", "error", <<>>, n)
           c == At("on", "error", <<Data("error", 1)>>, n)
<1>1. b \in Place /\ c \in Place
  BY LineSequences, Places
<1>2. Follows(v, p, f, Tip("on", n), Name("error"), b)
  BY DEF Follows, IsName, Between, Tip, At
<1>3. Follows(v, p, f, b, Data("error", 1), c)
  BY DEF Follows, IsFailure, At
<1>4. Follows(v, p, f, c, Blank, Beyond)
  BY DEF Follows, IsFailure, At
<1>5. /\ ErrorFrame = (<<Name("error")>> \o <<Data("error", 1)>>) \o <<Blank>>
      /\ <<Name("error")>> \in Seq(Line) /\ <<Data("error", 1)>> \in Seq(Line)
      /\ <<Blank>> \in Seq(Line) /\ <<Name("error")>> \o <<Data("error", 1)>> \in Seq(Line)
  <2>1. ErrorFrame = (<<Name("error")>> \o <<Data("error", 1)>>) \o <<Blank>>
    BY DEF ErrorFrame
  <2>2. \A x, y \in Seq(Line) : x \o y \in Seq(Line)
    OBVIOUS
  <2> QED
    BY <2>1, <2>2, LineSequences
<1> HIDE DEF b, c
<1>6. Adds(v, p, f, Tip("on", n), <<Name("error")>>, b) /\ Adds(v, p, f, b, <<Data("error", 1)>>, c)
  BY <1>1, <1>2, <1>3, AddsOne, TipsAndLines
<1>7. Adds(v, p, f, c, <<Blank>>, Beyond)
  BY <1>4, AddsOne, TipsAndLines
<1>8. Adds(v, p, f, Tip("on", n), <<Name("error")>> \o <<Data("error", 1)>>, c)
  BY <1>5, <1>6, AddsMore
<1> QED
  BY <1>5, <1>7, <1>8, AddsMore

\* An event's data are one line, or two from a Go server whose field is wide.
LEMMA DataLines ==
  ASSUME NEW v, NEW e \in Event
  PROVE  /\ [i \in 1..LinesFrom(v, e) |-> Data(e, i)] = WholeData(v, e)
         /\ WholeData(v, e) \in Seq(Line)
<1> DEFINE d == [i \in 1..LinesFrom(v, e) |-> Data(e, i)]
<1>1. CASE LinesFrom(v, e) = 2
  <2>1. d = <<Data(e, 1), Data(e, 2)>>
    BY <1>1
  <2> QED
    BY <1>1, <2>1, LineSequences DEF WholeData
<1>2. CASE LinesFrom(v, e) = 1
  <2>1. d = <<Data(e, 1)>>
    BY <1>2
  <2> QED
    BY <1>2, <2>1, LineSequences DEF WholeData
<1> QED
  BY <1>1, <1>2 DEF LinesFrom

\* An event's frame, written when all before it has been.
LEMMA AddsEvent ==
  ASSUME NEW v, NEW p, NEW f, Len(p) \in Nat, NEW n \in Nat, n < Len(p), NEW e \in Event,
         e = p[n + 1]
  PROVE  Adds(v, p, f, Tip("on", n), EventFrame(e, LinesFrom(v, e)), Tip("on", n + 1))
<1> DEFINE k == IF e \in Reserved THEN "error" ELSE IF e \in Unnamed THEN "" ELSE "variant"
           b == At("on", k, <<>>, n)
           c == At("on", k, WholeData(v, e), n)
<1>k. k \in {"", "error", "variant"} /\ (k = "error" <=> e \in Reserved)
  OBVIOUS
<1>p. b \in Place /\ c \in Place /\ Tip("on", n + 1) \in Place
  <2>1. n + 1 \in Nat
    OBVIOUS
  <2> QED
    BY <1>k, <2>1, LineSequences, DataLines, Places, TipsAndLines
<1> HIDE DEF Place, Line
<1>1. Adds(v, p, f, Tip("on", n), NameLine(e), b) /\ NameLine(e) \in Seq(Line)
  <2>1. CASE e \in Unnamed
    <3>1. NameLine(e) = <<>> /\ b = Tip("on", n)
      BY <2>1, StreamAssumption DEF NameLine, Tip, StreamAssumption
    <3>2. \A w \in Seq(Line) : w \o <<>> = w
      OBVIOUS
    <3> HIDE DEF b
    <3> QED
      BY <3>1, <3>2, LineSequences DEF Adds
  <2>2. CASE e \notin Unnamed
    <3>1. k \in {"error", "variant"} /\ NameLine(e) = <<Name(k)>>
      BY <2>2 DEF NameLine
    <3> HIDE DEF k
    <3>2. Follows(v, p, f, Tip("on", n), Name(k), b)
      <4>1. IsName(Tip("on", n), Name(k), b)
        BY <3>1 DEF IsName, Between, Tip, At
      <4> QED
        BY <4>1 DEF Follows
    <3> HIDE DEF b
    <3>3. Name(k) \in Line
      BY <3>1, TipsAndLines
    <3> QED
      BY <1>p, <3>1, <3>2, <3>3, AddsOne, LineSequences
  <2> QED
    BY <2>1, <2>2
<1>2. Adds(v, p, f, b, WholeData(v, e), c)
  <2> DEFINE m == At("on", k, <<Data(e, 1)>>, n)
  <2> HIDE DEF k
  <2>1. Follows(v, p, f, b, Data(e, 1), m) /\ m \in Place
    <3>1. IsData(v, e, b, Data(e, 1), m)
      <4>1. <<>> \o <<Data(e, 1)>> = <<Data(e, 1)>>
        OBVIOUS
      <4> QED
        BY <1>k, <4>1 DEF IsData, At
    <3>2. b.n = n
      BY DEF At
    <3> HIDE DEF b, m
    <3>3. Follows(v, p, f, b, Data(e, 1), m)
      BY <3>1, <3>2 DEF Follows
    <3> QED
      BY <1>k, <3>3, Places, LineSequences DEF m
  <2>2. CASE LinesFrom(v, e) = 2
    <3>1. WholeData(v, e) = <<Data(e, 1)>> \o <<Data(e, 2)>>
      BY <2>2 DEF WholeData
    <3>2. Follows(v, p, f, m, Data(e, 2), c)
      <4>1. IsData(v, e, m, Data(e, 2), c)
        BY <1>k, <2>2, <3>1 DEF IsData, At
      <4>2. m.n = n
        BY DEF At
      <4> HIDE DEF m, c
      <4> QED
        BY <4>1, <4>2 DEF Follows
    <3> HIDE DEF b, c, m
    <3>3. Adds(v, p, f, b, <<Data(e, 1)>>, m) /\ Adds(v, p, f, m, <<Data(e, 2)>>, c)
      BY <1>p, <2>1, <3>2, AddsOne, TipsAndLines
    <3>4. <<Data(e, 1)>> \in Seq(Line) /\ <<Data(e, 2)>> \in Seq(Line)
      BY TipsAndLines, LineSequences
    <3> QED
      BY <3>1, <3>3, <3>4, AddsMore
  <2>3. CASE LinesFrom(v, e) # 2
    <3>1. WholeData(v, e) = <<Data(e, 1)>> /\ m = c
      BY <2>3 DEF WholeData
    <3>2. Follows(v, p, f, b, Data(e, 1), c)
      BY <2>1, <3>1
    <3> HIDE DEF b, c, m
    <3>3. Adds(v, p, f, b, <<Data(e, 1)>>, c)
      BY <1>p, <3>2, AddsOne, TipsAndLines
    <3> QED
      BY <3>1, <3>3
  <2> QED
    BY <2>2, <2>3
<1>3. Adds(v, p, f, c, <<Blank>>, Tip("on", n + 1))
  <2>1. IsWhole(v, e, c, Blank, Tip("on", n + 1)) /\ c.n = n
    <3> HIDE DEF k
    <3> QED
      BY <1>k DEF IsWhole, At
  <2> HIDE DEF c
  <2>2. Follows(v, p, f, c, Blank, Tip("on", n + 1))
    BY <2>1 DEF Follows
  <2> QED
    BY <1>p, <2>2, AddsOne, TipsAndLines
<1> HIDE DEF b, c
<1>4. EventFrame(e, LinesFrom(v, e)) = (NameLine(e) \o WholeData(v, e)) \o <<Blank>>
  BY DataLines DEF EventFrame
<1>5. NameLine(e) \o WholeData(v, e) \in Seq(Line)
  <2>1. \A x, y \in Seq(Line) : x \o y \in Seq(Line)
    OBVIOUS
  <2> QED
    BY <1>1, <2>1, DataLines
<1>6. Adds(v, p, f, Tip("on", n), NameLine(e) \o WholeData(v, e), c)
  BY <1>1, <1>2, DataLines, AddsMore
<1> QED
  BY <1>3, <1>4, <1>5, <1>6, AddsMore, LineSequences

\* What a reader finds among the frames, and where it is then.
Found(v, p, f, k, d, n, x, c) ==
  /\ x[1] # "status"
  /\ x[1] = "comment" => c = At("on", k, d, n)
  /\ x[1] = "name" => c = At("on", x[2], d, n)
  /\ x[1] = "data" => /\ c = At("on", k, d \o <<x>>, n)
                      /\ (n < Len(p) /\ x[2] = p[n + 1]) \/ x[2] = "error"
  /\ x = Blank =>
       \/ d = <<>> /\ c = Tip("on", n)
       \/ /\ n < Len(p) /\ d = WholeData(v, p[n + 1]) /\ c = Tip("on", n + 1)
          /\ k = "error" <=> p[n + 1] \in Reserved
       \/ d = <<Data("error", 1)>> /\ k = "error" /\ f = "failed" /\ n = Len(p)
  /\ x = End => f = "ok" /\ n = Len(p)
  /\ d # <<>> =>
       \/ n < Len(p) /\ (d = <<Data(p[n + 1], 1)>> \/ d = WholeData(v, p[n + 1]))
       \/ d = <<Data("error", 1)>>

\* What the next line can be for a reader among the frames.
LEMMA NextPlace ==
  ASSUME NEW v, NEW p, NEW f, NEW k, NEW d, NEW n, NEW x, NEW c,
         Follows(v, p, f, At("on", k, d, n), x, c)
  PROVE  Found(v, p, f, k, d, n, x, c)
<1> USE DEF Found
<1> DEFINE r == At("on", k, d, n)
<1>r. r.mode = "on" /\ r.name = k /\ r.data = d /\ r.n = n
  BY DEF At
<1>0. r # Beyond /\ ~IsStatus(p, f, r, x, c)
  BY DEF At, Beyond, Tip, IsStatus
<1>1. CASE IsPing(r, x, c)
  <2>1. x \in {Comment, Blank} /\ d = <<>> /\ k = "" /\ c = r
    BY <1>1, <1>r DEF IsPing, Between
  <2> HIDE DEF r
  <2>2. c = Tip("on", n)
    BY <2>1 DEF r, Tip
  <2>3. x[1] = "comment" \/ x[1] = "blank"
    BY <2>1, LinesDiffer
  <2>4. x # End
    BY <2>3, LinesDiffer
  <2> QED
    BY <2>1, <2>2, <2>3, <2>4 DEF r
<1>2. CASE IsName(r, x, c)
  <2>1. PICK w \in {"error", "variant"} : x = Name(w) /\ c = At("on", w, <<>>, n) /\ d = <<>>
    BY <1>2, <1>r DEF IsName, Between
  <2>2. x[1] = "name" /\ x[2] = w
    BY <2>1, LinesDiffer
  <2>3. x # Blank /\ x # End
    BY <2>2, LinesDiffer
  <2> HIDE DEF r
  <2> QED
    BY <2>1, <2>2, <2>3
<1>3. CASE n < Len(p) /\ IsData(v, p[n + 1], r, x, c)
  <2>1. /\ \/ d = <<>> /\ x = Data(p[n + 1], 1)
           \/ d = <<Data(p[n + 1], 1)>> /\ x = Data(p[n + 1], 2)
        /\ c = At("on", k, d \o <<x>>, n)
    BY <1>3, <1>r DEF IsData
  <2>2. x[1] = "data" /\ x[2] = p[n + 1]
    BY <2>1, LinesDiffer
  <2>3. x # Blank /\ x # End
    BY <2>2, LinesDiffer
  <2> HIDE DEF r
  <2> QED
    BY <1>3, <2>1, <2>2, <2>3
<1>4. CASE n < Len(p) /\ IsWhole(v, p[n + 1], r, x, c)
  <2>1. /\ d = WholeData(v, p[n + 1]) /\ x = Blank /\ c = Tip("on", n + 1)
        /\ k = "error" <=> p[n + 1] \in Reserved
    BY <1>4, <1>r DEF IsWhole
  <2>2. x[1] = "blank"
    BY <2>1, LinesDiffer
  <2>3. x # End
    BY <2>2, LinesDiffer
  <2> HIDE DEF r
  <2> QED
    BY <1>4, <2>1, <2>2, <2>3
<1>5. CASE IsFailure(p, f, r, x, c)
  <2>1. /\ k = "error" /\ f = "failed" /\ n = Len(p)
        /\ \/ d = <<>> /\ x = Data("error", 1) /\ c = At("on", "error", <<x>>, n)
           \/ d = <<Data("error", 1)>> /\ x = Blank
    BY <1>5, <1>r DEF IsFailure
  <2> HIDE DEF r
  <2>2. CASE d = <<>> /\ x = Data("error", 1) /\ c = At("on", "error", <<x>>, n)
    <3>1. x[1] = "data" /\ x[2] = "error" /\ x # Blank /\ x # End
      BY <2>2, LinesDiffer
    <3>2. d \o <<x>> = <<x>>
      BY <2>2
    <3> QED
      BY <2>1, <2>2, <3>1, <3>2
  <2>3. CASE d = <<Data("error", 1)>> /\ x = Blank
    <3>1. x[1] = "blank" /\ x # End
      BY <2>3, LinesDiffer
    <3> QED
      BY <2>1, <2>3, <3>1
  <2> QED
    BY <2>1, <2>2, <2>3
<1>6. CASE IsEnd(p, f, r, x, c)
  <2>1. x = End /\ f = "ok" /\ n = Len(p) /\ d = <<>>
    BY <1>6, <1>r DEF IsEnd, Between
  <2>2. x[1] = "end"
    BY <2>1, LinesDiffer
  <2>3. x # Blank
    BY <2>2, LinesDiffer
  <2> HIDE DEF r
  <2> QED
    BY <2>1, <2>2, <2>3
<1> HIDE DEF r
<1>7. \/ IsPing(r, x, c) \/ IsName(r, x, c)
      \/ n < Len(p) /\ IsData(v, p[n + 1], r, x, c)
      \/ n < Len(p) /\ IsWhole(v, p[n + 1], r, x, c)
      \/ IsFailure(p, f, r, x, c) \/ IsEnd(p, f, r, x, c)
  <2>1. Follows(v, p, f, r, x, c)
    BY DEF r
  <2> QED
    BY <1>r, <1>0, <2>1 DEF Follows
<1> QED
  BY <1>1, <1>2, <1>3, <1>4, <1>5, <1>6, <1>7

\* What it can be for one that has no status yet.
LEMMA StatusPlace ==
  ASSUME NEW v, NEW p, NEW f, NEW k, NEW d, NEW n, NEW x, NEW c,
         Follows(v, p, f, At("new", k, d, n), x, c)
  PROVE  \/ x = Status("ok") /\ c = At("on", k, d, n)
         \/ x = Status("error") /\ f = "failed" /\ n = Len(p)
<1> DEFINE r == At("new", k, d, n)
<1>r. r.mode = "new" /\ r.name = k /\ r.data = d /\ r.n = n
  BY DEF At
<1>1. r # Beyond
  BY DEF At, Beyond, Tip
<1> HIDE DEF r
<1>2. Follows(v, p, f, r, x, c)
  BY DEF r
<1>3. IsStatus(p, f, r, x, c)
  BY <1>r, <1>1, <1>2
     DEF Follows, IsPing, IsName, IsData, IsWhole, IsFailure, IsEnd, Between
<1> QED
  BY <1>r, <1>3 DEF IsStatus

-----------------------------------------------------------------------------
(* The callers' ends keep the promise.                                     *)

PromiseStep == ReadInv' /\ [Promise!Next]_(Promise!vars)

\* The caller has the first of the events.
HasFirst == Len(got) <= Len(produced) /\ \A i \in 1..Len(got) : got[i] = produced[i]

\* Nothing a client or the network does changes what the server has said.
LEMMA FarKeeps ==
  ASSUME UNCHANGED <<choice, serverVars>>
  PROVE  /\ absFin' = absFin /\ absRefused' = absRefused /\ produced' = produced
         /\ absNotices' = absNotices
         /\ server' = server /\ client' = client
         /\ \A b \in Place : AtTip(b) => AtTip(b)'
<1> USE DEF choice, serverVars, reportVars, goVars
<1>1. absFin' = absFin
  BY DEF absFin
<1>2. absRefused' = absRefused
  BY DEF absRefused, Lines
<1>3. ASSUME NEW b \in Place, AtTip(b) PROVE AtTip(b)'
  <2>1. EndToCome => EndToCome'
    BY <1>1 DEF EndToCome
  <2> QED
    BY <1>3, <2>1 DEF AtTip
<1>4. absNotices' = absNotices
  BY DEF absNotices
<1> QED
  BY <1>1, <1>2, <1>3, <1>4

\* A caller that leaves or hangs up is no connection that is lost.
LEMMA HangsKeeps ==
  ASSUME conn' = conn \/ Hangs
  PROVE  absLink' = absLink /\ (conn' = "open" => conn = "open")
<1>1. CASE conn' = conn
  BY <1>1 DEF absLink
<1>2. CASE Hangs /\ conn = "open"
  BY <1>2 DEF Hangs, absLink
<1>3. CASE Hangs /\ conn # "open"
  BY <1>3 DEF Hangs, absLink
<1> QED
  BY <1>1, <1>2, <1>3

\* A step of the reader to its next place, with nothing new to deliver.
LEMMA Moves ==
  ASSUME HasFirst, UNCHANGED <<choice, serverVars, got>>, NEW b \in Place, conn = "open" => AtTip(b),
         conn' = "open" => conn = "open",
         Path(server, produced, absFin, wire', Here', b)
  PROVE  ReadInv'
<1>1. HasFirst'
  BY DEF HasFirst, serverVars, reportVars
<1>2. Path(server, produced, absFin, wire, Here, b)'
  BY FarKeeps
<1>3. conn' = "open" => AtTip(b)'
  BY FarKeeps
<1> QED
  BY <1>1, <1>2, <1>3 DEF ReadInv, HasFirst

\* So does a step that delivers the next event.
LEMMA MovesOn ==
  ASSUME TypeInv, TypeInv', HasFirst, outcome = "open", outcome' = "open",
         UNCHANGED <<choice, serverVars>>, conn' = conn,
         Len(got) < Len(produced), got' = Append(got, produced[Len(got) + 1]),
         NEW b \in Place, conn = "open" => AtTip(b),
         Path(server, produced, absFin, wire', Here', b)
  PROVE  PromiseStep
<1>1. /\ got \in Seq(Event) /\ produced \in Seq(Event) /\ Len(got) \in Nat /\ Len(produced) \in Nat
      /\ produced' = produced
  <2>1. got \in Seq(Event) /\ produced \in Seq(Event) /\ produced' = produced
    BY DEF TypeInv, ClientTyped, ServerTyped, RouteTyped, serverVars, reportVars
  <2>2. \A s \in Seq(Event) : Len(s) \in Nat
    OBVIOUS
  <2> QED
    BY <2>1, <2>2
<1>2. Len(got') = Len(got) + 1 /\ (\A i \in 1..Len(got) : got'[i] = got[i])
      /\ got'[Len(got) + 1] = produced[Len(got) + 1]
  BY <1>1
<1>3. HasFirst'
  <2> DEFINE n == Len(got)
             k == Len(produced)
  <2>1. n \in Nat /\ k \in Nat /\ n < k /\ Len(got') = n + 1
    BY <1>1, <1>2
  <2> HIDE DEF n, k
  <2>2. Len(got') <= k
    BY <2>1
  <2>3. ASSUME NEW i \in 1..(n + 1) PROVE got'[i] = produced[i]
    <3>1. CASE i \in 1..n
      BY <1>2, <3>1 DEF HasFirst, n
    <3>2. CASE i = n + 1
      BY <1>2, <3>2 DEF n
    <3> QED
      BY <2>1, <3>1, <3>2
  <2>4. \A i \in 1..Len(got') : got'[i] = produced'[i]
    BY <1>1, <2>1, <2>3
  <2> QED
    BY <1>1, <2>2, <2>4 DEF HasFirst, k
<1>4. ReadInv'
  <2>1. Path(server, produced, absFin, wire, Here, b)'
    BY FarKeeps
  <2>2. conn' = "open" => AtTip(b)'
    BY FarKeeps
  <2> QED
    BY <1>3, <2>1, <2>2 DEF ReadInv, HasFirst
<1>5. Promise!Deliver
  <2>1. absLink' = absLink
    BY HangsKeeps
  <2>2. got # produced
    BY <1>1
  <2> QED
    BY <2>1, <2>2, FarKeeps DEF Promise!Deliver, Promise!AtEnd, Promise!NextEvent
<1> QED
  BY <1>4, <1>5 DEF PromiseStep, Promise!Next, Promise!Reading

\* A caller that is told of the end, or of a failure, reads no more.
LEMMA EndsRight ==
  ASSUME TypeInv, HasFirst, outcome = "open", UNCHANGED <<choice, serverVars, got>>,
         conn' = conn \/ Hangs,
         \/ outcome' = "whole" /\ absFin = "ok" /\ Len(got) = Len(produced)
         \/ outcome' = "failed" /\ absFin = "failed" /\ Len(got) = Len(produced)
         \/ outcome' = "failed" /\ conn = "cut"
         \/ outcome' = "whole" /\ conn = "cut" /\ client = "Python"
         \/ outcome' = "failed" /\ Len(got) < Len(produced) /\ produced[Len(got) + 1] \in absRefused
  PROVE  PromiseStep
<1>1. /\ got \in Seq(Event) /\ produced \in Seq(Event)
      /\ produced' = produced
  BY DEF TypeInv, ClientTyped, ServerTyped, RouteTyped, serverVars, reportVars
<1>2. ReadInv'
  BY DEF ReadInv
<1>3. Len(got) = Len(produced) => got = produced
  BY <1>1 DEF HasFirst
<1>4. Len(got) < Len(produced) => got # produced
  BY <1>1
<1>5. (conn = "cut" => absLink = "lost") /\ (client = "Python" => ~absNotices)
  BY DEF absLink, absNotices
<1>6. Promise!EndWhole \/ Promise!EndFailed
  <2>1. absLink' = absLink
    BY HangsKeeps
  <2> QED
    BY <1>1, <1>3, <1>4, <1>5, <2>1, FarKeeps
       DEF Promise!EndWhole, Promise!EndFailed, Promise!AtEnd, Promise!NextEvent
<1> QED
  BY <1>2, <1>6 DEF PromiseStep, Promise!Next, Promise!Reading

\* What a blank line does, in the words of all six readers.
LEMMA BlankRead ==
  ASSUME GoBlank \/ TSBlank \/ PyBlank \/ DartBlank \/ SwiftBlank \/ (RustFrame /\ outcome = "open")
  PROVE  /\ Reads /\ l = Blank /\ wire' = Tail(wire) /\ Fresh /\ begun' = begun
         /\ UNCHANGED <<choice, serverVars>>
         /\ \/ data = <<>> /\ UNCHANGED <<got, outcome, conn>>
            \/ /\ data # <<>> /\ name # "error" /\ Decodes(data)
               /\ got' = Append(got, data[1][2]) /\ UNCHANGED <<outcome, conn>>
            \/ /\ data # <<>> /\ (name = "error" \/ ~Decodes(data))
               /\ outcome' = "failed" /\ got' = got /\ (conn' = conn \/ Hangs)
<1>1. CASE GoBlank
  BY <1>1 DEF GoBlank
<1>2. CASE TSBlank
  BY <1>2 DEF TSBlank, AtBlank, NoData, Throws, Yields
<1>3. CASE PyBlank
  BY <1>3 DEF PyBlank, AtBlank, NoData, Throws, Yields
<1>4. CASE DartBlank
  BY <1>4 DEF DartBlank, AtBlank, NoData, Throws, Yields
<1>5. CASE SwiftBlank
  BY <1>5 DEF SwiftBlank, AtBlank, NoData, Throws, Yields
<1>6. CASE RustFrame /\ outcome = "open"
  BY <1>6 DEF RustFrame, RustReads, Reads
<1> QED
  BY <1>1, <1>2, <1>3, <1>4, <1>5, <1>6

\* The data of an event decode, to that event.
LEMMA Decoded ==
  ASSUME NEW e \in Event
  PROVE  /\ WholeData(server, e) # <<>> /\ WholeData(server, e)[1][2] = e
         /\ Decodes(WholeData(server, e))
<1>1. [i \in 1..Lines(e) |-> Data(e, i)] = WholeData(server, e)
  <2>1. Lines(e) = LinesFrom(server, e)
    BY DEF Lines, LinesFrom
  <2> QED
    BY <2>1, DataLines
<1>2. WholeData(server, e) # <<>> /\ WholeData(server, e)[1] = Data(e, 1)
  BY DEF WholeData
<1> QED
  BY <1>1, <1>2, LinesDiffer DEF Decodes

\* The reader is at a place.
LEMMA HereIsAPlace ==
  ASSUME TypeInv
  PROVE  /\ Here \in Place
         /\ begun => Here = At("on", name, data, Len(got))
         /\ ~begun => Here = At("new", name, data, Len(got))
<1>1. Len(got) \in Nat
  <2>1. got \in Seq(Event)
    BY DEF TypeInv, ClientTyped
  <2> QED
    BY <2>1
<1>2. name \in {"", "error", "variant"} /\ data \in Seq(Line) /\ begun \in BOOLEAN
  BY DEF TypeInv, ClientTyped
<1> QED
  BY <1>1, <1>2, Places DEF Here

\* The line to be read, the place it leads to, and where the others lead.
LEMMA ReadPlace ==
  ASSUME TypeInv, ReadInv, outcome = "open", wire # <<>>
  PROVE  /\ HasFirst /\ l \in Line
         /\ \E b \in Place, c \in Place :
              /\ Follows(server, produced, absFin, Here, l, c)
              /\ Path(server, produced, absFin, Tail(wire), c, b)
              /\ conn = "open" => AtTip(b)
<1>1. HasFirst
  BY DEF ReadInv, HasFirst
<1>2. PICK b \in Place : Path(server, produced, absFin, wire, Here, b) /\ (conn = "open" => AtTip(b))
  BY DEF ReadInv
<1>3. wire \in Seq(Line)
  BY DEF TypeInv, NetTyped
<1>4. \E c \in Place : /\ Follows(server, produced, absFin, Here, Head(wire), c)
                       /\ Path(server, produced, absFin, Tail(wire), c, b)
  BY <1>2, <1>3, PathAdvances
<1>5. l \in Line
  BY <1>3, LinesTyped DEF l
<1> QED
  BY <1>1, <1>2, <1>4, <1>5 DEF l

\* Fields gather (a line of a frame that is none of its last).
LEMMA FieldRead ==
  ASSUME TypeInv, ReadInv, outcome = "open", begun, wire # <<>>, Field(l), wire' = Tail(wire),
         UNCHANGED <<choice, serverVars, begun, got, outcome, conn>>
  PROVE  PromiseStep
<1>1. PICK b \in Place, c \in Place :
        /\ Follows(server, produced, absFin, Here, l, c)
        /\ Path(server, produced, absFin, Tail(wire), c, b)
        /\ conn = "open" => AtTip(b)
  BY ReadPlace
<1>2. HasFirst /\ l \in Line
  BY ReadPlace
<1>3. Found(server, produced, absFin, name, data, Len(got), l, c)
  BY <1>1, HereIsAPlace, NextPlace
<1>4. c = Here'
  <2>1. Here' = At("on", name', data', Len(got))
    BY DEF Here
  <2>0. /\ l[1] = "comment" => c = At("on", name, data, Len(got))
        /\ l[1] = "name" => c = At("on", l[2], data, Len(got))
        /\ l[1] = "data" => c = At("on", name, data \o <<l>>, Len(got))
    BY <1>3 DEF Found
  <2>2. CASE l[1] = "comment"
    <3>1. name' = name /\ data' = data
      BY <2>2 DEF Field
    <3> QED
      BY <2>0, <2>1, <2>2, <3>1
  <2>3. CASE l[1] = "name"
    <3>1. name' = l[2] /\ data' = data
      BY <2>3 DEF Field
    <3> QED
      BY <2>0, <2>1, <2>3, <3>1
  <2>4. CASE l[1] = "data"
    <3>1. \A d \in Seq(Line), x \in Line : Append(d, x) = d \o <<x>>
      OBVIOUS
    <3>2. data \in Seq(Line)
      BY DEF TypeInv, ClientTyped
    <3>3. name' = name /\ data' = data \o <<l>>
      BY <1>2, <2>4, <3>1, <3>2 DEF Field
    <3> QED
      BY <2>0, <2>1, <2>4, <3>3
  <2> QED
    BY <2>2, <2>3, <2>4 DEF Field
<1>5. ReadInv'
  BY <1>1, <1>2, <1>4, Moves
<1>6. UNCHANGED Promise!vars
  BY FarKeeps, HangsKeeps DEF Promise!vars
<1> QED
  BY <1>5, <1>6 DEF PromiseStep

\* A blank line ends a frame.
LEMMA BlankPromised ==
  ASSUME TypeInv, TypeInv', ReadInv,
         GoBlank \/ TSBlank \/ PyBlank \/ DartBlank \/ SwiftBlank \/ (RustFrame /\ outcome = "open")
  PROVE  PromiseStep
<1>0. /\ Reads /\ l = Blank /\ wire' = Tail(wire) /\ Fresh /\ begun' = begun
      /\ UNCHANGED <<choice, serverVars>>
      /\ \/ data = <<>> /\ UNCHANGED <<got, outcome, conn>>
         \/ /\ data # <<>> /\ name # "error" /\ Decodes(data)
            /\ got' = Append(got, data[1][2]) /\ UNCHANGED <<outcome, conn>>
         \/ /\ data # <<>> /\ (name = "error" \/ ~Decodes(data))
            /\ outcome' = "failed" /\ got' = got /\ (conn' = conn \/ Hangs)
  BY BlankRead
<1>1. PICK b \in Place, c \in Place :
        /\ Follows(server, produced, absFin, Here, l, c)
        /\ Path(server, produced, absFin, Tail(wire), c, b)
        /\ conn = "open" => AtTip(b)
  BY <1>0, ReadPlace DEF Reads
<1>2. HasFirst /\ l \in Line /\ outcome = "open" /\ begun
  BY <1>0, ReadPlace DEF Reads
<1> DEFINE n == Len(got)
           e == produced[n + 1]
<1>3. \/ data = <<>> /\ c = Tip("on", n)
      \/ /\ n < Len(produced) /\ data = WholeData(server, e) /\ c = Tip("on", n + 1)
         /\ name = "error" <=> e \in Reserved
      \/ data = <<Data("error", 1)>> /\ name = "error" /\ absFin = "failed" /\ n = Len(produced)
  <2>1. Found(server, produced, absFin, name, data, n, l, c)
    BY <1>1, <1>2, HereIsAPlace, NextPlace
  <2> HIDE DEF n
  <2>2. l = Blank
    BY <1>0
  <2> QED
    BY <2>1, <2>2 DEF Found
<1>4. Here' = Tip("on", Len(got'))
  BY <1>0, <1>2 DEF Here, Fresh, Tip
<1>5. n \in Nat /\ (n < Len(produced) => e \in Event)
  <2>1. got \in Seq(Event) /\ produced \in Seq(Event)
    BY DEF TypeInv, ClientTyped, ServerTyped, RouteTyped
  <2> QED
    BY <2>1
<1>6. CASE data = <<>> /\ c = Tip("on", n)
  <2>1. UNCHANGED <<got, outcome, conn>>
    BY <1>0, <1>6
  <2>2. Path(server, produced, absFin, wire', Here', b)
    BY <1>0, <1>1, <1>4, <1>6, <2>1
  <2>3. ReadInv'
    BY <1>0, <1>1, <1>2, <2>1, <2>2, Moves
  <2>4. UNCHANGED Promise!vars
    BY <1>0, <2>1, FarKeeps, HangsKeeps DEF Promise!vars
  <2> QED
    BY <2>3, <2>4 DEF PromiseStep
<1>7. CASE /\ n < Len(produced) /\ data = WholeData(server, e) /\ c = Tip("on", n + 1)
           /\ name = "error" <=> e \in Reserved
  <2>1. data # <<>> /\ data[1][2] = e /\ Decodes(data)
    BY <1>5, <1>7, Decoded
  <2>2. CASE name = "error"
    <3>1. outcome' = "failed" /\ got' = got /\ (conn' = conn \/ Hangs)
      BY <1>0, <2>1, <2>2
    <3>2. e \in absRefused
      BY <1>7, <2>2 DEF absRefused
    <3> QED
      BY <1>0, <1>2, <1>7, <3>1, <3>2, EndsRight
  <2>3. CASE name # "error"
    <3>1. got' = Append(got, e) /\ UNCHANGED <<outcome, conn>>
      BY <1>0, <2>1, <2>3
    <3>2. Len(got') = n + 1
      <4>1. got \in Seq(Event) /\ e \in Event
        BY <1>5, <1>7 DEF TypeInv, ClientTyped
      <4> HIDE DEF e
      <4> QED
        BY <3>1, <4>1
    <3>3. Path(server, produced, absFin, wire', Here', b)
      BY <1>0, <1>1, <1>4, <1>7, <3>2
    <3> QED
      BY <1>0, <1>1, <1>2, <1>7, <3>1, <3>3, MovesOn
  <2> QED
    BY <2>2, <2>3
<1>8. CASE data = <<Data("error", 1)>> /\ name = "error" /\ absFin = "failed" /\ n = Len(produced)
  <2>1. data # <<>>
    BY <1>8
  <2>2. outcome' = "failed" /\ got' = got /\ (conn' = conn \/ Hangs)
    BY <1>0, <1>8, <2>1
  <2> QED
    BY <1>0, <1>2, <1>8, <2>2, EndsRight
<1> HIDE DEF e, n
<1> QED
  BY <1>3, <1>6, <1>7, <1>8

\* A frame that grows too long for the Rust stream.
LEMMA TooLongPromised ==
  ASSUME TypeInv, ReadInv, RustTooLong PROVE PromiseStep
<1>0. /\ client = "Rust" /\ outcome = "open" /\ begun /\ wire # <<>>
      /\ Len(data) > 0 /\ (Len(data) > 1 \/ TooLong(data[1]))
      /\ outcome' = "failed" /\ Hangs /\ UNCHANGED <<choice, serverVars, got>>
  BY DEF RustTooLong, RustReads
<1> DEFINE n == Len(got)
           e == produced[n + 1]
<1>1. HasFirst
  BY <1>0, ReadPlace
<1>2. data # <<>> =>
        \/ n < Len(produced) /\ (data = <<Data(e, 1)>> \/ data = WholeData(server, e))
        \/ data = <<Data("error", 1)>>
  <2>1. PICK c \in Place : Follows(server, produced, absFin, Here, l, c)
    BY <1>0, ReadPlace
  <2>2. Found(server, produced, absFin, name, data, n, l, c)
    BY <1>0, <2>1, HereIsAPlace, NextPlace
  <2> HIDE DEF n
  <2> QED
    BY <2>2 DEF Found
<1>3. data # <<>>
  BY <1>0
<1>4. data # <<Data("error", 1)>>
  <2> SUFFICES ASSUME data = <<Data("error", 1)>> PROVE FALSE
    OBVIOUS
  <2>1. Len(data) = 1 /\ data[1] = Data("error", 1)
    OBVIOUS
  <2>2. data[1][2] = "error"
    BY <2>1, LinesDiffer
  <2> QED
    BY <1>0, <2>1, <2>2, StreamAssumption DEF TooLong, StreamAssumption
<1>5. n < Len(produced) /\ e \in absRefused
  <2>1. n < Len(produced) /\ (data = <<Data(e, 1)>> \/ data = WholeData(server, e))
    BY <1>2, <1>3, <1>4
  <2>2. e \in Event
    <3>1. got \in Seq(Event) /\ produced \in Seq(Event)
      BY DEF TypeInv, ClientTyped, ServerTyped, RouteTyped
    <3> QED
      BY <2>1, <3>1
  <2> HIDE DEF e
  <2>3. CASE Len(data) = 1
    <3>1. data[1] = Data(e, 1)
      BY <2>1, <2>3 DEF WholeData
    <3>2. data[1][2] = e
      BY <3>1, LinesDiffer
    <3> QED
      BY <1>0, <2>1, <2>3, <3>2 DEF TooLong, absRefused
  <2>4. CASE Len(data) # 1
    <3>1. LinesFrom(server, e) = 2
      BY <2>1, <2>4 DEF WholeData
    <3>2. Lines(e) > 1 /\ e \in Wide
      BY <3>1 DEF Lines, LinesFrom
    <3> QED
      BY <1>0, <2>1, <3>2 DEF absRefused
  <2> QED
    BY <2>3, <2>4
<1> QED
  BY <1>0, <1>1, <1>5, EndsRight

\* The connection, whatever is on it.
LEMMA ConnectionPromised ==
  ASSUME TypeInv, ReadInv, ConnectionBreaks \/ CallerVanishes \/ WriteTimesOut PROVE PromiseStep
<1>1. UNCHANGED <<choice, serverVars>> /\ UNCHANGED clientVars
  BY DEF ConnectionBreaks, CallerVanishes, WriteTimesOut
<1>2. UNCHANGED <<begun, name, data, got, outcome>> /\ Here' = Here
  BY <1>1 DEF clientVars, Here
<1>3. conn' # "open"
  BY DEF ConnectionBreaks, CallerVanishes, WriteTimesOut, Break
<1>4. ASSUME outcome = "open"
      PROVE  \E b \in Place : Path(server, produced, absFin, wire', Here, b)
  <2>1. PICK b \in Place : Path(server, produced, absFin, wire, Here, b)
    BY <1>4 DEF ReadInv
  <2>2. wire \in Seq(Line)
    BY DEF TypeInv, NetTyped
  <2>3. CASE ConnectionBreaks
    <3>1. PICK k \in 0..Len(wire) : wire' = SubSeq(wire, 1, k)
      BY <2>3 DEF ConnectionBreaks, Break
    <3> QED
      BY <2>1, <2>2, <3>1, PathPrefix
  <2>4. CASE CallerVanishes
    <3>1. wire' = <<>>
      BY <2>4 DEF CallerVanishes
    <3>2. Path(server, produced, absFin, <<>>, Here, Here) /\ Here \in Place
      BY HereIsAPlace, PathEmpty
    <3> QED
      BY <3>1, <3>2
  <2>5. CASE WriteTimesOut
    BY <2>1, <2>5 DEF WriteTimesOut
  <2> QED
    BY <2>3, <2>4, <2>5
<1>5. ReadInv'
  <2>1. CASE outcome # "open"
    BY <1>2, <2>1 DEF ReadInv
  <2>2. CASE outcome = "open"
    <3>1. HasFirst
      BY <2>2 DEF ReadInv, HasFirst
    <3>2. PICK b \in Place : Path(server, produced, absFin, wire', Here, b)
      BY <1>4, <2>2
    <3>3. HasFirst'
      BY <1>1, <1>2, <3>1 DEF HasFirst, serverVars, reportVars
    <3>4. Path(server, produced, absFin, wire, Here, b)'
      BY <1>1, <1>2, <3>2, FarKeeps
    <3> QED
      BY <1>3, <3>3, <3>4 DEF ReadInv, HasFirst
  <2> QED
    BY <2>1, <2>2
<1>6. [Promise!Next]_(Promise!vars)
  <2>1. CASE ConnectionBreaks \/ CallerVanishes
    <3>1. absLink = "up" /\ absLink' \in {"lost", "silent"}
      BY <2>1 DEF ConnectionBreaks, CallerVanishes, Break, absLink
    <3>2. Promise!Break
      BY <1>1, <1>2, <3>1, FarKeeps DEF Promise!Break
    <3> QED
      BY <3>2 DEF Promise!Next
  <2>2. CASE WriteTimesOut
    <3>1. absLink' = absLink
      BY <2>2 DEF WriteTimesOut, absLink
    <3> QED
      BY <1>1, <1>2, <3>1, FarKeeps DEF Promise!vars
  <2> QED
    BY <2>1, <2>2
<1> QED
  BY <1>5, <1>6 DEF PromiseStep

\* The six clients and the network.
LEMMA FarPromised ==
  ASSUME TypeInv, TypeInv', ReadInv,
         ReadStep \/ CallerStep \/ ConnectionBreaks \/ CallerVanishes \/ WriteTimesOut
  PROVE  PromiseStep
<1>0. UNCHANGED <<choice, serverVars>>
  BY FarStep
<1>h. outcome = "open" => HasFirst
  BY DEF ReadInv, HasFirst
\* A client that has stopped reading: nothing it does is told.
<1>s. ASSUME outcome # "open", UNCHANGED <<got, outcome>>, conn' = conn \/ Hangs PROVE PromiseStep
  <2>1. ReadInv'
    BY <1>s DEF ReadInv
  <2>2. UNCHANGED Promise!vars
    BY <1>0, <1>s, FarKeeps, HangsKeeps DEF Promise!vars
  <2> QED
    BY <2>1, <2>2 DEF PromiseStep
<1>1. CASE ReadStatus
  <2>1. outcome = "open" /\ ~begun /\ wire # <<>> /\ wire' = Tail(wire)
        /\ UNCHANGED <<name, data, got>>
    BY <1>1 DEF ReadStatus
  <2>2. PICK b \in Place, c \in Place :
          /\ Follows(server, produced, absFin, Here, l, c)
          /\ Path(server, produced, absFin, Tail(wire), c, b)
          /\ conn = "open" => AtTip(b)
    BY <2>1, ReadPlace
  <2>3. Follows(server, produced, absFin, At("new", name, data, Len(got)), l, c)
    BY <2>1, <2>2, HereIsAPlace
  <2>4. \/ l = Status("ok") /\ c = At("on", name, data, Len(got))
        \/ l = Status("error") /\ absFin = "failed" /\ Len(got) = Len(produced)
    BY <2>3, StatusPlace, Zenon
  <2>5. CASE l = Status("ok") /\ c = At("on", name, data, Len(got))
    <3>1. begun' = TRUE /\ UNCHANGED <<outcome, conn>>
      BY <1>1, <2>5 DEF ReadStatus
    <3>2. Here' = c
      BY <2>1, <2>5, <3>1 DEF Here
    <3>3. ReadInv'
      BY <1>0, <1>h, <2>1, <2>2, <3>1, <3>2, Moves
    <3>4. UNCHANGED Promise!vars
      BY <1>0, <2>1, <3>1, FarKeeps, HangsKeeps DEF Promise!vars
    <3> QED
      BY <3>3, <3>4 DEF PromiseStep
  <2>6. CASE l = Status("error") /\ absFin = "failed" /\ Len(got) = Len(produced)
    <3>1. l # Status("ok")
      <4>1. l[2] = "error"
        BY <2>6, LinesDiffer
      <4> QED
        BY <4>1, LinesDiffer
    <3>2. outcome' = "failed" /\ conn' = conn
      BY <1>1, <3>1 DEF ReadStatus
    <3> QED
      BY <1>0, <1>h, <2>1, <2>6, <3>2, EndsRight
  <2> QED
    BY <2>4, <2>5, <2>6
<1>2. CASE ReadBreaks
  <2>1. /\ outcome = "open" /\ conn = "cut" /\ got' = got /\ conn' = conn
        /\ outcome' = "failed" \/ (client = "Python" /\ outcome' = "whole")
    BY <1>2 DEF ReadBreaks, netVars
  <2> QED
    BY <1>0, <1>h, <2>1, EndsRight
<1>3. CASE ReadField
  <2>1. outcome = "open" /\ begun /\ wire # <<>> /\ wire' = Tail(wire) /\ begun' = begun
    BY <1>3 DEF ReadField, Reads
  <2>2. CASE TooLong(l)
    <3>1. outcome' = "failed" /\ Hangs /\ got' = got
      BY <1>3, <2>2 DEF ReadField, Throws
    <3>2. PICK c \in Place : Follows(server, produced, absFin, Here, l, c)
      BY <2>1, ReadPlace
    <3>3. Found(server, produced, absFin, name, data, Len(got), l, c)
      BY <2>1, <3>2, HereIsAPlace, NextPlace
    <3>4. l[1] = "data" => \/ Len(got) < Len(produced) /\ l[2] = produced[Len(got) + 1]
                           \/ l[2] = "error"
      BY <3>3 DEF Found
    <3>5. l[1] = "data" /\ l[2] \in Long /\ l[2] # "error"
      BY <2>2, StreamAssumption DEF TooLong, StreamAssumption
    <3>6. Len(got) < Len(produced) /\ produced[Len(got) + 1] \in absRefused
      BY <3>4, <3>5 DEF absRefused
    <3> QED
      BY <1>0, <1>h, <2>1, <3>1, <3>6, EndsRight
  <2>3. CASE ~TooLong(l)
    <3>1. Field(l) /\ UNCHANGED <<got, outcome, conn>>
      BY <1>3, <2>3 DEF ReadField
    <3> QED
      BY <1>0, <2>1, <3>1, FieldRead
  <2> QED
    BY <2>2, <2>3
<1>4. CASE GoBlank \/ TSBlank \/ PyBlank \/ DartBlank \/ SwiftBlank \/ (RustFrame /\ outcome = "open")
  BY <1>4, BlankPromised
<1>5. CASE RustFrame /\ outcome # "open"
  <2>1. UNCHANGED <<got, outcome, conn>>
    BY <1>5 DEF RustFrame, RustReads
  <2> QED
    BY <1>5, <1>s, <2>1
<1>6. CASE ReadEnd
  <2>1. outcome = "open" /\ begun /\ wire # <<>> /\ l = End /\ outcome' = "whole"
        /\ got' = got /\ conn' = conn
    BY <1>6 DEF ReadEnd, Reads
  <2>2. PICK c \in Place : Follows(server, produced, absFin, Here, l, c)
    BY <2>1, ReadPlace
  <2>3. Found(server, produced, absFin, name, data, Len(got), l, c)
    BY <2>1, <2>2, HereIsAPlace, NextPlace
  <2>4. l = End => absFin = "ok" /\ Len(got) = Len(produced)
    BY <2>3 DEF Found
  <2> QED
    BY <1>0, <1>h, <2>1, <2>4, EndsRight
<1>7. CASE RustGathers
  <2>1. /\ begun /\ wire # <<>> /\ Field(l) /\ wire' = Tail(wire)
        /\ UNCHANGED <<conn, begun, got, outcome>>
    BY <1>7 DEF RustGathers, RustReads
  <2> QED
    BY <1>0, <1>s, <2>1, FieldRead
<1>8. CASE RustTooLong
  BY <1>8, TooLongPromised
<1>9. CASE Leave
  <2>1. outcome = "open" /\ outcome' = "left" /\ Hangs /\ got' = got
    BY <1>9 DEF Leave
  <2>2. Promise!Leave
    BY <1>0, <2>1, FarKeeps, HangsKeeps DEF Promise!Leave
  <2>3. ReadInv'
    BY <2>1 DEF ReadInv
  <2> QED
    BY <2>2, <2>3 DEF PromiseStep, Promise!Next
<1>10. CASE GoClose \/ RustDrops
  <2>1. outcome = "failed" /\ UNCHANGED <<got, outcome>> /\ conn = "open" /\ conn' = "left"
    BY <1>10 DEF GoClose, RustDrops, clientVars
  <2>2. Hangs
    BY <2>1 DEF Hangs
  <2> QED
    BY <1>s, <2>1, <2>2
<1>11. CASE ConnectionBreaks \/ CallerVanishes \/ WriteTimesOut
  BY <1>11, ConnectionPromised
<1> QED
  BY <1>1, <1>2, <1>3, <1>4, <1>5, <1>6, <1>7, <1>8, <1>9, <1>10, <1>11 DEF ReadStep, CallerStep

-----------------------------------------------------------------------------
(* Where the three servers are.                                            *)

\* The servers' modules name their lines alike.
LEMMA Names ==
  /\ GoServer!Ping = Ping /\ GoServer!ErrorFrame = ErrorFrame /\ GoServer!End = End
  /\ \A c : GoServer!Status(c) = Status(c)
  /\ \A e, n : GoServer!EventFrame(e, n) = EventFrame(e, n)
  /\ \A e : GoServer!Lines(e) = LinesFrom(server, e)
  /\ TSServer!Ping = Ping /\ TSServer!ErrorFrame = ErrorFrame /\ TSServer!End = End
  /\ \A c : TSServer!Status(c) = Status(c)
  /\ \A e, n : TSServer!EventFrame(e, n) = EventFrame(e, n)
  /\ RustServer!Ping = Ping /\ RustServer!ErrorFrame = ErrorFrame /\ RustServer!End = End
  /\ \A c : RustServer!Status(c) = Status(c)
  /\ \A e, n : RustServer!EventFrame(e, n) = EventFrame(e, n)
<1> USE DEF Name, Data, Blank, Comment, Status, End, NameLine, EventFrame, Ping, ErrorFrame
<1>1. /\ GoServer!Ping = Ping /\ GoServer!ErrorFrame = ErrorFrame /\ GoServer!End = End
      /\ \A c : GoServer!Status(c) = Status(c)
  BY DEF GoServer!Ping, GoServer!ErrorFrame, GoServer!End, GoServer!Status, GoServer!Name,
         GoServer!Data, GoServer!Blank, GoServer!Comment
<1>2. \A e, n : GoServer!EventFrame(e, n) = EventFrame(e, n)
  BY DEF GoServer!EventFrame, GoServer!NameLine, GoServer!Name, GoServer!Data, GoServer!Blank
<1>3. /\ TSServer!Ping = Ping /\ TSServer!ErrorFrame = ErrorFrame /\ TSServer!End = End
      /\ \A c : TSServer!Status(c) = Status(c)
  BY DEF TSServer!Ping, TSServer!ErrorFrame, TSServer!End, TSServer!Status, TSServer!Name,
         TSServer!Data, TSServer!Blank, TSServer!Comment
<1>4. \A e, n : TSServer!EventFrame(e, n) = EventFrame(e, n)
  BY DEF TSServer!EventFrame, TSServer!NameLine, TSServer!Name, TSServer!Data, TSServer!Blank
<1>5. /\ RustServer!Ping = Ping /\ RustServer!ErrorFrame = ErrorFrame /\ RustServer!End = End
      /\ \A c : RustServer!Status(c) = Status(c)
  BY DEF RustServer!Ping, RustServer!ErrorFrame, RustServer!End, RustServer!Status,
         RustServer!Name, RustServer!Data, RustServer!Blank, RustServer!Comment
<1>6. \A e, n : RustServer!EventFrame(e, n) = EventFrame(e, n)
  BY DEF RustServer!EventFrame, RustServer!NameLine, RustServer!Name, RustServer!Data,
         RustServer!Blank
<1>7. \A e : GoServer!Lines(e) = LinesFrom(server, e)
  BY DEF GoServer!Lines, LinesFrom
<1> HIDE DEF Name, Data, Blank, Comment, Status, End, NameLine, EventFrame, Ping, ErrorFrame
<1> QED
  BY <1>1, <1>2, <1>3, <1>4, <1>5, <1>6, <1>7

\* A Go route comes back after its handler, whose goroutines have done.
LEMMA GoControls ==
  ASSUME TypeInv, server = "Go", GoControl, GoFrames,
         GoServer!HandlerStep \/ GoServer!RouteStep \/ GoServer!PingStep
  PROVE  GoControl' /\ GoFrames'
<1> USE DEF GoServer!choice, GoServer!clientVars, GoServer!netVars, GoServer!goVars,
           GoServer!reportVars
<1>t. started \in BOOLEAN /\ GoTyped
  BY DEF TypeInv, ServerTyped, RouteTyped
<1>1. ASSUME NEW s \in Sender, NEW e \in Event, GoServer!Send(s, e) PROVE GoControl' /\ GoFrames'
  <2>1. GoControl'
    BY <1>1 DEF GoServer!Send, GoControl
  <2>2. GoFrames'
    BY <1>1, <1>t DEF GoServer!Send, GoFrames, GoTyped
  <2> QED
    BY <2>1, <2>2
<1>2. CASE GoServer!HandlerReturns
  <2>1. GoControl'
    BY <1>2 DEF GoServer!HandlerReturns, GoServer!Fin, GoControl
  <2>2. GoFrames'
    BY <1>2 DEF GoServer!HandlerReturns, GoServer!Quiet, GoFrames
  <2> QED
    BY <2>1, <2>2
<1>3. CASE GoServer!HandlerPanics
  <2>1. GoControl'
    BY <1>3 DEF GoServer!HandlerPanics, GoServer!Fin, GoControl
  <2>2. GoFrames'
    BY <1>3 DEF GoServer!HandlerPanics, GoServer!Quiet, GoFrames
  <2> QED
    BY <2>1, <2>2
<1>4. ASSUME NEW s \in Sender, GoServer!Encode(s) PROVE GoControl' /\ GoFrames'
  <2>1. GoControl'
    BY <1>4 DEF GoServer!Encode, GoControl
  <2>2. route = "serve" /\ route' = "serve"
    BY <1>4 DEF GoServer!Encode, GoFrames
  <2>3. ASSUME NEW r \in Sender, at'[r] = "write"
        PROVE  frame' = EventFrame(what'[r], LinesFrom("Go", what'[r]))
    <3>1. what[s] \notin Unencodable /\ r = s
      <4>1. \A q \in Sender : at[q] # "write"
        BY <1>4, <1>t, StreamAssumption DEF GoServer!Encode, GoTyped, StreamAssumption
      <4>2. /\ at' = [at EXCEPT ![s] = IF what[s] \in Unencodable THEN "idle" ELSE "write"]
            /\ at \in [Sender -> {"idle", "lock", "write"}]
        BY <1>4, <1>t DEF GoServer!Encode, GoTyped
      <4> QED
        BY <2>3, <4>1, <4>2
    <3>2. frame' = EventFrame(what[s], LinesFrom("Go", what[s])) /\ what' = what
      BY <1>4, <3>1, Names DEF GoServer!Encode
    <3> QED
      BY <3>1, <3>2
  <2> QED
    BY <2>1, <2>2, <2>3 DEF GoFrames
<1>5. ASSUME NEW s \in Sender, GoServer!SendWrite(s) PROVE GoControl' /\ GoFrames'
  <2>1. route = "serve" /\ route' = "serve" /\ mu = s /\ mu' = "free"
    BY <1>5, <1>t DEF GoServer!SendWrite, GoFrames, GoTyped
  <2>2. GoControl'
    BY <1>5, <2>1 DEF GoServer!SendWrite, GoControl
  <2>3. \A r \in Sender : at'[r] # "write"
    BY <1>5, <1>t, <2>1 DEF GoServer!SendWrite, GoTyped
  <2> QED
    BY <2>1, <2>2, <2>3 DEF GoFrames
<1>6. CASE GoServer!Stopped
  BY <1>6 DEF GoServer!Stopped, GoControl, GoFrames
<1>7. CASE GoServer!ReportStatus
  BY <1>7 DEF GoServer!ReportStatus, GoControl, GoFrames
<1>8. CASE GoServer!ReportFrame
  BY <1>8 DEF GoServer!ReportFrame, GoControl, GoFrames
<1>9. CASE GoServer!Finish
  BY <1>9 DEF GoServer!Finish, GoControl, GoFrames
<1>10. CASE GoServer!ContextDone
  BY <1>10 DEF GoServer!ContextDone, GoControl, GoFrames
<1>11. CASE GoServer!Tick
  BY <1>11 DEF GoServer!Tick, GoControl, GoFrames
<1>12. CASE GoServer!PingWrite
  BY <1>12 DEF GoServer!PingWrite, GoControl, GoFrames
<1>13. CASE GoServer!HeartbeatEnds
  BY <1>13 DEF GoServer!HeartbeatEnds, GoControl, GoFrames
<1> QED
  BY <1>1, <1>2, <1>3, <1>4, <1>5, <1>6, <1>7, <1>8, <1>9, <1>10, <1>11, <1>12, <1>13
     DEF GoServer!HandlerStep, GoServer!RouteStep, GoServer!PingStep

\* A TypeScript response is reported when its source has failed.
LEMMA TSControls ==
  ASSUME TypeInv, server = "TypeScript", TSControl,
         TSServer!HandlerStep \/ TSServer!RouteStep \/ TSServer!PingStep
  PROVE  TSControl'
<1> USE DEF TSServer!choice, TSServer!clientVars, TSServer!netVars, TSServer!goVars,
           TSServer!reportVars, TSControl
<1>t. started \in BOOLEAN /\ told \in BOOLEAN
  BY DEF TypeInv, ServerTyped, RouteTyped
<1>w. \A x : TSServer!Writes(x) => (ServerSees => ServerSees')
  BY DEF TSServer!Writes, ServerSees
<1>1. ASSUME NEW e \in Event, TSServer!FirstChunk(e) PROVE TSControl'
  <2>1. ServerSees => ServerSees'
    BY <1>1, <1>w DEF TSServer!FirstChunk, TSServer!Chunk
  <2> QED
    BY <1>1, <2>1 DEF TSServer!FirstChunk, TSServer!Chunk, TSServer!Fin
<1>2. ASSUME NEW e \in Event, TSServer!ReadChunk(e) PROVE TSControl'
  <2>1. ServerSees => ServerSees'
    BY <1>2, <1>w DEF TSServer!ReadChunk, TSServer!Chunk
  <2> QED
    BY <1>2, <2>1 DEF TSServer!ReadChunk, TSServer!Chunk, TSServer!Fin
<1>3. CASE TSServer!FirstDone
  BY <1>3, <1>w DEF TSServer!FirstDone
<1>4. CASE TSServer!FirstFails
  BY <1>4, <1>w DEF TSServer!FirstFails
<1>5. CASE TSServer!ReadDone
  BY <1>5, <1>w DEF TSServer!ReadDone
<1>6. CASE TSServer!ReadFails
  BY <1>6 DEF TSServer!ReadFails, TSServer!Fin, ServerSees
<1>7. CASE TSServer!FirstLate
  BY <1>7, <1>w DEF TSServer!FirstLate
<1>8. CASE TSServer!Report
  BY <1>8, <1>w DEF TSServer!Report
<1>9. CASE TSServer!Cancel
  BY <1>9 DEF TSServer!Cancel, TSServer!ServerSees, ServerSees
<1>10. CASE TSServer!SendPing
  BY <1>10, <1>w DEF TSServer!SendPing
<1> QED
  BY <1>1, <1>2, <1>3, <1>4, <1>5, <1>6, <1>7, <1>8, <1>9, <1>10
     DEF TSServer!HandlerStep, TSServer!RouteStep, TSServer!PingStep

\* A Rust response begins with the handler's stream.
LEMMA RustControls ==
  ASSUME TypeInv, server = "Rust", RustControl,
         RustServer!HandlerStep \/ RustServer!RouteStep \/ RustServer!PingStep
  PROVE  RustControl'
<1> USE DEF RustServer!choice, RustServer!clientVars, RustServer!netVars, RustServer!goVars,
           RustServer!reportVars, RustControl
<1>1. CASE RustServer!CallOk
  BY <1>1 DEF RustServer!CallOk
<1>2. CASE RustServer!CallFails
  BY <1>2 DEF RustServer!CallFails
<1>3. ASSUME NEW e \in Event, RustServer!Item(e) PROVE RustControl'
  BY <1>3 DEF RustServer!Item
<1>4. CASE RustServer!FailedItem
  BY <1>4 DEF RustServer!FailedItem
<1>5. CASE RustServer!StreamEnds
  BY <1>5 DEF RustServer!StreamEnds
<1>6. CASE RustServer!Dropped
  BY <1>6 DEF RustServer!Dropped
<1>7. CASE RustServer!SendPing
  BY <1>7 DEF RustServer!SendPing
<1> QED
  BY <1>1, <1>2, <1>3, <1>4, <1>5, <1>6, <1>7
     DEF RustServer!HandlerStep, RustServer!RouteStep, RustServer!PingStep

\* A connection that has ended for the server stays so.
LEMMA ServerSeesEnd ==
  ASSUME ReadStep \/ CallerStep \/ ConnectionBreaks \/ CallerVanishes \/ WriteTimesOut, ServerSees
  PROVE  ServerSees'
<1> USE DEF ServerSees
<1>1. CASE ReadStatus \/ ReadBreaks \/ ReadEnd
  BY <1>1 DEF ReadStatus, ReadBreaks, ReadEnd, netVars
<1>2. CASE ReadField
  BY <1>2 DEF ReadField, Throws, Hangs
<1>3. CASE GoBlank \/ RustGathers \/ RustFrame
  BY <1>3 DEF GoBlank, RustGathers, RustFrame
<1>4. CASE TSBlank \/ PyBlank \/ DartBlank \/ SwiftBlank
  BY <1>4 DEF TSBlank, PyBlank, DartBlank, SwiftBlank, NoData, Yields, Throws, Hangs
<1>5. CASE RustTooLong \/ Leave \/ GoClose \/ RustDrops
  BY <1>5 DEF RustTooLong, Leave, GoClose, RustDrops, Hangs
<1>6. CASE ConnectionBreaks \/ CallerVanishes \/ WriteTimesOut
  BY <1>6 DEF ConnectionBreaks, CallerVanishes, WriteTimesOut
<1> QED
  BY <1>1, <1>2, <1>3, <1>4, <1>5, <1>6 DEF ReadStep, CallerStep

-----------------------------------------------------------------------------
(* The three servers keep the promise.                                     *)

\* A server's step, in the words of the abstract stream.
Says ==
  \/ produced' = produced /\ absFin' = absFin
  \/ produced' = produced /\ absFin = "open" /\ absFin' \in {"ok", "failed"}
  \/ /\ \E e \in Event : produced' = Append(produced, e)
     /\ absFin = "open" /\ absFin' = "open"

\* Where the lines lead that are on the wire while there is more to come.
Last == Tip(IF started THEN "on" ELSE "new", Len(produced))
MoreToCome == route # "over" /\ EndToCome

\* Where they lead with the lines of this step.
NextLast == Tip(IF started' THEN "on" ELSE "new", Len(produced'))
Leads(lines) ==
  \/ Adds(server, produced', absFin', Last, lines, Beyond)
  \/ Adds(server, produced', absFin', Last, lines, NextLast) /\ MoreToCome'

\* What a server has said it does not take back.
LEMMA SaysRight ==
  ASSUME TypeInv, Says
  PROVE  /\ Len(produced) <= Len(produced') /\ \A i \in 1..Len(produced) : produced'[i] = produced[i]
         /\ absFin = "open" \/ (absFin = absFin' /\ produced' = produced)
<1>1. produced \in Seq(Event)
  BY DEF TypeInv, ServerTyped, RouteTyped
<1>2. CASE produced' = produced
  BY <1>1, <1>2 DEF Says
<1>3. ASSUME NEW e \in Event, produced' = Append(produced, e), absFin = "open"
      PROVE  Len(produced) <= Len(produced') /\ \A i \in 1..Len(produced) : produced'[i] = produced[i]
  BY <1>1, <1>3
<1> QED
  BY <1>2, <1>3 DEF Says

\* How a response has come to its end.
LEMMA AbsFinTyped ==
  ASSUME TypeInv PROVE absFin \in {"open", "ok", "failed"}
BY DEF TypeInv, ServerTyped, RouteTyped, absFin

\* What a server says is a step of the abstract stream.
LEMMA PromiseSaid ==
  ASSUME Says, UNCHANGED <<choice, clientVars>>, absLink' = absLink
  PROVE  [Promise!Next]_(Promise!vars)
<1>1. UNCHANGED <<got, outcome, absRefused, absNotices>>
  BY DEF choice, clientVars, absRefused, absNotices, Lines
<1>2. CASE produced' = produced /\ absFin' = absFin
  BY <1>1, <1>2 DEF Promise!vars
<1>3. CASE produced' = produced /\ absFin = "open" /\ absFin' \in {"ok", "failed"}
  <2>1. Promise!Finish
    BY <1>1, <1>3 DEF Promise!Finish
  <2> QED
    BY <2>1 DEF Promise!Next
<1>4. ASSUME NEW e \in Event, produced' = Append(produced, e), absFin = "open", absFin' = "open"
      PROVE  Promise!Next
  <2>1. Promise!Produce(e)
    BY <1>1, <1>4 DEF Promise!Produce
  <2> QED
    BY <2>1 DEF Promise!Next
<1> QED
  BY <1>2, <1>3, <1>4 DEF Says

\* The lines that were on the wire mean what they did.
LEMMA WireStays ==
  ASSUME TypeInv, TypeInv', Says, UNCHANGED <<choice, clientVars>>, NEW b,
         Path(server, produced, absFin, wire, Here, b)
  PROVE  Path(server', produced', absFin', wire, Here', b)
<1>1. /\ Len(produced) <= Len(produced') /\ \A i \in 1..Len(produced) : produced'[i] = produced[i]
      /\ absFin = "open" \/ (absFin = absFin' /\ produced' = produced)
  BY SaysRight
<1>2. produced \in Seq(Event) /\ produced' \in Seq(Event) /\ wire \in Seq(Line)
  BY DEF TypeInv, ServerTyped, RouteTyped, NetTyped
<1>3. absFin \in {"open", "ok", "failed"}
  BY AbsFinTyped
<1>4. Path(server, produced', absFin', wire, Here, b)
  BY <1>1, <1>2, <1>3, PathStays
<1>5. server' = server /\ Here' = Here
  BY DEF choice, clientVars, Here
<1> QED
  BY <1>4, <1>5

\* A server says more and writes it, if it can still be written.
LEMMA Written ==
  ASSUME TypeInv, TypeInv', ReadInv, Says, UNCHANGED <<choice, clientVars>>,
         NEW lines \in Seq(Line),
         wire' = IF conn = "open" THEN wire \o lines ELSE wire,
         conn' = conn \/ (conn = "silent" /\ conn' = "dying"),
         conn = "open" /\ MoreToCome => Leads(lines)
  PROVE  PromiseStep
<1>1. [Promise!Next]_(Promise!vars)
  <2>1. absLink' = absLink
    BY DEF absLink
  <2> QED
    BY <2>1, PromiseSaid
<1>2. ReadInv'
  <2> SUFFICES ASSUME outcome' = "open"
               PROVE  /\ HasFirst'
                      /\ \E b \in Place : /\ Path(server', produced', absFin', wire', Here', b)
                                          /\ conn' = "open" => AtTip(b)'
    BY DEF ReadInv, HasFirst
  <2>0. outcome = "open" /\ got' = got /\ server' = server
    BY DEF clientVars, choice
  <2>1. HasFirst'
    <3>1. Len(got) <= Len(produced) /\ \A i \in 1..Len(got) : got[i] = produced[i]
      BY <2>0 DEF ReadInv
    <3>2. Len(produced) <= Len(produced') /\ \A i \in 1..Len(produced) : produced'[i] = produced[i]
      BY SaysRight
    <3>3. Len(got) \in Nat /\ Len(produced) \in Nat /\ Len(produced') \in Nat
      <4>1. got \in Seq(Event) /\ produced \in Seq(Event) /\ produced' \in Seq(Event)
        BY DEF TypeInv, ClientTyped, ServerTyped, RouteTyped
      <4> QED
        BY <4>1
    <3> QED
      BY <2>0, <3>1, <3>2, <3>3 DEF HasFirst
  <2>2. PICK b \in Place : /\ Path(server, produced, absFin, wire, Here, b)
                           /\ conn = "open" => AtTip(b)
    BY <2>0 DEF ReadInv
  <2>3. Path(server', produced', absFin', wire, Here', b)
    BY <2>2, WireStays
  <2>4. wire \in Seq(Line)
    BY DEF TypeInv, NetTyped
  <2>5. CASE conn # "open"
    <3>1. wire' = wire /\ conn' # "open"
      BY <2>5
    <3> QED
      BY <2>1, <2>2, <2>3, <3>1
  <2>6. CASE conn = "open" /\ b = Beyond
    <3>1. Path(server', produced', absFin', wire', Here', Beyond)
      BY <2>3, <2>4, <2>6, PathBeyond
    <3>2. AtTip(Beyond)'
      BY DEF AtTip
    <3>3. Beyond \in Place
      BY TipsAndLines
    <3> QED
      BY <2>1, <3>1, <3>2, <3>3
  <2>7. CASE conn = "open" /\ b # Beyond
    <3>1. b = Last /\ MoreToCome
      BY <2>2, <2>7 DEF AtTip, Last, MoreToCome
    <3>2. Leads(lines)
      BY <2>7, <3>1
    <3>4. PICK c \in Place : Adds(server, produced', absFin', Last, lines, c) /\ AtTip(c)'
      <4>1. CASE Adds(server, produced', absFin', Last, lines, Beyond)
        <5>1. AtTip(Beyond)' /\ Beyond \in Place
          BY TipsAndLines DEF AtTip, Beyond
        <5>2. PICK c : c = Beyond
          OBVIOUS
        <5>3. AtTip(c)'
          BY <5>2 DEF AtTip, Beyond
        <5> QED
          BY <4>1, <5>1, <5>2, <5>3
      <4>2. CASE Adds(server, produced', absFin', Last, lines, NextLast) /\ MoreToCome'
        <5>1. NextLast \in Place
          <6>1. produced' \in Seq(Event)
            BY DEF TypeInv, ServerTyped, RouteTyped
          <6>2. Len(produced') \in Nat
            BY <6>1
          <6> QED
            BY <6>2, TipsAndLines DEF NextLast
        <5>2. PICK c : c = NextLast
          OBVIOUS
        <5>3. AtTip(c)'
          BY <4>2, <5>2 DEF AtTip, NextLast, MoreToCome
        <5> QED
          BY <4>2, <5>1, <5>2, <5>3
      <4> QED
        BY <3>2, <4>1, <4>2 DEF Leads
    <3>3. Path(server', produced', absFin', wire \o lines, Here', c)
      BY <2>0, <2>3, <2>4, <3>1, <3>4 DEF Adds
    <3> QED
      BY <2>1, <2>7, <3>3, <3>4
  <2> QED
    BY <2>5, <2>6, <2>7
<1> QED
  BY <1>1, <1>2 DEF PromiseStep

\* A server's step that writes nothing.
LEMMA Unwritten ==
  ASSUME TypeInv, TypeInv', ReadInv, Says, UNCHANGED <<choice, clientVars>>, UNCHANGED netVars,
         conn = "open" /\ MoreToCome =>
           MoreToCome' /\ started' = started /\ produced' = produced
  PROVE  PromiseStep
<1>1. <<>> \in Seq(Line) /\ wire' = IF conn = "open" THEN wire \o <<>> ELSE wire
  <2>1. \A w \in Seq(Line) : w \o <<>> = w
    OBVIOUS
  <2>2. wire \in Seq(Line) /\ wire' = wire
    BY DEF TypeInv, NetTyped, netVars
  <2> QED
    BY <2>1, <2>2, LineSequences
<1>2. conn' = conn
  BY DEF netVars
<1>3. ASSUME conn = "open" /\ MoreToCome PROVE Leads(<<>>)
  <2>1. NextLast = Last /\ MoreToCome'
    BY <1>3 DEF Last, NextLast
  <2>2. \A w \in Seq(Line) : w \o <<>> = w
    OBVIOUS
  <2>3. Adds(server, produced', absFin', Last, <<>>, Last)
    BY <2>2 DEF Adds
  <2> QED
    BY <2>1, <2>3 DEF Leads
<1> QED
  BY <1>1, <1>2, <1>3, Written

\* A response of 200 that nothing was written to starts with its status.
LEMMA AddsStarted ==
  ASSUME NEW v, NEW p, NEW f, NEW n \in Nat, NEW x \in Seq(Line), NEW c,
         Adds(v, p, f, Tip("on", n), x, c)
  PROVE  /\ GoServer!Started(x) \in Seq(Line)
         /\ Adds(v, p, f, Tip(IF started THEN "on" ELSE "new", n), GoServer!Started(x), c)
<1>1. CASE started
  BY <1>1 DEF GoServer!Started
<1>2. CASE ~started
  <2>1. GoServer!Started(x) = <<Status("ok")>> \o x
    BY <1>2, Names DEF GoServer!Started
  <2>2. <<Status("ok")>> \in Seq(Line) /\ <<Status("ok")>> \o x \in Seq(Line)
    <3>1. \A y, z \in Seq(Line) : y \o z \in Seq(Line)
      OBVIOUS
    <3> QED
      BY <3>1, LineSequences
  <2>3. Adds(v, p, f, Tip("new", n), <<Status("ok")>> \o x, c)
    BY <2>2, AddsStatus, AddsMore
  <2> QED
    BY <1>2, <2>1, <2>2, <2>3
<1> QED
  BY <1>1, <1>2

\* What a Go route says is what its handler did, once the route has said it.
LEMMA GoPromises ==
  ASSUME TypeInv, TypeInv', ReadInv, server = "Go", GoControl, GoFrames,
         GoServer!HandlerStep \/ GoServer!RouteStep \/ GoServer!PingStep
  PROVE  PromiseStep
<1> USE DEF GoServer!choice, GoServer!clientVars, GoServer!netVars, GoServer!goVars,
           GoServer!reportVars
<1>c. UNCHANGED <<choice, clientVars>>
  BY GoIsFar
<1>v. server' = "Go"
  BY <1>c DEF choice
<1>f. /\ absFin = IF handler = "failed" /\ route \in {"stop", "report"} THEN "open"
                    ELSE IF choked = "error" THEN "ok" ELSE fin
      /\ absFin' = IF handler' = "failed" /\ route' \in {"stop", "report"} THEN "open"
                    ELSE IF choked' = "error" THEN "ok" ELSE fin'
  <2>1. choked = "error" => route \notin {"stop", "report"}
    BY DEF GoControl
  <2>2. choked' = "error" => route' \notin {"stop", "report"}
    BY GoControls DEF GoControl
  <2> QED
    BY <1>v, <2>1, <2>2 DEF absFin
<1>t. /\ produced \in Seq(Event) /\ produced' \in Seq(Event) /\ Len(produced) \in Nat
      /\ started \in BOOLEAN /\ fin \in {"open", "ok", "failed"}
  <2>1. /\ produced \in Seq(Event) /\ produced' \in Seq(Event)
        /\ started \in BOOLEAN /\ fin \in {"open", "ok", "failed"}
    BY DEF TypeInv, ServerTyped, RouteTyped
  <2> QED
    BY <2>1
<1>m. /\ MoreToCome <=> /\ route # "over"
                        /\ \/ fin = "open" \/ route \in {"stop", "report"}
                           \/ route = "finish" /\ absFin = "ok"
      /\ MoreToCome' <=> /\ route' # "over"
                         /\ \/ fin' = "open" \/ route' \in {"stop", "report"}
                            \/ route' = "finish" /\ absFin' = "ok"
  BY <1>v DEF MoreToCome, EndToCome
<1>w. ASSUME NEW lines \in Seq(Line), GoServer!Writes(lines), Says,
             conn = "open" /\ MoreToCome => Leads(lines)
      PROVE  PromiseStep
  <2>1. /\ wire' = IF conn = "open" THEN wire \o lines ELSE wire
        /\ conn' = conn \/ (conn = "silent" /\ conn' = "dying")
    BY <1>w DEF GoServer!Writes
  <2> QED
    BY <1>c, <1>w, <2>1, Written
<1>u. ASSUME UNCHANGED <<conn, wire, handler, route, started, produced, fin, choked>>
      PROVE  PromiseStep
  <2>1. absFin' = absFin
    BY <1>f, <1>u
  <2>2. Says
    BY <1>u, <2>1 DEF Says
  <2>3. MoreToCome => MoreToCome'
    BY <1>m, <1>u, <2>1
  <2>4. UNCHANGED netVars
    BY <1>u DEF netVars
  <2> QED
    BY <1>c, <1>u, <2>2, <2>3, <2>4, Unwritten
<1>1. ASSUME NEW s \in Sender, NEW e \in Event, GoServer!Send(s, e) PROVE PromiseStep
  BY <1>1, <1>u DEF GoServer!Send
<1>2. CASE GoServer!HandlerReturns
  <2>1. /\ fin = "open" /\ choked = "nothing" /\ handler = "running" /\ route = "serve"
        /\ produced' = produced /\ choked' = choked /\ route' = "stop" /\ started' = started
        /\ \/ handler' = "ended" /\ fin' = "ok"
           \/ handler' = "failed" /\ fin' = "failed"
    BY <1>2 DEF GoServer!HandlerReturns, GoServer!Fin, GoControl
  <2>2. absFin = "open" /\ absFin' \in {"open", "ok"}
    BY <1>f, <2>1
  <2>3. Says
    BY <2>1, <2>2 DEF Says
  <2>4. UNCHANGED netVars
    BY <1>2 DEF GoServer!HandlerReturns, netVars
  <2>5. MoreToCome'
    BY <1>m, <2>1
  <2> QED
    BY <1>c, <2>1, <2>3, <2>4, <2>5, Unwritten
<1>3. CASE GoServer!HandlerPanics
  <2>1. /\ fin = "open" /\ choked = "nothing" /\ handler = "running" /\ route = "serve"
        /\ produced' = produced /\ choked' = choked /\ route' = "over"
        /\ handler' = "panicked" /\ fin' = "failed"
    BY <1>3 DEF GoServer!HandlerPanics, GoServer!Fin, GoControl
  <2>2. absFin = "open" /\ absFin' = "failed"
    BY <1>f, <2>1
  <2>3. Says
    BY <2>1, <2>2 DEF Says
  <2>4. /\ conn' # "open" /\ \E k \in 0..Len(wire) : wire' = SubSeq(wire, 1, k)
        /\ absLink' = absLink \/ (absLink = "up" /\ absLink' = "lost")
    <3>1. CASE conn = "open"
      BY <1>3, <3>1 DEF GoServer!HandlerPanics, GoServer!Break, absLink
    <3>2. CASE conn # "open"
      <4>1. conn' = conn /\ wire' = wire
        BY <1>3, <3>2 DEF GoServer!HandlerPanics
      <4>2. Len(wire) \in 0..Len(wire) /\ SubSeq(wire, 1, Len(wire)) = wire
        <5>1. wire \in Seq(Line)
          BY DEF TypeInv, NetTyped
        <5> HIDE DEF Line
        <5> QED
          BY <5>1
      <4> QED
        BY <3>2, <4>1, <4>2 DEF absLink
    <3> QED
      BY <3>1, <3>2
  <2>5. Promise!Finish
    <3>1. UNCHANGED <<got, outcome, absRefused, absNotices>>
      BY <1>c DEF choice, clientVars, absRefused, absNotices, Lines
    <3> QED
      BY <2>1, <2>2, <2>4, <3>1 DEF Promise!Finish
  <2>6. ReadInv'
    <3> SUFFICES ASSUME outcome' = "open"
                 PROVE  /\ HasFirst'
                        /\ \E b \in Place : Path(server', produced', absFin', wire', Here', b)
      BY <2>4 DEF ReadInv, HasFirst
    <3>1. outcome = "open" /\ got' = got
      BY <1>c DEF clientVars
    <3>2. HasFirst'
      BY <2>1, <3>1 DEF ReadInv, HasFirst
    <3>3. PICK b \in Place : Path(server, produced, absFin, wire, Here, b)
      BY <3>1 DEF ReadInv
    <3>4. Path(server', produced', absFin', wire, Here', b)
      BY <1>c, <2>3, <3>3, WireStays
    <3>5. PICK k \in 0..Len(wire) : wire' = SubSeq(wire, 1, k)
      BY <2>4
    <3>6. wire \in Seq(Line)
      BY DEF TypeInv, NetTyped
    <3>7. \E c \in Place : Path(server', produced', absFin', SubSeq(wire, 1, k), Here', c)
      BY <3>4, <3>6, PathPrefix
    <3> QED
      BY <3>2, <3>5, <3>7
  <2> QED
    BY <2>5, <2>6 DEF PromiseStep, Promise!Next
<1>4. ASSUME NEW s \in Sender, GoServer!Encode(s) PROVE PromiseStep
  BY <1>4, <1>u DEF GoServer!Encode
<1>5. ASSUME NEW s \in Sender, GoServer!SendWrite(s) PROVE PromiseStep
  <2> DEFINE e == what[s]
             n == Len(produced)
  <2>1. /\ at[s] = "write" /\ e \in Event /\ frame \in Seq(Line)
        /\ route = "serve" /\ frame = EventFrame(e, LinesFrom("Go", e))
    BY <1>5 DEF GoServer!SendWrite, GoFrames, TypeInv, ServerTyped, GoTyped
  <2>2. /\ fin = "open" /\ choked = "nothing" /\ handler = "running" /\ started' = TRUE
        /\ fin' = fin /\ choked' = choked /\ handler' = handler /\ route' = route
    BY <1>5, <2>1 DEF GoServer!SendWrite, GoControl
  <2>3. absFin = "open" /\ absFin' = "open"
    BY <1>f, <2>1, <2>2
  <2>4. /\ produced' = produced \/ produced' = Append(produced, e)
        /\ conn = "open" => produced' = Append(produced, e)
    BY <1>5, <2>2 DEF GoServer!SendWrite, GoServer!Produces, GoServer!ServerSees
  <2>5. Says
    BY <2>1, <2>3, <2>4 DEF Says
  <2>6. GoServer!Writes(GoServer!Started(frame))
    BY <1>5 DEF GoServer!SendWrite
  <2>7. conn = "open" => Leads(GoServer!Started(frame))
    <3> SUFFICES ASSUME conn = "open" PROVE Leads(GoServer!Started(frame))
      OBVIOUS
    <3>1. produced' = Append(produced, e)
      BY <2>4
    <3>2. Len(produced') = n + 1 /\ produced'[n + 1] = e /\ n \in Nat /\ n < Len(produced')
      BY <1>t, <2>1, <3>1
    <3> HIDE DEF e, n
    <3>3. Len(produced') \in Nat
      BY <3>2
    <3>4. Adds("Go", produced', absFin', Tip("on", n), frame, Tip("on", n + 1))
      BY <2>1, <3>2, <3>3, AddsEvent
    <3>5. Adds("Go", produced', absFin', Tip(IF started THEN "on" ELSE "new", n),
               GoServer!Started(frame), Tip("on", n + 1))
      BY <2>1, <3>2, <3>4, AddsStarted
    <3>6. NextLast = Tip("on", n + 1) /\ Last = Tip(IF started THEN "on" ELSE "new", n)
      BY <2>2, <3>2 DEF NextLast, Last, n
    <3>7. MoreToCome'
      BY <1>m, <2>1, <2>2
    <3> QED
      BY <3>5, <3>6, <3>7 DEF Leads
  <2>8. GoServer!Started(frame) \in Seq(Line)
    <3>1. <<Status("ok")>> \o frame \in Seq(Line)
      <4>1. \A y, z \in Seq(Line) : y \o z \in Seq(Line)
        OBVIOUS
      <4> QED
        BY <2>1, <4>1, LineSequences
    <3> QED
      BY <2>1, <3>1, Names DEF GoServer!Started
  <2> QED
    BY <1>w, <2>5, <2>6, <2>7, <2>8
<1>6. CASE GoServer!Stopped
  <2>1. /\ route = "stop" /\ UNCHANGED <<conn, wire, handler, started, produced, fin, choked>>
        /\ \/ handler = "ended" /\ fin = "ok" /\ choked = "nothing" /\ route' = "finish"
           \/ handler = "failed" /\ fin = "failed" /\ route' = "report"
    BY <1>6 DEF GoServer!Stopped, GoControl
  <2>2. absFin' = absFin /\ (route' = "finish" => absFin' = "ok")
    BY <1>f, <2>1
  <2>3. Says
    BY <2>1, <2>2 DEF Says
  <2>4. MoreToCome'
    BY <1>m, <2>1, <2>2
  <2>5. UNCHANGED netVars
    BY <2>1 DEF netVars
  <2> QED
    BY <1>c, <2>1, <2>3, <2>4, <2>5, Unwritten
<1>7. CASE GoServer!ReportStatus
  <2>1. /\ route = "report" /\ ~started /\ route' = "over" /\ handler = "failed" /\ fin = "failed"
        /\ choked = "nothing" /\ UNCHANGED <<handler, produced, fin, choked>>
        /\ GoServer!Writes(<<Status("error"), End>>)
    BY <1>7, Names DEF GoServer!ReportStatus, GoControl
  <2>2. absFin = "open" /\ absFin' = "failed"
    BY <1>f, <2>1
  <2>3. Says
    BY <2>1, <2>2 DEF Says
  <2>4. Leads(<<Status("error"), End>>)
    <3>1. Adds("Go", produced, absFin', Tip("new", Len(produced)), <<Status("error"), End>>, Beyond)
      BY <1>t, <2>2, AddsRefusal
    <3> QED
      BY <2>1, <3>1 DEF Leads, Last
  <2> QED
    BY <1>w, <2>1, <2>3, <2>4, FramesAreLines
<1>8. CASE GoServer!ReportFrame
  <2>1. /\ route = "report" /\ started /\ route' = "finish" /\ handler = "failed" /\ fin = "failed"
        /\ choked = "nothing" /\ UNCHANGED <<handler, started, produced, fin>>
        /\ \/ GoServer!Writes(ErrorFrame) /\ choked' = choked
           \/ choked' = "error" /\ UNCHANGED <<conn, wire>>
    BY <1>8, Names DEF GoServer!ReportFrame, GoControl
  <2>2. absFin = "open" /\ absFin' = IF choked' = "error" THEN "ok" ELSE "failed"
    BY <1>f, <2>1
  <2>3. Says
    BY <2>1, <2>2 DEF Says
  <2>4. CASE GoServer!Writes(ErrorFrame) /\ choked' = choked
    <3>1. Adds("Go", produced, absFin', Tip("on", Len(produced)), ErrorFrame, Beyond)
      BY <1>t, <2>1, <2>2, <2>4, AddsError
    <3>2. Leads(ErrorFrame)
      BY <2>1, <3>1 DEF Leads, Last
    <3> QED
      BY <1>w, <2>3, <2>4, <3>2, FramesAreLines
  <2>5. CASE choked' = "error" /\ UNCHANGED <<conn, wire>>
    <3>1. MoreToCome' /\ UNCHANGED netVars
      BY <1>m, <2>1, <2>2, <2>5 DEF netVars
    <3> QED
      BY <1>c, <2>1, <2>3, <3>1, Unwritten
  <2> QED
    BY <2>1, <2>4, <2>5
<1>9. CASE GoServer!Finish
  <2>1. /\ route = "finish" /\ route' = "over" /\ fin # "open"
        /\ UNCHANGED <<handler, produced, fin, choked>>
        /\ GoServer!Writes(GoServer!Started(<<End>>))
    BY <1>9, Names DEF GoServer!Finish, GoControl
  <2>2. absFin' = absFin
    BY <1>f, <2>1
  <2>3. Says
    BY <2>1, <2>2 DEF Says
  <2>4. MoreToCome => Leads(GoServer!Started(<<End>>))
    <3> SUFFICES ASSUME MoreToCome PROVE Leads(GoServer!Started(<<End>>))
      OBVIOUS
    <3>1. absFin' = "ok"
      BY <1>m, <2>1, <2>2
    <3>2. Adds("Go", produced, absFin', Tip("on", Len(produced)), <<End>>, Beyond)
      BY <1>t, <3>1, AddsEnd
    <3>3. Adds("Go", produced, absFin', Last, GoServer!Started(<<End>>), Beyond)
      BY <1>t, <3>2, AddsStarted, LineSequences DEF Last
    <3> QED
      BY <2>1, <3>3 DEF Leads
  <2>5. GoServer!Started(<<End>>) \in Seq(Line)
    <3>1. <<Status("ok")>> \o <<End>> \in Seq(Line)
      <4>1. \A y, z \in Seq(Line) : y \o z \in Seq(Line)
        OBVIOUS
      <4> QED
        BY <4>1, LineSequences
    <3> QED
      BY <3>1, Names, LineSequences DEF GoServer!Started
  <2> QED
    BY <1>w, <2>1, <2>3, <2>4, <2>5
<1>10. CASE GoServer!ContextDone
  BY <1>10, <1>u DEF GoServer!ContextDone
<1>11. CASE GoServer!Tick
  BY <1>11, <1>u DEF GoServer!Tick
<1>12. CASE GoServer!PingWrite
  <2>1. /\ UNCHANGED <<handler, route, produced, fin, choked>> /\ started' = TRUE
        /\ GoServer!Writes(GoServer!Started(Ping))
    BY <1>12, Names DEF GoServer!PingWrite
  <2>2. absFin' = absFin
    BY <1>f, <2>1
  <2>3. Says
    BY <2>1, <2>2 DEF Says
  <2>4. MoreToCome => MoreToCome'
    BY <1>m, <2>1, <2>2
  <2>5. Adds("Go", produced, absFin', Tip("on", Len(produced)), Ping, Tip("on", Len(produced)))
    BY <1>t, AddsPing
  <2>6. /\ GoServer!Started(Ping) \in Seq(Line)
        /\ Adds("Go", produced, absFin', Last, GoServer!Started(Ping), Tip("on", Len(produced)))
    BY <1>t, <2>5, AddsStarted, FramesAreLines DEF Last
  <2>7. MoreToCome => Leads(GoServer!Started(Ping))
    BY <2>1, <2>4, <2>6 DEF Leads, NextLast
  <2> QED
    BY <1>w, <2>1, <2>3, <2>6, <2>7
<1>13. CASE GoServer!HeartbeatEnds
  BY <1>13, <1>u DEF GoServer!HeartbeatEnds
<1> QED
  BY <1>1, <1>2, <1>3, <1>4, <1>5, <1>6, <1>7, <1>8, <1>9, <1>10, <1>11, <1>12, <1>13
     DEF GoServer!HandlerStep, GoServer!RouteStep, GoServer!PingStep

\* The frame of an event in one line leads to the place behind it.
LEMMA FrameLeads ==
  ASSUME TypeInv, NEW v, v # "Go", NEW e \in Event, produced' = Append(produced, e), started', NEW f
  PROVE  Adds(v, produced', f, Tip("on", Len(produced)), EventFrame(e, 1), NextLast)
<1> DEFINE n == Len(produced)
<1>1. produced \in Seq(Event)
  BY DEF TypeInv, ServerTyped, RouteTyped
<1>2. /\ Len(produced') = n + 1 /\ produced'[n + 1] = e /\ n \in Nat /\ n < Len(produced')
      /\ Len(produced') \in Nat
  BY <1>1
<1>3. LinesFrom(v, e) = 1
  BY DEF LinesFrom
<1> HIDE DEF n
<1>4. Adds(v, produced', f, Tip("on", n), EventFrame(e, 1), Tip("on", n + 1))
  BY <1>2, <1>3, AddsEvent
<1> QED
  BY <1>2, <1>4 DEF NextLast, n

\* A TypeScript response says what its source did when it did it.
LEMMA TSPromises ==
  ASSUME TypeInv, TypeInv', ReadInv, server = "TypeScript", TSControl, HeartbeatInv,
         TSServer!HandlerStep \/ TSServer!RouteStep \/ TSServer!PingStep
  PROVE  PromiseStep
<1> USE DEF TSServer!choice, TSServer!clientVars, TSServer!netVars, TSServer!goVars,
           TSServer!reportVars
<1>c. UNCHANGED <<choice, clientVars>>
  BY TSIsFar
<1>v. server' = "TypeScript"
  BY <1>c DEF choice
<1>f. absFin = fin /\ absFin' = fin'
  <2>1. choked # "error" /\ choked' # "error"
    BY TSControls DEF TSControl
  <2> QED
    BY <1>v, <2>1 DEF absFin
<1>t. /\ produced \in Seq(Event) /\ produced' \in Seq(Event) /\ Len(produced) \in Nat
      /\ started \in BOOLEAN /\ fin \in {"open", "ok", "failed"}
  <2>1. /\ produced \in Seq(Event) /\ produced' \in Seq(Event)
        /\ started \in BOOLEAN /\ fin \in {"open", "ok", "failed"}
    BY DEF TypeInv, ServerTyped, RouteTyped
  <2> QED
    BY <2>1
<1>m. /\ MoreToCome <=> route # "over" /\ (fin = "open" \/ route = "report")
      /\ MoreToCome' <=> route' # "over" /\ (fin' = "open" \/ route' = "report")
  BY <1>v DEF MoreToCome, EndToCome
<1>w. ASSUME NEW lines \in Seq(Line), TSServer!Writes(lines), Says,
             conn = "open" /\ MoreToCome => Leads(lines)
      PROVE  PromiseStep
  <2>1. /\ wire' = IF conn = "open" THEN wire \o lines ELSE wire
        /\ conn' = conn \/ (conn = "silent" /\ conn' = "dying")
    BY <1>w DEF TSServer!Writes
  <2> QED
    BY <1>c, <1>w, <2>1, Written
<1>o. \A x, y \in Seq(Line) : x \o y \in Seq(Line)
  OBVIOUS
<1>b. <<Status("ok"), End>> = <<Status("ok")>> \o <<End>>
  BY LineSequences
<1>e. ASSUME NEW e \in Event PROVE EventFrame(e, 1) \in Seq(Line)
  <2>1. 1 \in 1..2
    OBVIOUS
  <2> QED
    BY <2>1, FramesAreLines
\* A chunk, behind the status if it is the first.
<1>k. ASSUME NEW e \in Event, NEW before \in Seq(Line), TSServer!Chunk(e, before),
             fin = "open", started',
             conn = "open" =>
               Adds(server, produced', absFin', Last, before, Tip("on", Len(produced)))
      PROVE  PromiseStep
  <2>1. CASE e \in Unencodable
    <3>1. /\ TSServer!Writes(before) /\ fin' = "failed" /\ route' = "report"
          /\ produced' = produced
      BY <1>k, <2>1 DEF TSServer!Chunk, TSServer!Fin
    <3>2. Says
      BY <1>f, <1>k, <3>1 DEF Says
    <3>3. conn = "open" => Leads(before)
      BY <1>k, <1>m, <3>1 DEF Leads, NextLast
    <3> QED
      BY <1>w, <3>1, <3>2, <3>3
  <2>2. CASE e \notin Unencodable
    <3>1. /\ TSServer!Writes(before \o EventFrame(e, 1)) /\ fin' = "open" /\ route' = "read"
          /\ produced' = produced \/ produced' = Append(produced, e)
          /\ conn = "open" => produced' = Append(produced, e)
      BY <1>k, <2>2, Names DEF TSServer!Chunk, TSServer!Produces, TSServer!ServerSees
    <3>2. Says
      BY <1>f, <1>k, <3>1 DEF Says
    <3>3. conn = "open" => Leads(before \o EventFrame(e, 1))
      <4> SUFFICES ASSUME conn = "open" PROVE Leads(before \o EventFrame(e, 1))
        OBVIOUS
      <4>1. Adds(server, produced', absFin', Tip("on", Len(produced)), EventFrame(e, 1), NextLast)
        BY <1>k, <3>1, FrameLeads
      <4>2. Adds(server, produced', absFin', Last, before \o EventFrame(e, 1), NextLast)
        BY <1>e, <1>k, <4>1, AddsMore
      <4> QED
        BY <1>m, <3>1, <4>2 DEF Leads
    <3> QED
      BY <1>e, <1>k, <1>o, <1>w, <3>1, <3>2, <3>3
  <2> QED
    BY <2>1, <2>2
<1>1. ASSUME NEW e \in Event, TSServer!FirstChunk(e) PROVE PromiseStep
  <2>1. fin = "open" /\ ~started /\ started' /\ TSServer!Chunk(e, <<Status("ok")>>)
    BY <1>1, Names DEF TSServer!FirstChunk, TSControl
  <2>2. Adds(server, produced', absFin', Last, <<Status("ok")>>, Tip("on", Len(produced)))
    BY <1>t, <2>1, AddsStatus DEF Last
  <2> QED
    BY <1>k, <2>1, <2>2, LineSequences
<1>2. ASSUME NEW e \in Event, TSServer!ReadChunk(e) PROVE PromiseStep
  <2>1. fin = "open" /\ started /\ started' /\ TSServer!Chunk(e, <<>>)
    BY <1>2 DEF TSServer!ReadChunk, TSControl
  <2>2. Adds(server, produced', absFin', Last, <<>>, Tip("on", Len(produced)))
    <3>1. \A x \in Seq(Line) : x \o <<>> = x
      OBVIOUS
    <3> QED
      BY <2>1, <3>1 DEF Last, Adds
  <2> QED
    BY <1>k, <2>1, <2>2, LineSequences
<1>3. CASE TSServer!FirstDone
  <2>1. /\ fin = "open" /\ ~started /\ fin' = "ok" /\ produced' = produced
        /\ TSServer!Writes(<<Status("ok"), End>>)
    BY <1>3, Names DEF TSServer!FirstDone, TSServer!Fin, TSControl
  <2>2. Says
    BY <1>f, <2>1 DEF Says
  <2>3. Adds(server, produced, absFin', Tip("new", Len(produced)), <<Status("ok"), End>>, Beyond)
    <3>1. Adds(server, produced, absFin', Tip("on", Len(produced)), <<End>>, Beyond)
      BY <1>f, <1>t, <2>1, AddsEnd
    <3>2. Adds(server, produced, absFin', Tip("new", Len(produced)), <<Status("ok")>>,
               Tip("on", Len(produced)))
      BY <1>t, AddsStatus
    <3>3. Adds(server, produced, absFin', Tip("new", Len(produced)), <<Status("ok")>> \o <<End>>,
               Beyond)
      BY <3>1, <3>2, AddsMore, LineSequences
    <3> QED
      BY <1>b, <3>3
  <2>4. Leads(<<Status("ok"), End>>)
    BY <2>1, <2>3 DEF Leads, Last
  <2> QED
    BY <1>w, <2>1, <2>2, <2>4, FramesAreLines
<1>4. CASE TSServer!FirstFails
  <2>1. /\ fin = "open" /\ ~started /\ fin' = "failed" /\ produced' = produced
        /\ TSServer!Writes(<<Status("error"), End>>)
    BY <1>4, Names DEF TSServer!FirstFails, TSServer!Fin, TSControl
  <2>2. Says
    BY <1>f, <2>1 DEF Says
  <2>3. Adds(server, produced, absFin', Tip("new", Len(produced)), <<Status("error"), End>>, Beyond)
    BY <1>f, <1>t, <2>1, AddsRefusal
  <2>4. Leads(<<Status("error"), End>>)
    BY <2>1, <2>3 DEF Leads, Last
  <2> QED
    BY <1>w, <2>1, <2>2, <2>4, FramesAreLines
<1>5. CASE TSServer!ReadDone
  <2>1. TSServer!Writes(<<End>>) /\ produced' = produced /\ route = "read" /\ started /\ fin = "open"
    BY <1>5, Names DEF TSServer!ReadDone, TSControl
  <2>2. fin' = "ok" \/ (fin' = fin /\ conn # "open")
    BY <1>5, <2>1 DEF TSServer!ReadDone, TSServer!Fin, TSControl, ServerSees
  <2>3. Says
    BY <1>f, <2>1, <2>2 DEF Says
  <2>4. conn = "open" => Leads(<<End>>)
    <3> SUFFICES ASSUME conn = "open" PROVE Leads(<<End>>)
      OBVIOUS
    <3>1. Adds(server, produced, absFin', Tip("on", Len(produced)), <<End>>, Beyond)
      BY <1>f, <1>t, <2>2, AddsEnd
    <3> QED
      BY <2>1, <3>1 DEF Leads, Last
  <2> QED
    BY <1>w, <2>1, <2>3, <2>4, LineSequences
<1>6. CASE TSServer!ReadFails
  <2>1. /\ fin = "open" /\ fin' = "failed" /\ route' = "report"
        /\ UNCHANGED <<conn, wire, started, produced>>
    BY <1>6 DEF TSServer!ReadFails, TSServer!Fin, TSControl
  <2>2. Says
    BY <1>f, <2>1 DEF Says
  <2>3. MoreToCome' /\ UNCHANGED netVars
    BY <1>m, <2>1 DEF netVars
  <2> QED
    BY <1>c, <2>1, <2>2, <2>3, Unwritten
<1>7. CASE TSServer!FirstLate
  <2>1. /\ fin = "open" /\ ~started /\ started' = TRUE /\ route' = "read"
        /\ UNCHANGED <<produced, fin>> /\ TSServer!Writes(<<Status("ok")>> \o Ping)
    BY <1>7, Names DEF TSServer!FirstLate, TSControl
  <2>2. Says
    BY <1>f, <2>1 DEF Says
  <2>3. Adds(server, produced, absFin', Tip("new", Len(produced)), <<Status("ok")>> \o Ping,
             Tip("on", Len(produced)))
    BY <1>t, AddsStatus, AddsPing, AddsMore, LineSequences, FramesAreLines
  <2>4. Leads(<<Status("ok")>> \o Ping)
    BY <1>m, <2>1, <2>3 DEF Leads, Last, NextLast
  <2> QED
    BY <1>o, <1>w, <2>1, <2>2, <2>4, LineSequences, FramesAreLines
<1>8. CASE TSServer!Report
  <2>1. /\ route = "report" /\ started /\ fin = "failed" /\ UNCHANGED <<produced, fin>>
        /\ TSServer!Writes(ErrorFrame \o <<End>>)
    BY <1>8, Names DEF TSServer!Report, TSControl
  <2>2. Says
    BY <1>f, <2>1 DEF Says
  <2>3. Adds(server, produced, absFin', Tip("on", Len(produced)), ErrorFrame \o <<End>>, Beyond)
    <3>1. Adds(server, produced, absFin', Tip("on", Len(produced)), ErrorFrame, Beyond)
      BY <1>f, <1>t, <2>1, AddsError
    <3> QED
      BY <3>1, AddsBeyond, AddsMore, FramesAreLines, LineSequences
  <2>4. Leads(ErrorFrame \o <<End>>)
    BY <2>1, <2>3 DEF Leads, Last
  <2> QED
    BY <1>o, <1>w, <2>1, <2>2, <2>4, LineSequences, FramesAreLines
<1>9. CASE TSServer!Cancel
  <2>1. UNCHANGED <<conn, wire, route, started, produced, fin>>
    BY <1>9 DEF TSServer!Cancel
  <2>2. Says /\ UNCHANGED netVars
    BY <1>f, <2>1 DEF Says, netVars
  <2>3. MoreToCome => MoreToCome'
    BY <1>m, <2>1
  <2> QED
    BY <1>c, <2>1, <2>2, <2>3, Unwritten
<1>10. CASE TSServer!SendPing
  <2>1. /\ UNCHANGED <<route, started, produced, fin>> /\ TSServer!Writes(Ping) /\ hb = "wait"
    BY <1>10, Names DEF TSServer!SendPing
  <2>2. Says
    BY <1>f, <2>1 DEF Says
  <2>3. MoreToCome => started /\ MoreToCome'
    BY <1>m, <2>1 DEF HeartbeatInv, TSControl
  <2>4. Adds(server, produced, absFin', Tip("on", Len(produced)), Ping, Tip("on", Len(produced)))
    BY <1>t, AddsPing
  <2>5. MoreToCome => Leads(Ping)
    BY <2>1, <2>3, <2>4 DEF Leads, Last, NextLast
  <2> QED
    BY <1>w, <2>1, <2>2, <2>5, FramesAreLines
<1> QED
  BY <1>1, <1>2, <1>3, <1>4, <1>5, <1>6, <1>7, <1>8, <1>9, <1>10
     DEF TSServer!HandlerStep, TSServer!RouteStep, TSServer!PingStep

\* A Rust response says what its stream did, and its first failure for good.
LEMMA RustPromises ==
  ASSUME TypeInv, TypeInv', ReadInv, server = "Rust", RustControl, HeartbeatInv,
         RustServer!HandlerStep \/ RustServer!RouteStep \/ RustServer!PingStep
  PROVE  PromiseStep
<1> USE DEF RustServer!choice, RustServer!clientVars, RustServer!netVars, RustServer!goVars,
           RustServer!reportVars
<1>c. UNCHANGED <<choice, clientVars>>
  BY RustIsFar
<1>v. server' = "Rust"
  BY <1>c DEF choice
<1>f. absFin = fin /\ absFin' = fin'
  <2>1. choked # "error" /\ choked' # "error"
    BY RustControls DEF RustControl
  <2> QED
    BY <1>v, <2>1 DEF absFin
<1>t. /\ produced \in Seq(Event) /\ produced' \in Seq(Event) /\ Len(produced) \in Nat
      /\ started \in BOOLEAN /\ fin \in {"open", "ok", "failed"}
  <2>1. /\ produced \in Seq(Event) /\ produced' \in Seq(Event)
        /\ started \in BOOLEAN /\ fin \in {"open", "ok", "failed"}
    BY DEF TypeInv, ServerTyped, RouteTyped
  <2> QED
    BY <2>1
<1>m. /\ MoreToCome <=> route # "over" /\ fin = "open"
      /\ MoreToCome' <=> route' # "over" /\ fin' = "open"
  BY <1>v DEF MoreToCome, EndToCome
<1>w. ASSUME NEW lines \in Seq(Line), RustServer!Writes(lines), Says,
             conn = "open" /\ MoreToCome => Leads(lines)
      PROVE  PromiseStep
  <2>1. /\ wire' = IF conn = "open" THEN wire \o lines ELSE wire
        /\ conn' = conn \/ (conn = "silent" /\ conn' = "dying")
    BY <1>w DEF RustServer!Writes
  <2> QED
    BY <1>c, <1>w, <2>1, Written
\* An error frame, for a failed item or one that does not serialize.
<1>e. ASSUME RustServer!Writes(ErrorFrame), RustServer!Fin("failed"), produced' = produced,
             route = "items"
      PROVE  PromiseStep
  <2>1. fin' = (IF fin = "open" THEN "failed" ELSE fin) /\ started
    BY <1>e DEF RustServer!Fin, RustControl
  <2>2. Says
    BY <1>e, <1>f, <2>1 DEF Says
  <2>3. MoreToCome => Leads(ErrorFrame)
    <3> SUFFICES ASSUME MoreToCome PROVE Leads(ErrorFrame)
      OBVIOUS
    <3>1. absFin' = "failed"
      BY <1>f, <1>m, <2>1
    <3>2. Adds(server, produced, absFin', Tip("on", Len(produced)), ErrorFrame, Beyond)
      BY <1>t, <3>1, AddsError
    <3> QED
      BY <1>e, <2>1, <3>2 DEF Leads, Last
  <2> QED
    BY <1>e, <1>w, <2>2, <2>3, FramesAreLines
<1>1. CASE RustServer!CallOk
  <2>1. /\ ~started /\ started' = TRUE /\ route' = "items" /\ fin = "open"
        /\ UNCHANGED <<produced, fin>> /\ RustServer!Writes(<<Status("ok")>>)
    BY <1>1, Names DEF RustServer!CallOk, RustControl
  <2>2. Says
    BY <1>f, <2>1 DEF Says
  <2>3. Adds(server, produced, absFin', Tip("new", Len(produced)), <<Status("ok")>>,
             Tip("on", Len(produced)))
    BY <1>t, AddsStatus
  <2>4. Leads(<<Status("ok")>>)
    BY <1>m, <2>1, <2>3 DEF Leads, Last, NextLast
  <2> QED
    BY <1>w, <2>1, <2>2, <2>4, LineSequences
<1>2. CASE RustServer!CallFails
  <2>1. /\ fin = "open" /\ ~started /\ fin' = "failed" /\ produced' = produced
        /\ RustServer!Writes(<<Status("error"), End>>)
    BY <1>2, Names DEF RustServer!CallFails, RustServer!Fin, RustControl
  <2>2. Says
    BY <1>f, <2>1 DEF Says
  <2>3. Adds(server, produced, absFin', Tip("new", Len(produced)), <<Status("error"), End>>, Beyond)
    BY <1>f, <1>t, <2>1, AddsRefusal
  <2>4. Leads(<<Status("error"), End>>)
    BY <2>1, <2>3 DEF Leads, Last
  <2> QED
    BY <1>w, <2>1, <2>2, <2>4, FramesAreLines
<1>3. ASSUME NEW e \in Event, RustServer!Item(e) PROVE PromiseStep
  <2>1. CASE e \in Unencodable
    BY <1>3, <1>e, <2>1, Names DEF RustServer!Item
  <2>2. CASE e \notin Unencodable
    <3>1. /\ route = "items" /\ started /\ UNCHANGED <<route, started, fin>>
          /\ RustServer!Writes(EventFrame(e, 1))
          /\ produced' = produced \/ (fin = "open" /\ produced' = Append(produced, e))
          /\ fin = "open" /\ conn = "open" => produced' = Append(produced, e)
      BY <1>3, <2>2, Names
         DEF RustServer!Item, RustServer!Produces, RustServer!ServerSees, RustControl
    <3>2. Says
      BY <1>f, <3>1 DEF Says
    <3>3. conn = "open" /\ MoreToCome => Leads(EventFrame(e, 1))
      <4> SUFFICES ASSUME conn = "open", MoreToCome PROVE Leads(EventFrame(e, 1))
        OBVIOUS
      <4>1. Adds(server, produced', absFin', Tip("on", Len(produced)), EventFrame(e, 1), NextLast)
        BY <1>m, <3>1, FrameLeads
      <4> QED
        BY <1>m, <3>1, <4>1 DEF Leads, Last
    <3>4. EventFrame(e, 1) \in Seq(Line)
      <4>1. 1 \in 1..2
        OBVIOUS
      <4> QED
        BY <4>1, FramesAreLines
    <3> QED
      BY <1>w, <3>1, <3>2, <3>3, <3>4
  <2> QED
    BY <2>1, <2>2
<1>4. CASE RustServer!FailedItem
  BY <1>4, <1>e, Names DEF RustServer!FailedItem
<1>5. CASE RustServer!StreamEnds
  <2>1. /\ started /\ fin' = (IF fin = "open" THEN "ok" ELSE fin) /\ produced' = produced
        /\ RustServer!Writes(<<End>>)
    BY <1>5, Names DEF RustServer!StreamEnds, RustServer!Fin, RustControl
  <2>2. Says
    BY <1>f, <2>1 DEF Says
  <2>3. MoreToCome => Leads(<<End>>)
    <3> SUFFICES ASSUME MoreToCome PROVE Leads(<<End>>)
      OBVIOUS
    <3>1. absFin' = "ok"
      BY <1>f, <1>m, <2>1
    <3>2. Adds(server, produced, absFin', Tip("on", Len(produced)), <<End>>, Beyond)
      BY <1>t, <3>1, AddsEnd
    <3> QED
      BY <2>1, <3>2 DEF Leads, Last
  <2> QED
    BY <1>w, <2>1, <2>2, <2>3, LineSequences
<1>6. CASE RustServer!Dropped
  <2>1. conn # "open" /\ UNCHANGED <<conn, wire, produced, fin>>
    BY <1>6 DEF RustServer!Dropped, RustServer!ServerSees
  <2>2. Says /\ UNCHANGED netVars
    BY <1>f, <2>1 DEF Says, netVars
  <2> QED
    BY <1>c, <2>1, <2>2, Unwritten
<1>7. CASE RustServer!SendPing
  <2>1. /\ UNCHANGED <<route, started, produced, fin>> /\ RustServer!Writes(Ping) /\ hb = "wait"
    BY <1>7, Names DEF RustServer!SendPing
  <2>2. Says
    BY <1>f, <2>1 DEF Says
  <2>3. MoreToCome => started /\ MoreToCome'
    BY <1>m, <2>1 DEF HeartbeatInv, RustControl
  <2>4. Adds(server, produced, absFin', Tip("on", Len(produced)), Ping, Tip("on", Len(produced)))
    BY <1>t, AddsPing
  <2>5. MoreToCome => Leads(Ping)
    BY <2>1, <2>3, <2>4 DEF Leads, Last, NextLast
  <2> QED
    BY <1>w, <2>1, <2>2, <2>5, FramesAreLines
<1> QED
  BY <1>1, <1>2, <1>3, <1>4, <1>5, <1>6, <1>7
     DEF RustServer!HandlerStep, RustServer!RouteStep, RustServer!PingStep

\* A step of whoever is at the other end leaves the servers where they are.
LEMMA NextServerInv == TypeInv /\ ServerInv /\ [Next]_vars => ServerInv'
<1> SUFFICES ASSUME TypeInv, ServerInv, [Next]_vars PROVE ServerInv'
  OBVIOUS
<1>1. CASE HandlerStep \/ RouteStep \/ PingStep
  <2>1. UNCHANGED <<choice, clientVars>>
    BY <1>1, GoIsFar, TSIsFar, RustIsFar DEF HandlerStep, RouteStep, PingStep
  <2>2. server' = server
    BY <2>1 DEF choice
  <2>3. CASE server = "Go"
    <3>1. GoServer!HandlerStep \/ GoServer!RouteStep \/ GoServer!PingStep
      BY <1>1, <2>3 DEF HandlerStep, RouteStep, PingStep
    <3>2. GoControl' /\ GoFrames'
      BY <2>3, <3>1, GoControls DEF ServerInv
    <3> QED
      BY <2>2, <2>3, <3>2 DEF ServerInv
  <2>4. CASE server = "TypeScript"
    <3>1. TSServer!HandlerStep \/ TSServer!RouteStep \/ TSServer!PingStep
      BY <1>1, <2>4 DEF HandlerStep, RouteStep, PingStep
    <3>2. TSControl'
      BY <2>4, <3>1, TSControls DEF ServerInv
    <3> QED
      BY <2>2, <2>4, <3>2 DEF ServerInv
  <2>5. CASE server = "Rust"
    <3>1. RustServer!HandlerStep \/ RustServer!RouteStep \/ RustServer!PingStep
      BY <1>1, <2>5 DEF HandlerStep, RouteStep, PingStep
    <3>2. RustControl'
      BY <2>5, <3>1, RustControls DEF ServerInv
    <3> QED
      BY <2>2, <2>5, <3>2 DEF ServerInv
  <2>6. server \in {"Go", "TypeScript", "Rust"}
    BY DEF TypeInv, ClientTyped, Servers
  <2> QED
    BY <2>3, <2>4, <2>5, <2>6
<1>2. ASSUME UNCHANGED <<choice, serverVars>>, ServerSees => ServerSees' PROVE ServerInv'
  <2> USE <1>2 DEF choice, serverVars, goVars, reportVars
  <2>1. GoControl => GoControl'
    BY DEF GoControl
  <2>2. GoFrames => GoFrames'
    BY DEF GoFrames
  <2>3. TSControl => TSControl'
    BY DEF TSControl
  <2>4. RustControl => RustControl'
    BY DEF RustControl
  <2> QED
    BY <2>1, <2>2, <2>3, <2>4 DEF ServerInv
<1>3. CASE ReadStep \/ CallerStep \/ ConnectionBreaks \/ CallerVanishes \/ WriteTimesOut
  BY <1>2, <1>3, FarStep, ServerSeesEnd
<1>4. CASE UNCHANGED vars
  BY <1>2, <1>4 DEF vars, netVars, ServerSees
<1> QED
  BY <1>1, <1>3, <1>4 DEF Next

\* A stream starts with nothing sent, written or read.
LEMMA InitReads == Init => ServerInv /\ ReadInv /\ Promise!Init
<1> SUFFICES ASSUME Init PROVE ServerInv /\ ReadInv /\ Promise!Init
  OBVIOUS
<1>1. server \in {"Go", "TypeScript", "Rust"}
  BY InitTypeInv DEF TypeInv, ClientTyped, Servers
<1>2. ServerInv
  <2>1. server = "Go" => GoControl /\ GoFrames
    BY DEF Init, GoControl, GoFrames
  <2>2. server = "TypeScript" => TSControl
    BY DEF Init, TSControl
  <2>3. server = "Rust" => RustControl
    BY DEF Init, RustControl
  <2> QED
    BY <2>1, <2>2, <2>3 DEF ServerInv
<1>3. Len(got) = 0 /\ Len(produced) = 0 /\ got = <<>> /\ produced = <<>>
  BY DEF Init
<1>4. ReadInv
  <2>1. PICK b : b = Tip("new", 0)
    OBVIOUS
  <2>2. b \in Place /\ Here = b
    BY <2>1, <1>3, TipsAndLines DEF Here, Tip, Init
  <2>3. Path(server, produced, absFin, wire, Here, b)
    BY <2>2, PathEmpty DEF Init
  <2>4. AtTip(b)
    <3>1. route # "over" /\ ~started /\ fin = "open"
      BY <1>1 DEF Init
    <3> QED
      BY <1>3, <2>1, <3>1 DEF AtTip, EndToCome
  <2> QED
    BY <1>3, <2>2, <2>3, <2>4 DEF ReadInv
<1>5. Promise!Init
  <2>1. absFin = "open" /\ absLink = "up"
    BY DEF Init, absFin, absLink
  <2>2. absRefused \in SUBSET Event
    BY StreamAssumption DEF StreamAssumption, absRefused
  <2>3. absNotices \in BOOLEAN
    BY DEF absNotices
  <2> QED
    BY <1>3, <2>1, <2>2, <2>3 DEF Promise!Init, Init
<1> QED
  BY <1>2, <1>4, <1>5

\* Every step keeps what the lines on the wire lead to, and is one of the abstract stream.
LEMMA NextPromised ==
  TypeInv /\ HeartbeatInv /\ ServerInv /\ ReadInv /\ [Next]_vars =>
    ReadInv' /\ [Promise!Next]_(Promise!vars)
<1> SUFFICES ASSUME TypeInv, HeartbeatInv, ServerInv, ReadInv, [Next]_vars PROVE PromiseStep
  BY DEF PromiseStep
<1>t. TypeInv'
  BY NextTypeInv
<1>1. CASE HandlerStep \/ RouteStep \/ PingStep
  <2>1. CASE server = "Go"
    BY <1>1, <1>t, <2>1, GoPromises DEF HandlerStep, RouteStep, PingStep, ServerInv
  <2>2. CASE server = "TypeScript"
    BY <1>1, <1>t, <2>2, TSPromises DEF HandlerStep, RouteStep, PingStep, ServerInv
  <2>3. CASE server = "Rust"
    BY <1>1, <1>t, <2>3, RustPromises DEF HandlerStep, RouteStep, PingStep, ServerInv
  <2>4. server \in {"Go", "TypeScript", "Rust"}
    BY DEF TypeInv, ClientTyped, Servers
  <2> QED
    BY <2>1, <2>2, <2>3, <2>4
<1>2. CASE ReadStep \/ CallerStep \/ ConnectionBreaks \/ CallerVanishes \/ WriteTimesOut
  BY <1>2, <1>t, FarPromised
<1>3. CASE UNCHANGED vars
  <2>1. UNCHANGED <<choice, netVars, serverVars, clientVars>>
    BY <1>3 DEF vars
  <2>2. Says
    BY <2>1, FarKeeps DEF Says
  <2>3. MoreToCome => MoreToCome' /\ started' = started /\ produced' = produced
    BY <2>1, FarKeeps DEF MoreToCome, EndToCome, serverVars, reportVars, choice
  <2> QED
    BY <1>t, <2>1, <2>2, <2>3, Unwritten
<1> QED
  BY <1>1, <1>2, <1>3 DEF Next

\* Every pair of a server and a client keeps what a stream promises (sse.go,
\* sse_response.ts, sse.rs and the readers of the six clients): a caller gets
\* the events once and in the order in which they were sent, is told of an end
\* only when the handler has ended and nothing is missing, and of a failure
\* only after all that came before it, unless the connection is lost or the
\* next event is one it refuses.  To a caller in Python a lost connection may be
\* an end as well.  That a caller gets there is left to TLC.
THEOREM KeepsPromiseAlways == Spec => Promise!Spec
<1>1. Init => TypeInv /\ ServerInv /\ ReadInv /\ Promise!Init
  BY InitTypeInv, InitReads
<1>2. /\ TypeInv /\ HeartbeatInv /\ ServerInv /\ ReadInv /\ [Next]_vars =>
           TypeInv' /\ ServerInv' /\ ReadInv' /\ [Promise!Next]_(Promise!vars)
  BY NextTypeInv, NextServerInv, NextPromised
<1>3. Spec => []HeartbeatInv
  BY HeartbeatInvariant
<1> QED
  BY <1>1, <1>2, <1>3, PTL DEF Spec, Promise!Spec
=============================================================================

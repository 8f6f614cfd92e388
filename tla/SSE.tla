--------------------------------- MODULE SSE ---------------------------------
(***************************************************************************)
(* An event stream from any of the three servers to any of the six         *)
(* clients, which the initial state chooses.                               *)
(*                                                                         *)
(* First the callers' ends: EventStream.Next of the generated Go client    *)
(* (internal/gengo/runtime/sse_client.go.tmpl), the generators of          *)
(* TypeScript, Python, Dart and Swift, and the Rust stream.                *)
(***************************************************************************)
EXTENDS SSEStream

l == Head(wire)
Reads == outcome = "open" /\ begun /\ wire # <<>>

\* Whoever stops reading closes the connection.
Hangs == conn' = IF conn = "open" THEN "left" ELSE conn

Throws == outcome' = "failed" /\ Hangs /\ UNCHANGED got

\* The lines of one whole event decode.
Decodes(lines) ==
  \E e \in Event : lines = [i \in 1..Lines(e) |-> Data(e, i)]

Yields(lines) ==
  IF Decodes(lines) THEN got' = Append(got, lines[1][2]) /\ UNCHANGED <<outcome, conn>> ELSE Throws

TooLong(line) == line[1] = "data" /\ line[2] \in Long

\* The status: an error is read like any other response.
ReadStatus ==
  /\ outcome = "open" /\ ~begun /\ wire # <<>> /\ l[1] = "status"
  /\ wire' = Tail(wire)
  /\ IF l = Status("ok") THEN begun' = TRUE /\ UNCHANGED <<outcome, conn>>
                         ELSE outcome' = "failed" /\ UNCHANGED <<begun, conn>>
  /\ UNCHANGED <<choice, serverVars, name, data, got>>

\* The transport reports a connection that broke: Python's does where it broke
\* within a chunk of the body, while between two chunks readline returns what it
\* returns at an end, and the generator is done.
ReadBreaks ==
  /\ outcome = "open" /\ conn = "cut" /\ wire = <<>>
  /\ outcome' = "failed" \/ (client = "Python" /\ begun /\ outcome' = "whole")
  /\ UNCHANGED <<choice, netVars, serverVars, begun, name, data, got>>

\* The caller leaves the loop, cancels or closes.
Leave ==
  /\ outcome = "open" /\ outcome' = "left" /\ Hangs
  /\ UNCHANGED <<choice, wire, serverVars, begun, name, data, got>>

-----------------------------------------------------------------------------
(* Readers of lines.                                                       *)

Field(line) ==
  /\ line[1] \in {"comment", "name", "data"}
  /\ name' = IF line[1] = "name" THEN line[2] ELSE name
  /\ data' = IF line[1] = "data" THEN Append(data, line) ELSE data

Fresh == name' = "" /\ data' = <<>>

ReadField ==
  /\ Reads /\ client # "Rust" /\ wire' = Tail(wire)
  /\ IF TooLong(l) THEN Throws /\ UNCHANGED <<name, data>>
                   ELSE Field(l) /\ UNCHANGED <<got, outcome, conn>>
  /\ UNCHANGED <<choice, serverVars, begun>>

\* Next returns an event, or false with Err set: the body stays open until the
\* application closes it.
GoBlank ==
  /\ client = "Go" /\ Reads /\ l = Blank /\ wire' = Tail(wire) /\ Fresh
  /\ \/ data = <<>> /\ UNCHANGED <<got, outcome>>
     \/ data # <<>> /\ name # "error" /\ Decodes(data)
        /\ got' = Append(got, data[1][2]) /\ UNCHANGED outcome
     \/ data # <<>> /\ (name = "error" \/ ~Decodes(data))
        /\ outcome' = "failed" /\ UNCHANGED got
  /\ UNCHANGED <<choice, conn, serverVars, begun>>

GoClose ==
  /\ client = "Go" /\ outcome = "failed" /\ conn = "open" /\ conn' = "left"
  /\ UNCHANGED <<choice, wire, serverVars, clientVars>>

AtBlank(language) ==
  /\ client = language /\ Reads /\ l = Blank /\ wire' = Tail(wire) /\ Fresh
  /\ UNCHANGED <<choice, serverVars, begun>>

NoData == data = <<>> /\ UNCHANGED <<got, outcome, conn>>

TSBlank ==
  /\ AtBlank("TypeScript")
  /\ NoData \/ (data # <<>> /\ IF name = "error" THEN Throws ELSE Yields(data))

\* These parse the payload before they look at the name.
PyBlank ==
  /\ AtBlank("Python")
  /\ IF data = <<>> THEN NoData ELSE IF name = "error" THEN Throws ELSE Yields(data)

DartBlank ==
  /\ AtBlank("Dart")
  /\ NoData \/ (data # <<>> /\ name = "error" /\ Throws) \/ (data # <<>> /\ name # "error" /\ Yields(data))

SwiftBlank ==
  /\ AtBlank("Swift")
  /\ \/ NoData
     \/ data # <<>> /\ (IF name = "error" THEN Throws ELSE Yields(data))

\* The end of the body.  What Dart and Swift still pass on here, a frame
\* without its blank line, is none that a server writes.
ReadEnd ==
  /\ Reads /\ l = End /\ wire' = Tail(wire)
  /\ outcome' = "whole"
  /\ UNCHANGED <<choice, conn, serverVars, begun, name, data, got>>

-----------------------------------------------------------------------------
(* The Rust stream yields a failure as an item and reads on, while its     *)
(* caller does; what it yields then is not counted.                        *)

RustReads == client = "Rust" /\ outcome \in {"open", "failed"} /\ begun /\ wire # <<>>

\* Lines gather until sse_frame_end finds the blank one.
RustGathers ==
  /\ RustReads /\ l \notin {Blank, End} /\ Field(l)
  /\ wire' = Tail(wire)
  /\ UNCHANGED <<choice, conn, serverVars, begun, got, outcome>>

\* A chunk of the body ends here, and what has gathered exceeds the limit on
\* frames, which is that on lines elsewhere.
RustTooLong ==
  /\ RustReads /\ outcome = "open" /\ Len(data) > 0
  /\ Len(data) > 1 \/ TooLong(data[1])
  /\ outcome' = "failed" /\ Hangs
  /\ UNCHANGED <<choice, wire, serverVars, begun, name, data, got>>

RustFrame ==
  /\ RustReads /\ l = Blank /\ wire' = Tail(wire) /\ Fresh
  /\ \/ (data = <<>> \/ outcome = "failed") /\ UNCHANGED <<got, outcome>>
     \/ /\ data # <<>> /\ outcome = "open"
        /\ IF name # "error" /\ Decodes(data)
             THEN got' = Append(got, data[1][2]) /\ UNCHANGED outcome
             ELSE outcome' = "failed" /\ UNCHANGED got
  /\ UNCHANGED <<choice, conn, serverVars, begun>>

\* The caller drops the stream after a failure.
RustDrops ==
  /\ client = "Rust" /\ outcome = "failed" /\ conn = "open" /\ conn' = "left"
  /\ UNCHANGED <<choice, wire, serverVars, clientVars>>

ReadStep ==
  \/ ReadStatus \/ ReadBreaks \/ ReadField \/ GoBlank \/ TSBlank \/ PyBlank \/ DartBlank
  \/ SwiftBlank \/ ReadEnd \/ RustGathers \/ RustTooLong \/ RustFrame

CallerStep == Leave \/ GoClose \/ RustDrops

-----------------------------------------------------------------------------
(* A server and a client.                                                  *)

GoServer == INSTANCE GoSSEServer
TSServer == INSTANCE TSSSEServer
RustServer == INSTANCE RustSSEServer

HandlerStep ==
  \/ server = "Go" /\ GoServer!HandlerStep
  \/ server = "TypeScript" /\ TSServer!HandlerStep
  \/ server = "Rust" /\ RustServer!HandlerStep

RouteStep ==
  \/ server = "Go" /\ GoServer!RouteStep
  \/ server = "TypeScript" /\ TSServer!RouteStep
  \/ server = "Rust" /\ RustServer!RouteStep

PingStep ==
  \/ server = "Go" /\ GoServer!PingStep
  \/ server = "TypeScript" /\ TSServer!PingStep
  \/ server = "Rust" /\ RustServer!PingStep

Next ==
  \/ HandlerStep \/ RouteStep \/ PingStep \/ ReadStep \/ CallerStep
  \/ ConnectionBreaks \/ CallerVanishes \/ WriteTimesOut

Spec == Init /\ [][Next]_vars

\* What the servers and their schedulers do by themselves: a response goes on,
\* a heartbeat ticks, a write to a host that has gone times out, an HTTP
\* library tells its server of a connection that ended.  A caller that has not
\* left reads on, and closes what has failed.  No handler sends, returns or
\* looks at its context.
FairSpec ==
  /\ Spec
  /\ WF_vars(RouteStep) /\ WF_vars(PingStep) /\ WF_vars(WriteTimesOut)
  /\ WF_vars(ReadStep) /\ WF_vars(GoClose) /\ WF_vars(RustDrops)

-----------------------------------------------------------------------------
(* Properties.                                                             *)

\* The heartbeat is gone when the route is, however it came to an end: it must
\* not write a response that is over (stopHeartbeat, clearInterval).  A Go
\* handler that panics takes the connection along instead.
PingsEndWithRoute == route = "over" /\ handler # "panicked" => hb = "off"

\* A handler learns that nobody listens any more, also when it sends nothing
\* and its caller's host is gone, which only a ping can find out (README, the
\* ": ping" comments).  Not told are the source of a TypeScript stream whose
\* event does not encode (sse_response.ts cancels no reader in its catch), and
\* a Rust handler that has not returned its stream: no ping is sent before.
HandlerReleased ==
  (route = "over" \/ conn # "open") ~>
    \/ handler # "running" \/ told
    \/ server = "TypeScript" /\ choked = "event"
    \/ server = "Rust" /\ route = "call" /\ ~ServerSees

\* The abstract stream.  A Go handler's failure counts once the route has said
\* it, and not when its declared error does not encode: then the stream ends
\* as if nothing had happened (sse.go:66 drops that error).
absFin ==
  CASE server = "Go" /\ handler = "failed" /\ route \in {"stop", "report"} -> "open"
    [] choked = "error" -> "ok"
    [] OTHER -> fin

absLink ==
  CASE conn = "cut" -> "lost"
    [] conn \in {"silent", "dying", "dead"} -> "silent"
    [] OTHER -> "up"

\* A frame named "error" is a failure to every client (README: reserved), a
\* line over the limit is refused, and so is, in Rust, a frame.
absRefused ==
  Reserved \cup Long \cup {e \in Wide : client = "Rust" /\ Lines(e) > 1}

absNotices == client # "Python"

Promise == INSTANCE EventStream WITH
  fin <- absFin, link <- absLink, received <- got, refused <- absRefused,
  notices <- absNotices

\* Every event once and in order, a clean end only where the handler ended
\* with nothing missing, a failure after all that came before it, and an end
\* for every stream that has one.  A caller in Python cannot rely on a clean
\* end: a connection that is lost may look like one to it, and take events
\* along (genpy/client.go, "if not raw_line: break").
KeepsPromise == Promise!FairSpec
=============================================================================

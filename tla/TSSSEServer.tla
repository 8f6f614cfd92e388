----------------------------- MODULE TSSSEServer -----------------------------
(***************************************************************************)
(* sseResponse of the generated TypeScript server                          *)
(* (internal/gents/runtime/sse_response.ts).  The handler is the stream it *)
(* returns, of which the response reads one chunk at a time; one event     *)
(* loop, so a step is what runs between two awaits.                        *)
(***************************************************************************)
EXTENDS SSEStream

\* A chunk: its frame, or the catch that an encode which throws ends in.
Chunk(e, before) ==
  /\ budget > 0 /\ budget' = budget - 1
  /\ IF e \in Unencodable
       THEN /\ Writes(before) /\ choked' = "event" /\ Fin("failed") /\ route' = "report"
            /\ UNCHANGED produced
       ELSE /\ Writes(before \o EventFrame(e, 1)) /\ Produces(e) /\ route' = "read"
            /\ UNCHANGED <<choked, fin>>

Running == handler = "running" /\ ~told

\* The first chunk decides the status: nothing was sent when it fails.
FirstChunk(e) ==
  /\ route = "first" /\ Running
  /\ Chunk(e, <<Status("ok")>>) /\ started' = TRUE /\ hb' = "wait"
  /\ UNCHANGED <<choice, handler, told, goVars, pings, clientVars>>

FirstDone ==
  /\ route = "first" /\ Running
  /\ handler' = "ended" /\ Fin("ok")
  /\ Writes(<<Status("ok"), End>>) /\ started' = TRUE /\ route' = "over"
  /\ UNCHANGED <<choice, told, hb, goVars, budget, pings, produced, choked, clientVars>>

FirstFails ==
  /\ route = "first" /\ Running
  /\ handler' = "failed" /\ Fin("failed")
  /\ Writes(<<Status("error"), End>>) /\ route' = "over"
  /\ UNCHANGED <<choice, told, started, hb, goVars, budget, pings, produced, choked, clientVars>>

\* It is late: the response starts with a ping.
FirstLate ==
  /\ route = "first"
  /\ Writes(<<Status("ok")>> \o Ping) /\ started' = TRUE
  /\ hb' = "wait" /\ route' = "read"
  /\ UNCHANGED <<choice, handler, told, goVars, budget, pings, reportVars, clientVars>>

ReadChunk(e) ==
  /\ route = "read" /\ Running /\ Chunk(e, <<>>)
  /\ UNCHANGED <<choice, handler, told, started, hb, goVars, pings, clientVars>>

\* No more chunks, or the reader was cancelled: controller.close.
ReadDone ==
  /\ route = "read"
  /\ \/ Running /\ handler' = "ended" /\ Fin("ok")
     \/ told /\ UNCHANGED <<handler, fin>>
  /\ hb' = "off" /\ Writes(<<End>>) /\ route' = "over"
  /\ UNCHANGED <<choice, told, started, goVars, budget, pings, produced, choked, clientVars>>

ReadFails ==
  /\ route = "read" /\ Running
  /\ handler' = "failed" /\ Fin("failed") /\ route' = "report"
  /\ UNCHANGED <<choice, netVars, told, started, hb, goVars, budget, pings, produced, choked,
                 clientVars>>

Bug_ReportsNothing ==
  /\ route = "report"
  /\ Writes(<<End>>) /\ hb' = "off" /\ route' = "over"
  /\ UNCHANGED <<choice, handler, told, started, goVars, budget, pings, reportVars, clientVars>>

\* catch, after midStreamErrorBody, and finally.
Report ==
  /\ route = "report"
  /\ Writes(ErrorFrame \o <<End>>) /\ hb' = "off" /\ route' = "over"
  /\ UNCHANGED <<choice, handler, told, started, goVars, budget, pings, reportVars, clientVars>>

SendPing ==
  /\ hb = "wait" /\ MayPing
  /\ Writes(Ping) /\ CountPing
  /\ UNCHANGED <<choice, handler, told, route, started, hb, goVars, budget, reportVars, clientVars>>

Bug_CancelKeepsReader ==
  /\ ServerSees /\ ~told /\ route \in {"read", "report"}
  /\ hb' = "off" /\ route' = "over"
  /\ UNCHANGED <<choice, netVars, handler, told, started, goVars, budget, pings, reportVars,
                 clientVars>>

\* cancel, by whoever consumes the response.
Cancel ==
  /\ ServerSees /\ ~told /\ route \in {"read", "report"}
  /\ told' = TRUE /\ hb' = "off"
  /\ UNCHANGED <<choice, netVars, handler, route, started, goVars, budget, pings, reportVars,
                 clientVars>>

HandlerStep ==
  \/ \E e \in Event : FirstChunk(e) \/ ReadChunk(e)
  \/ FirstDone \/ FirstFails \/ (Running /\ ReadDone) \/ ReadFails

RouteStep == FirstLate \/ (told /\ ReadDone) \/ Report \/ Cancel
PingStep == SendPing
=============================================================================

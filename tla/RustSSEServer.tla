---------------------------- MODULE RustSSEServer ----------------------------
(***************************************************************************)
(* The route of a streaming method in the generated Rust server            *)
(* (internal/genrust/server.go, runtime/server_stream_errors.rs): items of *)
(* the handler's stream become frames one by one, failures too, and axum   *)
(* adds the keep-alive comments.                                           *)
(***************************************************************************)
EXTENDS SSEStream

\* The handler's future, before there is a stream.
CallOk ==
  /\ route = "call"
  /\ Writes(<<Status("ok")>>) /\ started' = TRUE
  /\ route' = "items" /\ hb' = "wait"
  /\ UNCHANGED <<choice, handler, told, goVars, budget, pings, reportVars, clientVars>>

CallFails ==
  /\ route = "call"
  /\ handler' = "failed" /\ Fin("failed")
  /\ Writes(<<Status("error"), End>>) /\ route' = "over"
  /\ UNCHANGED <<choice, told, started, hb, goVars, budget, pings, produced, choked, clientVars>>

\* An item: its frame, or an error frame if it does not serialize.
Item(e) ==
  /\ route = "items" /\ budget > 0 /\ budget' = budget - 1
  /\ IF e \in Unencodable
       THEN Writes(ErrorFrame) /\ choked' = "event" /\ Fin("failed") /\ UNCHANGED produced
       ELSE Writes(EventFrame(e, 1)) /\ Produces(e) /\ UNCHANGED <<choked, fin>>
  /\ UNCHANGED <<choice, handler, told, route, started, hb, goVars, pings, clientVars>>

\* A failed item; the stream goes on after it.
FailedItem ==
  /\ route = "items" /\ budget > 0 /\ budget' = budget - 1
  /\ Writes(ErrorFrame) /\ Fin("failed")
  /\ UNCHANGED <<choice, handler, told, route, started, hb, goVars, pings, produced, choked,
                 clientVars>>

StreamEnds ==
  /\ route = "items"
  /\ handler' = "ended" /\ Fin("ok")
  /\ Writes(<<End>>) /\ hb' = "off" /\ route' = "over"
  /\ UNCHANGED <<choice, told, started, goVars, budget, pings, produced, choked, clientVars>>

SendPing ==
  /\ hb = "wait" /\ MayPing
  /\ Writes(Ping) /\ CountPing
  /\ UNCHANGED <<choice, handler, told, route, started, hb, goVars, budget, reportVars, clientVars>>

\* axum drops the response, or the future that was to make it.
Dropped ==
  /\ ServerSees /\ route \in {"call", "items"}
  /\ told' = TRUE /\ hb' = "off" /\ route' = "over"
  /\ UNCHANGED <<choice, netVars, handler, started, goVars, budget, pings, reportVars, clientVars>>

HandlerStep == CallOk \/ CallFails \/ (\E e \in Event : Item(e)) \/ FailedItem \/ StreamEnds
RouteStep == Dropped
PingStep == SendPing
=============================================================================

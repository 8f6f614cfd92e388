----------------------------- MODULE GoSSEServer -----------------------------
(***************************************************************************)
(* The route of a streaming method in generated Go: writeSSERoute          *)
(* (internal/gengo/sse.go) and sseSender (runtime/sse_server.go.tmpl).     *)
(* The handler may send from several goroutines; the heartbeat is one more *)
(* and all write under the sender's lock.                                  *)
(***************************************************************************)
EXTENDS SSEStream

Started(lines) == IF started THEN lines ELSE <<Status("ok")>> \o lines

\* SendWithEvent of an event whose name can name a frame.
Send(s, e) ==
  /\ route = "serve" /\ handler = "running" /\ budget > 0
  /\ at[s] = "idle" /\ e \notin Misnamed
  /\ at' = [at EXCEPT ![s] = "lock"] /\ what' = [what EXCEPT ![s] = e]
  /\ budget' = budget - 1
  /\ UNCHANGED <<choice, netVars, handler, told, route, started, hb, mu, frame, pings,
                 reportVars, clientVars>>

Bug_EncodeUnlocked(s) ==
  /\ at[s] = "lock"
  /\ at' = [at EXCEPT ![s] = "write"] /\ mu' = s
  /\ frame' = EventFrame(what[s], Lines(what[s]))
  /\ UNCHANGED <<choice, netVars, handler, told, route, started, hb, what, budget, pings,
                 reportVars, clientVars>>

\* AppendJSON, into the sender's buffer; the handler gets its error.
Encode(s) ==
  /\ at[s] = "lock" /\ mu = "free"
  /\ IF what[s] \in Unencodable
       THEN /\ at' = [at EXCEPT ![s] = "idle"] /\ what' = [what EXCEPT ![s] = "none"]
            /\ frame' = <<>> /\ UNCHANGED mu
       ELSE /\ at' = [at EXCEPT ![s] = "write"] /\ mu' = s
            /\ frame' = EventFrame(what[s], Lines(what[s])) /\ UNCHANGED what
  /\ UNCHANGED <<choice, netVars, handler, told, route, started, hb, budget, pings, reportVars,
                 clientVars>>

SendWrite(s) ==
  /\ at[s] = "write"
  /\ Writes(Started(frame)) /\ started' = TRUE /\ Produces(what[s])
  /\ frame' = <<>> /\ mu' = "free"
  /\ at' = [at EXCEPT ![s] = "idle"] /\ what' = [what EXCEPT ![s] = "none"]
  /\ UNCHANGED <<choice, handler, told, route, hb, budget, pings, fin, choked, clientVars>>

-----------------------------------------------------------------------------
(* heartbeat.                                                              *)

Tick ==
  /\ hb = "wait" /\ MayPing /\ hb' = "lock"
  /\ UNCHANGED <<choice, netVars, handler, told, route, started, goVars, budget, pings,
                 reportVars, clientVars>>

PingWrite ==
  /\ hb = "lock" /\ mu = "free"
  /\ Writes(Started(Ping)) /\ started' = TRUE /\ CountPing
  /\ hb' = "wait"
  /\ UNCHANGED <<choice, handler, told, route, goVars, budget, reportVars, clientVars>>

\* done is closed, or the request's context is done.
HeartbeatEnds ==
  /\ hb = "wait" /\ (route = "stop" \/ told) /\ hb' = "off"
  /\ UNCHANGED <<choice, netVars, handler, told, route, started, goVars, budget, pings,
                 reportVars, clientVars>>

-----------------------------------------------------------------------------
(* The handler comes back, its goroutines with it.                         *)

Quiet == \A s \in Sender : at[s] = "idle"

HandlerReturns ==
  /\ route = "serve" /\ handler = "running" /\ Quiet
  /\ \E how \in {"ended", "failed"} :
       handler' = how /\ Fin(IF how = "ended" THEN "ok" ELSE "failed")
  /\ route' = "stop"
  /\ UNCHANGED <<choice, netVars, told, started, hb, goVars, budget, pings, produced, choked,
                 clientVars>>

\* It panics: net/http drops the connection; stopHeartbeat is not deferred.
HandlerPanics ==
  /\ route = "serve" /\ handler = "running" /\ Quiet
  /\ handler' = "panicked" /\ Fin("failed") /\ route' = "over"
  /\ IF conn = "open" THEN Break ELSE UNCHANGED netVars
  /\ UNCHANGED <<choice, told, started, hb, goVars, budget, pings, produced, choked, clientVars>>

Bug_StopDoesNotWait ==
  /\ route = "stop"
  /\ route' = IF handler = "failed" THEN "report" ELSE "finish"
  /\ UNCHANGED <<choice, netVars, handler, told, started, hb, goVars, budget, pings, reportVars,
                 clientVars>>

\* stopHeartbeat waits for the heartbeat.
Stopped ==
  /\ route = "stop" /\ hb = "off"
  /\ route' = IF handler = "failed" THEN "report" ELSE "finish"
  /\ UNCHANGED <<choice, netVars, handler, told, started, hb, goVars, budget, pings, reportVars,
                 clientVars>>

\* A status if nothing was sent, the heartbeat included.
ReportStatus ==
  /\ route = "report" /\ ~started
  /\ Writes(<<Status("error"), End>>) /\ route' = "over"
  /\ UNCHANGED <<choice, handler, told, started, hb, goVars, budget, pings, reportVars, clientVars>>

\* An error frame, unless the declared error does not encode.
ReportFrame ==
  /\ route = "report" /\ started
  /\ \/ Writes(ErrorFrame) /\ UNCHANGED choked
     \/ choked' = "error" /\ UNCHANGED netVars
  /\ route' = "finish"
  /\ UNCHANGED <<choice, handler, told, started, hb, goVars, budget, pings, produced, fin,
                 clientVars>>

Finish ==
  /\ route = "finish"
  /\ Writes(Started(<<End>>)) /\ started' = TRUE /\ route' = "over"
  /\ UNCHANGED <<choice, handler, told, hb, goVars, budget, pings, reportVars, clientVars>>

\* net/http ends the request's context with the connection.
ContextDone ==
  /\ ServerSees /\ ~told /\ told' = TRUE
  /\ UNCHANGED <<choice, netVars, handler, route, started, hb, goVars, budget, pings, reportVars,
                 clientVars>>

HandlerStep == (\E s \in Sender, e \in Event : Send(s, e)) \/ HandlerReturns \/ HandlerPanics

RouteStep ==
  \/ \E s \in Sender : Encode(s) \/ SendWrite(s)
  \/ Stopped \/ ReportStatus \/ ReportFrame \/ Finish \/ ContextDone

PingStep == Tick \/ PingWrite \/ HeartbeatEnds
=============================================================================

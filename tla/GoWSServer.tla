----------------------------- MODULE GoWSServer -----------------------------
(***************************************************************************)
(* One server connection of a correlated WebSocket method in generated Go: *)
(* the route writeWSRoute emits (internal/gengo/ws.go) and its frame queue *)
(* (runtime/ws_frame_queue.go.tmpl).                                       *)
(*                                                                         *)
(* Goroutines: the route itself, which is the read loop and then its       *)
(* deferred calls, last registered first; the handler goroutine, which     *)
(* serves queued frames one at a time; the Call invocations (GoCalls), of  *)
(* the handler or of goroutines it spawned; and the keepalive.             *)
(***************************************************************************)
EXTENDS GoCalls

CONSTANTS
  BadFrame,    \* the messages feed, wsDecode or Validate rejects
  KeepAlive,   \* wsPingInterval > 0
  OwnContext   \* calls whose ctx does not derive from the connection's

ASSUME ServerAssumption ==
  BadFrame \subseteq Frame /\ KeepAlive \in BOOLEAN /\ OwnContext \subseteq Call

VARIABLES
  peer,      \* "up", "gone" (it closed its end) or "silent" (network drop)
  unsent,    \* the frames the peer has not sent
  wire,      \* messages on their way to this end, in order
  connDone,  \* connCtx is cancelled
  rl,        \* where the route is
  items,     \* queue.items
  signal,    \* queue.signal holds its token
  hp,        \* where the handler goroutine is
  hcall,     \* the call the handler waits in, or NoCall
  pushed,    \* the frames pushed on the queue so far, in order
  handled    \* the frames handed to the handler so far, in order

netVars   == <<peer, unsent, wire>>
queueVars == <<items, signal, pushed>>
handVars  == <<hp, hcall, handled>>
vars == <<callsVars, netVars, connDone, rl, queueVars, handVars>>

RoutePC == {"read", "route", "deliver", "push", "signal", "cancel", "closeAll", "closeChans",
            "leave", "join", "lateCloseAll", "lateCloseChans", "returned"}

TypeOK ==
  /\ CallsTypeOK
  /\ peer \in {"up", "gone", "silent"}
  /\ unsent \subseteq Frame
  /\ wire \in Seq(Frame)
  /\ connDone \in BOOLEAN
  /\ rl \in RoutePC
  /\ items \in Seq(Frame)
  /\ signal \in BOOLEAN
  /\ hp \in {"pop", "wait", "serve", "calling", "done"}
  /\ hcall \in Call \cup {NoCall}
  /\ pushed \in Seq(Frame)
  /\ handled \in Seq(Frame)

Init ==
  /\ CallsInit
  /\ peer = "up" /\ unsent = Frame /\ wire = <<>>
  /\ connDone = FALSE /\ rl = "read"
  /\ items = <<>> /\ signal = FALSE /\ pushed = <<>>
  /\ hp = "pop" /\ hcall = NoCall /\ handled = <<>>

-----------------------------------------------------------------------------
(* The peer, the network and the keepalive.                                *)

PeerSend(f) ==
  /\ peer = "up" /\ f \in unsent
  /\ unsent' = unsent \ {f}
  /\ wire' = Append(wire, f)
  /\ UNCHANGED <<callsVars, peer, connDone, rl, queueVars, handVars>>

PeerClose ==
  /\ peer = "up"
  /\ peer' = "gone"
  /\ UNCHANGED <<callsVars, unsent, wire, connDone, rl, queueVars, handVars>>

NetworkDrop ==
  /\ peer = "up"
  /\ peer' = "silent" /\ wire' = <<>>
  /\ UNCHANGED <<callsVars, unsent, connDone, rl, queueVars, handVars>>

\* wsKeepAlive: a ping without a pong within the interval closes the
\* connection, unless the connection's context is done.
PingFails ==
  /\ KeepAlive /\ ~connDone
  /\ conn = "open" /\ Disconnect
  /\ UNCHANGED <<netVars, connDone, rl, queueVars, handVars>>

-----------------------------------------------------------------------------
(* The route: the read loop.                                               *)

\* A message is read.  A malformed or invalid one closes the connection and
\* makes the route return.
ReadFrame ==
  /\ rl = "read" /\ wire # <<>>
  /\ wire' = Tail(wire)
  /\ \/ Head(wire) \in BadFrame /\ Disconnect /\ rl' = "leave"
     \/ Head(wire) \notin BadFrame /\ Hold(Head(wire)) /\ rl' = "route"
  /\ UNCHANGED <<peer, unsent, connDone, queueVars, handVars>>

ReadError ==
  /\ rl = "read"
  /\ conn = "closed" \/ (peer = "gone" /\ wire = <<>>)
  /\ Disconnect
  /\ rl' = "cancel"
  /\ UNCHANGED <<netVars, connDone, queueVars, handVars>>

Route ==
  /\ rl = "route" /\ Resolve
  /\ rl' = IF target' = NoCall THEN "push" ELSE "deliver"
  /\ UNCHANGED <<netVars, connDone, queueVars, handVars>>

HandOver ==
  /\ rl = "deliver" /\ Deliver
  /\ rl' = "read"
  /\ UNCHANGED <<netVars, connDone, queueVars, handVars>>

\* queue.push, under its mutex.
Push ==
  /\ rl = "push" /\ LetGo
  /\ items' = Append(items, hand) /\ pushed' = Append(pushed, hand)
  /\ rl' = "signal"
  /\ UNCHANGED <<netVars, connDone, signal, handVars>>

Bug_NoSignal ==
  /\ rl = "signal"
  /\ rl' = "read"
  /\ UNCHANGED <<callsVars, netVars, connDone, queueVars, handVars>>

\* queue.push, after the unlock: put the token unless it is there.
Signal ==
  /\ rl = "signal"
  /\ signal' = TRUE
  /\ rl' = "read"
  /\ UNCHANGED <<callsVars, netVars, connDone, items, pushed, handVars>>

-----------------------------------------------------------------------------
(* The route: how it ends.  A read error cancels the context and fails the *)
(* calls at once; the other errors leave both to the deferred functions.   *)

Cancel ==
  /\ rl = "cancel"
  /\ connDone' = TRUE
  /\ rl' = "closeAll"
  /\ UNCHANGED <<callsVars, netVars, queueVars, handVars>>

Bug_FailCallsSkipped ==
  /\ rl = "closeAll"
  /\ rl' = "closeChans"
  /\ UNCHANGED <<callsVars, netVars, connDone, queueVars, handVars>>

\* closeAll(err), and the deferred closeAll(nil).
FailCalls ==
  /\ CloseAll
  /\ \/ rl = "closeAll" /\ rl' = "closeChans"
     \/ rl = "lateCloseAll" /\ rl' = "lateCloseChans"
  /\ UNCHANGED <<netVars, connDone, queueVars, handVars>>

FailCall(c) ==
  /\ rl \in {"closeChans", "lateCloseChans"} /\ CloseChan(c)
  /\ UNCHANGED <<netVars, connDone, rl, queueVars, handVars>>

CallsFailed ==
  /\ rl = "closeChans" /\ closing = {}
  /\ rl' = "leave"
  /\ UNCHANGED <<callsVars, netVars, connDone, queueVars, handVars>>

\* The deferred function registered last: closeConn, then wait for the handler.
Leave ==
  /\ rl = "leave"
  /\ connDone' = TRUE
  /\ rl' = "join"
  /\ UNCHANGED <<callsVars, netVars, queueVars, handVars>>

Bug_JoinNobody ==
  /\ rl = "join"
  /\ rl' = "lateCloseAll"
  /\ UNCHANGED <<callsVars, netVars, connDone, queueVars, handVars>>

\* <-handlerDone
Join ==
  /\ rl = "join" /\ hp = "done"
  /\ rl' = "lateCloseAll"
  /\ UNCHANGED <<callsVars, netVars, connDone, queueVars, handVars>>

\* After closeAll(nil): closeConn again, and CloseNow.
Return ==
  /\ rl = "lateCloseChans" /\ closing = {}
  /\ rl' = "returned" /\ Disconnect
  /\ UNCHANGED <<netVars, connDone, queueVars, handVars>>

RouteStep ==
  \/ ReadFrame \/ ReadError \/ Route \/ HandOver \/ Push \/ Signal
  \/ Cancel \/ FailCalls \/ (\E c \in Call : FailCall(c)) \/ CallsFailed
  \/ Leave \/ Join \/ Return

-----------------------------------------------------------------------------
(* The handler goroutine.                                                  *)

Bug_PopLast ==
  /\ hp = "pop"
  /\ \/ /\ items # <<>>
        /\ handled' = Append(handled, items[Len(items)])
        /\ items' = SubSeq(items, 1, Len(items) - 1)
        /\ hp' = "serve"
     \/ /\ items = <<>>
        /\ hp' = "wait"
        /\ UNCHANGED <<items, handled>>
  /\ UNCHANGED <<callsVars, netVars, connDone, rl, signal, pushed, hcall>>

\* queue.pop, under its mutex: it looks at the queue before the context, so
\* frames queued before the end are still served.
Pop ==
  /\ hp = "pop"
  /\ \/ /\ items # <<>>
        /\ handled' = Append(handled, Head(items))
        /\ items' = Tail(items)
        /\ hp' = "serve"
     \/ /\ items = <<>>
        /\ hp' = "wait"
        /\ UNCHANGED <<items, handled>>
  /\ UNCHANGED <<callsVars, netVars, connDone, rl, signal, pushed, hcall>>

\* select, case <-q.signal.
Wake ==
  /\ hp = "wait" /\ signal
  /\ signal' = FALSE
  /\ hp' = "pop"
  /\ UNCHANGED <<callsVars, netVars, connDone, rl, items, pushed, hcall, handled>>

Bug_WaitsForFramesOnly == FALSE /\ UNCHANGED vars

\* select, case <-ctx.Done().
PopEnds ==
  /\ hp = "wait" /\ connDone
  /\ hp' = "done"
  /\ UNCHANGED <<callsVars, netVars, connDone, rl, queueVars, hcall, handled>>

\* The handler makes a call and waits for it.
HandlerCalls(c) ==
  /\ hp = "serve" /\ Enter(c)
  /\ hp' = "calling" /\ hcall' = c
  /\ UNCHANGED <<netVars, connDone, rl, queueVars, handled>>

CallReturned ==
  /\ hp = "calling" /\ pc[hcall] \in Ended
  /\ hp' = "serve" /\ hcall' = NoCall
  /\ UNCHANGED <<callsVars, netVars, connDone, rl, queueVars, handled>>

\* A goroutine that kept out makes a call.
SpawnedCalls(c) ==
  /\ handled # <<>> /\ Enter(c)
  /\ UNCHANGED <<netVars, connDone, rl, queueVars, handVars>>

\* The handler closes the connection: out.Close.
HandlerCloses ==
  /\ hp = "serve" /\ Disconnect
  /\ UNCHANGED <<netVars, connDone, rl, queueVars, handVars>>

\* The handler returns: nil, or an error, which closes the connection (1011).
HandlerReturns ==
  /\ hp = "serve"
  /\ \/ hp' = "pop" /\ UNCHANGED callsVars
     \/ hp' = "done" /\ Disconnect
  /\ UNCHANGED <<netVars, connDone, rl, queueVars, hcall, handled>>

InCall(c) == CallStep(c) /\ UNCHANGED <<netVars, connDone, rl, queueVars, handVars>>

GiveUp(c) == ContextDone(c) /\ UNCHANGED <<netVars, connDone, rl, queueVars, handVars>>

-----------------------------------------------------------------------------
Next ==
  \/ \E f \in Frame : PeerSend(f)
  \/ PeerClose \/ NetworkDrop \/ PingFails
  \/ RouteStep
  \/ Pop \/ Wake \/ PopEnds \/ CallReturned \/ HandlerCloses \/ HandlerReturns
  \/ \E c \in Call : HandlerCalls(c) \/ SpawnedCalls(c) \/ InCall(c) \/ GiveUp(c)

Spec == Init /\ [][Next]_vars

\* Goroutines that can run do run; writes and handlers end, except that a
\* handler in a call ends only after the call does.  A call whose context
\* derives from the connection's gives up once that is cancelled; the others
\* need not.  A silent peer misses its pong.
Fairness ==
  /\ WF_vars(RouteStep)
  /\ WF_vars(Pop) /\ WF_vars(Wake \/ PopEnds) /\ WF_vars(CallReturned)
  /\ WF_vars(HandlerReturns)
  /\ \A c \in Call : /\ WF_vars(InCall(c)) /\ SF_vars(InCall(c) /\ LockSend(c))
                     /\ WF_vars(c \notin OwnContext /\ connDone /\ GiveUp(c))
  /\ WF_vars(peer = "silent" /\ PingFails)

FairSpec == Spec /\ Fairness

-----------------------------------------------------------------------------
(* Properties.                                                             *)

\* The handler is given the frames in the order they were read, each once, and
\* none is lost between the read loop and it (push and pop of wsFrameQueue).
HandledInOrder == handled \o items = pushed

\* The handler never sleeps while a frame is queued, unless its token is there
\* or the read loop is about to put it.
QueueSignalled == items # <<>> /\ hp = "wait" => signal \/ rl = "signal"

\* The frame queue between two goroutines, one lock and a token: nothing is
\* lost, repeated or overtaken in it, and nobody sleeps on it.
QueueServed == HandledInOrder /\ QueueSignalled

\* When the route has returned, net/http may reuse what it lent: the handler
\* goroutine is gone, and no call waits for a read loop that has left.
RouteLeavesNothing ==
  rl = "returned" =>
    /\ hp = "done"
    /\ \A c \in Call : pc[c] = "await" => c \in shut \/ ch[c] # NoFrame

\* The route returns once the connection is closed or silent (README: a hard
\* network drop ends the connection instead of hanging), unless its handler
\* waits, unfailed, in a call whose context outlives the connection.
RouteReturns ==
  conn = "closed" \/ peer \in {"gone", "silent"} ~>
    rl = "returned" \/ (hcall \in OwnContext /\ ~pendErr)

\* A read error fails every call in flight, whatever its context, although the
\* handler goroutine may be waiting in one of them (closeAll before the join).
ReadErrorFailsCalls == \A c \in Call : rl = "cancel" /\ pc[c] = "await" ~> pc[c] \in Ended

\* README, Cancellation, timeouts, and typed errors: "A call on a connection
\* that is gone (or goes away while waiting) fails immediately".
CallFailsWithConnection ==
  \A c \in Call : conn = "closed" /\ pc[c] = "await" ~> pc[c] \in Ended

-----------------------------------------------------------------------------
(* What a client promises its application, a server promises its handler:  *)
(* the mailbox is the frame queue.                                         *)

absFresh ==
  {f \in Frame : \/ f \in unsent \/ (rl = "route" /\ hand = f)
                 \/ \E i \in DOMAIN wire : wire[i] = f}

absMail == IF rl = "push" THEN Append(items, hand) ELSE items

Promise == INSTANCE CorrelatedCalls WITH
  status <- absStatus, answer <- absAnswer, fresh <- absFresh, mail <- absMail,
  received <- handled, closed <- pendErr

\* Every step of the connection's goroutines is one the promise allows.  That
\* calls end is RouteReturns and ReadErrorFailsCalls, for less than a client's:
\* a rejected message fails no call before the handler has returned.
KeepsPromise == Promise!Spec
=============================================================================

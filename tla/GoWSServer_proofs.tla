------------------------- MODULE GoWSServer_proofs -------------------------
(***************************************************************************)
(* Theorems about GoWSServer, for every set of calls, ids and frames: the  *)
(* calls of a server connection keep what GoCalls_proofs shows, the frame  *)
(* queue neither loses nor reorders nor sleeps on a frame, and a route     *)
(* that has returned has left nothing running or waiting.                  *)
(***************************************************************************)
EXTENDS GoWSServer, GoCalls_proofs

\* The part of TypeOK that is not about the calls.
ServerOK ==
  /\ peer \in {"up", "gone", "silent"}
  /\ unsent \subseteq Frame
  /\ wire \in Seq(Frame)
  /\ connDone \in BOOLEAN
  /\ rl \in RoutePC
  /\ items \in Seq(Frame)
  /\ signal \in BOOLEAN
  /\ hp \in {"pop", "wait", "serve", "calling", "done"}
  /\ hcall \in Call \cup {NoCall}
  /\ pushed \in Seq(Frame)
  /\ handled \in Seq(Frame)

\* A connection starts with no frame read, queued or handled.
LEMMA InitServerOK == Init => ServerOK /\ CallsInv
<1> SUFFICES ASSUME Init PROVE ServerOK /\ CallsInv
  OBVIOUS
<1>1. CallsInv
  BY InitCallsInv DEF Init
<1>2. wire \in Seq(Frame) /\ items \in Seq(Frame) /\ pushed \in Seq(Frame) /\ handled \in Seq(Frame)
  BY DEF Init
<1> QED
  BY <1>1, <1>2 DEF Init, ServerOK, RoutePC

\* A server connection is an endpoint in the sense of GoCalls.
LEMMA ServerStepsCalls == ServerOK /\ [Next]_vars => [CallsNext]_callsVars
<1> SUFFICES ASSUME ServerOK, [Next]_vars PROVE [CallsNext]_callsVars
  OBVIOUS
<1> USE DEF ServerOK
<1>1. ASSUME NEW f \in Frame, PeerSend(f) PROVE [CallsNext]_callsVars
  BY <1>1 DEF PeerSend
<1>2. CASE PeerClose
  BY <1>2 DEF PeerClose
<1>3. CASE NetworkDrop
  BY <1>3 DEF NetworkDrop
<1>4. CASE PingFails
  BY <1>4 DEF PingFails, CallsNext
<1>5. CASE ReadFrame
  <2>1. Head(wire) \in Frame
    BY <1>5 DEF ReadFrame
  <2> QED
    BY <1>5, <2>1 DEF ReadFrame, CallsNext
<1>6. CASE ReadError
  BY <1>6 DEF ReadError, CallsNext
<1>7. CASE Route
  BY <1>7 DEF Route, CallsNext
<1>8. CASE HandOver
  BY <1>8 DEF HandOver, CallsNext
<1>9. CASE Push
  BY <1>9 DEF Push, CallsNext
<1>10. CASE Signal
  BY <1>10 DEF Signal
<1>11. CASE Cancel
  BY <1>11 DEF Cancel
<1>12. CASE FailCalls
  BY <1>12 DEF FailCalls, CallsNext
<1>13. ASSUME NEW c \in Call, FailCall(c) PROVE [CallsNext]_callsVars
  BY <1>13 DEF FailCall, CallsNext
<1>14. CASE CallsFailed
  BY <1>14 DEF CallsFailed
<1>15. CASE Leave
  BY <1>15 DEF Leave
<1>16. CASE Join
  BY <1>16 DEF Join
<1>17. CASE Return
  BY <1>17 DEF Return, CallsNext
<1>18. CASE Pop
  BY <1>18 DEF Pop
<1>19. CASE Wake
  BY <1>19 DEF Wake
<1>20. CASE PopEnds
  BY <1>20 DEF PopEnds
<1>21. CASE CallReturned
  BY <1>21 DEF CallReturned
<1>22. CASE HandlerCloses
  BY <1>22 DEF HandlerCloses, CallsNext
<1>23. CASE HandlerReturns
  BY <1>23 DEF HandlerReturns, CallsNext
<1>24. ASSUME NEW c \in Call, HandlerCalls(c) PROVE [CallsNext]_callsVars
  BY <1>24 DEF HandlerCalls, CallsNext
<1>25. ASSUME NEW c \in Call, SpawnedCalls(c) PROVE [CallsNext]_callsVars
  BY <1>25 DEF SpawnedCalls, CallsNext
<1>26. ASSUME NEW c \in Call, InCall(c) PROVE [CallsNext]_callsVars
  BY <1>26 DEF InCall, CallsNext
<1>27. ASSUME NEW c \in Call, GiveUp(c) PROVE [CallsNext]_callsVars
  BY <1>27 DEF GiveUp, CallsNext
<1>28. CASE UNCHANGED vars
  BY <1>28 DEF vars
<1> QED
  BY <1>1, <1>2, <1>3, <1>4, <1>5, <1>6, <1>7, <1>8, <1>9, <1>10, <1>11,
     <1>12, <1>13, <1>14, <1>15, <1>16, <1>17, <1>18, <1>19, <1>20, <1>21,
     <1>22, <1>23, <1>24, <1>25, <1>26, <1>27, <1>28
     DEF Next, RouteStep

\* No step of the peer, the route or the handler leaves the types.
LEMMA NextServerOK == ServerOK /\ CallsInv /\ [Next]_vars => ServerOK'
<1> SUFFICES ASSUME ServerOK, CallsInv, [Next]_vars PROVE ServerOK'
  OBVIOUS
<1> USE PendingAssumption, ServerAssumption
    DEF PendingAssumption, ServerAssumption, ServerOK, RoutePC
<1>1. ASSUME NEW f \in Frame, PeerSend(f) PROVE ServerOK'
  BY <1>1 DEF PeerSend, netVars, queueVars, handVars
<1>2. CASE PeerClose
  BY <1>2 DEF PeerClose, netVars, queueVars, handVars
<1>3. CASE NetworkDrop
  BY <1>3 DEF NetworkDrop, netVars, queueVars, handVars
<1>4. CASE PingFails
  BY <1>4 DEF PingFails, netVars, queueVars, handVars
<1>5. CASE ReadFrame
  BY <1>5 DEF ReadFrame, netVars, queueVars, handVars
<1>6. CASE ReadError
  BY <1>6 DEF ReadError, netVars, queueVars, handVars
<1>7. CASE Route
  BY <1>7 DEF Route, netVars, queueVars, handVars
<1>8. CASE HandOver
  BY <1>8 DEF HandOver, netVars, queueVars, handVars
<1>9. CASE Push
  BY <1>9 DEF Push, netVars, queueVars, handVars, LetGo, CallsInv, CallsTypeOK
<1>10. CASE Signal
  BY <1>10 DEF Signal, netVars, queueVars, handVars
<1>11. CASE Cancel
  BY <1>11 DEF Cancel, netVars, queueVars, handVars
<1>12. CASE FailCalls
  BY <1>12 DEF FailCalls, netVars, queueVars, handVars
<1>13. ASSUME NEW c \in Call, FailCall(c) PROVE ServerOK'
  BY <1>13 DEF FailCall, netVars, queueVars, handVars
<1>14. CASE CallsFailed
  BY <1>14 DEF CallsFailed, netVars, queueVars, handVars
<1>15. CASE Leave
  BY <1>15 DEF Leave, netVars, queueVars, handVars
<1>16. CASE Join
  BY <1>16 DEF Join, netVars, queueVars, handVars
<1>17. CASE Return
  BY <1>17 DEF Return, netVars, queueVars, handVars
<1>18. CASE Pop
  <2>1. CASE items = <<>>
    BY <1>18, <2>1 DEF Pop, netVars
  <2>2. CASE items # <<>>
    <3>1. Append(handled, Head(items)) \in Seq(Frame) /\ Tail(items) \in Seq(Frame)
      BY <2>2
    <3> QED
      BY <1>18, <2>2, <3>1 DEF Pop, netVars
  <2> QED
    BY <2>1, <2>2
<1>19. CASE Wake
  BY <1>19 DEF Wake, netVars, queueVars, handVars
<1>20. CASE PopEnds
  BY <1>20 DEF PopEnds, netVars, queueVars, handVars
<1>21. CASE CallReturned
  BY <1>21 DEF CallReturned, netVars, queueVars, handVars
<1>22. CASE HandlerCloses
  BY <1>22 DEF HandlerCloses, netVars, queueVars, handVars
<1>23. CASE HandlerReturns
  BY <1>23 DEF HandlerReturns, netVars, queueVars, handVars
<1>24. ASSUME NEW c \in Call, HandlerCalls(c) PROVE ServerOK'
  BY <1>24 DEF HandlerCalls, netVars, queueVars, handVars
<1>25. ASSUME NEW c \in Call, SpawnedCalls(c) PROVE ServerOK'
  BY <1>25 DEF SpawnedCalls, netVars, queueVars, handVars
<1>26. ASSUME NEW c \in Call, InCall(c) PROVE ServerOK'
  BY <1>26 DEF InCall, netVars, queueVars, handVars
<1>27. ASSUME NEW c \in Call, GiveUp(c) PROVE ServerOK'
  BY <1>27 DEF GiveUp, netVars, queueVars, handVars
<1>28. CASE UNCHANGED vars
  BY <1>28 DEF vars, netVars, queueVars, handVars
<1> QED
  BY <1>1, <1>2, <1>3, <1>4, <1>5, <1>6, <1>7, <1>8, <1>9, <1>10, <1>11,
     <1>12, <1>13, <1>14, <1>15, <1>16, <1>17, <1>18, <1>19, <1>20, <1>21,
     <1>22, <1>23, <1>24, <1>25, <1>26, <1>27, <1>28
     DEF Next, RouteStep

\* What GoCalls_proofs shows of every endpoint holds of a server connection.
LEMMA ServerInvariant == Spec => [](ServerOK /\ CallsInv)
<1>1. ServerOK /\ CallsInv /\ [Next]_vars => (ServerOK /\ CallsInv)'
  BY ServerStepsCalls, NextCallsInv, NextServerOK
<1> QED
  BY InitServerOK, <1>1, PTL DEF Spec

\* The state of a server connection always has its declared shape.
THEOREM TypeCorrect == Spec => []TypeOK
<1>1. ServerOK /\ CallsInv => TypeOK
  BY DEF ServerOK, CallsInv, TypeOK
<1> QED
  BY ServerInvariant, <1>1, PTL

-----------------------------------------------------------------------------
(* The calls of the handler and of what it spawned.                        *)

\* Calls of a server only get frames that answer them: the id is theirs and the
\* variant is not the one they sent.
THEOREM RepliesMatchAlways == Spec => []RepliesMatch
<1>1. CallsInv => RepliesMatch
  BY DEF CallsInv
<1> QED
  BY ServerInvariant, <1>1, PTL

\* The read loop, which must answer pings, never blocks on a reply channel nor
\* sends on a closed one.
THEOREM ReaderNeverBlocksAlways == Spec => []ReaderNeverBlocks
<1>1. CallsInv => ReaderNeverBlocks
  BY DEF CallsInv, DeliverOK, ReaderNeverBlocks
<1> QED
  BY ServerInvariant, <1>1, PTL

\* While ids in flight are distinct, no registered call of a server is ever left
\* where neither a reply nor one of the route's two closeAll can reach it.
THEOREM NoCallForgottenAlways == ASSUME ~ReuseInFlight PROVE Spec => []NoCallForgotten
<1>1. Init => ForgottenInv
  BY InitForgottenInv DEF Init
<1>2. ServerOK /\ CallsInv /\ ForgottenInv /\ [Next]_vars => ForgottenInv'
  BY ServerStepsCalls, NextForgottenInv
<1> QED
  BY ServerInvariant, <1>1, <1>2, KeptIsNotForgotten, PTL DEF Spec

\* A client gets a cancel frame only for a call whose frame it got before, at
\* most one, and only of a call that gave up.
THEOREM CancelFollowsCallAlways == Spec => []CancelFollowsCall
<1>1. Init => WrittenInv
  BY InitWrittenInv DEF Init
<1>2. ServerOK /\ CallsInv /\ WrittenInv /\ [Next]_vars => WrittenInv'
  BY ServerStepsCalls, NextWrittenInv
<1> QED
  BY ServerInvariant, <1>1, <1>2, WrittenFollows, PTL DEF Spec

-----------------------------------------------------------------------------
(* The frame queue.                                                        *)

\* The handler is given every frame the read loop queued, once and in order.
LEMMA NextHandledInOrder == ServerOK /\ CallsInv /\ HandledInOrder /\ [Next]_vars => HandledInOrder'
<1> SUFFICES ASSUME ServerOK, CallsInv, HandledInOrder, [Next]_vars PROVE HandledInOrder'
  OBVIOUS
<1> USE DEF ServerOK, HandledInOrder
<1>1. ASSUME NEW f \in Frame, PeerSend(f) PROVE HandledInOrder'
  BY <1>1 DEF PeerSend, queueVars, handVars
<1>2. CASE PeerClose
  BY <1>2 DEF PeerClose, queueVars, handVars
<1>3. CASE NetworkDrop
  BY <1>3 DEF NetworkDrop, queueVars, handVars
<1>4. CASE PingFails
  BY <1>4 DEF PingFails, queueVars, handVars
<1>5. CASE ReadFrame
  BY <1>5 DEF ReadFrame, queueVars, handVars
<1>6. CASE ReadError
  BY <1>6 DEF ReadError, queueVars, handVars
<1>7. CASE Route
  BY <1>7 DEF Route, queueVars, handVars
<1>8. CASE HandOver
  BY <1>8 DEF HandOver, queueVars, handVars
<1>9. CASE Push
  <2>1. hand \in Frame
    BY <1>9 DEF Push, LetGo, CallsInv, CallsTypeOK
  <2>2. handled \o Append(items, hand) = Append(handled \o items, hand)
    BY <2>1
  <2> QED
    BY <1>9, <2>2 DEF Push, netVars, handVars
<1>10. CASE Signal
  BY <1>10 DEF Signal, queueVars, handVars
<1>11. CASE Cancel
  BY <1>11 DEF Cancel, queueVars, handVars
<1>12. CASE FailCalls
  BY <1>12 DEF FailCalls, queueVars, handVars
<1>13. ASSUME NEW c \in Call, FailCall(c) PROVE HandledInOrder'
  BY <1>13 DEF FailCall, queueVars, handVars
<1>14. CASE CallsFailed
  BY <1>14 DEF CallsFailed, queueVars, handVars
<1>15. CASE Leave
  BY <1>15 DEF Leave, queueVars, handVars
<1>16. CASE Join
  BY <1>16 DEF Join, queueVars, handVars
<1>17. CASE Return
  BY <1>17 DEF Return, queueVars, handVars
<1>18. CASE Pop
  <2>1. CASE items = <<>>
    BY <1>18, <2>1 DEF Pop
  <2>2. CASE items # <<>>
    <3>1. Append(handled, Head(items)) \o Tail(items) = handled \o items
      BY <2>2
    <3> QED
      BY <1>18, <2>2, <3>1 DEF Pop
  <2> QED
    BY <2>1, <2>2
<1>19. CASE Wake
  BY <1>19 DEF Wake, queueVars, handVars
<1>20. CASE PopEnds
  BY <1>20 DEF PopEnds, queueVars, handVars
<1>21. CASE CallReturned
  BY <1>21 DEF CallReturned, queueVars, handVars
<1>22. CASE HandlerCloses
  BY <1>22 DEF HandlerCloses, queueVars, handVars
<1>23. CASE HandlerReturns
  BY <1>23 DEF HandlerReturns, queueVars, handVars
<1>24. ASSUME NEW c \in Call, HandlerCalls(c) PROVE HandledInOrder'
  BY <1>24 DEF HandlerCalls, queueVars, handVars
<1>25. ASSUME NEW c \in Call, SpawnedCalls(c) PROVE HandledInOrder'
  BY <1>25 DEF SpawnedCalls, queueVars, handVars
<1>26. ASSUME NEW c \in Call, InCall(c) PROVE HandledInOrder'
  BY <1>26 DEF InCall, queueVars, handVars
<1>27. ASSUME NEW c \in Call, GiveUp(c) PROVE HandledInOrder'
  BY <1>27 DEF GiveUp, queueVars, handVars
<1>28. CASE UNCHANGED vars
  BY <1>28 DEF vars, queueVars, handVars
<1> QED
  BY <1>1, <1>2, <1>3, <1>4, <1>5, <1>6, <1>7, <1>8, <1>9, <1>10, <1>11,
     <1>12, <1>13, <1>14, <1>15, <1>16, <1>17, <1>18, <1>19, <1>20, <1>21,
     <1>22, <1>23, <1>24, <1>25, <1>26, <1>27, <1>28
     DEF Next, RouteStep

\* Frames reach the handler in the order they were read, none twice, none lost
\* (push and pop of wsFrameQueue under any interleaving).
THEOREM HandledInOrderAlways == Spec => []HandledInOrder
<1>1. Init => HandledInOrder
  BY DEF Init, HandledInOrder
<1> QED
  BY ServerInvariant, NextHandledInOrder, <1>1, PTL DEF Spec

\* The token of the queue is put after every push, and taken only by a handler
\* that looks at the queue again.
LEMMA NextQueueSignalled == QueueSignalled /\ [Next]_vars => QueueSignalled'
<1> SUFFICES ASSUME QueueSignalled, [Next]_vars PROVE QueueSignalled'
  OBVIOUS
<1> USE DEF QueueSignalled
<1>1. ASSUME NEW f \in Frame, PeerSend(f) PROVE QueueSignalled'
  BY <1>1 DEF PeerSend, queueVars, handVars
<1>2. CASE PeerClose
  BY <1>2 DEF PeerClose, queueVars, handVars
<1>3. CASE NetworkDrop
  BY <1>3 DEF NetworkDrop, queueVars, handVars
<1>4. CASE PingFails
  BY <1>4 DEF PingFails, queueVars, handVars
<1>5. CASE ReadFrame
  BY <1>5 DEF ReadFrame, queueVars, handVars
<1>6. CASE ReadError
  BY <1>6 DEF ReadError, queueVars, handVars
<1>7. CASE Route
  BY <1>7 DEF Route, queueVars, handVars
<1>8. CASE HandOver
  BY <1>8 DEF HandOver, queueVars, handVars
<1>9. CASE Push
  BY <1>9 DEF Push, queueVars, handVars
<1>10. CASE Signal
  BY <1>10 DEF Signal, queueVars, handVars
<1>11. CASE Cancel
  BY <1>11 DEF Cancel, queueVars, handVars
<1>12. CASE FailCalls
  BY <1>12 DEF FailCalls, queueVars, handVars
<1>13. ASSUME NEW c \in Call, FailCall(c) PROVE QueueSignalled'
  BY <1>13 DEF FailCall, queueVars, handVars
<1>14. CASE CallsFailed
  BY <1>14 DEF CallsFailed, queueVars, handVars
<1>15. CASE Leave
  BY <1>15 DEF Leave, queueVars, handVars
<1>16. CASE Join
  BY <1>16 DEF Join, queueVars, handVars
<1>17. CASE Return
  BY <1>17 DEF Return, queueVars, handVars
<1>18. CASE Pop
  BY <1>18 DEF Pop, queueVars, handVars
<1>19. CASE Wake
  BY <1>19 DEF Wake, queueVars, handVars
<1>20. CASE PopEnds
  BY <1>20 DEF PopEnds, queueVars, handVars
<1>21. CASE CallReturned
  BY <1>21 DEF CallReturned, queueVars, handVars
<1>22. CASE HandlerCloses
  BY <1>22 DEF HandlerCloses, queueVars, handVars
<1>23. CASE HandlerReturns
  BY <1>23 DEF HandlerReturns, queueVars, handVars
<1>24. ASSUME NEW c \in Call, HandlerCalls(c) PROVE QueueSignalled'
  BY <1>24 DEF HandlerCalls, queueVars, handVars
<1>25. ASSUME NEW c \in Call, SpawnedCalls(c) PROVE QueueSignalled'
  BY <1>25 DEF SpawnedCalls, queueVars, handVars
<1>26. ASSUME NEW c \in Call, InCall(c) PROVE QueueSignalled'
  BY <1>26 DEF InCall, queueVars, handVars
<1>27. ASSUME NEW c \in Call, GiveUp(c) PROVE QueueSignalled'
  BY <1>27 DEF GiveUp, queueVars, handVars
<1>28. CASE UNCHANGED vars
  BY <1>28 DEF vars, queueVars, handVars
<1> QED
  BY <1>1, <1>2, <1>3, <1>4, <1>5, <1>6, <1>7, <1>8, <1>9, <1>10, <1>11,
     <1>12, <1>13, <1>14, <1>15, <1>16, <1>17, <1>18, <1>19, <1>20, <1>21,
     <1>22, <1>23, <1>24, <1>25, <1>26, <1>27, <1>28
     DEF Next, RouteStep

\* The handler never sleeps while a frame is queued and nothing will wake it.
THEOREM QueueSignalledAlways == Spec => []QueueSignalled
<1>1. Init => QueueSignalled
  BY DEF Init, QueueSignalled
<1> QED
  BY NextQueueSignalled, <1>1, PTL DEF Spec

\* The frame queue serves what is pushed: in order, once, and without sleeping
\* while there is something in it.
THEOREM QueueServedAlways == Spec => []QueueServed
<1>1. HandledInOrder /\ QueueSignalled => QueueServed
  BY DEF QueueServed
<1> QED
  BY HandledInOrderAlways, QueueSignalledAlways, <1>1, PTL

-----------------------------------------------------------------------------
(* The end of the route.  The deferred functions run in an order that      *)
(* joins the handler first and then fails the calls that are left.         *)

EndInv ==
  /\ rl \in {"lateCloseAll", "lateCloseChans", "returned"} => hp = "done"
  /\ rl \in {"lateCloseChans", "returned"} => pendErr
  /\ rl = "returned" => closing = {}
  /\ target # NoCall => rl = "deliver"

\* The route returns only after the handler has and every channel is closed.
LEMMA NextEndInv == EndInv /\ [Next]_vars => EndInv'
<1> SUFFICES ASSUME EndInv, [Next]_vars PROVE EndInv'
  OBVIOUS
<1> USE DEF EndInv
<1>1. ASSUME NEW f \in Frame, PeerSend(f) PROVE EndInv'
  BY <1>1 DEF PeerSend, callsVars, queueVars, handVars
<1>2. CASE PeerClose
  BY <1>2 DEF PeerClose, callsVars, queueVars, handVars
<1>3. CASE NetworkDrop
  BY <1>3 DEF NetworkDrop, callsVars, queueVars, handVars
<1>4. CASE PingFails
  BY <1>4 DEF PingFails, callsVars, queueVars, handVars, Disconnect
<1>5. CASE ReadFrame
  BY <1>5 DEF ReadFrame, callsVars, queueVars, handVars, Disconnect, Hold
<1>6. CASE ReadError
  BY <1>6 DEF ReadError, callsVars, queueVars, handVars, Disconnect
<1>7. CASE Route
  BY <1>7 DEF Route, callsVars, queueVars, handVars, Resolve
<1>8. CASE HandOver
  BY <1>8 DEF HandOver, callsVars, queueVars, handVars, Deliver
<1>9. CASE Push
  BY <1>9 DEF Push, callsVars, queueVars, handVars, LetGo
<1>10. CASE Signal
  BY <1>10 DEF Signal, callsVars, queueVars, handVars
<1>11. CASE Cancel
  BY <1>11 DEF Cancel, callsVars, queueVars, handVars
<1>12. CASE FailCalls
  BY <1>12 DEF FailCalls, callsVars, queueVars, handVars, CloseAll
<1>13. ASSUME NEW c \in Call, FailCall(c) PROVE EndInv'
  BY <1>13 DEF FailCall, callsVars, queueVars, handVars, CloseChan
<1>14. CASE CallsFailed
  BY <1>14 DEF CallsFailed, callsVars, queueVars, handVars
<1>15. CASE Leave
  BY <1>15 DEF Leave, callsVars, queueVars, handVars
<1>16. CASE Join
  BY <1>16 DEF Join, callsVars, queueVars, handVars
<1>17. CASE Return
  BY <1>17 DEF Return, callsVars, queueVars, handVars, Disconnect
<1>18. CASE Pop
  BY <1>18 DEF Pop, callsVars, queueVars, handVars
<1>19. CASE Wake
  BY <1>19 DEF Wake, callsVars, queueVars, handVars
<1>20. CASE PopEnds
  BY <1>20 DEF PopEnds, callsVars, queueVars, handVars
<1>21. CASE CallReturned
  BY <1>21 DEF CallReturned, callsVars, queueVars, handVars
<1>22. CASE HandlerCloses
  BY <1>22 DEF HandlerCloses, callsVars, queueVars, handVars, Disconnect
<1>23. CASE HandlerReturns
  BY <1>23 DEF HandlerReturns, callsVars, queueVars, handVars, Disconnect
<1>24. ASSUME NEW c \in Call, HandlerCalls(c) PROVE EndInv'
  BY <1>24 DEF HandlerCalls, callsVars, queueVars, handVars, Enter
<1>25. ASSUME NEW c \in Call, SpawnedCalls(c) PROVE EndInv'
  BY <1>25 DEF SpawnedCalls, callsVars, queueVars, handVars, Enter
<1>26. ASSUME NEW c \in Call, InCall(c) PROVE EndInv'
  BY <1>26 DEF InCall, callsVars, queueVars, handVars, CallStep, Register, EncodeFails,
     LockSend, WriteOk, WriteFails,
     Unregister, TakeReply, SeeClosed, Abandon
<1>27. ASSUME NEW c \in Call, GiveUp(c) PROVE EndInv'
  BY <1>27 DEF GiveUp, callsVars, queueVars, handVars, ContextDone
<1>28. CASE UNCHANGED vars
  BY <1>28 DEF vars, callsVars, queueVars, handVars
<1> QED
  BY <1>1, <1>2, <1>3, <1>4, <1>5, <1>6, <1>7, <1>8, <1>9, <1>10, <1>11,
     <1>12, <1>13, <1>14, <1>15, <1>16, <1>17, <1>18, <1>19, <1>20, <1>21,
     <1>22, <1>23, <1>24, <1>25, <1>26, <1>27, <1>28
     DEF Next, RouteStep

\* Once the route has returned, and net/http may take back what it lent, its
\* handler goroutine is gone and no call waits for a read loop that has left.
THEOREM RouteLeavesNothingAlways == ASSUME ~ReuseInFlight PROVE Spec => []RouteLeavesNothing
<1>1. Init => EndInv /\ ForgottenInv
  BY InitForgottenInv DEF Init, CallsInit, EndInv
<1>2. ServerOK /\ CallsInv /\ ForgottenInv /\ [Next]_vars => ForgottenInv'
  BY ServerStepsCalls, NextForgottenInv
<1>3. CallsInv /\ ForgottenInv /\ EndInv => RouteLeavesNothing
  BY PendingAssumption, KeptIsNotForgotten
     DEF PendingAssumption, CallsInv, ClosedOK, NoCallForgotten, Awaits, EndInv,
         RouteLeavesNothing
<1> QED
  BY ServerInvariant, NextEndInv, <1>1, <1>2, <1>3, PTL DEF Spec

-----------------------------------------------------------------------------
(* The promise.  A frame is in one place on its way to the read loop, and  *)
(* the calls are only failed after the read loop has left.                 *)

FlowInv ==
  /\ Distinct(wire)
  /\ \A f \in unsent : ~Within(f, wire)
  /\ rl = "route" => hand \in Frame /\ hand \notin unsent /\ ~Within(hand, wire)
  /\ rl \in {"read", "route", "deliver", "push", "signal", "cancel", "closeAll"} => ~pendErr

\* The peer sends a frame once and the read loop takes it from the connection once.
LEMMA NextFlowInv == ServerOK /\ CallsInv /\ FlowInv /\ [Next]_vars => FlowInv'
<1> SUFFICES ASSUME ServerOK, CallsInv, FlowInv, [Next]_vars PROVE FlowInv'
  OBVIOUS
<1> USE DEF ServerOK, FlowInv
<1>1. ASSUME NEW f \in Frame, PeerSend(f) PROVE FlowInv'
  <2>1. /\ f \in unsent /\ unsent' = unsent \ {f} /\ wire' = Append(wire, f)
        /\ UNCHANGED <<rl, hand, pendErr>>
    BY <1>1 DEF PeerSend, callsVars
  <2>2. /\ \A g : Within(g, wire') <=> Within(g, wire) \/ g = f
        /\ Distinct(wire')
    BY <2>1, WithinAppend
  <2> QED
    BY <2>1, <2>2
<1>2. CASE PeerClose
  BY <1>2 DEF PeerClose, callsVars, netVars, queueVars, handVars
<1>3. CASE NetworkDrop
  <2>1. wire' = <<>> /\ UNCHANGED <<unsent, rl, hand, pendErr>>
    BY <1>3 DEF NetworkDrop, callsVars
  <2>2. Distinct(wire') /\ \A g : ~Within(g, wire')
    BY <2>1 DEF Distinct, Within
  <2> QED
    BY <2>1, <2>2
<1>4. CASE PingFails
  BY <1>4 DEF PingFails, callsVars, netVars, queueVars, handVars, Disconnect
<1>5. CASE ReadFrame
  <2>1. /\ rl = "read" /\ wire # <<>> /\ wire' = Tail(wire) /\ UNCHANGED <<unsent, pendErr>>
        /\ \/ rl' = "leave"
           \/ rl' = "route" /\ hand' = Head(wire)
    BY <1>5 DEF ReadFrame, Disconnect, Hold
  <2>2. /\ Head(wire) \in Frame
        /\ \A g : Within(g, wire) <=> g = Head(wire) \/ Within(g, wire')
        /\ Distinct(wire') /\ ~Within(Head(wire), wire')
    BY <2>1, WithinTail
  <2> QED
    BY <2>1, <2>2
<1>6. CASE ReadError
  BY <1>6 DEF ReadError, callsVars, netVars, queueVars, handVars, Disconnect
<1>7. CASE Route
  BY <1>7 DEF Route, callsVars, netVars, queueVars, handVars, Resolve
<1>8. CASE HandOver
  BY <1>8 DEF HandOver, callsVars, netVars, queueVars, handVars, Deliver
<1>9. CASE Push
  BY <1>9 DEF Push, callsVars, netVars, queueVars, handVars, LetGo
<1>10. CASE Signal
  BY <1>10 DEF Signal, callsVars, netVars, queueVars, handVars
<1>11. CASE Cancel
  BY <1>11 DEF Cancel, callsVars, netVars, queueVars, handVars
<1>12. CASE FailCalls
  BY <1>12 DEF FailCalls, callsVars, netVars, queueVars, handVars, CloseAll
<1>13. ASSUME NEW c \in Call, FailCall(c) PROVE FlowInv'
  BY <1>13 DEF FailCall, callsVars, netVars, queueVars, handVars, CloseChan
<1>14. CASE CallsFailed
  BY <1>14 DEF CallsFailed, callsVars, netVars, queueVars, handVars
<1>15. CASE Leave
  BY <1>15 DEF Leave, callsVars, netVars, queueVars, handVars
<1>16. CASE Join
  BY <1>16 DEF Join, callsVars, netVars, queueVars, handVars
<1>17. CASE Return
  BY <1>17 DEF Return, callsVars, netVars, queueVars, handVars, Disconnect
<1>18. CASE Pop
  BY <1>18 DEF Pop, callsVars, netVars, queueVars, handVars
<1>19. CASE Wake
  BY <1>19 DEF Wake, callsVars, netVars, queueVars, handVars
<1>20. CASE PopEnds
  BY <1>20 DEF PopEnds, callsVars, netVars, queueVars, handVars
<1>21. CASE CallReturned
  BY <1>21 DEF CallReturned, callsVars, netVars, queueVars, handVars
<1>22. CASE HandlerCloses
  BY <1>22 DEF HandlerCloses, callsVars, netVars, queueVars, handVars, Disconnect
<1>23. CASE HandlerReturns
  BY <1>23 DEF HandlerReturns, callsVars, netVars, queueVars, handVars, Disconnect
<1>24. ASSUME NEW c \in Call, HandlerCalls(c) PROVE FlowInv'
  BY <1>24 DEF HandlerCalls, callsVars, netVars, queueVars, handVars, Enter
<1>25. ASSUME NEW c \in Call, SpawnedCalls(c) PROVE FlowInv'
  BY <1>25 DEF SpawnedCalls, callsVars, netVars, queueVars, handVars, Enter
<1>26. ASSUME NEW c \in Call, InCall(c) PROVE FlowInv'
  BY <1>26 DEF InCall, callsVars, netVars, queueVars, handVars, CallStep, Register,
     EncodeFails, LockSend, WriteOk, WriteFails,
     Unregister, TakeReply, SeeClosed, Abandon
<1>27. ASSUME NEW c \in Call, GiveUp(c) PROVE FlowInv'
  BY <1>27 DEF GiveUp, callsVars, netVars, queueVars, handVars, ContextDone
<1>28. CASE UNCHANGED vars
  BY <1>28 DEF vars, callsVars, netVars, queueVars, handVars
<1> QED
  BY <1>1, <1>2, <1>3, <1>4, <1>5, <1>6, <1>7, <1>8, <1>9, <1>10, <1>11,
     <1>12, <1>13, <1>14, <1>15, <1>16, <1>17, <1>18, <1>19, <1>20, <1>21,
     <1>22, <1>23, <1>24, <1>25, <1>26, <1>27, <1>28
     DEF Next, RouteStep

\* A frame on the wire, as FlowInv and as the mapping says it.
LEMMA FreshIs == absFresh = {f \in Frame : f \in unsent \/ (rl = "route" /\ hand = f) \/ Within(f, wire)}
BY DEF absFresh, Within

PromiseInv == CallsInv /\ ReplyInv /\ ForgottenInv /\ EndInv /\ FlowInv

\* The initial state of a connection is that of the promise.
LEMMA InitPromise == Init => Promise!Init
<1> SUFFICES ASSUME Init PROVE Promise!Init
  OBVIOUS
<1>1. absStatus = [c \in Call |-> "new"]
  BY DEF Init, CallsInit, absStatus, InFlight
<1>2. absAnswer = [c \in Call |-> NoFrame]
  BY PendingAssumption DEF PendingAssumption, Init, CallsInit, absAnswer
<1>3. absFresh = Frame
  BY DEF Init, absFresh
<1> QED
  BY <1>1, <1>2, <1>3 DEF Init, CallsInit, absMail, Promise!Init

\* Every step of a connection is a step of the promise, or is not seen.
LEMMA NextPromise == ServerOK /\ PromiseInv /\ [Next]_vars => [Promise!Next]_(Promise!vars)
<1> SUFFICES ASSUME ServerOK, PromiseInv, [Next]_vars PROVE [Promise!Next]_(Promise!vars)
  OBVIOUS
<1> DEFINE Goal == [Promise!Next]_(Promise!vars)
           Calls == UNCHANGED <<absStatus, absAnswer>>
           Flow == UNCHANGED <<absFresh, absMail, handled>>
<1> USE DEF ServerOK
<1>0. ASSUME Calls, Flow, UNCHANGED pendErr PROVE Goal
  BY <1>0 DEF Promise!vars
<1>a. ASSUME UNCHANGED <<pc, reply, ch, target, hand>> PROVE Calls
  BY <1>a DEF absStatus, absAnswer
<1>b. ASSUME UNCHANGED <<unsent, wire, hand, items, handled, rl>> PROVE Flow
  BY <1>b DEF absFresh, absMail
<1>c. ASSUME UNCHANGED <<unsent, wire, items, handled>>,
             {rl, rl'} \cap {"route", "push"} = {}
      PROVE  Flow
  BY <1>c DEF absFresh, absMail
<1>d. ASSUME NEW c \in Call, Enter(c) \/ CallStep(c) \/ ContextDone(c),
             UNCHANGED <<netVars, rl, queueVars, handled>>
      PROVE  Goal
  <2>1. /\ UNCHANGED <<absAnswer, pendErr, hand>>
        /\ UNCHANGED absStatus \/ Begins(c) \/ Ends(c)
    BY <1>d, CallStepPromised DEF PromiseInv
  <2>2. Flow
    BY <1>b, <1>d, <2>1 DEF netVars, queueVars
  <2>3. CASE UNCHANGED absStatus
    BY <1>0, <2>1, <2>2, <2>3
  <2>4. CASE Begins(c)
    <3>1. Promise!Begin(c)
      BY <2>1, <2>2, <2>4 DEF Begins, Promise!Begin
    <3> QED
      BY <3>1 DEF Promise!Next
  <2>5. CASE Ends(c)
    <3>1. Promise!End(c)
      BY <2>1, <2>2, <2>5 DEF Ends, Promise!End
    <3> QED
      BY <3>1 DEF Promise!Next
  <2> QED
    BY <2>1, <2>3, <2>4, <2>5
<1>1. ASSUME NEW f \in Frame, PeerSend(f) PROVE Goal
  <2>1. /\ f \in unsent /\ unsent' = unsent \ {f} /\ wire' = Append(wire, f)
        /\ UNCHANGED <<callsVars, rl, items, handled>>
    BY <1>1 DEF PeerSend, queueVars, handVars
  <2>2. \A g : Within(g, wire') <=> Within(g, wire) \/ g = f
    BY <2>1, WithinAppend
  <2>3. absFresh' = {g \in Frame : g \in unsent' \/ (rl' = "route" /\ hand' = g) \/ Within(g, wire')}
    BY DEF absFresh, Within
  <2>4. UNCHANGED absFresh
    BY <2>1, <2>2, <2>3, FreshIs DEF callsVars
  <2> QED
    BY <1>0, <1>a, <2>1, <2>4 DEF callsVars, absMail
<1>2. CASE PeerClose
  BY <1>2, <1>0, <1>a, <1>b DEF PeerClose, callsVars, netVars, queueVars, handVars
<1>3. CASE NetworkDrop
  <2>1. /\ wire' = <<>> /\ UNCHANGED <<callsVars, unsent, rl, items, handled>>
    BY <1>3 DEF NetworkDrop, queueVars, handVars
  <2>2. absFresh' = {g \in Frame : g \in unsent \/ (rl = "route" /\ hand = g)}
    BY <2>1 DEF absFresh, callsVars
  <2>3. Calls /\ UNCHANGED <<absMail, handled, pendErr>>
    BY <1>a, <2>1 DEF callsVars, absMail
  <2>4. CASE UNCHANGED absFresh
    BY <1>0, <2>3, <2>4
  <2>5. CASE absFresh' # absFresh
    <3> DEFINE lost == absFresh \ absFresh'
    <3>1. absFresh \in SUBSET Frame
      BY DEF absFresh
    <3>2. absFresh' \subseteq absFresh
      BY <2>2, FreshIs
    <3>3. lost \in SUBSET Frame /\ lost # {} /\ lost \subseteq absFresh /\ absFresh' = absFresh \ lost
      BY <2>5, <3>1, <3>2
    <3>4. Promise!Lose(lost)
      BY <2>3, <3>3 DEF Promise!Lose
    <3> QED
      BY <3>3, <3>4 DEF Promise!Next
  <2> QED
    BY <2>4, <2>5
<1>4. CASE PingFails
  BY <1>4, <1>0, <1>a, <1>b DEF PingFails, Disconnect, callsVars, netVars, queueVars, handVars
<1>5. CASE ReadFrame
  <2>1. /\ rl = "read" /\ wire # <<>> /\ wire' = Tail(wire)
        /\ UNCHANGED <<unsent, items, handled, pendErr, target, pc, reply, ch>>
    BY <1>5 DEF ReadFrame, Disconnect, Hold, queueVars, handVars
  <2>2. /\ Head(wire) \in Frame
        /\ \A g : Within(g, wire) <=> g = Head(wire) \/ Within(g, wire')
        /\ ~Within(Head(wire), wire')
    BY <2>1, WithinTail DEF PromiseInv, FlowInv
  <2>3. absFresh' = {g \in Frame : g \in unsent' \/ (rl' = "route" /\ hand' = g) \/ Within(g, wire')}
    BY DEF absFresh, Within
  <2>4. CASE Head(wire) \in BadFrame
    <3>1. rl' = "leave" /\ UNCHANGED hand
      BY <1>5, <2>4 DEF ReadFrame, Disconnect
    <3>2. Calls /\ UNCHANGED <<absMail, handled, pendErr>>
      BY <1>a, <2>1, <3>1 DEF absMail
    <3>3. /\ {Head(wire)} \in SUBSET Frame /\ {Head(wire)} \subseteq absFresh
          /\ absFresh' = absFresh \ {Head(wire)}
      BY <2>1, <2>2, <2>3, <3>1, FreshIs DEF PromiseInv, FlowInv
    <3>4. Promise!Lose({Head(wire)})
      BY <3>2, <3>3 DEF Promise!Lose
    <3> QED
      BY <3>3, <3>4 DEF Promise!Next
  <2>5. CASE Head(wire) \notin BadFrame
    <3>1. rl' = "route" /\ hand' = Head(wire) /\ Hold(Head(wire))
      BY <1>5, <2>5 DEF ReadFrame, Hold
    <3>2. target = NoCall
      BY <2>1 DEF PromiseInv, EndInv
    <3>3. Calls
      BY <2>2, <3>1, <3>2, ReaderPromised DEF PromiseInv
    <3>4. UNCHANGED <<absFresh, absMail>>
      BY <2>1, <2>2, <2>3, <3>1, FreshIs DEF absMail
    <3> QED
      BY <1>0, <2>1, <3>3, <3>4
  <2> QED
    BY <2>4, <2>5
<1>6. CASE ReadError
  BY <1>6, <1>0, <1>a, <1>c DEF ReadError, Disconnect, callsVars, netVars, queueVars, handVars
<1>7. CASE Route
  <2>1. /\ rl = "route" /\ Resolve /\ rl' = IF target' = NoCall THEN "push" ELSE "deliver"
        /\ UNCHANGED <<unsent, wire, items, handled, hand, pendErr>>
    BY <1>7 DEF Route, Resolve, netVars, queueVars, handVars
  <2>2. /\ ~pendErr /\ hand \in absFresh /\ hand \in Frame
        /\ absFresh' = absFresh \ {hand}
    <3>1. absFresh' = {g \in Frame : g \in unsent' \/ (rl' = "route" /\ hand' = g) \/ Within(g, wire')}
      BY DEF absFresh, Within
    <3> QED
      BY <2>1, <3>1, FreshIs DEF PromiseInv, FlowInv
  <2>3. CASE target' = NoCall
    <3>1. /\ Calls
          /\ \A c \in Call : Promise!Unanswered(c) => ~Answers(hand, c)
      BY <2>1, <2>2, <2>3, ResolveFindsNone DEF PromiseInv, ForgottenInv, Promise!Unanswered
    <3>2. absMail' = Append(absMail, hand)
      BY <2>1, <2>3 DEF absMail
    <3>3. Promise!Post(hand)
      BY <2>1, <2>2, <3>1, <3>2 DEF Promise!Post
    <3> QED
      BY <2>2, <3>3 DEF Promise!Next
  <2>4. CASE target' # NoCall
    <3>1. /\ target' \in Call /\ Answers(hand, target')
          /\ absStatus[target'] = "pending" /\ absAnswer[target'] = NoFrame
          /\ absAnswer' = [absAnswer EXCEPT ![target'] = hand]
          /\ UNCHANGED absStatus
      BY <2>1, <2>4, ResolveFindsCall DEF PromiseInv
    <3>2. UNCHANGED absMail
      BY <2>1, <2>4 DEF absMail
    <3>3. Promise!Assign(hand, target')
      BY <2>1, <2>2, <3>1, <3>2 DEF Promise!Assign, Promise!Unanswered
    <3> QED
      BY <2>2, <3>1, <3>3 DEF Promise!Next
  <2> QED
    BY <2>3, <2>4
<1>8. CASE HandOver
  <2>1. Deliver /\ rl = "deliver" /\ rl' = "read" /\ UNCHANGED <<unsent, wire, items, handled, pendErr>>
    BY <1>8 DEF HandOver, Deliver, netVars, queueVars, handVars
  <2>2. Calls
    BY <2>1, ReaderPromised DEF PromiseInv
  <2> QED
    BY <1>0, <1>c, <2>1, <2>2
<1>9. CASE Push
  <2>1. /\ LetGo /\ rl = "push" /\ rl' = "signal" /\ items' = Append(items, hand)
        /\ UNCHANGED <<unsent, wire, handled, pendErr>>
    BY <1>9 DEF Push, LetGo, netVars, handVars
  <2>2. Calls
    BY <2>1, ReaderPromised DEF PromiseInv, LetGo
  <2>3. Flow
    BY <2>1 DEF absFresh, absMail
  <2> QED
    BY <1>0, <2>1, <2>2, <2>3
<1>10. CASE Signal
  BY <1>10, <1>0, <1>a, <1>c DEF Signal, callsVars, netVars, queueVars, handVars
<1>11. CASE Cancel
  BY <1>11, <1>0, <1>a, <1>c DEF Cancel, callsVars, netVars, queueVars, handVars
<1>12. CASE FailCalls
  <2>1. /\ CloseAll /\ pendErr' = TRUE /\ {rl, rl'} \cap {"route", "push"} = {}
        /\ UNCHANGED <<unsent, wire, items, handled>>
    BY <1>12 DEF FailCalls, CloseAll, netVars, queueVars, handVars
  <2>2. Calls /\ Flow
    BY <1>c, <2>1, ReaderPromised DEF PromiseInv
  <2>3. CASE pendErr
    BY <1>0, <2>1, <2>2, <2>3
  <2>4. CASE ~pendErr
    <3>1. Promise!Shut
      BY <2>1, <2>2, <2>4 DEF Promise!Shut
    <3> QED
      BY <3>1 DEF Promise!Next
  <2> QED
    BY <2>3, <2>4
<1>13. ASSUME NEW c \in Call, FailCall(c) PROVE Goal
  BY <1>13, <1>0, <1>a, <1>b DEF FailCall, CloseChan, callsVars, netVars, queueVars, handVars
<1>14. CASE CallsFailed
  BY <1>14, <1>0, <1>a, <1>c DEF CallsFailed, callsVars, netVars, queueVars, handVars
<1>15. CASE Leave
  BY <1>15, <1>0, <1>a, <1>c DEF Leave, callsVars, netVars, queueVars, handVars
<1>16. CASE Join
  BY <1>16, <1>0, <1>a, <1>c DEF Join, callsVars, netVars, queueVars, handVars
<1>17. CASE Return
  BY <1>17, <1>0, <1>a, <1>c DEF Return, Disconnect, callsVars, netVars, queueVars, handVars
<1>18. CASE Pop
  <2>1. UNCHANGED <<callsVars, unsent, wire, rl>>
    BY <1>18 DEF Pop, netVars
  <2>2. CASE items = <<>>
    BY <1>18, <1>0, <1>a, <1>b, <2>1, <2>2 DEF Pop, callsVars
  <2>3. CASE items # <<>>
    <3>1. handled' = Append(handled, Head(items)) /\ items' = Tail(items)
      BY <1>18, <2>3 DEF Pop
    <3>2. Calls /\ UNCHANGED <<absFresh, pendErr>>
      BY <1>a, <2>1 DEF callsVars, absFresh
    <3>3. absMail # <<>> /\ Head(absMail) = Head(items) /\ absMail' = Tail(absMail)
      <4>1. hand \in Frame \cup {NoFrame} /\ items \in Seq(Frame \cup {NoFrame})
        BY DEF PromiseInv, CallsInv, CallsTypeOK
      <4>2. /\ Append(items, hand) # <<>>
            /\ Head(Append(items, hand)) = Head(items)
            /\ Tail(Append(items, hand)) = Append(Tail(items), hand)
        BY <2>3, <4>1
      <4> QED
        BY <2>1, <2>3, <3>1, <4>2 DEF absMail, callsVars
    <3>4. Promise!Receive
      BY <3>1, <3>2, <3>3 DEF Promise!Receive
    <3> QED
      BY <3>4 DEF Promise!Next
  <2> QED
    BY <2>2, <2>3
<1>19. CASE Wake
  BY <1>19, <1>0, <1>a, <1>b DEF Wake, callsVars, netVars, queueVars, handVars
<1>20. CASE PopEnds
  BY <1>20, <1>0, <1>a, <1>b DEF PopEnds, callsVars, netVars, queueVars, handVars
<1>21. CASE CallReturned
  BY <1>21, <1>0, <1>a, <1>b DEF CallReturned, callsVars, netVars, queueVars, handVars
<1>22. CASE HandlerCloses
  BY <1>22, <1>0, <1>a, <1>b DEF HandlerCloses, Disconnect, callsVars, netVars, queueVars, handVars
<1>23. CASE HandlerReturns
  BY <1>23, <1>0, <1>a, <1>b DEF HandlerReturns, Disconnect, callsVars, netVars, queueVars, handVars
<1>24. ASSUME NEW c \in Call, HandlerCalls(c) PROVE Goal
  BY <1>24, <1>d DEF HandlerCalls, handVars
<1>25. ASSUME NEW c \in Call, SpawnedCalls(c) PROVE Goal
  BY <1>25, <1>d DEF SpawnedCalls, handVars
<1>26. ASSUME NEW c \in Call, InCall(c) PROVE Goal
  BY <1>26, <1>d DEF InCall, handVars
<1>27. ASSUME NEW c \in Call, GiveUp(c) PROVE Goal
  BY <1>27, <1>d DEF GiveUp, handVars
<1>28. CASE UNCHANGED vars
  BY <1>0, <1>a, <1>b, <1>28 DEF vars, callsVars, netVars, queueVars, handVars
<1> QED
  BY <1>1, <1>2, <1>3, <1>4, <1>5, <1>6, <1>7, <1>8, <1>9, <1>10, <1>11,
     <1>12, <1>13, <1>14, <1>15, <1>16, <1>17, <1>18, <1>19, <1>20, <1>21,
     <1>22, <1>23, <1>24, <1>25, <1>26, <1>27, <1>28
     DEF Next, RouteStep

\* The connection keeps the promise of CorrelatedCalls: whatever its route,
\* handler and calls do and in whatever order, is something a table of calls and
\* a mailbox could do, while ids in flight are distinct.
THEOREM KeepsPromiseAlways == ASSUME ~ReuseInFlight PROVE Spec => KeepsPromise
<1>1. Init => ReplyInv /\ ForgottenInv /\ EndInv /\ FlowInv
  BY InitReplyInv, InitForgottenInv DEF Init, CallsInit, EndInv, FlowInv, Distinct, Within
<1>2. ServerOK /\ PromiseInv /\ [Next]_vars => (ReplyInv /\ ForgottenInv /\ EndInv /\ FlowInv)'
  BY ServerStepsCalls, NextReplyInv, NextForgottenInv, NextEndInv, NextFlowInv DEF PromiseInv
<1>3. Spec => [](ReplyInv /\ ForgottenInv /\ EndInv /\ FlowInv)
  BY ServerInvariant, <1>1, <1>2, PTL DEF Spec, PromiseInv
<1> QED
  BY ServerInvariant, InitPromise, NextPromise, <1>3, PTL DEF Spec, PromiseInv, KeepsPromise,
     Promise!Spec
=============================================================================

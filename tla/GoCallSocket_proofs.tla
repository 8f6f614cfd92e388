------------------------- MODULE GoCallSocket_proofs -------------------------
(***************************************************************************)
(* Theorems about GoCallSocket, for every set of calls, receivers, ids and *)
(* frames.  Every step of the client handle is a step of CallsNext or      *)
(* leaves the calls alone, so the invariants of GoCalls_proofs hold of it; *)
(* the reader and the inbox have invariants of their own.                  *)
(***************************************************************************)
EXTENDS GoCallSocket, GoCalls_proofs, FiniteSetTheorems

\* The part of TypeOK that is not about the calls.
SocketOK ==
  /\ peer \in {"up", "gone", "silent"}
  /\ unsent \subseteq Frame
  /\ wire \in Seq(Frame)
  /\ rd \in ReaderPC
  /\ inbox \in Seq(Frame)
  /\ inboxDone \in BOOLEAN
  /\ signal \in BOOLEAN
  /\ rpc \in [Receiver -> {"idle", "check", "wait", "renotify"}]
  /\ taken \in Seq(Frame)

\* The client handle starts with its reader off and its inbox empty.
LEMMA InitSocketOK == Init => SocketOK /\ CallsInv
<1> SUFFICES ASSUME Init PROVE SocketOK /\ CallsInv
  OBVIOUS
<1>1. CallsInv
  BY InitCallsInv DEF Init
<1>2. wire \in Seq(Frame) /\ inbox \in Seq(Frame) /\ taken \in Seq(Frame)
  BY DEF Init
<1>3. rpc \in [Receiver -> {"idle", "check", "wait", "renotify"}]
  BY DEF Init
<1> QED
  BY <1>1, <1>2, <1>3 DEF Init, SocketOK, ReaderPC

\* The client handle is an endpoint in the sense of GoCalls.
LEMMA SocketStepsCalls == SocketOK /\ [Next]_vars => [CallsNext]_callsVars
<1> SUFFICES ASSUME SocketOK, [Next]_vars PROVE [CallsNext]_callsVars
  OBVIOUS
<1> USE DEF SocketOK
<1>1. ASSUME NEW f \in Frame, PeerSend(f) PROVE [CallsNext]_callsVars
  BY <1>1 DEF PeerSend
<1>2. CASE PeerClose
  BY <1>2 DEF PeerClose
<1>3. CASE NetworkDrop
  BY <1>3 DEF NetworkDrop
<1>4. CASE Close
  BY <1>4 DEF Close, CallsNext
<1>5. CASE PingFails
  BY <1>5 DEF PingFails, CallsNext
<1>6. ASSUME NEW c \in Call, Start(c) PROVE [CallsNext]_callsVars
  BY <1>6 DEF Start, CallsNext
<1>7. ASSUME NEW c \in Call, InCall(c) PROVE [CallsNext]_callsVars
  BY <1>7 DEF InCall, CallsNext
<1>8. ASSUME NEW c \in Call, GiveUp(c) PROVE [CallsNext]_callsVars
  BY <1>8 DEF GiveUp, CallsNext
<1>9. CASE ReadFrame
  <2>1. CASE Head(wire) \in BadFrame
    BY <1>9, <2>1 DEF ReadFrame, CallsNext
  <2>2. CASE Head(wire) \notin BadFrame
    <3>1. Head(wire) \in Frame
      BY <1>9 DEF ReadFrame
    <3> QED
      BY <1>9, <2>2, <3>1 DEF ReadFrame, CallsNext
  <2> QED
    BY <2>1, <2>2
<1>10. CASE ReadError
  BY <1>10 DEF ReadError, CallsNext
<1>11. CASE Route
  BY <1>11 DEF Route, CallsNext
<1>12. CASE HandOver
  BY <1>12 DEF HandOver, CallsNext
<1>13. CASE Store
  BY <1>13 DEF Store, CallsNext
<1>14. CASE Notify
  BY <1>14 DEF Notify
<1>15. CASE FailCalls
  BY <1>15 DEF FailCalls, CallsNext
<1>16. ASSUME NEW c \in Call, FailCall(c) PROVE [CallsNext]_callsVars
  BY <1>16 DEF FailCall, CallsNext
<1>17. CASE FinishInbox
  BY <1>17 DEF FinishInbox
<1>18. ASSUME NEW r \in Receiver, RecvStart(r) PROVE [CallsNext]_callsVars
  BY <1>18 DEF RecvStart
<1>19. ASSUME NEW r \in Receiver, RecvCheck(r) PROVE [CallsNext]_callsVars
  BY <1>19 DEF RecvCheck
<1>20. ASSUME NEW r \in Receiver, RecvRenotify(r) PROVE [CallsNext]_callsVars
  BY <1>20 DEF RecvRenotify
<1>21. ASSUME NEW r \in Receiver, RecvWake(r) PROVE [CallsNext]_callsVars
  BY <1>21 DEF RecvWake
<1>22. ASSUME NEW r \in Receiver, RecvGiveUp(r) PROVE [CallsNext]_callsVars
  BY <1>22 DEF RecvGiveUp
<1>23. CASE UNCHANGED vars
  BY <1>23 DEF vars, netVars, inboxVars
<1> QED
  BY <1>1, <1>2, <1>3, <1>4, <1>5, <1>6, <1>7, <1>8, <1>9, <1>10, <1>11, <1>12,
     <1>13, <1>14, <1>15, <1>16, <1>17, <1>18, <1>19, <1>20, <1>21, <1>22, <1>23
     DEF Next, ReaderStep

\* No step of the peer, the reader or a receiver leaves the types.
LEMMA NextSocketOK == SocketOK /\ CallsInv /\ [Next]_vars => SocketOK'
<1> SUFFICES ASSUME SocketOK, CallsInv, [Next]_vars PROVE SocketOK'
  OBVIOUS
<1> USE PendingAssumption, SocketAssumption
    DEF PendingAssumption, SocketAssumption, SocketOK, ReaderPC
<1>1. ASSUME NEW f \in Frame, PeerSend(f) PROVE SocketOK'
  BY <1>1 DEF PeerSend, netVars, inboxVars
<1>2. CASE PeerClose
  BY <1>2 DEF PeerClose, netVars, inboxVars
<1>3. CASE NetworkDrop
  BY <1>3 DEF NetworkDrop, netVars, inboxVars
<1>4. CASE Close
  BY <1>4 DEF Close, netVars, inboxVars
<1>5. CASE PingFails
  BY <1>5 DEF PingFails, netVars, inboxVars
<1>6. ASSUME NEW c \in Call, Start(c) PROVE SocketOK'
  BY <1>6 DEF Start, EnsureReader, netVars, inboxVars
<1>7. ASSUME NEW c \in Call, InCall(c) PROVE SocketOK'
  BY <1>7 DEF InCall, netVars, inboxVars
<1>8. ASSUME NEW c \in Call, GiveUp(c) PROVE SocketOK'
  BY <1>8 DEF GiveUp, netVars, inboxVars
<1>9. CASE ReadFrame
  BY <1>9 DEF ReadFrame, Hold, netVars, inboxVars
<1>10. CASE ReadError
  BY <1>10 DEF ReadError, netVars, inboxVars
<1>11. CASE Route
  BY <1>11 DEF Route, netVars, inboxVars
<1>12. CASE HandOver
  BY <1>12 DEF HandOver, netVars, inboxVars
<1>13. CASE Store
  <2>1. hand \in Frame
    BY <1>13 DEF Store, LetGo, CallsInv, CallsTypeOK
  <2> QED
    BY <1>13, <2>1 DEF Store, netVars
<1>14. CASE Notify
  BY <1>14 DEF Notify, netVars, inboxVars
<1>15. CASE FailCalls
  BY <1>15 DEF FailCalls, netVars, inboxVars
<1>16. ASSUME NEW c \in Call, FailCall(c) PROVE SocketOK'
  BY <1>16 DEF FailCall, netVars, inboxVars
<1>17. CASE FinishInbox
  BY <1>17 DEF FinishInbox, netVars, inboxVars
<1>18. ASSUME NEW r \in Receiver, RecvStart(r) PROVE SocketOK'
  BY <1>18 DEF RecvStart, EnsureReader, netVars, inboxVars
<1>19. ASSUME NEW r \in Receiver, RecvCheck(r) PROVE SocketOK'
  <2>1. /\ taken' \in Seq(Frame)
        /\ inbox' \in Seq(Frame)
        /\ rpc' \in [Receiver -> {"idle", "check", "wait", "renotify"}]
    <3>1. CASE inbox # <<>>
      <4>1. Head(inbox) \in Frame /\ Tail(inbox) \in Seq(Frame)
        BY <3>1
      <4>2. /\ taken' = Append(taken, Head(inbox)) /\ inbox' = Tail(inbox)
            /\ \E s \in {"renotify", "idle"} : rpc' = [rpc EXCEPT ![r] = s]
        BY <1>19, <3>1 DEF RecvCheck
      <4> QED
        BY <4>1, <4>2
    <3>2. CASE inbox = <<>>
      BY <1>19, <3>2 DEF RecvCheck
    <3> QED
      BY <3>1, <3>2
  <2> QED
    BY <1>19, <2>1 DEF RecvCheck, netVars
<1>20. ASSUME NEW r \in Receiver, RecvRenotify(r) PROVE SocketOK'
  BY <1>20 DEF RecvRenotify, netVars, inboxVars
<1>21. ASSUME NEW r \in Receiver, RecvWake(r) PROVE SocketOK'
  BY <1>21 DEF RecvWake, netVars, inboxVars
<1>22. ASSUME NEW r \in Receiver, RecvGiveUp(r) PROVE SocketOK'
  BY <1>22 DEF RecvGiveUp, netVars, inboxVars
<1>23. CASE UNCHANGED vars
  BY <1>23 DEF vars, netVars, inboxVars
<1> QED
  BY <1>1, <1>2, <1>3, <1>4, <1>5, <1>6, <1>7, <1>8, <1>9, <1>10, <1>11, <1>12,
     <1>13, <1>14, <1>15, <1>16, <1>17, <1>18, <1>19, <1>20, <1>21, <1>22, <1>23
     DEF Next, ReaderStep

\* What GoCalls_proofs shows of every endpoint holds of the client handle.
LEMMA SocketInvariant == Spec => [](SocketOK /\ CallsInv)
<1>1. SocketOK /\ CallsInv /\ [Next]_vars => (SocketOK /\ CallsInv)'
  BY SocketStepsCalls, NextCallsInv, NextSocketOK
<1> QED
  BY InitSocketOK, <1>1, PTL DEF Spec

\* The state of the client handle always has its declared shape.
THEOREM TypeCorrect == Spec => []TypeOK
<1>1. SocketOK /\ CallsInv => TypeOK
  BY DEF SocketOK, CallsInv, TypeOK
<1> QED
  BY SocketInvariant, <1>1, PTL

\* Calls only get frames that answer them: the id is theirs and the variant is
\* not the one they sent.
THEOREM RepliesMatchAlways == Spec => []RepliesMatch
<1>1. CallsInv => RepliesMatch
  BY DEF CallsInv
<1> QED
  BY SocketInvariant, <1>1, PTL

\* The reader never blocks on a reply channel, nor sends on a closed one.
THEOREM ReaderNeverBlocksAlways == Spec => []ReaderNeverBlocks
<1>1. CallsInv => ReaderNeverBlocks
  BY DEF CallsInv, DeliverOK, ReaderNeverBlocks
<1> QED
  BY SocketInvariant, <1>1, PTL

\* After closeAll no call is in the table, so none waits on a reader that left.
THEOREM ClosedTableIsEmptyAlways == Spec => []ClosedTableIsEmpty
<1>1. CallsInv => ClosedTableIsEmpty
  BY DEF CallsInv, ClosedOK, ClosedTableIsEmpty, Waiting
<1> QED
  BY SocketInvariant, <1>1, PTL

\* While ids in flight are distinct, no registered call is ever left where
\* neither a reply nor the end of the connection can reach it.
THEOREM NoCallForgottenAlways == ASSUME ~ReuseInFlight PROVE Spec => []NoCallForgotten
<1>1. Init => ForgottenInv
  BY InitForgottenInv DEF Init
<1>2. SocketOK /\ CallsInv /\ ForgottenInv /\ [Next]_vars => ForgottenInv'
  BY SocketStepsCalls, NextForgottenInv
<1> QED
  BY SocketInvariant, <1>1, <1>2, KeptIsNotForgotten, PTL DEF Spec

-----------------------------------------------------------------------------
(* The reader returns only after closeAll has closed every channel.        *)

EndInv ==
  /\ rd \in {"closeChans", "lastSignal", "dead"} => pendErr
  /\ rd \in {"lastSignal", "dead"} => closing = {}
  /\ target # NoCall => rd = "deliver"

\* readLoop returns only after closeAll has closed every channel it took.
LEMMA NextEndInv == CallsInv /\ EndInv /\ [Next]_vars => EndInv'
<1> SUFFICES ASSUME CallsInv, EndInv, [Next]_vars PROVE EndInv'
  OBVIOUS
<1> USE DEF CallsInv, ClosedOK, EndInv
<1>1. ASSUME NEW f \in Frame, PeerSend(f) PROVE EndInv'
  BY <1>1 DEF PeerSend, callsVars, netVars, inboxVars
<1>2. CASE PeerClose
  BY <1>2 DEF PeerClose, callsVars, netVars, inboxVars
<1>3. CASE NetworkDrop
  BY <1>3 DEF NetworkDrop, callsVars, netVars, inboxVars
<1>4. CASE Close
  BY <1>4 DEF Close, Disconnect, callsVars, netVars, inboxVars
<1>5. CASE PingFails
  BY <1>5 DEF PingFails, Disconnect, callsVars, netVars, inboxVars
<1>6. ASSUME NEW c \in Call, Start(c) PROVE EndInv'
  BY <1>6 DEF Start, Enter, EnsureReader, callsVars, netVars, inboxVars
<1>7. ASSUME NEW c \in Call, InCall(c) PROVE EndInv'
  BY <1>7 DEF InCall, CallStep, Register, EncodeFails, LockSend, WriteOk, WriteFails,
     Unregister, TakeReply, SeeClosed, Abandon, callsVars, netVars, inboxVars
<1>8. ASSUME NEW c \in Call, GiveUp(c) PROVE EndInv'
  BY <1>8 DEF GiveUp, ContextDone, callsVars, netVars, inboxVars
<1>9. CASE ReadFrame
  BY <1>9 DEF ReadFrame, Hold, Disconnect, callsVars, netVars, inboxVars
<1>10. CASE ReadError
  BY <1>10 DEF ReadError, Disconnect, callsVars, netVars, inboxVars
<1>11. CASE Route
  BY <1>11 DEF Route, Resolve, callsVars, netVars, inboxVars
<1>12. CASE HandOver
  BY <1>12 DEF HandOver, Deliver, callsVars, netVars, inboxVars
<1>13. CASE Store
  BY <1>13 DEF Store, LetGo, callsVars, netVars, inboxVars
<1>14. CASE Notify
  BY <1>14 DEF Notify, callsVars, netVars, inboxVars
<1>15. CASE FailCalls
  BY <1>15 DEF FailCalls, CloseAll, callsVars, netVars, inboxVars
<1>16. ASSUME NEW c \in Call, FailCall(c) PROVE EndInv'
  BY <1>16 DEF FailCall, CloseChan, callsVars, netVars, inboxVars
<1>17. CASE FinishInbox
  BY <1>17 DEF FinishInbox, callsVars, netVars, inboxVars
<1>18. ASSUME NEW r \in Receiver, RecvStart(r) PROVE EndInv'
  BY <1>18 DEF RecvStart, EnsureReader, callsVars, netVars, inboxVars
<1>19. ASSUME NEW r \in Receiver, RecvCheck(r) PROVE EndInv'
  BY <1>19 DEF RecvCheck, callsVars, netVars, inboxVars
<1>20. ASSUME NEW r \in Receiver, RecvRenotify(r) PROVE EndInv'
  BY <1>20 DEF RecvRenotify, callsVars, netVars, inboxVars
<1>21. ASSUME NEW r \in Receiver, RecvWake(r) PROVE EndInv'
  BY <1>21 DEF RecvWake, callsVars, netVars, inboxVars
<1>22. ASSUME NEW r \in Receiver, RecvGiveUp(r) PROVE EndInv'
  BY <1>22 DEF RecvGiveUp, callsVars, netVars, inboxVars
<1>23. CASE UNCHANGED vars
  BY <1>23 DEF vars, netVars, inboxVars, callsVars, netVars, inboxVars
<1> QED
  BY <1>1, <1>2, <1>3, <1>4, <1>5, <1>6, <1>7, <1>8, <1>9, <1>10, <1>11, <1>12,
     <1>13, <1>14, <1>15, <1>16, <1>17, <1>18, <1>19, <1>20, <1>21, <1>22, <1>23
     DEF Next, ReaderStep

\* closeAll fails every call in flight before the reader returns.
THEOREM DeadReaderLeavesNoCallAlways ==
  ASSUME ~ReuseInFlight PROVE Spec => []DeadReaderLeavesNoCall
<1>1. Init => EndInv
  BY DEF Init, CallsInit, EndInv
<1>2. CallsInv /\ EndInv /\ NoCallForgotten => DeadReaderLeavesNoCall
  BY PendingAssumption
     DEF PendingAssumption, CallsInv, CallsTypeOK, ClosedOK, EndInv, NoCallForgotten, Awaits,
         DeadReaderLeavesNoCall
<1> QED
  BY SocketInvariant, NoCallForgottenAlways, NextEndInv, <1>1, <1>2, PTL DEF Spec

-----------------------------------------------------------------------------
(* The inbox signal: NoLostWakeup is inductive with the types.             *)

\* No step of Receive or of the reader loses the token of inboxSignal while
\* somebody waits for it.
LEMMA NextNoLostWakeup == SocketOK /\ NoLostWakeup /\ [Next]_vars => NoLostWakeup'
<1> SUFFICES ASSUME SocketOK, NoLostWakeup, [Next]_vars PROVE NoLostWakeup'
  OBVIOUS
<1> USE DEF SocketOK, NoLostWakeup
<1>1. ASSUME NEW f \in Frame, PeerSend(f) PROVE NoLostWakeup'
  BY <1>1 DEF PeerSend, netVars, inboxVars
<1>2. CASE PeerClose
  BY <1>2 DEF PeerClose, netVars, inboxVars
<1>3. CASE NetworkDrop
  BY <1>3 DEF NetworkDrop, netVars, inboxVars
<1>4. CASE Close
  BY <1>4 DEF Close, netVars, inboxVars
<1>5. CASE PingFails
  BY <1>5 DEF PingFails, netVars, inboxVars
<1>6. ASSUME NEW c \in Call, Start(c) PROVE NoLostWakeup'
  BY <1>6 DEF Start, EnsureReader, netVars, inboxVars
<1>7. ASSUME NEW c \in Call, InCall(c) PROVE NoLostWakeup'
  BY <1>7 DEF InCall, netVars, inboxVars
<1>8. ASSUME NEW c \in Call, GiveUp(c) PROVE NoLostWakeup'
  BY <1>8 DEF GiveUp, netVars, inboxVars
<1>9. CASE ReadFrame
  BY <1>9 DEF ReadFrame, netVars, inboxVars
<1>10. CASE ReadError
  BY <1>10 DEF ReadError, netVars, inboxVars
<1>11. CASE Route
  BY <1>11 DEF Route, netVars, inboxVars
<1>12. CASE HandOver
  BY <1>12 DEF HandOver, netVars, inboxVars
<1>13. CASE Store
  BY <1>13 DEF Store, netVars, inboxVars
<1>14. CASE Notify
  BY <1>14 DEF Notify, netVars, inboxVars
<1>15. CASE FailCalls
  BY <1>15 DEF FailCalls, netVars, inboxVars
<1>16. ASSUME NEW c \in Call, FailCall(c) PROVE NoLostWakeup'
  BY <1>16 DEF FailCall, netVars, inboxVars
<1>17. CASE FinishInbox
  BY <1>17 DEF FinishInbox, netVars, inboxVars
<1>18. ASSUME NEW r \in Receiver, RecvStart(r) PROVE NoLostWakeup'
  BY <1>18 DEF RecvStart, EnsureReader, netVars, inboxVars
<1>19. ASSUME NEW r \in Receiver, RecvCheck(r) PROVE NoLostWakeup'
  <2>1. UNCHANGED <<inboxDone, signal, rd>> /\ r \in DOMAIN rpc
    BY <1>19 DEF RecvCheck
  <2>2. CASE rpc'[r] = "renotify"
    BY <2>1, <2>2
  <2>3. CASE rpc'[r] # "renotify"
    <3>1. inbox' = <<>> /\ ~inboxDone
      BY <1>19, <2>3 DEF RecvCheck, MoreToCome
    <3> QED
      BY <2>1, <3>1
  <2> QED
    BY <2>2, <2>3
<1>20. ASSUME NEW r \in Receiver, RecvRenotify(r) PROVE NoLostWakeup'
  BY <1>20 DEF RecvRenotify, netVars, inboxVars
<1>21. ASSUME NEW r \in Receiver, RecvWake(r) PROVE NoLostWakeup'
  BY <1>21 DEF RecvWake, netVars, inboxVars
<1>22. ASSUME NEW r \in Receiver, RecvGiveUp(r) PROVE NoLostWakeup'
  BY <1>22 DEF RecvGiveUp, netVars, inboxVars
<1>23. CASE UNCHANGED vars
  BY <1>23 DEF vars, netVars, inboxVars
<1> QED
  BY <1>1, <1>2, <1>3, <1>4, <1>5, <1>6, <1>7, <1>8, <1>9, <1>10, <1>11, <1>12,
     <1>13, <1>14, <1>15, <1>16, <1>17, <1>18, <1>19, <1>20, <1>21, <1>22, <1>23
     DEF Next, ReaderStep

\* No receiver sleeps while there is a frame or the end to see and nobody is
\* about to wake it.
THEOREM NoLostWakeupAlways == Spec => []NoLostWakeup
<1>1. Init => NoLostWakeup
  BY DEF Init, NoLostWakeup
<1> QED
  BY SocketInvariant, NextNoLostWakeup, <1>1, PTL DEF Spec

-----------------------------------------------------------------------------
(* What the peer gets.                                                     *)

\* The peer gets a cancel frame only for a call whose frame it got before, at
\* most one, and only of a call that gave up: WriteOk is the last step of a
\* send, and a call that ended otherwise never reaches the cancel frame.
THEOREM CancelFollowsCallAlways == Spec => []CancelFollowsCall
<1>1. Init => WrittenInv
  BY InitWrittenInv DEF Init
<1>2. SocketOK /\ CallsInv /\ WrittenInv /\ [Next]_vars => WrittenInv'
  BY SocketStepsCalls, NextWrittenInv
<1> QED
  BY SocketInvariant, <1>1, <1>2, WrittenFollows, PTL DEF Spec

-----------------------------------------------------------------------------
(* The promise.  A frame is in one place on its way to the reader, and the *)
(* calls are only failed once the reader has read its last frame.          *)

FlowInv ==
  /\ Distinct(wire)
  /\ \A f \in unsent : ~Within(f, wire)
  /\ rd = "route" => hand \in Frame /\ hand \notin unsent /\ ~Within(hand, wire)
  /\ rd \in {"off", "read", "route", "deliver", "store", "signal", "closeAll"} => ~pendErr

\* The peer sends a frame once and the reader takes it from the connection once.
LEMMA NextFlowInv == SocketOK /\ CallsInv /\ FlowInv /\ [Next]_vars => FlowInv'
<1> SUFFICES ASSUME SocketOK, CallsInv, FlowInv, [Next]_vars PROVE FlowInv'
  OBVIOUS
<1> USE DEF SocketOK, FlowInv
<1>1. ASSUME NEW f \in Frame, PeerSend(f) PROVE FlowInv'
  <2>1. /\ f \in unsent /\ unsent' = unsent \ {f} /\ wire' = Append(wire, f)
        /\ UNCHANGED <<rd, hand, pendErr>>
    BY <1>1 DEF PeerSend, callsVars
  <2>2. /\ \A g : Within(g, wire') <=> Within(g, wire) \/ g = f
        /\ Distinct(wire')
    BY <2>1, WithinAppend
  <2> QED
    BY <2>1, <2>2
<1>2. CASE PeerClose
  BY <1>2 DEF PeerClose, callsVars, netVars, inboxVars
<1>3. CASE NetworkDrop
  <2>1. wire' = <<>> /\ UNCHANGED <<unsent, rd, hand, pendErr>>
    BY <1>3 DEF NetworkDrop, callsVars
  <2>2. Distinct(wire') /\ \A g : ~Within(g, wire')
    BY <2>1 DEF Distinct, Within
  <2> QED
    BY <2>1, <2>2
<1>4. CASE Close
  BY <1>4 DEF Close, callsVars, netVars, inboxVars, Disconnect
<1>5. CASE PingFails
  BY <1>5 DEF PingFails, callsVars, netVars, inboxVars, Disconnect
<1>6. ASSUME NEW c \in Call, Start(c) PROVE FlowInv'
  BY <1>6 DEF Start, callsVars, netVars, inboxVars, Enter, EnsureReader
<1>7. ASSUME NEW c \in Call, InCall(c) PROVE FlowInv'
  BY <1>7 DEF InCall, callsVars, netVars, inboxVars, CallStep, Register, EncodeFails, LockSend,
     WriteOk, WriteFails,
     Unregister, TakeReply, SeeClosed, Abandon
<1>8. ASSUME NEW c \in Call, GiveUp(c) PROVE FlowInv'
  BY <1>8 DEF GiveUp, callsVars, netVars, inboxVars, ContextDone
<1>9. CASE ReadFrame
  <2>1. /\ rd = "read" /\ wire # <<>> /\ wire' = Tail(wire) /\ UNCHANGED <<unsent, pendErr>>
        /\ \/ rd' = "closeAll"
           \/ rd' = "route" /\ hand' = Head(wire)
    BY <1>9 DEF ReadFrame, Disconnect, Hold
  <2>2. /\ Head(wire) \in Frame
        /\ \A g : Within(g, wire) <=> g = Head(wire) \/ Within(g, wire')
        /\ Distinct(wire') /\ ~Within(Head(wire), wire')
    BY <2>1, WithinTail
  <2> QED
    BY <2>1, <2>2
<1>10. CASE ReadError
  BY <1>10 DEF ReadError, callsVars, netVars, inboxVars, Disconnect
<1>11. CASE Route
  BY <1>11 DEF Route, callsVars, netVars, inboxVars, Resolve
<1>12. CASE HandOver
  BY <1>12 DEF HandOver, callsVars, netVars, inboxVars, Deliver
<1>13. CASE Store
  BY <1>13 DEF Store, callsVars, netVars, inboxVars, LetGo
<1>14. CASE Notify
  BY <1>14 DEF Notify, callsVars, netVars, inboxVars
<1>15. CASE FailCalls
  BY <1>15 DEF FailCalls, callsVars, netVars, inboxVars, CloseAll
<1>16. ASSUME NEW c \in Call, FailCall(c) PROVE FlowInv'
  BY <1>16 DEF FailCall, callsVars, netVars, inboxVars, CloseChan
<1>17. CASE FinishInbox
  BY <1>17 DEF FinishInbox, callsVars, netVars, inboxVars
<1>18. ASSUME NEW r \in Receiver, RecvStart(r) PROVE FlowInv'
  BY <1>18 DEF RecvStart, callsVars, netVars, inboxVars, EnsureReader
<1>19. ASSUME NEW r \in Receiver, RecvCheck(r) PROVE FlowInv'
  BY <1>19 DEF RecvCheck, callsVars, netVars, inboxVars
<1>20. ASSUME NEW r \in Receiver, RecvRenotify(r) PROVE FlowInv'
  BY <1>20 DEF RecvRenotify, callsVars, netVars, inboxVars
<1>21. ASSUME NEW r \in Receiver, RecvWake(r) PROVE FlowInv'
  BY <1>21 DEF RecvWake, callsVars, netVars, inboxVars
<1>22. ASSUME NEW r \in Receiver, RecvGiveUp(r) PROVE FlowInv'
  BY <1>22 DEF RecvGiveUp, callsVars, netVars, inboxVars
<1>23. CASE UNCHANGED vars
  BY <1>23 DEF vars, callsVars, netVars, inboxVars
<1> QED
  BY <1>1, <1>2, <1>3, <1>4, <1>5, <1>6, <1>7, <1>8, <1>9, <1>10, <1>11,
     <1>12, <1>13, <1>14, <1>15, <1>16, <1>17, <1>18, <1>19, <1>20, <1>21,
     <1>22, <1>23
     DEF Next, ReaderStep

\* A frame on the wire, as FlowInv and as the mapping says it.
LEMMA FreshIs == absFresh = {f \in Frame : f \in unsent \/ (rd = "route" /\ hand = f) \/ Within(f, wire)}
BY DEF absFresh, Within

PromiseInv == CallsInv /\ ReplyInv /\ ForgottenInv /\ EndInv /\ FlowInv

\* The initial state of the handle is that of the promise.
LEMMA InitPromise == Init => Promise!Init
<1> SUFFICES ASSUME Init PROVE Promise!Init
  OBVIOUS
<1>1. absStatus = [c \in Call |-> "new"]
  BY DEF Init, CallsInit, absStatus, InFlight
<1>2. absAnswer = [c \in Call |-> NoFrame]
  BY PendingAssumption DEF PendingAssumption, Init, CallsInit, absAnswer
<1>3. absFresh = Frame
  BY DEF Init, absFresh
<1> QED
  BY <1>1, <1>2, <1>3 DEF Init, CallsInit, absMail, Promise!Init

\* Every step of the client handle is a step of the promise, or is not seen.
LEMMA NextPromise == SocketOK /\ PromiseInv /\ [Next]_vars => [Promise!Next]_(Promise!vars)
<1> SUFFICES ASSUME SocketOK, PromiseInv, [Next]_vars PROVE [Promise!Next]_(Promise!vars)
  OBVIOUS
<1> DEFINE Goal == [Promise!Next]_(Promise!vars)
           Calls == UNCHANGED <<absStatus, absAnswer>>
           Flow == UNCHANGED <<absFresh, absMail, taken>>
<1> USE DEF SocketOK
<1>0. ASSUME Calls, Flow, UNCHANGED pendErr PROVE Goal
  BY <1>0 DEF Promise!vars
<1>a. ASSUME UNCHANGED <<pc, reply, ch, target, hand>> PROVE Calls
  BY <1>a DEF absStatus, absAnswer
<1>b. ASSUME UNCHANGED <<unsent, wire, hand, inbox, taken, rd>> PROVE Flow
  BY <1>b DEF absFresh, absMail
<1>c. ASSUME UNCHANGED <<unsent, wire, inbox, taken>>,
             {rd, rd'} \cap {"route", "store"} = {}
      PROVE  Flow
  BY <1>c DEF absFresh, absMail
<1>d. ASSUME NEW c \in Call, Enter(c) \/ CallStep(c) \/ ContextDone(c),
             UNCHANGED <<netVars, inboxVars>>,
             rd' = rd \/ {rd, rd'} \cap {"route", "store"} = {}
      PROVE  Goal
  <2>1. /\ UNCHANGED <<absAnswer, pendErr, hand>>
        /\ UNCHANGED absStatus \/ Begins(c) \/ Ends(c)
    BY <1>d, CallStepPromised DEF PromiseInv
  <2>2. Flow
    BY <1>b, <1>c, <1>d, <2>1 DEF netVars, inboxVars
  <2>3. CASE UNCHANGED absStatus
    BY <1>0, <2>1, <2>2, <2>3
  <2>4. CASE Begins(c)
    <3>1. Promise!Begin(c)
      BY <2>1, <2>2, <2>4 DEF Begins, Promise!Begin
    <3> QED
      BY <3>1 DEF Promise!Next
  <2>5. CASE Ends(c)
    <3>1. Promise!End(c)
      BY <2>1, <2>2, <2>5 DEF Ends, Promise!End
    <3> QED
      BY <3>1 DEF Promise!Next
  <2> QED
    BY <2>1, <2>3, <2>4, <2>5
<1>1. ASSUME NEW f \in Frame, PeerSend(f) PROVE Goal
  <2>1. /\ f \in unsent /\ unsent' = unsent \ {f} /\ wire' = Append(wire, f)
        /\ UNCHANGED <<callsVars, rd, inbox, taken>>
    BY <1>1 DEF PeerSend, inboxVars
  <2>2. \A g : Within(g, wire') <=> Within(g, wire) \/ g = f
    BY <2>1, WithinAppend
  <2>3. absFresh' = {g \in Frame : g \in unsent' \/ (rd' = "route" /\ hand' = g) \/ Within(g, wire')}
    BY DEF absFresh, Within
  <2>4. UNCHANGED absFresh
    BY <2>1, <2>2, <2>3, FreshIs DEF callsVars
  <2> QED
    BY <1>0, <1>a, <2>1, <2>4 DEF callsVars, absMail
<1>2. CASE PeerClose
  BY <1>2, <1>0, <1>a, <1>b DEF PeerClose, callsVars, netVars, inboxVars
<1>3. CASE NetworkDrop
  <2>1. /\ wire' = <<>> /\ UNCHANGED <<callsVars, unsent, rd, inbox, taken>>
    BY <1>3 DEF NetworkDrop, inboxVars
  <2>2. absFresh' = {g \in Frame : g \in unsent \/ (rd = "route" /\ hand = g)}
    BY <2>1 DEF absFresh, callsVars
  <2>3. Calls /\ UNCHANGED <<absMail, taken, pendErr>>
    BY <1>a, <2>1 DEF callsVars, absMail
  <2>4. CASE UNCHANGED absFresh
    BY <1>0, <2>3, <2>4
  <2>5. CASE absFresh' # absFresh
    <3> DEFINE lost == absFresh \ absFresh'
    <3>1. absFresh \in SUBSET Frame
      BY DEF absFresh
    <3>2. absFresh' \subseteq absFresh
      BY <2>2, FreshIs
    <3>3. lost \in SUBSET Frame /\ lost # {} /\ lost \subseteq absFresh /\ absFresh' = absFresh \ lost
      BY <2>5, <3>1, <3>2
    <3>4. Promise!Lose(lost)
      BY <2>3, <3>3 DEF Promise!Lose
    <3> QED
      BY <3>3, <3>4 DEF Promise!Next
  <2> QED
    BY <2>4, <2>5
<1>4. CASE Close
  BY <1>4, <1>0, <1>a, <1>b DEF Close, Disconnect, callsVars, netVars, inboxVars
<1>5. CASE PingFails
  BY <1>5, <1>0, <1>a, <1>b DEF PingFails, Disconnect, callsVars, netVars, inboxVars
<1>6. ASSUME NEW c \in Call, Start(c) PROVE Goal
  BY <1>6, <1>d DEF Start, EnsureReader
<1>7. ASSUME NEW c \in Call, InCall(c) PROVE Goal
  BY <1>7, <1>d DEF InCall
<1>8. ASSUME NEW c \in Call, GiveUp(c) PROVE Goal
  BY <1>8, <1>d DEF GiveUp
<1>9. CASE ReadFrame
  <2>1. /\ rd = "read" /\ wire # <<>> /\ wire' = Tail(wire)
        /\ UNCHANGED <<unsent, inbox, taken, pendErr, target, pc, reply, ch>>
    BY <1>9 DEF ReadFrame, Disconnect, Hold, inboxVars
  <2>2. /\ Head(wire) \in Frame
        /\ \A g : Within(g, wire) <=> g = Head(wire) \/ Within(g, wire')
        /\ ~Within(Head(wire), wire')
    BY <2>1, WithinTail DEF PromiseInv, FlowInv
  <2>3. absFresh' = {g \in Frame : g \in unsent' \/ (rd' = "route" /\ hand' = g) \/ Within(g, wire')}
    BY DEF absFresh, Within
  <2>4. CASE Head(wire) \in BadFrame
    <3>1. rd' = "closeAll" /\ UNCHANGED hand
      BY <1>9, <2>4 DEF ReadFrame, Disconnect
    <3>2. Calls /\ UNCHANGED <<absMail, taken, pendErr>>
      BY <1>a, <2>1, <3>1 DEF absMail
    <3>3. /\ {Head(wire)} \in SUBSET Frame /\ {Head(wire)} \subseteq absFresh
          /\ absFresh' = absFresh \ {Head(wire)}
      BY <2>1, <2>2, <2>3, <3>1, FreshIs DEF PromiseInv, FlowInv
    <3>4. Promise!Lose({Head(wire)})
      BY <3>2, <3>3 DEF Promise!Lose
    <3> QED
      BY <3>3, <3>4 DEF Promise!Next
  <2>5. CASE Head(wire) \notin BadFrame
    <3>1. rd' = "route" /\ hand' = Head(wire) /\ Hold(Head(wire))
      BY <1>9, <2>5 DEF ReadFrame, Hold
    <3>2. target = NoCall
      BY <2>1 DEF PromiseInv, EndInv
    <3>3. Calls
      BY <2>2, <3>1, <3>2, ReaderPromised DEF PromiseInv
    <3>4. UNCHANGED <<absFresh, absMail>>
      BY <2>1, <2>2, <2>3, <3>1, FreshIs DEF absMail
    <3> QED
      BY <1>0, <2>1, <3>3, <3>4
  <2> QED
    BY <2>4, <2>5
<1>10. CASE ReadError
  BY <1>10, <1>0, <1>a, <1>c DEF ReadError, Disconnect, callsVars, netVars, inboxVars
<1>11. CASE Route
  <2>1. /\ rd = "route" /\ Resolve /\ rd' = IF target' = NoCall THEN "store" ELSE "deliver"
        /\ UNCHANGED <<unsent, wire, inbox, taken, hand, pendErr>>
    BY <1>11 DEF Route, Resolve, netVars, inboxVars
  <2>2. /\ ~pendErr /\ hand \in absFresh /\ hand \in Frame
        /\ absFresh' = absFresh \ {hand}
    <3>1. absFresh' = {g \in Frame : g \in unsent' \/ (rd' = "route" /\ hand' = g) \/ Within(g, wire')}
      BY DEF absFresh, Within
    <3> QED
      BY <2>1, <3>1, FreshIs DEF PromiseInv, FlowInv
  <2>3. CASE target' = NoCall
    <3>1. /\ Calls
          /\ \A c \in Call : Promise!Unanswered(c) => ~Answers(hand, c)
      BY <2>1, <2>2, <2>3, ResolveFindsNone DEF PromiseInv, ForgottenInv, Promise!Unanswered
    <3>2. absMail' = Append(absMail, hand)
      BY <2>1, <2>3 DEF absMail
    <3>3. Promise!Post(hand)
      BY <2>1, <2>2, <3>1, <3>2 DEF Promise!Post
    <3> QED
      BY <2>2, <3>3 DEF Promise!Next
  <2>4. CASE target' # NoCall
    <3>1. /\ target' \in Call /\ Answers(hand, target')
          /\ absStatus[target'] = "pending" /\ absAnswer[target'] = NoFrame
          /\ absAnswer' = [absAnswer EXCEPT ![target'] = hand]
          /\ UNCHANGED absStatus
      BY <2>1, <2>4, ResolveFindsCall DEF PromiseInv
    <3>2. UNCHANGED absMail
      BY <2>1, <2>4 DEF absMail
    <3>3. Promise!Assign(hand, target')
      BY <2>1, <2>2, <3>1, <3>2 DEF Promise!Assign, Promise!Unanswered
    <3> QED
      BY <2>2, <3>1, <3>3 DEF Promise!Next
  <2> QED
    BY <2>3, <2>4
<1>12. CASE HandOver
  <2>1. Deliver /\ rd = "deliver" /\ rd' = "read" /\ UNCHANGED <<unsent, wire, inbox, taken, pendErr>>
    BY <1>12 DEF HandOver, Deliver, netVars, inboxVars
  <2>2. Calls
    BY <2>1, ReaderPromised DEF PromiseInv
  <2> QED
    BY <1>0, <1>c, <2>1, <2>2
<1>13. CASE Store
  <2>1. /\ LetGo /\ rd = "store" /\ rd' = "signal" /\ inbox' = Append(inbox, hand)
        /\ UNCHANGED <<unsent, wire, taken, pendErr>>
    BY <1>13 DEF Store, LetGo, netVars
  <2>2. Calls
    BY <2>1, ReaderPromised DEF PromiseInv, LetGo
  <2>3. Flow
    BY <2>1 DEF absFresh, absMail
  <2> QED
    BY <1>0, <2>1, <2>2, <2>3
<1>14. CASE Notify
  BY <1>14, <1>0, <1>a, <1>c DEF Notify, callsVars, netVars, inboxVars
<1>15. CASE FailCalls
  <2>1. /\ CloseAll /\ pendErr' = TRUE /\ {rd, rd'} \cap {"route", "store"} = {}
        /\ UNCHANGED <<unsent, wire, inbox, taken>>
    BY <1>15 DEF FailCalls, CloseAll, netVars, inboxVars
  <2>2. Calls /\ Flow
    BY <1>c, <2>1, ReaderPromised DEF PromiseInv
  <2>3. CASE pendErr
    BY <1>0, <2>1, <2>2, <2>3
  <2>4. CASE ~pendErr
    <3>1. Promise!Shut
      BY <2>1, <2>2, <2>4 DEF Promise!Shut
    <3> QED
      BY <3>1 DEF Promise!Next
  <2> QED
    BY <2>3, <2>4
<1>16. ASSUME NEW c \in Call, FailCall(c) PROVE Goal
  BY <1>16, <1>0, <1>a, <1>b DEF FailCall, CloseChan, callsVars, netVars, inboxVars
<1>17. CASE FinishInbox
  BY <1>17, <1>0, <1>a, <1>c DEF FinishInbox, callsVars, netVars, inboxVars
<1>18. ASSUME NEW r \in Receiver, RecvStart(r) PROVE Goal
  BY <1>18, <1>0, <1>a, <1>b, <1>c DEF RecvStart, EnsureReader, callsVars, netVars, inboxVars
<1>19. ASSUME NEW r \in Receiver, RecvCheck(r) PROVE Goal
  <2>1. UNCHANGED <<callsVars, unsent, wire, rd>>
    BY <1>19 DEF RecvCheck, netVars
  <2>2. CASE inbox = <<>>
    BY <1>19, <1>0, <1>a, <1>b, <2>1, <2>2 DEF RecvCheck, callsVars
  <2>3. CASE inbox # <<>>
    <3>1. taken' = Append(taken, Head(inbox)) /\ inbox' = Tail(inbox)
      BY <1>19, <2>3 DEF RecvCheck
    <3>2. Calls /\ UNCHANGED <<absFresh, pendErr>>
      BY <1>a, <2>1 DEF callsVars, absFresh
    <3>3. absMail # <<>> /\ Head(absMail) = Head(inbox) /\ absMail' = Tail(absMail)
      <4>1. hand \in Frame \cup {NoFrame} /\ inbox \in Seq(Frame \cup {NoFrame})
        BY DEF PromiseInv, CallsInv, CallsTypeOK
      <4>2. /\ Append(inbox, hand) # <<>>
            /\ Head(Append(inbox, hand)) = Head(inbox)
            /\ Tail(Append(inbox, hand)) = Append(Tail(inbox), hand)
        <5>1. Len(inbox) \in Nat \ {0} /\ Append(inbox, hand) \in Seq(Frame \cup {NoFrame})
          BY <2>3, <4>1
        <5>2. Append(inbox, hand) # <<>> /\ Head(Append(inbox, hand)) = Head(inbox)
          BY <4>1, <5>1
        <5>3. Tail(Append(inbox, hand)) = Append(Tail(inbox), hand)
          BY <4>1, <5>1, SMTT(30)
        <5> QED
          BY <5>2, <5>3
      <4>3. CASE absMail = inbox /\ absMail' = inbox'
        BY <2>3, <3>1, <4>3
      <4>4. CASE absMail = Append(inbox, hand) /\ absMail' = Append(inbox', hand)
        BY <3>1, <4>2, <4>4
      <4>5. hand' = hand /\ rd' = rd
        BY <2>1 DEF callsVars
      <4> QED
        BY <4>3, <4>4, <4>5 DEF absMail
    <3>4. Promise!Receive
      BY <3>1, <3>2, <3>3 DEF Promise!Receive
    <3> QED
      BY <3>4 DEF Promise!Next
  <2> QED
    BY <2>2, <2>3
<1>20. ASSUME NEW r \in Receiver, RecvRenotify(r) PROVE Goal
  BY <1>20, <1>0, <1>a, <1>b DEF RecvRenotify, callsVars, netVars, inboxVars
<1>21. ASSUME NEW r \in Receiver, RecvWake(r) PROVE Goal
  BY <1>21, <1>0, <1>a, <1>b DEF RecvWake, callsVars, netVars, inboxVars
<1>22. ASSUME NEW r \in Receiver, RecvGiveUp(r) PROVE Goal
  BY <1>22, <1>0, <1>a, <1>b DEF RecvGiveUp, callsVars, netVars, inboxVars
<1>23. CASE UNCHANGED vars
  BY <1>0, <1>a, <1>b, <1>23 DEF vars, callsVars, netVars, inboxVars
<1> QED
  BY <1>1, <1>2, <1>3, <1>4, <1>5, <1>6, <1>7, <1>8, <1>9, <1>10, <1>11,
     <1>12, <1>13, <1>14, <1>15, <1>16, <1>17, <1>18, <1>19, <1>20, <1>21,
     <1>22, <1>23
     DEF Next, ReaderStep

\* The client handle keeps the promise of CorrelatedCalls: whatever its reader,
\* calls and receivers do and in whatever order, is something a table of calls
\* and a mailbox could do, while ids in flight are distinct.
THEOREM KeepsPromiseAlways == ASSUME ~ReuseInFlight PROVE Spec => Promise!Spec
<1>1. Init => ReplyInv /\ ForgottenInv /\ EndInv /\ FlowInv
  BY InitReplyInv, InitForgottenInv DEF Init, CallsInit, EndInv, FlowInv, Distinct, Within
<1>2. SocketOK /\ PromiseInv /\ [Next]_vars => (ReplyInv /\ ForgottenInv /\ EndInv /\ FlowInv)'
  BY SocketStepsCalls, NextReplyInv, NextForgottenInv, NextEndInv, NextFlowInv DEF PromiseInv
<1>3. Spec => [](ReplyInv /\ ForgottenInv /\ EndInv /\ FlowInv)
  BY SocketInvariant, <1>1, <1>2, PTL DEF Spec, PromiseInv
<1> QED
  BY SocketInvariant, InitPromise, NextPromise, <1>3, PTL DEF Spec, PromiseInv, Promise!Spec

-----------------------------------------------------------------------------
(* Where a frame is.  It moves from the peer to the wire, to the reader's  *)
(* hand, and from there to a channel and the call that takes it, or to the *)
(* inbox and the receiver that takes it.                                   *)

InChannel(f) == \E c \in Call : ch[c] = f
Returned(f) == \E c \in Call : reply[c] = f

\* No frame is at two calls.
Single(h) == \A c, d \in Call : h[c] = h[d] /\ h[c] # NoFrame => c = d

Read(f) == InChannel(f) \/ Returned(f) \/ Within(f, inbox) \/ Within(f, taken)

OnePlace(f) ==
  /\ f \in unsent => ~Within(f, wire) /\ hand # f /\ ~Read(f)
  /\ Within(f, wire) => hand # f /\ ~Read(f)
  /\ hand = f => ~Read(f)
  /\ InChannel(f) => ~Returned(f)
  /\ InChannel(f) \/ Returned(f) => ~Within(f, inbox) /\ ~Within(f, taken)
  /\ Within(f, inbox) => ~Within(f, taken)

SomePlace(f) == f \in unsent \/ Within(f, wire) \/ hand = f \/ Read(f)

\* The reader works and the network holds.
Working ==
  rd \in {"off", "read", "route", "deliver", "store", "signal"} /\ peer # "silent"

PlacesInv == \A f \in Frame : OnePlace(f) /\ (Working => SomePlace(f))

OnceInv ==
  /\ Distinct(wire) /\ Distinct(inbox) /\ Distinct(taken) /\ Single(ch) /\ Single(reply)
  /\ PlacesInv

\* What a set with one element at most counts.
LEMMA CountsOne ==
  ASSUME NEW S, \A x, y \in S : x = y
  PROVE  Cardinality(S) = IF S = {} THEN 0 ELSE 1
<1>1. CASE S = {}
  BY <1>1, FS_EmptySet
<1>2. ASSUME NEW x \in S PROVE Cardinality(S) = 1
  <2>1. S = {x}
    BY <1>2
  <2> QED
    BY <2>1, FS_Singleton
<1> QED
  BY <1>1, <1>2

\* How often a frame is in a sequence without repetitions.
LEMMA TimesOne ==
  ASSUME NEW f, NEW s, Distinct(s) PROVE Times(f, s) = IF Within(f, s) THEN 1 ELSE 0
<1> DEFINE S == {i \in DOMAIN s : s[i] = f}
<1>1. Cardinality(S) = IF S = {} THEN 0 ELSE 1
  <2>1. \A x, y \in S : x = y
    BY DEF Distinct
  <2> HIDE DEF S
  <2> QED
    BY <2>1, CountsOne
<1>2. S = {} <=> ~Within(f, s)
  BY DEF Within
<1> QED
  BY <1>1, <1>2 DEF Times

\* OnceInv counts what EachFrameOnce counts.
LEMMA OnceIsOnce == OnceInv => EachFrameOnce
<1> SUFFICES ASSUME OnceInv, NEW f \in Frame
             PROVE  Copies(f) <= 1 /\ (Working => Copies(f) = 1)
  BY DEF EachFrameOnce, Working
<1> DEFINE C == {c \in Call : ch[c] = f}
           R == {c \in Call : reply[c] = f}
<1>1. Cardinality(C) = IF InChannel(f) THEN 1 ELSE 0
  <2>1. \A x, y \in C : x = y
    BY PendingAssumption DEF PendingAssumption, OnceInv, Single
  <2>2. C = {} <=> ~InChannel(f)
    BY DEF InChannel
  <2> HIDE DEF C
  <2> QED
    BY <2>1, <2>2, CountsOne
<1>2. Cardinality(R) = IF Returned(f) THEN 1 ELSE 0
  <2>1. \A x, y \in R : x = y
    BY PendingAssumption DEF PendingAssumption, OnceInv, Single
  <2>2. R = {} <=> ~Returned(f)
    BY DEF Returned
  <2> HIDE DEF R
  <2> QED
    BY <2>1, <2>2, CountsOne
<1>3. /\ Times(f, wire) = IF Within(f, wire) THEN 1 ELSE 0
      /\ Times(f, inbox) = IF Within(f, inbox) THEN 1 ELSE 0
      /\ Times(f, taken) = IF Within(f, taken) THEN 1 ELSE 0
  BY TimesOne DEF OnceInv
<1>4. OnePlace(f) /\ (Working => SomePlace(f))
  BY DEF OnceInv, PlacesInv
<1>5. Copies(f) = Cardinality(C) + Cardinality(R) + Times(f, wire) + Times(f, inbox)
                    + Times(f, taken) + (IF hand = f THEN 1 ELSE 0)
                    + (IF f \in unsent THEN 1 ELSE 0)
  BY DEF Copies
<1> HIDE DEF C, R
<1> QED
  BY <1>1, <1>2, <1>3, <1>4, <1>5 DEF OnePlace, SomePlace, Read

\* Nothing is anywhere but with the peer.
LEMMA InitOnceInv == Init => OnceInv
<1> SUFFICES ASSUME Init PROVE OnceInv
  OBVIOUS
<1>1. /\ unsent = Frame /\ wire = <<>> /\ inbox = <<>> /\ taken = <<>> /\ hand = NoFrame
      /\ ch = [c \in Call |-> NoFrame] /\ reply = [c \in Call |-> NoFrame]
  BY DEF Init, CallsInit
<1>2. Distinct(<<>>) /\ \A f : ~Within(f, <<>>)
  BY DEF Distinct, Within
<1>3. \A f \in Frame : ~InChannel(f) /\ ~Returned(f) /\ hand # f
  BY <1>1, PendingAssumption DEF PendingAssumption, InChannel, Returned
<1> QED
  BY <1>1, <1>2, <1>3 DEF OnceInv, Single, PlacesInv, OnePlace, SomePlace, Read

\* A step that moves no frame.
LEMMA FramesStay ==
  ASSUME OnceInv, UNCHANGED <<unsent, wire, hand, ch, reply, inbox, taken>>, Working' => Working
  PROVE  OnceInv'
BY DEF OnceInv, PlacesInv, OnePlace, SomePlace, Read, InChannel, Returned, Single, Distinct, Within

\* The frame in hand goes to the channel of the call that resolve has found.
LEMMA FrameHandedOver ==
  ASSUME SocketOK, CallsInv, OnceInv, HandOver PROVE OnceInv'
<1>1. /\ rd = "deliver" /\ rd' = "read" /\ target \in Call /\ hand \in Frame
      /\ ch[target] = NoFrame /\ ch' = [ch EXCEPT ![target] = hand] /\ hand' = NoFrame
      /\ ch \in [Call -> Frame \cup {NoFrame}]
      /\ UNCHANGED <<unsent, wire, reply, inbox, taken, peer>>
  BY DEF HandOver, Deliver, CallsInv, CallsTypeOK, DeliverOK, netVars, inboxVars
<1>2. OnePlace(hand) /\ ~InChannel(hand)
  BY <1>1 DEF OnceInv, PlacesInv, OnePlace, Read
<1>3. \A g \in Frame : /\ InChannel(g)' <=> InChannel(g) \/ g = hand
                       /\ hand' # g /\ (Returned(g)' <=> Returned(g))
  BY <1>1, PendingAssumption DEF PendingAssumption, InChannel, Returned
<1>4. Single(ch')
  BY <1>1, <1>2, PendingAssumption DEF PendingAssumption, OnceInv, Single, InChannel
<1>5. \A g \in Frame : OnePlace(g) /\ (Working => SomePlace(g))
  BY DEF OnceInv, PlacesInv
<1>6. Working' => Working
  BY <1>1 DEF Working
<1>7. PlacesInv'
  <2> SUFFICES ASSUME NEW g \in Frame PROVE OnePlace(g)' /\ (Working' => SomePlace(g)')
    BY DEF PlacesInv
  <2>1. CASE g = hand
    BY <1>1, <1>2, <1>3, <2>1 DEF OnePlace, SomePlace, Read
  <2>2. CASE g # hand
    BY <1>1, <1>3, <1>5, <1>6, <2>2 DEF OnePlace, SomePlace, Read
  <2> QED
    BY <2>1, <2>2
<1> QED
  BY <1>1, <1>4, <1>7 DEF OnceInv

\* The call takes the frame out of its channel and returns it.
LEMMA FrameReturned ==
  ASSUME CallsInv, ReplyInv, OnceInv, NEW c \in Call, TakeReply(c),
         UNCHANGED <<netVars, rd, inboxVars>>
  PROVE  OnceInv'
<1> DEFINE f == ch[c]
<1>1. /\ f \in Frame /\ reply[c] = NoFrame
      /\ reply' = [reply EXCEPT ![c] = f] /\ ch' = [ch EXCEPT ![c] = NoFrame]
      /\ ch \in [Call -> Frame \cup {NoFrame}] /\ reply \in [Call -> Frame \cup {NoFrame}]
      /\ UNCHANGED <<unsent, wire, hand, inbox, taken, peer, rd>>
  BY DEF TakeReply, CallsInv, CallsTypeOK, ReplyInv, netVars, inboxVars
<1>2. InChannel(f) /\ OnePlace(f) /\ \A d \in Call : d # c => ch[d] # f
  BY <1>1, PendingAssumption
     DEF PendingAssumption, InChannel, OnceInv, PlacesInv, Single
<1>3. \A g \in Frame : /\ InChannel(g)' <=> InChannel(g) /\ g # f
                       /\ Returned(g)' <=> Returned(g) \/ g = f
  BY <1>1, <1>2, PendingAssumption DEF PendingAssumption, InChannel, Returned
<1>4. Single(ch') /\ Single(reply')
  <2>1. Single(ch) /\ Single(reply) /\ \A d \in Call : reply[d] # f
    BY <1>2 DEF OnceInv, OnePlace, Returned
  <2> QED
    BY <1>1, <2>1 DEF Single
<1> HIDE DEF f
<1>5. \A g \in Frame : OnePlace(g) /\ (Working => SomePlace(g))
  BY DEF OnceInv, PlacesInv
<1>6. Working' <=> Working
  BY <1>1 DEF Working
<1>7. PlacesInv'
  <2> SUFFICES ASSUME NEW g \in Frame PROVE OnePlace(g)' /\ (Working' => SomePlace(g)')
    BY DEF PlacesInv
  <2>1. CASE g = f
    BY <1>1, <1>2, <1>3, <2>1 DEF OnePlace, SomePlace, Read
  <2>2. CASE g # f
    BY <1>1, <1>3, <1>5, <1>6, <2>2 DEF OnePlace, SomePlace, Read
  <2> QED
    BY <2>1, <2>2
<1> QED
  BY <1>1, <1>4, <1>7 DEF OnceInv

\* The frame in hand goes to the inbox.
LEMMA FrameStored ==
  ASSUME SocketOK, CallsInv, OnceInv, Store PROVE OnceInv'
<1>1. /\ rd = "store" /\ hand \in Frame /\ hand' = NoFrame /\ inbox' = Append(inbox, hand)
      /\ inbox \in Seq(Frame) /\ UNCHANGED <<unsent, wire, ch, reply, taken, peer>>
  BY DEF Store, LetGo, SocketOK, CallsInv, CallsTypeOK, netVars
<1>2. OnePlace(hand) /\ ~Within(hand, inbox)
  BY <1>1 DEF OnceInv, PlacesInv, OnePlace, Read
<1>3. /\ \A g : Within(g, inbox') <=> Within(g, inbox) \/ g = hand
      /\ Distinct(inbox')
  BY <1>1, <1>2, WithinAppend DEF OnceInv
<1>4. \A g \in Frame : hand' # g /\ (InChannel(g)' <=> InChannel(g)) /\ (Returned(g)' <=> Returned(g))
  BY <1>1, PendingAssumption DEF PendingAssumption, InChannel, Returned
<1>5. \A g \in Frame : OnePlace(g) /\ (Working => SomePlace(g))
  BY DEF OnceInv, PlacesInv
<1>6. Working' => Working
  BY <1>1 DEF Working
<1>7. PlacesInv'
  <2> SUFFICES ASSUME NEW g \in Frame PROVE OnePlace(g)' /\ (Working' => SomePlace(g)')
    BY DEF PlacesInv
  <2>1. CASE g = hand
    BY <1>1, <1>2, <1>3, <1>4, <2>1 DEF OnePlace, SomePlace, Read
  <2>2. CASE g # hand
    BY <1>1, <1>3, <1>4, <1>5, <1>6, <2>2 DEF OnePlace, SomePlace, Read
  <2> QED
    BY <2>1, <2>2
<1> QED
  BY <1>1, <1>3, <1>7 DEF OnceInv, Single

\* Receive takes the oldest frame of the inbox.
LEMMA FrameReceived ==
  ASSUME SocketOK, OnceInv, NEW r \in Receiver, RecvCheck(r), inbox # <<>> PROVE OnceInv'
<1> DEFINE f == Head(inbox)
<1>1. /\ taken' = Append(taken, f) /\ inbox' = Tail(inbox) /\ inbox \in Seq(Frame)
      /\ taken \in Seq(Frame) /\ UNCHANGED <<unsent, wire, hand, ch, reply, peer, rd>>
  BY DEF RecvCheck, SocketOK, callsVars, netVars
<1>2. /\ f \in Frame /\ Within(f, inbox) /\ ~Within(f, inbox') /\ Distinct(inbox')
      /\ \A g : Within(g, inbox) <=> g = f \/ Within(g, inbox')
  BY <1>1, WithinTail DEF OnceInv
<1> HIDE DEF f
<1>3. OnePlace(f) /\ ~Within(f, taken)
  BY <1>2 DEF OnceInv, PlacesInv, OnePlace
<1>4. /\ \A g : Within(g, taken') <=> Within(g, taken) \/ g = f
      /\ Distinct(taken')
  BY <1>1, <1>2, <1>3, WithinAppend DEF OnceInv
<1>5. \A g \in Frame : OnePlace(g) /\ (Working => SomePlace(g))
  BY DEF OnceInv, PlacesInv
<1>6. /\ Working' <=> Working
      /\ \A g \in Frame : (InChannel(g)' <=> InChannel(g)) /\ (Returned(g)' <=> Returned(g))
  BY <1>1 DEF Working, InChannel, Returned
<1>7. PlacesInv'
  <2> SUFFICES ASSUME NEW g \in Frame PROVE OnePlace(g)' /\ (Working' => SomePlace(g)')
    BY DEF PlacesInv
  <2>1. CASE g = f
    BY <1>1, <1>2, <1>3, <1>4, <1>6, <2>1 DEF OnePlace, SomePlace, Read
  <2>2. CASE g # f
    BY <1>1, <1>2, <1>4, <1>5, <1>6, <2>2 DEF OnePlace, SomePlace, Read
  <2> QED
    BY <2>1, <2>2
<1> QED
  BY <1>1, <1>2, <1>4, <1>7 DEF OnceInv, Single

\* The reader takes the oldest message of the wire; a bad one ends its work.
LEMMA FrameRead ==
  ASSUME SocketOK, OnceInv, ReadFrame PROVE OnceInv'
<1> DEFINE f == Head(wire)
<1>1. /\ wire' = Tail(wire) /\ wire # <<>> /\ wire \in Seq(Frame) /\ rd = "read"
      /\ UNCHANGED <<unsent, ch, reply, inbox, taken, peer>>
      /\ \/ UNCHANGED hand /\ rd' = "closeAll"
         \/ hand = NoFrame /\ hand' = f /\ rd' = "route"
  BY DEF ReadFrame, Disconnect, Hold, SocketOK, inboxVars
<1>2. /\ f \in Frame /\ Within(f, wire) /\ ~Within(f, wire') /\ Distinct(wire')
      /\ \A g : Within(g, wire) <=> g = f \/ Within(g, wire')
  BY <1>1, WithinTail DEF OnceInv
<1> HIDE DEF f
<1>3. \A g \in Frame : OnePlace(g) /\ (Working => SomePlace(g))
  BY DEF OnceInv, PlacesInv
<1>4. \A g \in Frame : (InChannel(g)' <=> InChannel(g)) /\ (Returned(g)' <=> Returned(g))
  BY <1>1 DEF InChannel, Returned
<1>5. Working' => Working /\ rd' = "route"
  BY <1>1 DEF Working
<1>6. PlacesInv'
  <2> SUFFICES ASSUME NEW g \in Frame PROVE OnePlace(g)' /\ (Working' => SomePlace(g)')
    BY DEF PlacesInv
  <2>1. CASE g = f
    BY <1>1, <1>2, <1>3, <1>4, <1>5, <2>1 DEF OnePlace, SomePlace, Read
  <2>2. CASE g # f
    BY <1>1, <1>2, <1>3, <1>4, <1>5, <2>2, PendingAssumption
       DEF PendingAssumption, OnePlace, SomePlace, Read
  <2> QED
    BY <2>1, <2>2
<1> QED
  BY <1>1, <1>2, <1>6 DEF OnceInv, Single

\* The peer sends a frame once.
LEMMA FrameSent ==
  ASSUME SocketOK, OnceInv, NEW f \in Frame, PeerSend(f) PROVE OnceInv'
<1>1. /\ f \in unsent /\ unsent' = unsent \ {f} /\ wire' = Append(wire, f) /\ wire \in Seq(Frame)
      /\ UNCHANGED <<hand, ch, reply, inbox, taken, peer, rd>>
  BY DEF PeerSend, SocketOK, callsVars, inboxVars
<1>2. OnePlace(f) /\ ~Within(f, wire)
  BY <1>1 DEF OnceInv, PlacesInv, OnePlace
<1>3. /\ \A g : Within(g, wire') <=> Within(g, wire) \/ g = f
      /\ Distinct(wire')
  BY <1>1, <1>2, WithinAppend DEF OnceInv
<1>4. \A g \in Frame : OnePlace(g) /\ (Working => SomePlace(g))
  BY DEF OnceInv, PlacesInv
<1>5. /\ Working' <=> Working
      /\ \A g \in Frame : (InChannel(g)' <=> InChannel(g)) /\ (Returned(g)' <=> Returned(g))
  BY <1>1 DEF Working, InChannel, Returned
<1>6. PlacesInv'
  <2> SUFFICES ASSUME NEW g \in Frame PROVE OnePlace(g)' /\ (Working' => SomePlace(g)')
    BY DEF PlacesInv
  <2>1. CASE g = f
    BY <1>1, <1>2, <1>3, <1>5, <2>1 DEF OnePlace, SomePlace, Read
  <2>2. CASE g # f
    BY <1>1, <1>3, <1>4, <1>5, <2>2 DEF OnePlace, SomePlace, Read
  <2> QED
    BY <2>1, <2>2
<1> QED
  BY <1>1, <1>3, <1>6 DEF OnceInv, Single

\* Every step moves one frame on to its next place at most, and only a silent
\* network or a bad message takes one away.
LEMMA NextOnceInv ==
  ASSUME SocketOK, CallsInv, ReplyInv, OnceInv, [Next]_vars PROVE OnceInv'
<1> USE DEF callsVars, netVars, inboxVars
<1>1. ASSUME NEW f \in Frame, PeerSend(f) PROVE OnceInv'
  BY <1>1, FrameSent
<1>2. CASE PeerClose
  BY <1>2, FramesStay DEF PeerClose, Working
<1>3. CASE NetworkDrop
  <2>1. /\ wire' = <<>> /\ peer' = "silent" /\ UNCHANGED <<unsent, hand, ch, reply, inbox, taken>>
    BY <1>3 DEF NetworkDrop
  <2>2. Distinct(wire') /\ (\A g : ~Within(g, wire')) /\ ~Working'
    BY <2>1 DEF Distinct, Within, Working
  <2>3. \A g \in Frame : (InChannel(g)' <=> InChannel(g)) /\ (Returned(g)' <=> Returned(g))
    BY <2>1 DEF InChannel, Returned
  <2> QED
    BY <2>1, <2>2, <2>3 DEF OnceInv, PlacesInv, OnePlace, Read, Single
<1>4. CASE Close \/ PingFails
  BY <1>4, FramesStay DEF Close, PingFails, Disconnect, Working
<1>5. ASSUME NEW c \in Call, Start(c) \/ GiveUp(c) PROVE OnceInv'
  BY <1>5, FramesStay DEF Start, GiveUp, Enter, ContextDone, EnsureReader, Working
<1>6. ASSUME NEW c \in Call, InCall(c) PROVE OnceInv'
  <2>1. CASE TakeReply(c)
    BY <1>6, <2>1, FrameReturned DEF InCall
  <2>2. CASE ~TakeReply(c)
    BY <1>6, <2>2, FramesStay
       DEF InCall, CallStep, Register, EncodeFails, LockSend, WriteOk, WriteFails, Unregister,
           SeeClosed, Abandon, Working
  <2> QED
    BY <2>1, <2>2
<1>7. CASE ReadFrame
  BY <1>7, FrameRead
<1>8. CASE ReadError
  BY <1>8, FramesStay DEF ReadError, Disconnect, Working
<1>9. CASE Route
  BY <1>9, FramesStay DEF Route, Resolve, Working
<1>10. CASE HandOver
  BY <1>10, FrameHandedOver
<1>11. CASE Store
  BY <1>11, FrameStored
<1>12. CASE Notify \/ FailCalls \/ FinishInbox
  BY <1>12, FramesStay DEF Notify, FailCalls, CloseAll, FinishInbox, Working
<1>13. ASSUME NEW c \in Call, FailCall(c) PROVE OnceInv'
  BY <1>13, FramesStay DEF FailCall, CloseChan, Working
<1>14. ASSUME NEW r \in Receiver, RecvCheck(r) PROVE OnceInv'
  <2>1. CASE inbox = <<>>
    BY <1>14, <2>1, FramesStay DEF RecvCheck, Working
  <2> QED
    BY <1>14, <2>1, FrameReceived
<1>15. ASSUME NEW r \in Receiver,
              RecvStart(r) \/ RecvRenotify(r) \/ RecvWake(r) \/ RecvGiveUp(r)
       PROVE  OnceInv'
  BY <1>15, FramesStay
     DEF RecvStart, RecvRenotify, RecvWake, RecvGiveUp, EnsureReader, Working
<1>16. CASE UNCHANGED vars
  BY <1>16, FramesStay DEF vars, Working
<1> QED
  BY <1>1, <1>2, <1>3, <1>4, <1>5, <1>6, <1>7, <1>8, <1>9, <1>10, <1>11, <1>12, <1>13,
     <1>14, <1>15, <1>16 DEF Next, ReaderStep

\* A frame is never delivered twice, to a call and to Receive or to two of
\* either, and none is lost while the reader works and the network holds.
THEOREM EachFrameOnceAlways == Spec => []EachFrameOnce
<1>1. Init => ReplyInv /\ OnceInv
  BY InitReplyInv, InitOnceInv DEF Init
<1>2. SocketOK /\ CallsInv /\ ReplyInv /\ OnceInv /\ [Next]_vars => (ReplyInv /\ OnceInv)'
  BY SocketStepsCalls, NextReplyInv, NextOnceInv
<1> QED
  BY SocketInvariant, <1>1, <1>2, OnceIsOnce, PTL DEF Spec
=============================================================================

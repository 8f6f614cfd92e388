--------------------------- MODULE GoCalls_proofs ---------------------------
(***************************************************************************)
(* What holds of the calls of a connection whatever its endpoint does, for *)
(* every set of calls, ids and frames: invariants of CallsNext, on which   *)
(* the theorems about the client and the server rest.                      *)
(***************************************************************************)
EXTENDS GoCalls, TLAPS

-----------------------------------------------------------------------------
(* Reply channels.  A call in the table, or one that has not registered,   *)
(* has a channel nobody has touched; so resolve never finds a full or a    *)
(* closed one, and closeAll closes each channel once.                      *)

Untouched(c) == ch[c] = NoFrame /\ c \notin shut \cup closing /\ target # c

TableOK ==
  \A i \in Id : waiters[i] # NoCall =>
    /\ IdOf[waiters[i]] = i
    /\ pc[waiters[i]] \in InFlight
    /\ Untouched(waiters[i])

NewCallsOK == \A c \in Call : pc[c] \in {"idle", "register"} => Untouched(c)

DeliverOK ==
  target # NoCall =>
    /\ hand \in Frame
    /\ Answers(hand, target)
    /\ ch[target] = NoFrame
    /\ target \notin shut \cup closing

ClosingOK == \A c \in closing : ch[c] = NoFrame /\ c \notin shut

\* closeAll sets the error first, and the table is empty from then on.
ClosedOK ==
  /\ closing # {} => pendErr
  /\ pendErr => \A i \in Id : waiters[i] = NoCall

CallsInv ==
  /\ CallsTypeOK
  /\ TableOK /\ NewCallsOK /\ DeliverOK /\ ClosingOK /\ RepliesMatch /\ ClosedOK

\* A new connection has no call in flight, and its table and channels are empty.
LEMMA InitCallsInv == CallsInit => CallsInv
<1> SUFFICES ASSUME CallsInit PROVE CallsInv
  OBVIOUS
<1>1. waiters \in Table /\ pc \in [Call -> CallPC]
  BY DEF CallsInit, Table, EmptyTable, CallPC
<1>2. /\ ch \in [Call -> Frame \cup {NoFrame}] /\ reply \in [Call -> Frame \cup {NoFrame}]
      /\ out \in Seq(Call \X {"call", "cancel"})
  BY DEF CallsInit
<1>3. CallsTypeOK
  BY <1>1, <1>2 DEF CallsInit, CallsTypeOK
<1> QED
  BY <1>3, PendingAssumption
     DEF PendingAssumption, CallsInit, CallsInv, TableOK, NewCallsOK, DeliverOK,
         ClosingOK, RepliesMatch, ClosedOK, Untouched, EmptyTable

\* No step of a Call, of resolve or of closeAll leaves the types.
LEMMA NextCallsTypeOK == CallsInv /\ [CallsNext]_callsVars => CallsTypeOK'
<1> SUFFICES ASSUME CallsInv, [CallsNext]_callsVars PROVE CallsTypeOK'
  OBVIOUS
<1> USE PendingAssumption
    DEF PendingAssumption, CallsInv, DeliverOK, CallsTypeOK, Table, CallPC, InFlight, Ended
<1>1. ASSUME NEW c \in Call, Enter(c) PROVE CallsTypeOK'
  BY <1>1 DEF Enter, Goto, MayUse
<1>2. ASSUME NEW c \in Call, Register(c) PROVE CallsTypeOK'
  BY <1>2 DEF Register, Goto, Registered
<1>3. ASSUME NEW c \in Call, EncodeFails(c) PROVE CallsTypeOK'
  BY <1>3 DEF EncodeFails, Goto
<1>4. ASSUME NEW c \in Call, LockSend(c) PROVE CallsTypeOK'
  BY <1>4 DEF LockSend, Goto
<1>5. ASSUME NEW c \in Call, WriteOk(c) PROVE CallsTypeOK'
  BY <1>5 DEF WriteOk, Goto
<1>6. ASSUME NEW c \in Call, WriteFails(c) PROVE CallsTypeOK'
  BY <1>6 DEF WriteFails, Goto
<1>7. ASSUME NEW c \in Call, Unregister(c) PROVE CallsTypeOK'
  BY <1>7 DEF Unregister, Goto, Removed
<1>8. ASSUME NEW c \in Call, TakeReply(c) PROVE CallsTypeOK'
  BY <1>8 DEF TakeReply, Goto
<1>9. ASSUME NEW c \in Call, SeeClosed(c) PROVE CallsTypeOK'
  BY <1>9 DEF SeeClosed, Goto
<1>10. ASSUME NEW c \in Call, ContextDone(c) PROVE CallsTypeOK'
  BY <1>10 DEF ContextDone, Goto
<1>11. ASSUME NEW c \in Call, Abandon(c) PROVE CallsTypeOK'
  BY <1>11 DEF Abandon, Goto, Removed
<1>12. ASSUME NEW c \in Call, CloseChan(c) PROVE CallsTypeOK'
  BY <1>12 DEF CloseChan
<1>13. ASSUME NEW f \in Frame, Hold(f) PROVE CallsTypeOK'
  BY <1>13 DEF Hold
<1>14. CASE Resolve
  BY <1>14 DEF Resolve, Removed, ResolvedBy
<1>15. CASE Deliver
  BY <1>15 DEF Deliver
<1>16. CASE LetGo
  BY <1>16 DEF LetGo
<1>17. CASE CloseAll
  BY <1>17 DEF CloseAll, Waiting, EmptyTable
<1>18. CASE Disconnect
  BY <1>18 DEF Disconnect
<1>19. CASE UNCHANGED callsVars
  BY <1>19 DEF callsVars
<1> QED
  BY <1>1, <1>2, <1>3, <1>4, <1>5, <1>6, <1>7, <1>8, <1>9, <1>10,
     <1>11, <1>12, <1>13, <1>14, <1>15, <1>16, <1>17, <1>18, <1>19
     DEF CallsNext, CallStep

\* CallsInv is inductive: register, resolve and closeAll keep a call in the table
\* only while its reply channel is untouched.
LEMMA NextCallsInv == CallsInv /\ [CallsNext]_callsVars => CallsInv'
<1> SUFFICES ASSUME CallsInv, [CallsNext]_callsVars, CallsTypeOK' PROVE CallsInv'
  BY NextCallsTypeOK
<1> USE PendingAssumption
    DEF PendingAssumption, CallsInv, CallsTypeOK, Table, InFlight, Ended, TableOK,
        NewCallsOK, DeliverOK, ClosingOK, RepliesMatch, ClosedOK, Untouched
<1>1. ASSUME NEW c \in Call, Enter(c) PROVE CallsInv'
  BY <1>1 DEF Enter, Goto, MayUse
<1>2. ASSUME NEW c \in Call, Register(c) PROVE CallsInv'
  <2>1. CASE pendErr
    BY <1>2, <2>1 DEF Register, Goto
  <2>2. CASE ~pendErr
    <3>1. /\ pc[c] = "register" /\ pc' = [pc EXCEPT ![c] = "send"]
          /\ waiters' = [waiters EXCEPT ![IdOf[c]] = c]
          /\ UNCHANGED <<conn, out, pendErr, ch, shut, reply, sender, hand, target, closing>>
      BY <1>2, <2>2 DEF Register, Registered, Goto
    <3>2. Untouched(c)
      BY <3>1
    <3>3. TableOK'
      BY <3>1, <3>2
    <3>4. NewCallsOK'
      BY <3>1
    <3>5. DeliverOK' /\ ClosingOK' /\ RepliesMatch' /\ ClosedOK'
      BY <2>2, <3>1 DEF Answers
    <3> QED
      BY <3>3, <3>4, <3>5
  <2> QED
    BY <2>1, <2>2
<1>3. ASSUME NEW c \in Call, EncodeFails(c) PROVE CallsInv'
  BY <1>3 DEF EncodeFails, Goto
<1>4. ASSUME NEW c \in Call, LockSend(c) PROVE CallsInv'
  BY <1>4 DEF LockSend, Goto
<1>5. ASSUME NEW c \in Call, WriteOk(c) PROVE CallsInv'
  BY <1>5 DEF WriteOk, Goto
<1>6. ASSUME NEW c \in Call, WriteFails(c) PROVE CallsInv'
  BY <1>6 DEF WriteFails, Goto
<1>7. ASSUME NEW c \in Call, Unregister(c) PROVE CallsInv'
  BY <1>7 DEF Unregister, Goto, Removed
<1>8. ASSUME NEW c \in Call, TakeReply(c) PROVE CallsInv'
  BY <1>8 DEF TakeReply, Goto
<1>9. ASSUME NEW c \in Call, SeeClosed(c) PROVE CallsInv'
  BY <1>9 DEF SeeClosed, Goto
<1>10. ASSUME NEW c \in Call, ContextDone(c) PROVE CallsInv'
  BY <1>10 DEF ContextDone, Goto
<1>11. ASSUME NEW c \in Call, Abandon(c) PROVE CallsInv'
  BY <1>11 DEF Abandon, Goto, Removed
<1>12. ASSUME NEW c \in Call, CloseChan(c) PROVE CallsInv'
  BY <1>12 DEF CloseChan
<1>13. ASSUME NEW f \in Frame, Hold(f) PROVE CallsInv'
  BY <1>13 DEF Hold
<1>14. CASE Resolve
  <2>1. /\ target = NoCall /\ target' = ResolvedBy(waiters, hand) /\ hand \in Frame
        /\ UNCHANGED <<pendErr, ch, shut, reply, hand, closing, pc>>
    BY <1>14 DEF Resolve
  <2>2. CASE target' = NoCall
    BY <1>14, <2>1, <2>2 DEF Resolve, Answers
  <2>3. CASE target' # NoCall
    <3>1. waiters' = [waiters EXCEPT ![FrameId[hand]] = NoCall]
      BY <1>14, <2>3 DEF Resolve, Removed
    <3>2. /\ FrameId[hand] \in Id
          /\ target' = waiters[FrameId[hand]]
          /\ Answers(hand, target')
      BY <2>1, <2>3 DEF ResolvedBy
    <3>3. Untouched(target') /\ pc[target'] \in InFlight /\ IdOf[target'] = FrameId[hand]
      BY <2>3, <3>2
    <3>4. TableOK'
      BY <2>1, <3>1, <3>2, <3>3
    <3>5. NewCallsOK'
      BY <2>1, <3>1, <3>3
    <3>6. DeliverOK'
      BY <2>1, <2>3, <3>2, <3>3 DEF Answers
    <3>7. ClosingOK' /\ RepliesMatch' /\ ClosedOK'
      BY <2>1, <3>1, <3>2 DEF Answers
    <3> QED
      BY <3>4, <3>5, <3>6, <3>7
  <2> QED
    BY <2>2, <2>3
<1>15. CASE Deliver
  BY <1>15 DEF Deliver
<1>16. CASE LetGo
  BY <1>16 DEF LetGo
<1>17. CASE CloseAll
  BY <1>17 DEF CloseAll, Waiting, EmptyTable
<1>18. CASE Disconnect
  BY <1>18 DEF Disconnect
<1>19. CASE UNCHANGED callsVars
  BY <1>19 DEF callsVars
<1> QED
  BY <1>1, <1>2, <1>3, <1>4, <1>5, <1>6, <1>7, <1>8, <1>9, <1>10,
     <1>11, <1>12, <1>13, <1>14, <1>15, <1>16, <1>17, <1>18, <1>19
     DEF CallsNext, CallStep

-----------------------------------------------------------------------------
(* When ids in flight are distinct, calls are not forgotten.               *)

Active(c) == pc[c] \notin Ended \cup {"idle"}

DistinctInFlight ==
  \A c, d \in Call : c # d /\ IdOf[c] = IdOf[d] /\ Active(c) => ~Active(d)

\* From register until its waiter is dropped or it returns, a call is in the
\* table, or with resolve or closeAll, or its channel has something for it.
InFlightKept ==
  \A c \in Call : pc[c] \in InFlight =>
    \/ waiters[IdOf[c]] = c
    \/ target = c
    \/ c \in closing \cup shut
    \/ ch[c] # NoFrame

ForgottenInv == DistinctInFlight /\ InFlightKept

\* What is kept is not forgotten.
LEMMA KeptIsNotForgotten == ForgottenInv => NoCallForgotten
BY DEF ForgottenInv, InFlightKept, NoCallForgotten, Awaits, InFlight

\* No call has started, so none is forgotten.
LEMMA InitForgottenInv == CallsInit => ForgottenInv
BY DEF CallsInit, ForgottenInv, DistinctInFlight, Active, InFlightKept, InFlight

\* While ids in flight are distinct, no step of register, cancel, resolve or
\* closeAll takes a call out of the table without holding or ending it.
LEMMA NextForgottenInv ==
  ASSUME ~ReuseInFlight
  PROVE  CallsInv /\ ForgottenInv /\ [CallsNext]_callsVars => ForgottenInv'
<1> SUFFICES ASSUME CallsInv, ForgottenInv, [CallsNext]_callsVars PROVE ForgottenInv'
  OBVIOUS
<1> USE PendingAssumption
    DEF PendingAssumption, CallsInv, CallsTypeOK, Table, InFlight, Ended, DeliverOK,
        ClosedOK, ForgottenInv, DistinctInFlight, Active, InFlightKept
<1>1. ASSUME NEW c \in Call, Enter(c) PROVE ForgottenInv'
  BY <1>1 DEF Enter, Goto, MayUse
<1>2. ASSUME NEW c \in Call, Register(c) PROVE ForgottenInv'
  <2>1. CASE pendErr
    BY <1>2, <2>1 DEF Register, Goto
  <2>2. CASE ~pendErr
    <3>1. /\ pc[c] = "register" /\ pc' = [pc EXCEPT ![c] = "send"]
          /\ waiters' = [waiters EXCEPT ![IdOf[c]] = c]
          /\ UNCHANGED <<ch, shut, target, closing>>
      BY <1>2, <2>2 DEF Register, Registered, Goto
    <3>2. DistinctInFlight'
      BY <3>1
    <3>3. ASSUME NEW d \in Call, pc'[d] \in InFlight, d # c
          PROVE  pc[d] \in InFlight /\ IdOf[d] # IdOf[c]
      BY <3>1, <3>3
    <3>4. InFlightKept'
      BY <3>1, <3>3
    <3> QED
      BY <3>2, <3>4
  <2> QED
    BY <2>1, <2>2
<1>3. ASSUME NEW c \in Call, EncodeFails(c) PROVE ForgottenInv'
  BY <1>3 DEF EncodeFails, Goto
<1>4. ASSUME NEW c \in Call, LockSend(c) PROVE ForgottenInv'
  BY <1>4 DEF LockSend, Goto
<1>5. ASSUME NEW c \in Call, WriteOk(c) PROVE ForgottenInv'
  BY <1>5 DEF WriteOk, Goto
<1>6. ASSUME NEW c \in Call, WriteFails(c) PROVE ForgottenInv'
  BY <1>6 DEF WriteFails, Goto
<1>7. ASSUME NEW c \in Call, Unregister(c) PROVE ForgottenInv'
  BY <1>7 DEF Unregister, Goto, Removed
<1>8. ASSUME NEW c \in Call, TakeReply(c) PROVE ForgottenInv'
  BY <1>8 DEF TakeReply, Goto
<1>9. ASSUME NEW c \in Call, SeeClosed(c) PROVE ForgottenInv'
  BY <1>9 DEF SeeClosed, Goto
<1>10. ASSUME NEW c \in Call, ContextDone(c) PROVE ForgottenInv'
  BY <1>10 DEF ContextDone, Goto
<1>11. ASSUME NEW c \in Call, Abandon(c) PROVE ForgottenInv'
  BY <1>11 DEF Abandon, Goto, Removed
<1>12. ASSUME NEW c \in Call, CloseChan(c) PROVE ForgottenInv'
  BY <1>12 DEF CloseChan
<1>13. ASSUME NEW f \in Frame, Hold(f) PROVE ForgottenInv'
  BY <1>13 DEF Hold
<1>14. CASE Resolve
  BY <1>14 DEF Resolve, Removed, ResolvedBy
<1>15. CASE Deliver
  BY <1>15 DEF Deliver
<1>16. CASE LetGo
  BY <1>16 DEF LetGo
<1>17. CASE CloseAll
  <2>1. UNCHANGED <<pc, ch, shut, target>>
    BY <1>17 DEF CloseAll
  <2>2. DistinctInFlight'
    BY <2>1
  <2>3. CASE pendErr
    BY <1>17, <2>1, <2>3 DEF CloseAll
  <2>4. CASE ~pendErr
    <3>1. closing = {} /\ closing' = Waiting(waiters)
      BY <1>17, <2>4 DEF CloseAll
    <3>2. ASSUME NEW c \in Call, waiters[IdOf[c]] = c PROVE c \in closing'
      BY <3>1, <3>2 DEF Waiting
    <3>3. InFlightKept'
      BY <2>1, <3>1, <3>2
    <3> QED
      BY <2>2, <3>3
  <2> QED
    BY <2>3, <2>4
<1>18. CASE Disconnect
  BY <1>18 DEF Disconnect
<1>19. CASE UNCHANGED callsVars
  BY <1>19 DEF callsVars
<1> QED
  BY <1>1, <1>2, <1>3, <1>4, <1>5, <1>6, <1>7, <1>8, <1>9, <1>10,
     <1>11, <1>12, <1>13, <1>14, <1>15, <1>16, <1>17, <1>18, <1>19
     DEF CallsNext, CallStep

-----------------------------------------------------------------------------
(* What the peer gets: a cancel frame only follows the frame of its call.  *)

WrittenInv ==
  /\ \A c \in Call : pc[c] \in {"await", "drop", "cancelSend", "cancelWrite"} =>
       \E j \in DOMAIN out : out[j] = <<c, "call">>
  /\ \A c \in Call : \A i \in DOMAIN out : out[i] = <<c, "cancel">> =>
       /\ pc[c] = "gaveUp"
       /\ \A k \in DOMAIN out : out[k] = <<c, "cancel">> => k = i
       /\ \E j \in DOMAIN out : out[j] = <<c, "call">> /\ j < i

\* The invariant says of positions what the property says of their sets.
LEMMA WrittenFollows == WrittenInv => CancelFollowsCall
BY DEF WrittenInv, CancelFollowsCall, Wrote

\* A call is on its way to a cancel frame only after its own frame was written.
LEMMA NextWrittenInv == CallsInv /\ WrittenInv /\ [CallsNext]_callsVars => WrittenInv'
<1> SUFFICES ASSUME CallsInv, WrittenInv, [CallsNext]_callsVars PROVE WrittenInv'
  OBVIOUS
<1> USE DEF CallsInv, CallsTypeOK, WrittenInv
<1>1. ASSUME NEW c \in Call, Enter(c) PROVE WrittenInv'
  BY <1>1 DEF Enter, Goto
<1>2. ASSUME NEW c \in Call, Register(c) PROVE WrittenInv'
  BY <1>2 DEF Register, Goto
<1>3. ASSUME NEW c \in Call, EncodeFails(c) PROVE WrittenInv'
  BY <1>3 DEF EncodeFails, Goto
<1>4. ASSUME NEW c \in Call, LockSend(c) PROVE WrittenInv'
  BY <1>4 DEF LockSend, Goto
<1>5. ASSUME NEW c \in Call, WriteOk(c) PROVE WrittenInv'
  <2> DEFINE what == IF pc[c] = "write" THEN "call" ELSE "cancel"
  <2>1. /\ out \in Seq(Call \X {"call", "cancel"})
        /\ out' = Append(out, <<c, what>>)
        /\ pc' = [pc EXCEPT ![c] = IF pc[c] = "write" THEN "await" ELSE "gaveUp"]
        /\ pc[c] \in {"write", "cancelWrite"}
    BY <1>5 DEF WriteOk, Goto
  <2>2. PICK n \in Nat :
          /\ DOMAIN out = 1..n /\ DOMAIN out' = 1..(n + 1)
          /\ out'[n + 1] = <<c, what>>
          /\ \A i \in 1..n : out'[i] = out[i]
    <3>1. /\ Len(out) \in Nat /\ DOMAIN out = 1..Len(out) /\ DOMAIN out' = 1..(Len(out) + 1)
          /\ out'[Len(out) + 1] = <<c, what>>
          /\ \A i \in 1..Len(out) : out'[i] = out[i]
      BY <2>1
    <3> QED
      BY <3>1
  <2> HIDE DEF what
  <2>3. ASSUME NEW d \in Call, pc'[d] \in {"await", "drop", "cancelSend", "cancelWrite"}
        PROVE  \E j \in DOMAIN out' : out'[j] = <<d, "call">>
    <3>1. CASE d = c
      <4>1. pc[c] = "write"
        BY <2>1, <2>3, <3>1
      <4> QED
        BY <2>2, <3>1, <4>1 DEF what
    <3>2. CASE d # c
      <4>1. pc[d] \in {"await", "drop", "cancelSend", "cancelWrite"}
        BY <2>1, <2>3, <3>2
      <4>2. PICK j \in 1..n : out[j] = <<d, "call">>
        BY <2>2, <4>1
      <4>3. j \in DOMAIN out' /\ out'[j] = <<d, "call">>
        BY <2>2, <4>2
      <4> QED
        BY <4>3
    <3> QED
      BY <3>1, <3>2
  <2>4. ASSUME NEW d \in Call, NEW i \in DOMAIN out', out'[i] = <<d, "cancel">>
        PROVE  /\ pc'[d] = "gaveUp"
               /\ \A k \in DOMAIN out' : out'[k] = <<d, "cancel">> => k = i
               /\ \E j \in DOMAIN out' : out'[j] = <<d, "call">> /\ j < i
    <3>1. CASE i \in DOMAIN out
      <4>1. /\ pc[d] = "gaveUp" /\ d # c
            /\ \E j \in DOMAIN out : out[j] = <<d, "call">> /\ j < i
            /\ \A k \in DOMAIN out : out[k] = <<d, "cancel">> => k = i
        <5>1. i \in 1..n /\ out[i] = <<d, "cancel">>
          BY <2>2, <2>4, <3>1
        <5>2. pc[d] = "gaveUp"
          BY <3>1, <5>1
        <5> QED
          BY <2>1, <2>2, <3>1, <5>1, <5>2
      <4>2. out'[n + 1] # <<d, "cancel">>
        BY <2>2, <4>1
      <4>3. pc'[d] = "gaveUp"
        BY <2>1, <4>1
      <4>4. PICK j \in 1..n : out[j] = <<d, "call">> /\ j < i
        BY <2>2, <4>1
      <4>5. ASSUME NEW k \in DOMAIN out', out'[k] = <<d, "cancel">> PROVE k = i
        <5>1. k \in 1..n
          BY <2>2, <4>2, <4>5
        <5> QED
          BY <2>2, <4>1, <4>5, <5>1
      <4>6. j \in DOMAIN out' /\ out'[j] = <<d, "call">>
        BY <2>2, <4>4
      <4> QED
        BY <4>3, <4>4, <4>5, <4>6
    <3>2. CASE i \notin DOMAIN out
      <4>1. i = n + 1 /\ d = c /\ what = "cancel"
        BY <2>2, <2>4, <3>2
      <4>2. pc[c] = "cancelWrite"
        BY <2>1, <4>1 DEF what
      <4>3. \A k \in DOMAIN out : out[k] # <<c, "cancel">>
        BY <4>2
      <4>4. \E j \in DOMAIN out : out[j] = <<c, "call">>
        BY <4>2
      <4>5. pc'[d] = "gaveUp"
        BY <2>1, <4>1, <4>2
      <4>6. PICK j \in 1..n : out[j] = <<c, "call">>
        BY <2>2, <4>4
      <4>7. \A k \in DOMAIN out' : out'[k] = <<d, "cancel">> => k = i
        BY <2>2, <4>1, <4>3
      <4> QED
        BY <2>2, <4>1, <4>5, <4>6, <4>7
    <3> QED
      BY <3>1, <3>2
  <2> QED
    BY <2>3, <2>4
<1>6. ASSUME NEW c \in Call, WriteFails(c) PROVE WrittenInv'
  BY <1>6 DEF WriteFails, Goto
<1>7. ASSUME NEW c \in Call, Unregister(c) PROVE WrittenInv'
  BY <1>7 DEF Unregister, Goto
<1>8. ASSUME NEW c \in Call, TakeReply(c) PROVE WrittenInv'
  BY <1>8 DEF TakeReply, Goto
<1>9. ASSUME NEW c \in Call, SeeClosed(c) PROVE WrittenInv'
  BY <1>9 DEF SeeClosed, Goto
<1>10. ASSUME NEW c \in Call, ContextDone(c) PROVE WrittenInv'
  BY <1>10 DEF ContextDone, Goto
<1>11. ASSUME NEW c \in Call, Abandon(c) PROVE WrittenInv'
  BY <1>11 DEF Abandon, Goto
<1>12. ASSUME NEW c \in Call, CloseChan(c) PROVE WrittenInv'
  BY <1>12 DEF CloseChan
<1>13. ASSUME NEW f \in Frame, Hold(f) PROVE WrittenInv'
  BY <1>13 DEF Hold
<1>14. CASE Resolve
  BY <1>14 DEF Resolve
<1>15. CASE Deliver
  BY <1>15 DEF Deliver
<1>16. CASE LetGo
  BY <1>16 DEF LetGo
<1>17. CASE CloseAll
  BY <1>17 DEF CloseAll
<1>18. CASE Disconnect
  BY <1>18 DEF Disconnect
<1>19. CASE UNCHANGED callsVars
  BY <1>19 DEF callsVars
<1> QED
  BY <1>1, <1>2, <1>3, <1>4, <1>5, <1>6, <1>7, <1>8, <1>9, <1>10,
     <1>11, <1>12, <1>13, <1>14, <1>15, <1>16, <1>17, <1>18, <1>19
     DEF CallsNext, CallStep

\* No frame has been written yet.
LEMMA InitWrittenInv == CallsInit => WrittenInv
BY DEF CallsInit, WrittenInv

-----------------------------------------------------------------------------
(* The promise of CorrelatedCalls: what each step of the calls is to an    *)
(* application.                                                            *)

ReplyInv ==
  /\ \A c \in Call : reply[c] # NoFrame => pc[c] = "replied"
  /\ shut # {} => pendErr

\* A reply is returned once, and a channel is closed only by closeAll.
LEMMA NextReplyInv == CallsInv /\ ReplyInv /\ [CallsNext]_callsVars => ReplyInv'
<1> SUFFICES ASSUME CallsInv, ReplyInv, [CallsNext]_callsVars PROVE ReplyInv'
  OBVIOUS
<1> USE DEF CallsInv, CallsTypeOK, ClosedOK, ReplyInv
<1>1. ASSUME NEW c \in Call, Enter(c) PROVE ReplyInv'
  BY <1>1 DEF Enter, Goto
<1>2. ASSUME NEW c \in Call, Register(c) PROVE ReplyInv'
  BY <1>2 DEF Register, Goto
<1>3. ASSUME NEW c \in Call, EncodeFails(c) PROVE ReplyInv'
  BY <1>3 DEF EncodeFails, Goto
<1>4. ASSUME NEW c \in Call, LockSend(c) PROVE ReplyInv'
  BY <1>4 DEF LockSend, Goto
<1>5. ASSUME NEW c \in Call, WriteOk(c) PROVE ReplyInv'
  BY <1>5 DEF WriteOk, Goto
<1>6. ASSUME NEW c \in Call, WriteFails(c) PROVE ReplyInv'
  BY <1>6 DEF WriteFails, Goto
<1>7. ASSUME NEW c \in Call, Unregister(c) PROVE ReplyInv'
  BY <1>7 DEF Unregister, Goto
<1>8. ASSUME NEW c \in Call, TakeReply(c) PROVE ReplyInv'
  BY <1>8 DEF TakeReply, Goto
<1>9. ASSUME NEW c \in Call, SeeClosed(c) PROVE ReplyInv'
  BY <1>9 DEF SeeClosed, Goto
<1>10. ASSUME NEW c \in Call, ContextDone(c) PROVE ReplyInv'
  BY <1>10 DEF ContextDone, Goto
<1>11. ASSUME NEW c \in Call, Abandon(c) PROVE ReplyInv'
  BY <1>11 DEF Abandon, Goto
<1>12. ASSUME NEW c \in Call, CloseChan(c) PROVE ReplyInv'
  BY <1>12 DEF CloseChan
<1>13. ASSUME NEW f \in Frame, Hold(f) PROVE ReplyInv'
  BY <1>13 DEF Hold
<1>14. CASE Resolve
  BY <1>14 DEF Resolve
<1>15. CASE Deliver
  BY <1>15 DEF Deliver
<1>16. CASE LetGo
  BY <1>16 DEF LetGo
<1>17. CASE CloseAll
  BY <1>17 DEF CloseAll
<1>18. CASE Disconnect
  BY <1>18 DEF Disconnect
<1>19. CASE UNCHANGED callsVars
  BY <1>19 DEF callsVars
<1> QED
  BY <1>1, <1>2, <1>3, <1>4, <1>5, <1>6, <1>7, <1>8, <1>9, <1>10,
     <1>11, <1>12, <1>13, <1>14, <1>15, <1>16, <1>17, <1>18, <1>19
     DEF CallsNext, CallStep

\* No call has a reply and no channel is closed.
LEMMA InitReplyInv == CallsInit => ReplyInv
BY DEF CallsInit, ReplyInv

Begins(c) ==
  /\ absStatus[c] = "new"
  /\ \/ absStatus' = [absStatus EXCEPT ![c] = IF pendErr THEN "failed" ELSE "pending"]
     \/ absStatus' = [absStatus EXCEPT ![c] = "abandoned"]

Ends(c) ==
  /\ absStatus[c] = "pending"
  /\ \/ absAnswer[c] # NoFrame /\ absStatus' = [absStatus EXCEPT ![c] = "answered"]
     \/ absAnswer[c] = NoFrame /\ pendErr /\ absStatus' = [absStatus EXCEPT ![c] = "failed"]
     \/ absStatus' = [absStatus EXCEPT ![c] = "abandoned"]

\* What the application sees of a call depends on where its goroutine is.
Seen(where) ==
  CASE where \in {"idle", "register"} -> "new"
    [] where \in InFlight -> "pending"
    [] where = "replied" -> "answered"
    [] where \in {"refused", "failed"} -> "failed"
    [] OTHER -> "abandoned"

\* A step that moves one call changes what is seen of that call.
LEMMA MovedStatus ==
  ASSUME NEW c \in Call, \A d \in Call : d # c => pc'[d] = pc[d]
  PROVE  /\ absStatus[c] = Seen(pc[c])
         /\ absStatus' = [absStatus EXCEPT ![c] = Seen(pc'[c])]
<1>1. absStatus = [d \in Call |-> Seen(pc[d])] /\ absStatus' = [d \in Call |-> Seen(pc'[d])]
  BY DEF absStatus, Seen
<1> QED
  BY <1>1

\* A step of a Call is a Begin or an End of the promise, or is not seen: the
\* answer of every call, and whether the end has come, stay as they are.
LEMMA CallStepPromised ==
  ASSUME CallsInv, ReplyInv, NEW c \in Call, Enter(c) \/ CallStep(c) \/ ContextDone(c)
  PROVE  /\ UNCHANGED <<absAnswer, pendErr, hand, target>>
         /\ UNCHANGED absStatus \/ Begins(c) \/ Ends(c)
<1> DEFINE Kept == UNCHANGED <<absAnswer, pendErr, hand, target>>
           Told == UNCHANGED absStatus \/ Begins(c) \/ Ends(c)
           Only == \A d \in Call : d # c => pc'[d] = pc[d]
<1> USE DEF CallsInv, CallsTypeOK, ReplyInv
<1>1. ASSUME Only PROVE /\ absStatus[c] = Seen(pc[c])
                        /\ absStatus' = [absStatus EXCEPT ![c] = Seen(pc'[c])]
  BY <1>1, MovedStatus
<1>2. ASSUME Only, Seen(pc'[c]) = Seen(pc[c]) PROVE UNCHANGED absStatus
  <2>1. absStatus' = [absStatus EXCEPT ![c] = absStatus[c]]
    BY <1>1, <1>2
  <2> QED
    BY <2>1 DEF absStatus
<1>a. ASSUME UNCHANGED <<reply, ch, target, hand, pendErr>> PROVE Kept
  BY <1>a DEF absAnswer
<1>b. /\ Seen("idle") = "new" /\ Seen("register") = "new"
      /\ \A where \in InFlight : Seen(where) = "pending"
      /\ Seen("replied") = "answered" /\ Seen("refused") = "failed" /\ Seen("failed") = "failed"
      /\ Seen("unsent") = "abandoned" /\ Seen("gaveUp") = "abandoned"
      /\ Seen("cancelSend") = "abandoned" /\ Seen("cancelWrite") = "abandoned"
  BY DEF Seen, InFlight
<1>3. CASE Enter(c)
  <2>1. Only /\ pc[c] = "idle" /\ pc'[c] = "register" /\ Kept
    BY <1>3, <1>a DEF Enter, Goto
  <2> QED
    BY <1>2, <1>b, <2>1
<1>4. CASE Register(c)
  <2>1. /\ Only /\ Kept /\ pc[c] = "register"
        /\ pc'[c] = IF pendErr THEN "refused" ELSE "send"
    BY <1>4, <1>a DEF Register, Goto
  <2>2. Seen(pc'[c]) = IF pendErr THEN "failed" ELSE "pending"
    BY <1>b, <2>1 DEF InFlight
  <2> QED
    BY <1>1, <1>b, <2>1, <2>2 DEF Begins
<1>5. CASE EncodeFails(c)
  <2>1. Only /\ Kept /\ pc[c] = "send" /\ pc'[c] = "unregister"
    BY <1>5, <1>a DEF EncodeFails, Goto
  <2> QED
    BY <1>2, <1>b, <2>1 DEF InFlight
<1>6. CASE LockSend(c)
  <2>1. /\ Only /\ Kept
        /\ \/ pc[c] = "send" /\ pc'[c] = "write"
           \/ pc[c] = "cancelSend" /\ pc'[c] = "cancelWrite"
    BY <1>6, <1>a DEF LockSend, Goto
  <2> QED
    BY <1>2, <1>b, <2>1 DEF InFlight
<1>7. CASE WriteOk(c) \/ WriteFails(c)
  <2>1. /\ Only /\ Kept
        /\ \/ pc[c] = "write" /\ pc'[c] \in {"await", "unregister"}
           \/ pc[c] = "cancelWrite" /\ pc'[c] = "gaveUp"
    BY <1>7, <1>a DEF WriteOk, WriteFails, Goto
  <2> QED
    BY <1>2, <1>b, <2>1 DEF InFlight
<1>8. CASE Unregister(c)
  <2>1. Only /\ Kept /\ pc[c] = "unregister" /\ pc'[c] = "unsent"
    BY <1>8, <1>a DEF Unregister, Goto
  <2> QED
    BY <1>1, <1>b, <2>1 DEF InFlight, Ends
<1>9. CASE TakeReply(c)
  <2>1. /\ Only /\ pc[c] = "await" /\ pc'[c] = "replied" /\ reply[c] = NoFrame /\ ch[c] # NoFrame
        /\ reply' = [reply EXCEPT ![c] = ch[c]] /\ ch' = [ch EXCEPT ![c] = NoFrame]
        /\ UNCHANGED <<pendErr, hand, target>>
    BY <1>9 DEF TakeReply, Goto
  <2>2. \A d \in Call : absAnswer'[d] = absAnswer[d]
    BY <2>1 DEF absAnswer
  <2>3. UNCHANGED absAnswer
    BY <2>2 DEF absAnswer
  <2>4. absAnswer[c] # NoFrame
    BY <2>1 DEF absAnswer
  <2> QED
    BY <1>1, <1>b, <2>1, <2>3, <2>4 DEF InFlight, Ends
<1>10. CASE SeeClosed(c)
  <2>1. Only /\ Kept /\ pc[c] = "await" /\ pc'[c] = "failed" /\ ch[c] = NoFrame /\ c \in shut
    BY <1>10, <1>a DEF SeeClosed, Goto
  <2>2. pendErr /\ reply[c] = NoFrame /\ target # c
    BY <2>1, PendingAssumption DEF PendingAssumption, DeliverOK
  <2>3. absAnswer[c] = NoFrame
    BY <2>1, <2>2 DEF absAnswer
  <2> QED
    BY <1>1, <1>b, <2>1, <2>2, <2>3 DEF InFlight, Ends
<1>11. CASE ContextDone(c)
  <2>1. Only /\ Kept /\ pc[c] = "await" /\ pc'[c] = "drop"
    BY <1>11, <1>a DEF ContextDone, Goto
  <2> QED
    BY <1>2, <1>b, <2>1 DEF InFlight
<1>12. CASE Abandon(c)
  <2>1. Only /\ Kept /\ pc[c] = "drop" /\ pc'[c] \in {"cancelSend", "gaveUp"}
    BY <1>12, <1>a DEF Abandon, Goto
  <2> QED
    BY <1>1, <1>b, <2>1 DEF InFlight, Ends
<1> QED
  BY <1>3, <1>4, <1>5, <1>6, <1>7, <1>8, <1>9, <1>10, <1>11, <1>12 DEF CallStep

\* resolve, when it finds no call: no pending call without an answer could take
\* the frame.
LEMMA ResolveFindsNone ==
  ASSUME CallsInv, ReplyInv, InFlightKept, ~pendErr, Resolve, target' = NoCall
  PROVE  /\ \A c \in Call : absStatus[c] = "pending" /\ absAnswer[c] = NoFrame => ~Answers(hand, c)
         /\ UNCHANGED <<absStatus, absAnswer>>
<1> USE PendingAssumption DEF PendingAssumption, CallsInv, CallsTypeOK
<1>1. hand \in Frame /\ ResolvedBy(waiters, hand) = NoCall /\ UNCHANGED <<pc, reply, ch, hand, target>>
  BY DEF Resolve
<1>2. ASSUME NEW c \in Call, absStatus[c] = "pending", absAnswer[c] = NoFrame PROVE ~Answers(hand, c)
  <2>1. pc[c] \in InFlight
    BY <1>2 DEF absStatus, InFlight
  <2>2. reply[c] = NoFrame
    BY <2>1 DEF ReplyInv, InFlight
  <2>3. ch[c] = NoFrame
    BY <1>2, <2>2 DEF absAnswer
  <2>4. waiters[IdOf[c]] = c
    BY <2>1, <2>3 DEF InFlightKept, ReplyInv, ClosedOK, Resolve
  <2> QED
    BY <1>1, <2>4 DEF ResolvedBy, Answers
<1> QED
  BY <1>1, <1>2 DEF absStatus, absAnswer

\* resolve, when it finds a call: the frame becomes that call's answer.
LEMMA ResolveFindsCall ==
  ASSUME CallsInv, ReplyInv, Resolve, target' # NoCall
  PROVE  /\ target' \in Call /\ Answers(hand, target')
         /\ absStatus[target'] = "pending" /\ absAnswer[target'] = NoFrame
         /\ absAnswer' = [absAnswer EXCEPT ![target'] = hand]
         /\ UNCHANGED absStatus
<1> USE PendingAssumption DEF PendingAssumption, CallsInv, CallsTypeOK
<1>1. /\ hand \in Frame /\ target = NoCall /\ target' = ResolvedBy(waiters, hand)
      /\ UNCHANGED <<pc, reply, ch, hand>>
  BY DEF Resolve
<1>2. /\ target' \in Call /\ Answers(hand, target')
      /\ FrameId[hand] \in Id /\ target' = waiters[FrameId[hand]]
  BY <1>1 DEF ResolvedBy, Table
<1>3. pc[target'] \in InFlight /\ ch[target'] = NoFrame
  BY <1>2 DEF TableOK, Untouched
<1>4. reply[target'] = NoFrame
  BY <1>2, <1>3 DEF ReplyInv, InFlight
<1>5. absStatus[target'] = "pending"
  BY <1>2, <1>3 DEF absStatus, InFlight
<1>6. absAnswer[target'] = NoFrame
  BY <1>1, <1>2, <1>3, <1>4 DEF absAnswer
<1>7. \A c \in Call : absAnswer'[c] = IF c = target' THEN hand ELSE absAnswer[c]
  BY <1>1, <1>2, <1>3, <1>4 DEF absAnswer
<1>8. absAnswer' = [absAnswer EXCEPT ![target'] = hand]
  BY <1>7 DEF absAnswer
<1>9. UNCHANGED absStatus
  BY <1>1 DEF absStatus
<1> QED
  BY <1>2, <1>5, <1>6, <1>8, <1>9

\* Nothing else a read loop does to the calls is seen.
LEMMA ReaderPromised ==
  ASSUME CallsInv, ReplyInv,
         \/ Deliver \/ CloseAll \/ Disconnect \/ (\E c \in Call : CloseChan(c))
         \/ target = NoCall /\ (LetGo \/ \E f \in Frame : Hold(f))
  PROVE  UNCHANGED <<absStatus, absAnswer>>
<1> USE PendingAssumption DEF PendingAssumption, CallsInv, CallsTypeOK
<1>1. UNCHANGED <<pc, reply>>
  BY DEF Deliver, CloseAll, Disconnect, CloseChan, LetGo, Hold
<1>2. UNCHANGED absStatus
  BY <1>1 DEF absStatus
<1>3. CASE Deliver
  <2>1. \A c \in Call : absAnswer'[c] = absAnswer[c]
    BY <1>3, <1>1 DEF Deliver, absAnswer
  <2> QED
    BY <1>2, <2>1 DEF absAnswer
<1>4. CASE CloseAll \/ Disconnect \/ \E c \in Call : CloseChan(c)
  BY <1>1, <1>2, <1>4 DEF CloseAll, Disconnect, CloseChan, absAnswer
<1>5. CASE target = NoCall /\ (LetGo \/ \E f \in Frame : Hold(f))
  <2>1. \A c \in Call : absAnswer'[c] = absAnswer[c]
    BY <1>5, <1>1 DEF LetGo, Hold, absAnswer
  <2> QED
    BY <1>2, <2>1 DEF absAnswer
<1> QED
  BY <1>3, <1>4, <1>5

-----------------------------------------------------------------------------
(* Frames on their way.                                                    *)

Within(g, s) == \E i \in DOMAIN s : s[i] = g

Distinct(s) == \A i, j \in DOMAIN s : s[i] = s[j] => i = j

\* Sending a frame that is not on its way.
LEMMA WithinAppend ==
  ASSUME NEW S, NEW s \in Seq(S), NEW e \in S
  PROVE  /\ \A g : Within(g, Append(s, e)) <=> Within(g, s) \/ g = e
         /\ Distinct(s) /\ ~Within(e, s) => Distinct(Append(s, e))
<1>1. PICK n \in Nat :
        /\ DOMAIN s = 1..n /\ DOMAIN Append(s, e) = 1..(n + 1)
        /\ Append(s, e)[n + 1] = e
        /\ \A i \in 1..n : Append(s, e)[i] = s[i]
  <2>1. /\ Len(s) \in Nat /\ DOMAIN s = 1..Len(s) /\ DOMAIN Append(s, e) = 1..(Len(s) + 1)
        /\ Append(s, e)[Len(s) + 1] = e
        /\ \A i \in 1..Len(s) : Append(s, e)[i] = s[i]
    OBVIOUS
  <2> QED
    BY <2>1
<1>2. ASSUME NEW g PROVE Within(g, Append(s, e)) <=> Within(g, s) \/ g = e
  <2>1. ASSUME Within(g, Append(s, e)), g # e PROVE Within(g, s)
    <3>1. PICK i \in 1..(n + 1) : Append(s, e)[i] = g
      BY <1>1, <2>1 DEF Within
    <3>2. i \in 1..n
      BY <1>1, <2>1, <3>1
    <3> QED
      BY <1>1, <3>1, <3>2 DEF Within
  <2>2. ASSUME Within(g, s) PROVE Within(g, Append(s, e))
    <3>1. PICK i \in 1..n : s[i] = g
      BY <1>1, <2>2 DEF Within
    <3> QED
      BY <1>1, <3>1 DEF Within
  <2>3. Within(e, Append(s, e))
    BY <1>1 DEF Within
  <2> QED
    BY <2>1, <2>2, <2>3
<1>3. ASSUME Distinct(s), ~Within(e, s) PROVE Distinct(Append(s, e))
  <2> SUFFICES ASSUME NEW i \in 1..(n + 1), NEW j \in 1..(n + 1), Append(s, e)[i] = Append(s, e)[j]
               PROVE  i = j
    BY <1>1 DEF Distinct
  <2>1. \A k \in 1..n : s[k] # e
    BY <1>1, <1>3 DEF Within
  <2>2. CASE i \in 1..n /\ j \in 1..n
    BY <1>1, <1>3, <2>2 DEF Distinct
  <2>3. CASE i \in 1..n /\ j = n + 1
    BY <1>1, <2>1, <2>3
  <2>4. CASE i = n + 1 /\ j \in 1..n
    BY <1>1, <2>1, <2>4
  <2> QED
    BY <2>2, <2>3, <2>4
<1> QED
  BY <1>2, <1>3

\* Reading the oldest frame.
LEMMA WithinTail ==
  ASSUME NEW S, NEW s \in Seq(S), s # <<>>
  PROVE  /\ Head(s) \in S /\ Tail(s) \in Seq(S)
         /\ \A g : Within(g, s) <=> g = Head(s) \/ Within(g, Tail(s))
         /\ Distinct(s) => Distinct(Tail(s)) /\ ~Within(Head(s), Tail(s))
<1>1. PICK n \in Nat :
        /\ DOMAIN s = 1..(n + 1) /\ DOMAIN Tail(s) = 1..n
        /\ Head(s) = s[1]
        /\ \A i \in 1..n : Tail(s)[i] = s[i + 1]
  <2>1. /\ Len(s) \in Nat \ {0} /\ DOMAIN s = 1..Len(s) /\ DOMAIN Tail(s) = 1..(Len(s) - 1)
        /\ Head(s) = s[1]
        /\ \A i \in 1..(Len(s) - 1) : Tail(s)[i] = s[i + 1]
    OBVIOUS
  <2>2. Len(s) - 1 \in Nat /\ Len(s) = (Len(s) - 1) + 1
    BY <2>1
  <2> QED
    BY <2>1, <2>2
<1>2. Head(s) \in S /\ Tail(s) \in Seq(S)
  OBVIOUS
<1>3. ASSUME NEW g PROVE Within(g, s) <=> g = Head(s) \/ Within(g, Tail(s))
  <2>1. ASSUME Within(g, s), g # Head(s) PROVE Within(g, Tail(s))
    <3>1. PICK i \in 1..(n + 1) : s[i] = g
      BY <1>1, <2>1 DEF Within
    <3>2. i - 1 \in 1..n /\ (i - 1) + 1 = i
      BY <1>1, <2>1, <3>1
    <3>3. Tail(s)[i - 1] = g
      BY <1>1, <3>1, <3>2
    <3> QED
      BY <1>1, <3>2, <3>3 DEF Within
  <2>2. ASSUME Within(g, Tail(s)) PROVE Within(g, s)
    <3>1. PICK i \in 1..n : Tail(s)[i] = g
      BY <1>1, <2>2 DEF Within
    <3>2. i + 1 \in 1..(n + 1) /\ s[i + 1] = g
      BY <1>1, <3>1
    <3> QED
      BY <1>1, <3>2 DEF Within
  <2>3. Within(Head(s), s)
    <3>1. 1 \in 1..(n + 1)
      OBVIOUS
    <3> QED
      BY <1>1, <3>1 DEF Within
  <2> QED
    BY <2>1, <2>2, <2>3
<1>4. ASSUME Distinct(s) PROVE Distinct(Tail(s)) /\ ~Within(Head(s), Tail(s))
  <2>1. ASSUME NEW i \in 1..n, NEW j \in 1..n, Tail(s)[i] = Tail(s)[j] PROVE i = j
    <3>1. i + 1 \in 1..(n + 1) /\ j + 1 \in 1..(n + 1) /\ s[i + 1] = s[j + 1]
      BY <1>1, <2>1
    <3>2. i + 1 = j + 1
      BY <1>1, <1>4, <3>1 DEF Distinct
    <3> QED
      BY <3>2
  <2>2. ASSUME NEW i \in 1..n PROVE Tail(s)[i] # Head(s)
    <3>1. i + 1 \in 1..(n + 1) /\ 1 \in 1..(n + 1) /\ i + 1 # 1
      OBVIOUS
    <3> QED
      BY <1>1, <1>4, <3>1 DEF Distinct
  <2> QED
    BY <1>1, <2>1, <2>2 DEF Distinct, Within
<1> QED
  BY <1>2, <1>3, <1>4
=============================================================================

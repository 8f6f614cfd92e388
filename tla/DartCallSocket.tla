--------------------------- MODULE DartCallSocket ---------------------------
(***************************************************************************)
(* WsFrameSocket and WsCallSocket of the Dart runtime                      *)
(* (internal/gendart/runtime/onekit_ws.dart).  One event loop; the library *)
(* pings.  <<c, "cancel">> in hooks: call c was given a cancel future that *)
(* has not completed.  It may do so at any time, long after the call.      *)
(***************************************************************************)
EXTENDS RuntimeCalls

\* _fail of either class: only the first one does anything.
Fail ==
  /\ over' = TRUE /\ waiters' = EmptyTable
  /\ promise' = Settled(Waiting(waiters), "closed")
  /\ rx' = IF rx = "waiting" THEN "told" ELSE rx

CallOver(c) ==
  /\ pc[c] = "idle" /\ MayUse(c) /\ over
  /\ promise' = Settled({c}, "closed") /\ Goto(c, "ended")
  /\ UNCHANGED <<netVars, conn, out, tableVars, reply, hooks, lock, readerVars, mailVars>>

\* The sink of a connection that is closing drops the frame.
CallSends(c) ==
  /\ pc[c] = "idle" /\ MayUse(c) /\ ~over
  /\ waiters' = Registered(waiters, c)
  /\ Writes(c, "call") /\ Goto(c, "await")
  /\ hooks' \in {hooks, hooks \cup {<<c, "cancel">>}}
  /\ UNCHANGED <<netVars, conn, over, promise, reply, lock, readerVars, mailVars>>

\* _sendJson throws after the entry is made.
CallThrows(c) ==
  /\ pc[c] = "idle" /\ MayUse(c) /\ ~over
  /\ waiters' = Removed(waiters, IdOf[c])
  /\ promise' = Settled({c}, "error") /\ Goto(c, "await")
  /\ UNCHANGED <<netVars, conn, out, over, reply, hooks, lock, readerVars, mailVars>>

\* _abandon, and completeError.  It goes by the id: the entry may be a later
\* call's, which then never ends (completeError throws instead).
AbandonBy(c) ==
  IF waiters[IdOf[c]] = NoCall
    THEN UNCHANGED <<out, waiters, promise>>
    ELSE /\ waiters' = Removed(waiters, IdOf[c])
         /\ promise' = IF promise[c] = "waiting" THEN Settled({c}, "error") ELSE promise
         /\ CancelsPeer(c)

\* The timer runs until the call's future completes.
TimeOut(c) ==
  /\ pc[c] = "await" /\ promise[c] = "waiting"
  /\ AbandonBy(c)
  /\ UNCHANGED <<netVars, conn, over, pc, reply, hooks, lock, readerVars, mailVars>>

Cancelled(c) ==
  /\ <<c, "cancel">> \in hooks /\ hooks' = hooks \ {<<c, "cancel">>}
  /\ AbandonBy(c)
  /\ UNCHANGED <<netVars, conn, over, pc, reply, lock, readerVars, mailVars>>

\* _onData with an _abort; once over, data is ignored.
BadData ==
  /\ CanRead /\ ~over /\ Head(wire) \in BadFrame
  /\ wire' = Tail(wire) /\ conn' = "closing"
  /\ Fail
  /\ UNCHANGED <<peer, unsent, out, pc, reply, hooks, lock, readerVars, inbox, taken>>

ReplyData ==
  /\ CanRead /\ ~over /\ Head(wire) \notin BadFrame
  /\ LET c == ResolvedBy(waiters, Head(wire)) IN
       c # NoCall /\ waiters' = Removed(waiters, IdOf[c]) /\ Answered(c, Head(wire))
  /\ wire' = Tail(wire)
  /\ UNCHANGED <<peer, unsent, conn, out, over, pc, hooks, lock, readerVars, mailVars>>

OtherData ==
  /\ CanRead /\ ~over /\ Head(wire) \notin BadFrame
  /\ ResolvedBy(waiters, Head(wire)) = NoCall
  /\ wire' = Tail(wire)
  /\ IF rx = "waiting"
       THEN taken' = Append(taken, Head(wire)) /\ rx' = "idle" /\ UNCHANGED inbox
       ELSE inbox' = Append(inbox, Head(wire)) /\ UNCHANGED <<rx, taken>>
  /\ UNCHANGED <<peer, unsent, conn, out, tableVars, callVars, hooks, lock, readerVars>>

\* The stream ends (_onDone), or fails first (_onError).
StreamEnds ==
  /\ conn # "closed" /\ EndVisible
  /\ conn' = "closed"
  /\ IF over THEN UNCHANGED <<tableVars, promise, rx>> ELSE Fail
  /\ UNCHANGED <<netVars, out, pc, reply, hooks, lock, readerVars, inbox, taken>>

Receive ==
  /\ rx = "idle"
  /\ \/ Take
     \/ inbox = <<>> /\ rx' = (IF over THEN "told" ELSE "waiting")
        /\ UNCHANGED <<inbox, taken>>
  /\ UNCHANGED <<netVars, conn, out, tableVars, callVars, hooks, lock, readerVars>>

AppStep ==
  \/ \E c \in Call : CallOver(c) \/ CallSends(c) \/ CallThrows(c) \/ TimeOut(c) \/ Cancelled(c)
  \/ Receive \/ StopWaiting \/ Close

CallStep(c) == Resume(c)
ReaderStep == BadData \/ ReplyData \/ OtherData \/ StreamEnds
=============================================================================

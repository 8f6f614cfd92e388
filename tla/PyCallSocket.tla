---------------------------- MODULE PyCallSocket ----------------------------
(***************************************************************************)
(* WsCallSocket of the Python runtime (internal/genpy/runtime/ws.py).  A   *)
(* thread per call, the reader thread and a receiving thread; a step is a  *)
(* critical section, a queue operation or a blocking operation of the      *)
(* connection.  The library pings.                                         *)
(***************************************************************************)
EXTENDS RuntimeCalls

-----------------------------------------------------------------------------
(* call.                                                                   *)

Enter(c) ==
  /\ pc[c] = "idle" /\ MayUse(c) /\ Goto(c, "register")
  /\ UNCHANGED <<netVars, conn, out, tableVars, promise, reply, hooks, lock, readerVars, mailVars>>

Refused(c) ==
  /\ pc[c] = "register" /\ over
  /\ promise' = Settled({c}, "closed") /\ Goto(c, "ended")
  /\ UNCHANGED <<netVars, conn, out, tableVars, reply, hooks, lock, readerVars, mailVars>>

Register(c) ==
  /\ pc[c] = "register" /\ ~over
  /\ waiters' = Registered(waiters, c) /\ Goto(c, "send")
  /\ UNCHANGED <<netVars, conn, out, over, promise, reply, hooks, lock, readerVars, mailVars>>

\* _ws_encode raises, before the send lock.
EncodeFails(c) ==
  /\ pc[c] = "send" /\ Goto(c, "unregister")
  /\ UNCHANGED <<netVars, conn, out, tableVars, promise, reply, hooks, lock, readerVars, mailVars>>

LockSend(c) ==
  /\ pc[c] \in {"send", "cancelSend"} /\ lock = NoCall
  /\ lock' = c
  /\ Goto(c, IF pc[c] = "send" THEN "write" ELSE "cancelWrite")
  /\ UNCHANGED <<netVars, conn, out, tableVars, promise, reply, hooks, readerVars, mailVars>>

WriteOk(c) ==
  /\ pc[c] \in {"write", "cancelWrite"} /\ conn = "open"
  /\ Writes(c, IF pc[c] = "write" THEN "call" ELSE "cancel")
  /\ Goto(c, IF pc[c] = "write" THEN "await" ELSE "gaveUp") /\ lock' = NoCall
  /\ UNCHANGED <<netVars, conn, tableVars, promise, reply, hooks, readerVars, mailVars>>

\* On a closed or broken connection, which it ends; a failed cancel frame is
\* passed over.
WriteFails(c) ==
  /\ pc[c] \in {"write", "cancelWrite"} /\ (conn # "open" \/ peer # "up")
  /\ conn' = IF conn = "open" THEN "closing" ELSE conn
  /\ Goto(c, IF pc[c] = "write" THEN "unregister" ELSE "gaveUp") /\ lock' = NoCall
  /\ UNCHANGED <<netVars, out, tableVars, promise, reply, hooks, readerVars, mailVars>>

Unregister(c) ==
  /\ pc[c] = "unregister"
  /\ waiters' = Removed(waiters, IdOf[c]) /\ Goto(c, "gaveUp")
  /\ UNCHANGED <<netVars, conn, out, over, promise, reply, hooks, lock, readerVars, mailVars>>

\* future.result times out and the deadline has passed, or cancel is set.
GiveUp(c) ==
  /\ pc[c] = "await" /\ promise[c] = "waiting" /\ Goto(c, "drop")
  /\ UNCHANGED <<netVars, conn, out, tableVars, promise, reply, hooks, lock, readerVars, mailVars>>

\* _abandon.
Drop(c) ==
  /\ pc[c] = "drop"
  /\ waiters' = Removed(waiters, IdOf[c])
  /\ Goto(c, IF HasCancel THEN "cancelSend" ELSE "gaveUp")
  /\ UNCHANGED <<netVars, conn, out, over, promise, reply, hooks, lock, readerVars, mailVars>>

CallStep(c) ==
  \/ Refused(c) \/ Register(c) \/ EncodeFails(c) \/ LockSend(c) \/ WriteOk(c)
  \/ WriteFails(c) \/ Unregister(c) \/ Resume(c) \/ Drop(c)

-----------------------------------------------------------------------------
(* _read_loop.                                                             *)

ReadFrame ==
  /\ rd = "read" /\ CanRead /\ Head(wire) \notin BadFrame
  /\ wire' = Tail(wire) /\ held' = Head(wire) /\ rd' = "route"
  /\ UNCHANGED <<peer, unsent, conn, out, tableVars, callVars, hooks, lock, target, closing, mailVars>>

\* A message that is no JSON ends the connection; one that is, but does not
\* fit the response type (from_dict), ends only the reader.
ReadBad ==
  /\ rd = "read" /\ CanRead /\ Head(wire) \in BadFrame
  /\ wire' = Tail(wire) /\ rd' = "fail" /\ conn' \in {conn, "closing"}
  /\ UNCHANGED <<peer, unsent, out, tableVars, callVars, hooks, lock, held, target, closing, mailVars>>

ReadEnd ==
  /\ rd = "read" /\ EndVisible
  /\ conn' = "closed" /\ rd' = "fail"
  /\ UNCHANGED <<netVars, out, tableVars, callVars, hooks, lock, held, target, closing, mailVars>>

Route ==
  /\ rd = "route"
  /\ LET c == ResolvedBy(waiters, held) IN
       IF c = NoCall
         THEN rd' = "push" /\ UNCHANGED <<waiters, target>>
         ELSE rd' = "deliver" /\ target' = c /\ waiters' = Removed(waiters, IdOf[c])
  /\ UNCHANGED <<netVars, conn, out, over, callVars, hooks, lock, held, closing, mailVars>>

Deliver ==
  /\ rd = "deliver"
  /\ Answered(target, held)
  /\ rd' = "read" /\ held' = NoFrame /\ target' = NoCall
  /\ UNCHANGED <<netVars, conn, out, tableVars, pc, hooks, lock, closing, mailVars>>

Push ==
  /\ rd = "push"
  /\ inbox' = Append(inbox, held) /\ rd' = "read" /\ held' = NoFrame
  /\ UNCHANGED <<netVars, conn, out, tableVars, callVars, hooks, lock, target, closing, rx, taken>>

Fail ==
  /\ rd = "fail"
  /\ over' = TRUE /\ closing' = Waiting(waiters) /\ waiters' = EmptyTable /\ rd' = "failing"
  /\ UNCHANGED <<netVars, conn, out, callVars, hooks, lock, held, target, mailVars>>

FailOne(c) ==
  /\ rd = "failing" /\ c \in closing
  /\ promise' = Settled({c}, "closed") /\ closing' = closing \ {c}
  /\ UNCHANGED <<netVars, conn, out, tableVars, pc, reply, hooks, lock, rd, held, target, mailVars>>

Bug_NoSentinel ==
  /\ rd = "failing" /\ closing = {} /\ rd' = "dead"
  /\ UNCHANGED <<netVars, conn, out, tableVars, callVars, hooks, lock, held, target, closing, mailVars>>

PushEnd ==
  /\ rd = "failing" /\ closing = {}
  /\ inbox' = Append(inbox, Sentinel) /\ rd' = "dead"
  /\ UNCHANGED <<netVars, conn, out, tableVars, callVars, hooks, lock, held, target, closing, rx, taken>>

ReaderStep ==
  \/ ReadFrame \/ ReadBad \/ ReadEnd \/ Route \/ Deliver \/ Push
  \/ Fail \/ (\E c \in Call : FailOne(c)) \/ PushEnd

-----------------------------------------------------------------------------
(* receive.                                                                *)

Receive ==
  /\ rx = "idle" /\ rx' = "waiting"
  /\ UNCHANGED <<netVars, conn, out, tableVars, callVars, hooks, lock, readerVars, inbox, taken>>

\* The sentinel is taken out, and put back for the next receive.
SeeEnd ==
  /\ rx = "waiting" /\ inbox # <<>> /\ Head(inbox) = Sentinel
  /\ inbox' = Tail(inbox) /\ rx' = "reput"
  /\ UNCHANGED <<netVars, conn, out, tableVars, callVars, hooks, lock, readerVars, taken>>

PutBack ==
  /\ rx = "reput" /\ inbox' = Append(inbox, Sentinel) /\ rx' = "told"
  /\ UNCHANGED <<netVars, conn, out, tableVars, callVars, hooks, lock, readerVars, taken>>

GetFrame ==
  /\ rx = "waiting" /\ Take
  /\ UNCHANGED <<netVars, conn, out, tableVars, callVars, hooks, lock, readerVars>>

ReceiverStep == GetFrame \/ SeeEnd \/ PutBack

AppStep ==
  \/ \E c \in Call : Enter(c) \/ GiveUp(c)
  \/ Receive \/ StopWaiting \/ Close
=============================================================================

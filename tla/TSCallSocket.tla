---------------------------- MODULE TSCallSocket ----------------------------
(***************************************************************************)
(* The duplex class and WSPending of the generated TypeScript client       *)
(* (internal/gents/ws.go).  One event loop: a step is a callback or a call *)
(* that runs to its end.  There are no pings.                              *)
(***************************************************************************)
EXTENDS RuntimeCalls

\* rejectAll, with the promises of more calls.
RejectAll(more) ==
  /\ over' = TRUE /\ waiters' = EmptyTable
  /\ promise' = Settled(Waiting(waiters) \cup more, "closed")

\* call on a socket that is not open: it and all in flight are rejected.
CallClosed(c) ==
  /\ pc[c] = "idle" /\ MayUse(c) /\ conn # "open"
  /\ RejectAll({c}) /\ Goto(c, "ended")
  /\ UNCHANGED <<netVars, conn, out, reply, hooks, lock, readerVars, mailVars>>

CallOpen(c) ==
  /\ pc[c] = "idle" /\ MayUse(c) /\ conn = "open"
  /\ waiters' = Registered(waiters, c)
  /\ Writes(c, "call") /\ Goto(c, "await")
  /\ UNCHANGED <<netVars, conn, over, promise, reply, hooks, lock, readerVars, mailVars>>

\* send throws after register: fail(id).
CallThrows(c) ==
  /\ pc[c] = "idle" /\ MayUse(c) /\ conn = "open"
  /\ waiters' = Removed(waiters, IdOf[c])
  /\ promise' = Settled({c}, "error") /\ Goto(c, "await")
  /\ UNCHANGED <<netVars, conn, out, over, reply, hooks, lock, readerVars, mailVars>>

Bug_AbandonsById(c) ==
  /\ pc[c] \in {"await", "ended"} /\ waiters[IdOf[c]] # NoCall
  /\ waiters' = Removed(waiters, IdOf[c])
  /\ promise' = IF promise[c] = "waiting" THEN Settled({c}, "error") ELSE promise
  /\ CancelsPeer(c)
  /\ UNCHANGED <<netVars, conn, over, pc, reply, hooks, lock, readerVars, mailVars>>

\* The timer or the abort signal, while the entry is still this call's.
Abandon(c) ==
  /\ waiters[IdOf[c]] = c
  /\ waiters' = Removed(waiters, IdOf[c])
  /\ promise' = Settled({c}, "error")
  /\ CancelsPeer(c)
  /\ UNCHANGED <<netVars, conn, over, pc, reply, hooks, lock, readerVars, mailVars>>

\* failLocally; the frames that follow are not delivered any more.
BadMessage ==
  /\ conn = "open" /\ wire # <<>> /\ Head(wire) \in BadFrame
  /\ wire' = Tail(wire) /\ conn' = "closing"
  /\ UNCHANGED <<peer, unsent, out, tableVars, callVars, hooks, lock, readerVars, mailVars>>

Bug_ReplyAlsoQueued ==
  /\ conn = "open" /\ wire # <<>> /\ Head(wire) \notin BadFrame
  /\ LET c == ResolvedBy(waiters, Head(wire)) IN
       c # NoCall /\ waiters' = Removed(waiters, IdOf[c]) /\ Answered(c, Head(wire))
  /\ wire' = Tail(wire) /\ inbox' = Append(inbox, Head(wire))
  /\ UNCHANGED <<peer, unsent, conn, out, over, pc, hooks, lock, readerVars, rx, taken>>

ReplyMessage ==
  /\ conn = "open" /\ wire # <<>> /\ Head(wire) \notin BadFrame
  /\ LET c == ResolvedBy(waiters, Head(wire)) IN
       c # NoCall /\ waiters' = Removed(waiters, IdOf[c]) /\ Answered(c, Head(wire))
  /\ wire' = Tail(wire)
  /\ UNCHANGED <<peer, unsent, conn, out, over, pc, hooks, lock, readerVars, mailVars>>

\* Nobody's reply: to a waiting receive, or queued.
OtherMessage ==
  /\ conn = "open" /\ wire # <<>> /\ Head(wire) \notin BadFrame
  /\ ResolvedBy(waiters, Head(wire)) = NoCall
  /\ wire' = Tail(wire)
  /\ IF rx = "waiting"
       THEN taken' = Append(taken, Head(wire)) /\ rx' = "idle" /\ UNCHANGED inbox
       ELSE inbox' = Append(inbox, Head(wire)) /\ UNCHANGED <<rx, taken>>
  /\ UNCHANGED <<peer, unsent, conn, out, tableVars, callVars, hooks, lock, readerVars>>

\* The close event: the peer has closed, or answered (or not) this end's close.
CloseEvent ==
  /\ conn # "closed" /\ EndVisible
  /\ conn' = "closed"
  /\ RejectAll({})
  /\ rx' = IF rx = "waiting" THEN "told" ELSE rx
  /\ UNCHANGED <<netVars, out, pc, reply, hooks, lock, readerVars, inbox, taken>>

\* receive.
Receive ==
  /\ rx = "idle"
  /\ \/ Take
     \/ inbox = <<>> /\ rx' = (IF conn = "closed" THEN "told" ELSE "waiting")
        /\ UNCHANGED <<inbox, taken>>
  /\ UNCHANGED <<netVars, conn, out, tableVars, callVars, hooks, lock, readerVars>>

AppStep ==
  \/ \E c \in Call : CallClosed(c) \/ CallOpen(c) \/ CallThrows(c) \/ Abandon(c)
  \/ Receive \/ Close

CallStep(c) == Resume(c)
ReaderStep == BadMessage \/ ReplyMessage \/ OtherMessage \/ CloseEvent
=============================================================================

--------------------------- MODULE RustCallSocket ---------------------------
(***************************************************************************)
(* WsCallSocket, WsPending and WsCallGuard of the generated Rust client,   *)
(* and the server's WsCallSink and read loop, whose calls are the client's *)
(* (internal/genrust/ws.go).  Tasks: one per call future, which may be     *)
(* dropped wherever it awaits, the reader, the pings, and what a guard     *)
(* spawns (hooks: the cancellation, then its cancel frame).  The locks of  *)
(* the table and of the sink are tokio mutexes.                            *)
(***************************************************************************)
EXTENDS RuntimeCalls

-----------------------------------------------------------------------------
(* start.                                                                  *)

Enter(c) ==
  /\ pc[c] = "idle" /\ MayUse(c) /\ Goto(c, "register")
  /\ UNCHANGED <<netVars, conn, out, tableVars, promise, reply, hooks, lock, readerVars, mailVars>>

Refused(c) ==
  /\ pc[c] = "register" /\ over
  /\ promise' = Settled({c}, "closed") /\ Goto(c, "ended")
  /\ UNCHANGED <<netVars, conn, out, tableVars, reply, hooks, lock, readerVars, mailVars>>

Register(c) ==
  /\ pc[c] = "register" /\ ~over
  /\ waiters' = Registered(waiters, c) /\ Goto(c, "send")
  /\ UNCHANGED <<netVars, conn, out, over, promise, reply, hooks, lock, readerVars, mailVars>>

\* ws_encode_frame fails.
EncodeFails(c) ==
  /\ pc[c] = "send" /\ Goto(c, "unregister")
  /\ UNCHANGED <<netVars, conn, out, tableVars, promise, reply, hooks, lock, readerVars, mailVars>>

LockSend(c) ==
  /\ pc[c] \in {"send", "cancelSend"} /\ lock = NoCall
  /\ lock' = c
  /\ Goto(c, IF pc[c] = "send" THEN "write" ELSE "cancelWrite")
  /\ UNCHANGED <<netVars, conn, out, tableVars, promise, reply, hooks, readerVars, mailVars>>

WriteOk(c) ==
  /\ pc[c] \in {"write", "cancelWrite"} /\ conn = "open"
  /\ Writes(c, IF pc[c] = "write" THEN "call" ELSE "cancel")
  /\ Goto(c, IF pc[c] = "write" THEN "await" ELSE "gaveUp") /\ lock' = NoCall
  /\ UNCHANGED <<netVars, conn, tableVars, promise, reply, hooks, readerVars, mailVars>>

WriteFails(c) ==
  /\ pc[c] \in {"write", "cancelWrite"} /\ (conn # "open" \/ peer # "up")
  /\ Goto(c, IF pc[c] = "write" THEN "unregister" ELSE "gaveUp") /\ lock' = NoCall
  /\ UNCHANGED <<netVars, conn, out, tableVars, promise, reply, hooks, readerVars, mailVars>>

Unregister(c) ==
  /\ pc[c] = "unregister"
  /\ waiters' = Removed(waiters, IdOf[c]) /\ Goto(c, "gaveUp")
  /\ UNCHANGED <<netVars, conn, out, over, promise, reply, hooks, lock, readerVars, mailVars>>

-----------------------------------------------------------------------------
(* Giving up.                                                              *)

\* call_timeout; the receiver of the reply is gone from here on.
TimeOut(c) ==
  /\ pc[c] = "await" /\ promise[c] = "waiting" /\ Goto(c, "drop")
  /\ UNCHANGED <<netVars, conn, out, tableVars, promise, reply, hooks, lock, readerVars, mailVars>>

\* abandon.
Drop(c) ==
  /\ pc[c] = "drop"
  /\ waiters' = Removed(waiters, IdOf[c])
  /\ Goto(c, IF HasCancel THEN "cancelSend" ELSE "gaveUp")
  /\ UNCHANGED <<netVars, conn, out, over, promise, reply, hooks, lock, readerVars, mailVars>>

\* The future is dropped where there is no guard: while it sends (what it has
\* given to the sink may still go out) or abandons.  The waiter stays.
DroppedBare(c) ==
  /\ pc[c] \in {"register", "send", "write", "unregister", "drop", "cancelSend", "cancelWrite"}
  /\ \/ UNCHANGED out
     \/ pc[c] = "write" /\ Writes(c, "call")
     \/ pc[c] = "cancelWrite" /\ Writes(c, "cancel")
  /\ Goto(c, "gaveUp") /\ lock' = IF lock = c THEN NoCall ELSE lock
  /\ UNCHANGED <<netVars, conn, tableVars, promise, reply, hooks, readerVars, mailVars>>

\* It is dropped while it awaits the reply: the guard spawns.
DroppedWaiting(c) ==
  /\ pc[c] = "await" /\ Goto(c, "gaveUp")
  /\ hooks' = hooks \cup {<<c, "cancel">>}
  /\ UNCHANGED <<netVars, conn, out, tableVars, promise, reply, lock, readerVars, mailVars>>

\* The spawned task: by id, so the entry it removes may be a later call's,
\* whose sender is dropped with it.
HookCancel(c) ==
  /\ <<c, "cancel">> \in hooks
  /\ LET d == waiters[IdOf[c]] IN
       promise' = Settled({d} \cap {e \in Call : promise[e] = "waiting"}, "closed")
  /\ waiters' = Removed(waiters, IdOf[c])
  /\ hooks' = (hooks \ {<<c, "cancel">>}) \cup (IF HasCancel THEN {<<c, "send">>} ELSE {})
  /\ UNCHANGED <<netVars, conn, out, over, pc, reply, lock, readerVars, mailVars>>

HookSend(c) ==
  /\ <<c, "send">> \in hooks /\ lock = NoCall
  /\ hooks' = hooks \ {<<c, "send">>} /\ Writes(c, "cancel")
  /\ UNCHANGED <<netVars, conn, tableVars, callVars, lock, readerVars, mailVars>>

CallStep(c) ==
  \/ Refused(c) \/ Register(c) \/ EncodeFails(c) \/ LockSend(c) \/ WriteOk(c)
  \/ WriteFails(c) \/ Unregister(c) \/ Resume(c) \/ Drop(c) \/ HookCancel(c) \/ HookSend(c)

-----------------------------------------------------------------------------
(* The reader and the pings.                                               *)

ReadFrame ==
  /\ rd = "read" /\ CanRead /\ Head(wire) \notin BadFrame
  /\ wire' = Tail(wire) /\ held' = Head(wire) /\ rd' = "route"
  /\ UNCHANGED <<peer, unsent, conn, out, tableVars, callVars, hooks, lock, target, closing, mailVars>>

\* receive returns an error or None; the connection is left as it is.
ReadEnds ==
  /\ rd = "read"
  /\ \/ CanRead /\ Head(wire) \in BadFrame /\ wire' = Tail(wire)
     \/ EndVisible /\ peer # "silent" /\ UNCHANGED wire
  /\ rd' = "closeAll"
  /\ UNCHANGED <<peer, unsent, conn, out, tableVars, callVars, hooks, lock, held, target, closing, mailVars>>

Listens(c) == pc[c] \in {"send", "write", "unregister", "await"}

\* resolve, which drops the reply of a call that has gone, or tx.send.
Route ==
  /\ rd = "route" /\ rd' = "read" /\ held' = NoFrame
  /\ LET c == ResolvedBy(waiters, held) IN
       IF c = NoCall
         THEN inbox' = Append(inbox, held) /\ UNCHANGED <<waiters, promise, reply>>
         ELSE /\ waiters' = Removed(waiters, IdOf[c])
              /\ IF Listens(c) THEN Answered(c, held) ELSE UNCHANGED <<promise, reply>>
              /\ UNCHANGED inbox
  /\ UNCHANGED <<netVars, conn, out, over, pc, hooks, lock, target, closing, rx, taken>>

Bug_AbortLeavesTable ==
  /\ rd = "closeAll"
  /\ over' = TRUE /\ waiters' = EmptyTable
  /\ promise' = Settled(Waiting(waiters) \cap {c \in Call : promise[c] = "waiting"}, "closed")
  /\ rd' = "dead"
  /\ UNCHANGED <<netVars, conn, out, pc, reply, hooks, lock, held, target, closing, mailVars>>

\* close_all: taking the table drops every sender.
CloseAll ==
  /\ rd \in {"closeAll", "abort"}
  /\ over' = TRUE /\ waiters' = EmptyTable
  /\ promise' = Settled(Waiting(waiters) \cap {c \in Call : promise[c] = "waiting"}, "closed")
  /\ rd' = IF rd = "abort" THEN "close" ELSE "dead"
  /\ UNCHANGED <<netVars, conn, out, pc, reply, hooks, lock, held, target, closing, mailVars>>

\* A pong is missing: the reader is aborted, wherever it is.  Once this end has
\* closed, the next ping fails and its task is gone, unless the pong of an
\* earlier one was missing before: then this may happen, and has not to.
PingAborts ==
  /\ rd \in {"read", "route"}
  /\ rd' = "abort" /\ held' = NoFrame
  /\ UNCHANGED <<netVars, conn, out, tableVars, callVars, hooks, lock, target, closing, mailVars>>

PingCloses ==
  /\ rd = "close" /\ lock = NoCall
  /\ conn' = "closed" /\ rd' = "dead"
  /\ UNCHANGED <<netVars, out, tableVars, callVars, hooks, lock, held, target, closing, mailVars>>

ReaderStep == ReadFrame \/ ReadEnds \/ Route \/ CloseAll \/ PingCloses

-----------------------------------------------------------------------------
(* receive: the channel's sender lives as long as the reader.              *)

Receive ==
  /\ rx = "idle" /\ rx' = "waiting"
  /\ UNCHANGED <<netVars, conn, out, tableVars, callVars, hooks, lock, readerVars, inbox, taken>>

RecvSome ==
  /\ rx = "waiting" /\ Take
  /\ UNCHANGED <<netVars, conn, out, tableVars, callVars, hooks, lock, readerVars>>

RecvNone ==
  /\ rx = "waiting" /\ inbox = <<>> /\ rd \in {"abort", "close", "dead"}
  /\ rx' = "told"
  /\ UNCHANGED <<netVars, conn, out, tableVars, callVars, hooks, lock, readerVars, inbox, taken>>

ReceiverStep == RecvSome \/ RecvNone

AppStep ==
  \/ \E c \in Call : Enter(c) \/ TimeOut(c) \/ DroppedBare(c) \/ DroppedWaiting(c)
  \/ Receive \/ StopWaiting \/ (lock = NoCall /\ Close)

-----------------------------------------------------------------------------
(* The server's end.  The upgrade task reads, pings and runs the handler,  *)
(* one of these at a time; taken is what the handler was given, and rx a   *)
(* task of the application that awaits out.closed().                       *)

\* From a task the handler has spawned, at any time, or from the handler.
ServerEnter(c) == (InPlace => rd = "handle") /\ Enter(c)

\* A frame that does not decode or validate; ws_close comes next.
ServerRejects ==
  /\ rd = "read" /\ CanRead /\ Head(wire) \in BadFrame
  /\ wire' = Tail(wire) /\ rd' = "fail"
  /\ UNCHANGED <<peer, unsent, conn, out, tableVars, callVars, hooks, lock, held, target, closing, mailVars>>

ServerReadEnds ==
  /\ rd = "read" /\ EndVisible /\ peer # "silent" /\ rd' = "closeAll"
  /\ UNCHANGED <<netVars, conn, out, tableVars, callVars, hooks, lock, held, target, closing, mailVars>>

\* A reply goes to its call, and any other frame to the handler.
ServerRoute ==
  /\ rd = "route" /\ held' = NoFrame
  /\ LET c == ResolvedBy(waiters, held) IN
       IF c = NoCall
         THEN rd' = "handle" /\ taken' = Append(taken, held) /\ UNCHANGED <<waiters, promise, reply>>
         ELSE /\ rd' = "read" /\ waiters' = Removed(waiters, IdOf[c])
              /\ IF Listens(c) THEN Answered(c, held) ELSE UNCHANGED <<promise, reply>>
              /\ UNCHANGED taken
  /\ UNCHANGED <<netVars, conn, out, over, pc, hooks, lock, target, closing, inbox, rx>>

\* The loop awaits the handler, and the handler the calls it makes in place.
HandlerReturns ==
  /\ rd = "handle" /\ (InPlace => \A c \in Call : pc[c] \in Done \cup {"idle"})
  /\ rd' \in {"read", "fail"}
  /\ UNCHANGED <<netVars, conn, out, tableVars, callVars, hooks, lock, held, target, closing, mailVars>>

\* ws_close, with 1007 or 1011.
ServerCloses ==
  /\ rd = "fail" /\ lock = NoCall
  /\ conn' = (IF conn = "open" THEN "closing" ELSE conn) /\ rd' = "closeAll"
  /\ UNCHANGED <<netVars, out, tableVars, callVars, hooks, lock, held, target, closing, mailVars>>

\* No pong since the last tick.  Ticks that fall while the handler runs come in
\* a burst after it, so this may also happen to a peer that is there.
ServerGivesUp ==
  /\ rd = "read" /\ rd' = "closeAll"
  /\ UNCHANGED <<netVars, conn, out, tableVars, callVars, hooks, lock, held, target, closing, mailVars>>

\* closed_tx.send, which the end of the read loop precedes.
ClosedTold ==
  /\ rx = "waiting" /\ rd = "dead" /\ rx' = "told"
  /\ UNCHANGED <<netVars, conn, out, tableVars, callVars, hooks, lock, readerVars, inbox, taken>>

ServerReadStep ==
  \/ ReadFrame \/ ServerRejects \/ ServerReadEnds \/ ServerRoute \/ HandlerReturns
  \/ ServerCloses \/ CloseAll

ServerAppStep ==
  \/ \E c \in Call : ServerEnter(c) \/ TimeOut(c) \/ DroppedBare(c) \/ DroppedWaiting(c)
  \/ Receive \/ StopWaiting \/ (lock = NoCall /\ Close)
=============================================================================

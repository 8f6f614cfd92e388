------------------------------ MODULE GoCalls ------------------------------
(***************************************************************************)
(* Correlated calls over one generated Go WebSocket connection: the Call   *)
(* method of either endpoint (internal/gengo/ws.go emits the same body for *)
(* the client's duplex handle and for the server's out), and what a read   *)
(* loop does to the calls through wsPending.  GoCallSocket and GoWSServer  *)
(* add the goroutines of the two endpoints.                                *)
(*                                                                         *)
(* A step is what a goroutine does between two points where another one    *)
(* can run: one critical section, one channel operation, one blocking      *)
(* operation of the connection.                                            *)
(***************************************************************************)
EXTENDS WSPending, Naturals, Sequences, FiniteSets

CONSTANTS
  HasCancel,     \* the schema declares a @ws_cancel variant for sent frames
  ReuseInFlight  \* the application may reuse an id that is still in flight

ASSUME CallsAssumption == HasCancel \in BOOLEAN /\ ReuseInFlight \in BOOLEAN

VARIABLES
  conn,      \* "open" or "closed", as the websocket library sees it
  out,       \* messages this end has written: <<call, "call" or "cancel">>
  waiters,   \* p.waiters
  pendErr,   \* p.err # nil
  pc,        \* where each Call invocation is
  ch,        \* the frame buffered in its reply channel, or NoFrame
  shut,      \* the calls whose reply channel is closed
  reply,     \* the frame the call returned, or NoFrame
  sender,    \* the call that holds the send mutex, or NoCall
  hand,      \* the frame the read loop is working on, or NoFrame
  target,    \* the call resolve has found for it, or NoCall
  closing    \* the calls whose channel closeAll has still to close

callsVars == <<conn, out, waiters, pendErr, pc, ch, shut, reply, sender, hand, target, closing>>

\* Terminal: the reply, refused by register, closed while waiting, send error,
\* context error.
Ended == {"replied", "refused", "failed", "unsent", "gaveUp"}
InFlight == {"send", "write", "unregister", "await", "drop"}
CallPC == {"idle", "register", "cancelSend", "cancelWrite"} \cup InFlight \cup Ended

CallsTypeOK ==
  /\ conn \in {"open", "closed"}
  /\ out \in Seq(Call \X {"call", "cancel"})
  /\ waiters \in Table
  /\ pendErr \in BOOLEAN
  /\ pc \in [Call -> CallPC]
  /\ ch \in [Call -> Frame \cup {NoFrame}]
  /\ shut \subseteq Call
  /\ reply \in [Call -> Frame \cup {NoFrame}]
  /\ sender \in Call \cup {NoCall}
  /\ hand \in Frame \cup {NoFrame}
  /\ target \in Call \cup {NoCall}
  /\ closing \subseteq Call

CallsInit ==
  /\ conn = "open" /\ out = <<>>
  /\ waiters = EmptyTable /\ pendErr = FALSE
  /\ pc = [c \in Call |-> "idle"]
  /\ ch = [c \in Call |-> NoFrame] /\ shut = {}
  /\ reply = [c \in Call |-> NoFrame] /\ sender = NoCall
  /\ hand = NoFrame /\ target = NoCall /\ closing = {}

-----------------------------------------------------------------------------
(* Call.                                                                   *)

Goto(c, where) == pc' = [pc EXCEPT ![c] = where]

\* The id must not be in flight in another call, unless ReuseInFlight.
MayUse(c) ==
  ReuseInFlight \/ \A d \in Call \ {c} : IdOf[d] = IdOf[c] => pc[d] \in Ended \cup {"idle"}

Enter(c) ==
  /\ pc[c] = "idle" /\ MayUse(c)
  /\ Goto(c, "register")
  /\ UNCHANGED <<conn, out, waiters, pendErr, ch, shut, reply, sender, hand, target, closing>>

\* register fails once closeAll has run.
Register(c) ==
  /\ pc[c] = "register"
  /\ \/ pendErr /\ Goto(c, "refused") /\ UNCHANGED waiters
     \/ ~pendErr /\ Goto(c, "send") /\ waiters' = Registered(waiters, c)
  /\ UNCHANGED <<conn, out, pendErr, ch, shut, reply, sender, hand, target, closing>>

\* Send fails before it takes the mutex: the frame is invalid or not encodable.
EncodeFails(c) ==
  /\ pc[c] = "send"
  /\ Goto(c, "unregister")
  /\ UNCHANGED <<conn, out, waiters, pendErr, ch, shut, reply, sender, hand, target, closing>>

\* mu.Lock() in Send, for the call's own frame or for its cancel frame.
LockSend(c) ==
  /\ pc[c] \in {"send", "cancelSend"} /\ sender = NoCall
  /\ sender' = c
  /\ Goto(c, IF pc[c] = "send" THEN "write" ELSE "cancelWrite")
  /\ UNCHANGED <<conn, out, waiters, pendErr, ch, shut, reply, hand, target, closing>>

\* The connection takes the whole message, and Send unlocks.
WriteOk(c) ==
  /\ pc[c] \in {"write", "cancelWrite"} /\ conn = "open"
  /\ out' = Append(out, <<c, IF pc[c] = "write" THEN "call" ELSE "cancel">>)
  /\ Goto(c, IF pc[c] = "write" THEN "await" ELSE "gaveUp")
  /\ sender' = NoCall
  /\ UNCHANGED <<conn, waiters, pendErr, ch, shut, reply, hand, target, closing>>

\* The write fails: the context ended before it began, or the connection broke
\* (a context that ends during a write breaks it).  The error of a cancel
\* frame, which is best effort, is dropped.
WriteFails(c) ==
  /\ pc[c] \in {"write", "cancelWrite"}
  /\ conn' \in {conn, "closed"}
  /\ Goto(c, IF pc[c] = "write" THEN "unregister" ELSE "gaveUp")
  /\ sender' = NoCall
  /\ UNCHANGED <<out, waiters, pendErr, ch, shut, reply, hand, target, closing>>

Bug_FailedSendCancels(c) ==
  /\ pc[c] = "unregister"
  /\ waiters' = Removed(waiters, IdOf[c])
  /\ Goto(c, "cancelSend")
  /\ UNCHANGED <<conn, out, pendErr, ch, shut, reply, sender, hand, target, closing>>

\* cancel(id) after a failed Send.
Unregister(c) ==
  /\ pc[c] = "unregister"
  /\ waiters' = Removed(waiters, IdOf[c])
  /\ Goto(c, "unsent")
  /\ UNCHANGED <<conn, out, pendErr, ch, shut, reply, sender, hand, target, closing>>

\* select, case result, ok := <-ch.
TakeReply(c) ==
  /\ pc[c] = "await" /\ ch[c] # NoFrame
  /\ reply' = [reply EXCEPT ![c] = ch[c]]
  /\ ch' = [ch EXCEPT ![c] = NoFrame]
  /\ Goto(c, "replied")
  /\ UNCHANGED <<conn, out, waiters, pendErr, shut, sender, hand, target, closing>>

SeeClosed(c) ==
  /\ pc[c] = "await" /\ ch[c] = NoFrame /\ c \in shut
  /\ Goto(c, "failed")
  /\ UNCHANGED <<conn, out, waiters, pendErr, ch, shut, reply, sender, hand, target, closing>>

\* select, case <-ctx.Done(): possible even when a reply is in the channel.
ContextDone(c) ==
  /\ pc[c] = "await"
  /\ Goto(c, "drop")
  /\ UNCHANGED <<conn, out, waiters, pendErr, ch, shut, reply, sender, hand, target, closing>>

Bug_AbandonKeepsWaiter(c) ==
  /\ pc[c] = "drop"
  /\ Goto(c, IF HasCancel THEN "cancelSend" ELSE "gaveUp")
  /\ UNCHANGED <<conn, out, waiters, pendErr, ch, shut, reply, sender, hand, target, closing>>

\* cancel(id), then the cancel frame if the schema has one.
Abandon(c) ==
  /\ pc[c] = "drop"
  /\ waiters' = Removed(waiters, IdOf[c])
  /\ Goto(c, IF HasCancel THEN "cancelSend" ELSE "gaveUp")
  /\ UNCHANGED <<conn, out, pendErr, ch, shut, reply, sender, hand, target, closing>>

\* What a Call goroutine does by itself, once entered.
CallStep(c) ==
  \/ Register(c) \/ EncodeFails(c) \/ LockSend(c) \/ WriteOk(c) \/ WriteFails(c)
  \/ Unregister(c) \/ TakeReply(c) \/ SeeClosed(c) \/ Abandon(c)

-----------------------------------------------------------------------------
(* What a read loop does to the calls.                                     *)

\* A frame is read and decoded.
Hold(f) ==
  /\ hand = NoFrame
  /\ hand' = f
  /\ UNCHANGED <<conn, out, waiters, pendErr, pc, ch, shut, reply, sender, target, closing>>

\* resolve, under the table's mutex.
Resolve ==
  /\ hand # NoFrame /\ target = NoCall
  /\ target' = ResolvedBy(waiters, hand)
  /\ waiters' = IF target' = NoCall THEN waiters ELSE Removed(waiters, FrameId[hand])
  /\ UNCHANGED <<conn, out, pendErr, pc, ch, shut, reply, sender, hand, closing>>

\* resolve, w.ch <- value, after the unlock: blocks while the channel is full.
Deliver ==
  /\ target # NoCall /\ ch[target] = NoFrame
  /\ ch' = [ch EXCEPT ![target] = hand]
  /\ hand' = NoFrame /\ target' = NoCall
  /\ UNCHANGED <<conn, out, waiters, pendErr, pc, shut, reply, sender, closing>>

\* The frame is nobody's reply and goes to the inbox or the handler.
LetGo ==
  /\ hand # NoFrame /\ target = NoCall
  /\ hand' = NoFrame
  /\ UNCHANGED <<conn, out, waiters, pendErr, pc, ch, shut, reply, sender, target, closing>>

\* closeAll, under the mutex: only the first one does anything.
CloseAll ==
  /\ pendErr' = TRUE
  /\ IF pendErr
       THEN UNCHANGED <<waiters, closing>>
       ELSE closing' = Waiting(waiters) /\ waiters' = EmptyTable
  /\ UNCHANGED <<conn, out, pc, ch, shut, reply, sender, hand, target>>

\* closeAll, after the unlock: the channels, in any order.
CloseChan(c) ==
  /\ c \in closing
  /\ shut' = shut \cup {c}
  /\ closing' = closing \ {c}
  /\ UNCHANGED <<conn, out, waiters, pendErr, pc, ch, reply, sender, hand, target>>

\* The connection ends at this side.
Disconnect ==
  /\ conn' = "closed"
  /\ UNCHANGED <<out, waiters, pendErr, pc, ch, shut, reply, sender, hand, target, closing>>

CallsNext ==
  \/ \E c \in Call : Enter(c) \/ CallStep(c) \/ ContextDone(c) \/ CloseChan(c)
  \/ \E f \in Frame : Hold(f)
  \/ Resolve \/ Deliver \/ LetGo \/ CloseAll \/ Disconnect

-----------------------------------------------------------------------------
(* Properties of the calls.                                                *)

Awaits(c) == pc[c] \in {"send", "write", "await"}

\* A registered call is never forgotten: until it gives up, it is in the table,
\* or resolve or closeAll holds it, or its channel has a value or is closed
\* (register, resolve, cancel and closeAll, from any number of goroutines).
NoCallForgotten ==
  \A c \in Call : Awaits(c) =>
    \/ waiters[IdOf[c]] = c
    \/ target = c
    \/ c \in closing \cup shut
    \/ ch[c] # NoFrame

\* A call is only handed a frame that carries its id and is not the variant it
\* sent itself (resolve, and the id collision the README describes).
RepliesMatch ==
  \A c \in Call :
    /\ ch[c] # NoFrame => Answers(ch[c], c)
    /\ reply[c] # NoFrame => Answers(reply[c], c)

\* The read loop never blocks on a reply channel (capacity 1), which would
\* stop every other call of the connection, and never sends on a closed one.
ReaderNeverBlocks == target # NoCall => ch[target] = NoFrame /\ target \notin shut

\* After closeAll the table stays empty, so nobody waits on a read loop that
\* has left (register checks p.err under the same mutex).
ClosedTableIsEmpty == pendErr => Waiting(waiters) = {}

Wrote(c, what) == {i \in DOMAIN out : out[i] = <<c, what>>}

\* The peer gets a cancel frame only for a call whose frame it got before, at
\* most one, and never for a call that returned a reply or failed.
CancelFollowsCall ==
  \A c \in Call : \A i \in Wrote(c, "cancel") :
    /\ pc[c] = "gaveUp"
    /\ Wrote(c, "cancel") = {i}
    /\ \E j \in Wrote(c, "call") : j < i

-----------------------------------------------------------------------------
(* What an application sees of the calls, for CorrelatedCalls: a call is   *)
(* pending from register until its goroutine leaves the select or its      *)
(* waiter is dropped, and its frame is decided when resolve finds it.      *)

absStatus == [c \in Call |->
  CASE pc[c] \in {"idle", "register"} -> "new"
    [] pc[c] \in InFlight -> "pending"
    [] pc[c] = "replied" -> "answered"
    [] pc[c] \in {"refused", "failed"} -> "failed"
    [] OTHER -> "abandoned"]

absAnswer == [c \in Call |->
  IF reply[c] # NoFrame THEN reply[c]
  ELSE IF ch[c] # NoFrame THEN ch[c]
  ELSE IF target = c THEN hand ELSE NoFrame]

Times(f, s) == Cardinality({i \in DOMAIN s : s[i] = f})
=============================================================================

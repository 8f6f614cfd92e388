---------------------------- MODULE GoCallSocket ----------------------------
(***************************************************************************)
(* The client end of a correlated WebSocket method in generated Go: the    *)
(* duplex handle internal/gengo/ws.go emits for a method with an @ws_id.   *)
(*                                                                         *)
(* Goroutines: one per Call invocation (GoCalls), one per application      *)
(* goroutine that calls Receive in a loop, the background reader           *)
(* ensureReader starts, and the keepalive.                                 *)
(***************************************************************************)
EXTENDS GoCalls

CONSTANTS
  Receiver,   \* application goroutines that call Receive
  BadFrame,   \* the messages feed or wsDecode rejects
  KeepAlive   \* pingInterval > 0

ASSUME SocketAssumption == BadFrame \subseteq Frame /\ KeepAlive \in BOOLEAN

VARIABLES
  peer,      \* "up", "gone" (it closed its end) or "silent" (network drop)
  unsent,    \* the frames the peer has not sent
  wire,      \* messages on their way to this end, in order
  rd,        \* where readLoop is
  inbox, inboxDone,
  signal,    \* inboxSignal holds its token
  rpc,       \* where each receiver is
  taken      \* the frames Receive has returned, in the order it popped them

netVars   == <<peer, unsent, wire>>
inboxVars == <<inbox, inboxDone, signal, rpc, taken>>
vars == <<callsVars, netVars, rd, inboxVars>>

ReaderPC == {"off", "read", "route", "deliver", "store", "signal",
             "closeAll", "closeChans", "lastSignal", "dead"}

TypeOK ==
  /\ CallsTypeOK
  /\ peer \in {"up", "gone", "silent"}
  /\ unsent \subseteq Frame
  /\ wire \in Seq(Frame)
  /\ rd \in ReaderPC
  /\ inbox \in Seq(Frame)
  /\ inboxDone \in BOOLEAN
  /\ signal \in BOOLEAN
  /\ rpc \in [Receiver -> {"idle", "check", "wait", "renotify"}]
  /\ taken \in Seq(Frame)

Init ==
  /\ CallsInit
  /\ peer = "up" /\ unsent = Frame /\ wire = <<>>
  /\ rd = "off"
  /\ inbox = <<>> /\ inboxDone = FALSE /\ signal = FALSE
  /\ rpc = [r \in Receiver |-> "idle"] /\ taken = <<>>

-----------------------------------------------------------------------------
(* The peer, the network, and the application's Close.                     *)

PeerSend(f) ==
  /\ peer = "up" /\ f \in unsent
  /\ unsent' = unsent \ {f}
  /\ wire' = Append(wire, f)
  /\ UNCHANGED <<callsVars, peer, rd, inboxVars>>

\* The peer ends the connection; what it sent before can still be read.
PeerClose ==
  /\ peer = "up"
  /\ peer' = "gone"
  /\ UNCHANGED <<callsVars, unsent, wire, rd, inboxVars>>

\* A hard network drop: nothing more arrives, and nobody says so.
NetworkDrop ==
  /\ peer = "up"
  /\ peer' = "silent" /\ wire' = <<>>
  /\ UNCHANGED <<callsVars, unsent, rd, inboxVars>>

\* Close() of the duplex handle.
Close ==
  /\ conn = "open" /\ Disconnect
  /\ UNCHANGED <<netVars, rd, inboxVars>>

Bug_PingIgnored == FALSE /\ UNCHANGED vars

\* wsKeepAlive: started with the reader and stopped when it returns; a ping
\* without a pong within the interval makes it call CloseNow.
PingFails ==
  /\ KeepAlive /\ rd \notin {"off", "dead"}
  /\ conn = "open" /\ Disconnect
  /\ UNCHANGED <<netVars, rd, inboxVars>>

-----------------------------------------------------------------------------
(* Call.  ensureReader: the first Call or Receive starts the reader.       *)

EnsureReader == rd' = IF rd = "off" THEN "read" ELSE rd

Start(c) ==
  /\ Enter(c) /\ EnsureReader
  /\ UNCHANGED <<netVars, inboxVars>>

InCall(c) == CallStep(c) /\ UNCHANGED <<netVars, rd, inboxVars>>

GiveUp(c) == ContextDone(c) /\ UNCHANGED <<netVars, rd, inboxVars>>

-----------------------------------------------------------------------------
(* readLoop.                                                               *)

\* A message is read.  A malformed one closes the connection.
ReadFrame ==
  /\ rd = "read" /\ wire # <<>>
  /\ wire' = Tail(wire)
  /\ \/ Head(wire) \in BadFrame /\ Disconnect /\ rd' = "closeAll"
     \/ Head(wire) \notin BadFrame /\ Hold(Head(wire)) /\ rd' = "route"
  /\ UNCHANGED <<peer, unsent, inboxVars>>

\* The read fails: the connection is closed at this end (what the wire still
\* holds may be lost), or the peer closed it and everything before is read.
ReadError ==
  /\ rd = "read"
  /\ conn = "closed" \/ (peer = "gone" /\ wire = <<>>)
  /\ Disconnect
  /\ rd' = "closeAll"
  /\ UNCHANGED <<netVars, inboxVars>>

Route ==
  /\ rd = "route" /\ Resolve
  /\ rd' = IF target' = NoCall THEN "store" ELSE "deliver"
  /\ UNCHANGED <<netVars, inboxVars>>

Bug_DeliverAndStore ==
  /\ rd = "deliver" /\ ch[target] = NoFrame
  /\ ch' = [ch EXCEPT ![target] = hand] /\ target' = NoCall
  /\ rd' = "store"
  /\ UNCHANGED <<conn, out, waiters, pendErr, pc, shut, reply, sender, hand, closing>>
  /\ UNCHANGED <<netVars, inboxVars>>

HandOver ==
  /\ rd = "deliver" /\ Deliver
  /\ rd' = "read"
  /\ UNCHANGED <<netVars, inboxVars>>

\* The frame is nobody's reply: append it to the inbox.
Store ==
  /\ rd = "store" /\ LetGo
  /\ inbox' = Append(inbox, hand)
  /\ rd' = "signal"
  /\ UNCHANGED <<netVars, inboxDone, signal, rpc, taken>>

\* notifyInbox: put the token unless it is there.
Notify ==
  /\ rd \in {"signal", "lastSignal"}
  /\ signal' = TRUE
  /\ rd' = IF rd = "signal" THEN "read" ELSE "dead"
  /\ UNCHANGED <<callsVars, netVars, inbox, inboxDone, rpc, taken>>

FailCalls ==
  /\ rd = "closeAll" /\ CloseAll
  /\ rd' = "closeChans"
  /\ UNCHANGED <<netVars, inboxVars>>

FailCall(c) ==
  /\ rd = "closeChans" /\ CloseChan(c)
  /\ UNCHANGED <<netVars, rd, inboxVars>>

\* finishInbox; its notifyInbox is the last Notify.
FinishInbox ==
  /\ rd = "closeChans" /\ closing = {}
  /\ inboxDone' = TRUE
  /\ rd' = "lastSignal"
  /\ UNCHANGED <<callsVars, netVars, inbox, signal, rpc, taken>>

ReaderStep ==
  \/ ReadFrame \/ ReadError \/ Route \/ HandOver \/ Store \/ Notify
  \/ FailCalls \/ (\E c \in Call : FailCall(c)) \/ FinishInbox

-----------------------------------------------------------------------------
(* Receive.                                                                *)

RecvStart(r) ==
  /\ rpc[r] = "idle"
  /\ rpc' = [rpc EXCEPT ![r] = "check"]
  /\ EnsureReader
  /\ UNCHANGED <<callsVars, netVars, inbox, inboxDone, signal, taken>>

Bug_MoreOnlyEnd(rest) == inboxDone

Bug_MoreOnlyFrames(rest) == rest # <<>>

\* Whether a receiver that popped a frame must wake the next one.
MoreToCome(rest) == rest # <<>> \/ inboxDone

\* Under inboxMu: pop a frame, report the end, or wait.
RecvCheck(r) ==
  /\ rpc[r] = "check"
  /\ \/ /\ inbox # <<>>
        /\ taken' = Append(taken, Head(inbox))
        /\ inbox' = Tail(inbox)
        /\ rpc' = [rpc EXCEPT ![r] = IF MoreToCome(Tail(inbox)) THEN "renotify" ELSE "idle"]
     \/ /\ inbox = <<>>
        /\ rpc' = [rpc EXCEPT ![r] = IF inboxDone THEN "renotify" ELSE "wait"]
        /\ UNCHANGED <<inbox, taken>>
  /\ UNCHANGED <<callsVars, netVars, rd, inboxDone, signal>>

\* notifyInbox before Receive returns the frame or the error.
RecvRenotify(r) ==
  /\ rpc[r] = "renotify"
  /\ signal' = TRUE
  /\ rpc' = [rpc EXCEPT ![r] = "idle"]
  /\ UNCHANGED <<callsVars, netVars, rd, inbox, inboxDone, taken>>

\* select, case <-d.inboxSignal.
RecvWake(r) ==
  /\ rpc[r] = "wait" /\ signal
  /\ signal' = FALSE
  /\ rpc' = [rpc EXCEPT ![r] = "check"]
  /\ UNCHANGED <<callsVars, netVars, rd, inbox, inboxDone, taken>>

\* select, case <-ctx.Done().
RecvGiveUp(r) ==
  /\ rpc[r] = "wait"
  /\ rpc' = [rpc EXCEPT ![r] = "idle"]
  /\ UNCHANGED <<callsVars, netVars, rd, inbox, inboxDone, signal, taken>>

-----------------------------------------------------------------------------
Next ==
  \/ \E f \in Frame : PeerSend(f)
  \/ PeerClose \/ NetworkDrop \/ Close \/ PingFails
  \/ \E c \in Call : Start(c) \/ InCall(c) \/ GiveUp(c)
  \/ ReaderStep
  \/ \E r \in Receiver : \/ RecvStart(r) \/ RecvCheck(r) \/ RecvRenotify(r)
                         \/ RecvWake(r) \/ RecvGiveUp(r)

Spec == Init /\ [][Next]_vars

\* The Go scheduler runs every goroutine that can run; a mutex and a channel
\* serve those that wait in turn (strong fairness where several compete); a
\* write ends, with or without an error; a silent peer misses its pong.  No
\* context has to end, and nobody has to start a call, send, or close.
Fairness ==
  /\ \A c \in Call : WF_vars(InCall(c)) /\ SF_vars(InCall(c) /\ LockSend(c))
  /\ WF_vars(ReaderStep)
  /\ WF_vars(peer = "silent" /\ PingFails)
  /\ \A r \in Receiver : /\ WF_vars(RecvCheck(r)) /\ WF_vars(RecvRenotify(r))
                         /\ SF_vars(RecvWake(r))

FairSpec == Spec /\ Fairness

-----------------------------------------------------------------------------
(* Properties.                                                             *)

\* No call waits on an open, empty channel once the reader has returned: what
\* closeAll's comment says, "fails every in-flight call" (ws.go:147).
DeadReaderLeavesNoCall ==
  rd = "dead" => \A c \in Call : pc[c] = "await" => c \in shut \/ ch[c] # NoFrame

\* In how many places a frame is.
Copies(f) ==
  Cardinality({c \in Call : ch[c] = f}) + Cardinality({c \in Call : reply[c] = f})
  + Times(f, wire) + Times(f, inbox) + Times(f, taken)
  + (IF hand = f THEN 1 ELSE 0) + (IF f \in unsent THEN 1 ELSE 0)

\* A frame is never delivered twice (to a call and to Receive, or to two of
\* either), and while the reader works and the network holds none is lost:
\* each is in exactly one place.
EachFrameOnce ==
  \A f \in Frame :
    /\ Copies(f) <= 1
    /\ rd \in {"off", "read", "route", "deliver", "store", "signal"} /\ peer # "silent"
         => Copies(f) = 1

\* Receive never sleeps through a frame or the end: while a receiver waits and
\* there is something to see, the token is there or a goroutine that will put
\* it or look at the inbox is on its way.
NoLostWakeup ==
  (inbox # <<>> \/ inboxDone) /\ (\E r \in Receiver : rpc[r] = "wait") =>
    \/ signal
    \/ rd \in {"signal", "lastSignal"}
    \/ \E r \in Receiver : rpc[r] \in {"check", "renotify"}

\* A silent peer is found out by the keepalive, and every call returns.
SilentPeerDetected ==
  \A c \in Call : (peer = "silent" /\ pc[c] = "await") ~> pc[c] \in Ended

\* Every goroutine blocked in Receive learns of the end, however many there
\* are, although the token is one.
ReceiversLearnOfEnd ==
  \A r \in Receiver : (inboxDone /\ rpc[r] = "wait") ~> rpc[r] # "wait"

-----------------------------------------------------------------------------
(* The promise this implements: the mailbox is the inbox, and a frame is   *)
(* assigned or posted when resolve decides.                                *)

\* Not yet routed: unsent, on the wire, or read and about to be looked up.
absFresh ==
  {f \in Frame : \/ f \in unsent \/ (rd = "route" /\ hand = f)
                 \/ \E i \in DOMAIN wire : wire[i] = f}

absMail == IF rd = "store" THEN Append(inbox, hand) ELSE inbox

Promise == INSTANCE CorrelatedCalls WITH
  status <- absStatus, answer <- absAnswer, fresh <- absFresh,
  mail <- absMail, received <- taken, closed <- pendErr

\* Every behaviour of the goroutines is one the promise allows.
KeepsPromise == Promise!FairSpec
=============================================================================

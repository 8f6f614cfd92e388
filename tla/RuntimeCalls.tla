---------------------------- MODULE RuntimeCalls ----------------------------
(***************************************************************************)
(* What the ends of a correlated WebSocket method have in common in the    *)
(* other generated runtimes: the connection and its peer, a table of       *)
(* in-flight calls like wsPending's (WSPending), a promise per call and a  *)
(* mailbox.  TSCallSocket, DartCallSocket, PyCallSocket and RustCallSocket *)
(* give the steps of each, on these variables.                             *)
(*                                                                         *)
(* A call's promise is the Promise, Completer, Future or oneshot channel   *)
(* its caller waits on.                                                    *)
(***************************************************************************)
EXTENDS WSPending, Naturals, Sequences, FiniteSets

CONSTANTS
  BadFrame,    \* the messages feed or decode rejects
  HasCancel,   \* the schema declares a @ws_cancel variant for sent frames
  ReuseHooked, \* an id may be used again while a call under it is in hooks
  Sentinel,    \* what the Python reader puts in the inbox last
  InPlace      \* a Rust server's handler awaits its calls itself, spawns none

ASSUME RuntimeAssumption ==
  /\ BadFrame \subseteq Frame /\ Sentinel \notin Frame
  /\ {HasCancel, ReuseHooked, InPlace} \subseteq BOOLEAN

VARIABLES
  peer,     \* "up", "gone" (it closed its end) or "silent" (network drop)
  unsent,   \* the frames the peer has not sent
  wire,     \* messages on their way to this end, in order
  conn,     \* "open", "closing" (closed by this end) or "closed"
  out,      \* messages this end has written: <<call, "call" or "cancel">>
  waiters,  \* the table of calls in flight
  over,     \* calls are refused: the table is closed
  pc,       \* where each call is
  promise,  \* of each call: "waiting", "value", "closed" or "error"
  reply,    \* the frame its promise holds, or NoFrame
  hooks,    \* calls with a cancellation still to run, by where it is
  lock,     \* the call that holds the send lock, or NoCall
  rd,       \* where the reader is
  held,     \* the frame it works on, or NoFrame
  target,   \* the call it has found for that frame, or NoCall
  closing,  \* calls it has still to fail
  inbox,    \* frames nobody has received
  rx,       \* the application's receiver: "idle", "waiting", "reput" or "told"
  taken     \* the frames it has received

netVars    == <<peer, unsent, wire>>
tableVars  == <<waiters, over>>
callVars   == <<pc, promise, reply>>
mailVars   == <<inbox, rx, taken>>
readerVars == <<rd, held, target, closing>>
vars == <<netVars, conn, out, tableVars, callVars, hooks, lock, readerVars, mailVars>>

Done == {"ended", "gaveUp"}
CallPC == {"idle", "register", "send", "write", "unregister", "await", "drop",
           "cancelSend", "cancelWrite"} \cup Done

TypeOK ==
  /\ peer \in {"up", "gone", "silent"} /\ unsent \subseteq Frame /\ wire \in Seq(Frame)
  /\ conn \in {"open", "closing", "closed"}
  /\ out \in Seq(Call \X {"call", "cancel"})
  /\ waiters \in Table /\ over \in BOOLEAN
  /\ pc \in [Call -> CallPC]
  /\ promise \in [Call -> {"waiting", "value", "closed", "error"}]
  /\ reply \in [Call -> Frame \cup {NoFrame}]
  /\ \A c \in Call : promise[c] = "value" <=> reply[c] # NoFrame
  /\ hooks \subseteq Call \X {"cancel", "send"}
  /\ lock \in Call \cup {NoCall}
  /\ rd \in {"read", "route", "deliver", "push", "handle", "fail", "failing",
             "closeAll", "abort", "close", "dead"}
  /\ held \in Frame \cup {NoFrame} /\ target \in Call \cup {NoCall} /\ closing \subseteq Call
  /\ inbox \in Seq(Frame \cup {Sentinel})
  /\ rx \in {"idle", "waiting", "reput", "told"} /\ taken \in Seq(Frame)

Init ==
  /\ peer = "up" /\ unsent = Frame /\ wire = <<>>
  /\ conn = "open" /\ out = <<>>
  /\ waiters = EmptyTable /\ over = FALSE
  /\ pc = [c \in Call |-> "idle"] /\ promise = [c \in Call |-> "waiting"]
  /\ reply = [c \in Call |-> NoFrame]
  /\ hooks = {} /\ lock = NoCall
  /\ rd = "read" /\ held = NoFrame /\ target = NoCall /\ closing = {}
  /\ inbox = <<>> /\ rx = "idle" /\ taken = <<>>

-----------------------------------------------------------------------------
(* The peer and the network.                                               *)

PeerSend(f) ==
  /\ peer = "up" /\ f \in unsent
  /\ unsent' = unsent \ {f} /\ wire' = Append(wire, f)
  /\ UNCHANGED <<peer, conn, out, tableVars, callVars, hooks, lock, readerVars, mailVars>>

\* The peer closes its end, or the connection breaks: loudly or not, with the
\* messages on their way lost or not.
PeerEnds ==
  /\ peer = "up"
  /\ \/ peer' = "gone" /\ UNCHANGED wire
     \/ peer' \in {"gone", "silent"} /\ wire' = <<>>
  /\ UNCHANGED <<unsent, conn, out, tableVars, callVars, hooks, lock, readerVars, mailVars>>

\* A message can be read; the end of the connection can be seen.
CanRead == conn # "closed" /\ wire # <<>>
EndVisible == conn # "open" \/ (peer = "gone" /\ wire = <<>>)

-----------------------------------------------------------------------------
(* What the runtimes do alike.                                             *)

\* The id must not be in flight in another call, nor named by a cancellation
\* that has still to run.
MayUse(c) ==
  \A d \in Call \ {c} : IdOf[d] = IdOf[c] =>
    /\ pc[d] \in Done \cup {"idle"}
    /\ ReuseHooked \/ \A at \in {"cancel", "send"} : <<d, at>> \notin hooks

Goto(c, where) == pc' = [pc EXCEPT ![c] = where]

Settled(calls, how) == [c \in Call |-> IF c \in calls THEN how ELSE promise[c]]

Answered(c, f) ==
  /\ promise' = [promise EXCEPT ![c] = "value"]
  /\ reply' = [reply EXCEPT ![c] = f]

\* A frame of this end reaches the connection unless it is closing.
Writes(c, what) == out' = IF conn = "open" THEN Append(out, <<c, what>>) ELSE out

CancelsPeer(c) == IF HasCancel THEN Writes(c, "cancel") ELSE UNCHANGED out

\* The caller goes on once its promise is settled.
Resume(c) ==
  /\ pc[c] = "await" /\ promise[c] # "waiting"
  /\ Goto(c, "ended")
  /\ UNCHANGED <<netVars, conn, out, tableVars, promise, reply, hooks, lock, readerVars, mailVars>>

\* The application closes the handle.
Close ==
  /\ conn = "open" /\ conn' = "closing"
  /\ UNCHANGED <<netVars, out, tableVars, callVars, hooks, lock, readerVars, mailVars>>

\* The websocket library pings: a peer that has gone silent is found.
LibraryPing ==
  /\ peer = "silent" /\ conn = "open" /\ conn' = "closing"
  /\ UNCHANGED <<netVars, out, tableVars, callVars, hooks, lock, readerVars, mailVars>>

\* The application takes the oldest frame of the inbox.
Take ==
  /\ inbox # <<>> /\ Head(inbox) # Sentinel
  /\ taken' = Append(taken, Head(inbox)) /\ inbox' = Tail(inbox) /\ rx' = "idle"

\* A receive that is given a timeout.
StopWaiting ==
  /\ rx = "waiting" /\ rx' = "idle"
  /\ UNCHANGED <<netVars, conn, out, tableVars, callVars, hooks, lock, readerVars, inbox, taken>>
=============================================================================

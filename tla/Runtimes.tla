------------------------------ MODULE Runtimes ------------------------------
(***************************************************************************)
(* The ends of the other runtimes side by side: a behaviour is one of a    *)
(* TypeScript, Dart, Python or Rust client or of a Rust server, which the  *)
(* initial state chooses, and all keep the promise the Go client keeps.    *)
(***************************************************************************)
EXTENDS RuntimeCalls

VARIABLES
  lang,  \* whose end this is
  pings  \* it finds out about a silent peer
endVars == <<lang, pings>>
allVars == <<vars, endVars>>

TS == INSTANCE TSCallSocket
Dart == INSTANCE DartCallSocket
Py == INSTANCE PyCallSocket
Rust == INSTANCE RustCallSocket

\* There are no pings in TypeScript, nor in Dart in a browser, where its
\* pingInterval is not used (onekit_ws_web.dart).  Others have theirs on.
Pings ==
  CASE lang = "TypeScript" -> {FALSE} [] lang = "Dart" -> BOOLEAN [] OTHER -> {TRUE}

RuntimesInit ==
  /\ Init /\ lang \in {"TypeScript", "Dart", "Python", "Rust", "Rust server"}
  /\ pings \in Pings

In(language, A) == lang = language /\ A /\ UNCHANGED endVars

Env == ((\E f \in Frame : PeerSend(f)) \/ PeerEnds) /\ UNCHANGED endVars

App ==
  \/ In("TypeScript", TS!AppStep) \/ In("Dart", Dart!AppStep)
  \/ In("Python", Py!AppStep) \/ In("Rust", Rust!AppStep)
  \/ In("Rust server", Rust!ServerAppStep)

Calling(c) ==
  \/ In("TypeScript", TS!CallStep(c)) \/ In("Dart", Dart!CallStep(c))
  \/ In("Python", Py!CallStep(c)) \/ In("Rust", Rust!CallStep(c))
  \/ In("Rust server", Rust!CallStep(c))

Reading ==
  \/ In("TypeScript", TS!ReaderStep) \/ In("Dart", Dart!ReaderStep)
  \/ In("Python", Py!ReaderStep) \/ In("Rust", Rust!ReaderStep)
  \/ In("Rust server", Rust!ServerReadStep)

Receiving ==
  \/ In("Python", Py!ReceiverStep) \/ In("Rust", Rust!ReceiverStep)
  \/ In("Rust server", Rust!ClosedTold)

\* The Rust pings may also give up a peer that is there: ticks that come late
\* come in a burst.
Pinging ==
  /\ pings
  /\ \/ In("Dart", LibraryPing) \/ In("Python", LibraryPing)
     \/ In("Rust", Rust!PingAborts) \/ In("Rust server", Rust!ServerGivesUp)

RuntimesNext == Env \/ App \/ (\E c \in Call : Calling(c)) \/ Reading \/ Receiving \/ Pinging

RuntimesSpec == RuntimesInit /\ [][RuntimesNext]_allVars

\* The scheduler or event loop runs what can run, a websocket library ends a
\* connection that one end has closed (after a timeout, if it must), a write
\* ends, a silent peer misses its pong, and a handler returns once its calls
\* have.  Nothing else has to happen: no peer sends or ends, no application
\* calls, receives, gives up or closes.  The pings of a Rust client end with the
\* first that fails, so nothing makes them go on when it has closed its end.
\* There are finitely many calls, so a lock all of them share is free again.
Fairness ==
  /\ \A c \in Call : WF_allVars(Calling(c))
  /\ WF_allVars(Reading) /\ WF_allVars(Receiving)
  /\ WF_allVars(peer = "silent" /\ (lang = "Rust" => conn = "open") /\ Pinging)

FairRuntimes == RuntimesSpec /\ Fairness

-----------------------------------------------------------------------------
(* Properties.                                                             *)

\* A call that waits is never forgotten: until its promise is settled it is in
\* the table, or the Python reader has it in hand (register, resolve, abandon
\* and close_all of each runtime).
NoCallForgotten ==
  \A c \in Call : pc[c] \in {"send", "write", "await"} /\ promise[c] = "waiting" =>
    waiters[IdOf[c]] = c \/ target = c \/ c \in closing

\* The peer, which knows a call by its id, gets at most one cancel frame for a
\* call, after the frame of that call, and not after that of another call
\* under the same id, which it would stop instead (README, "Cancelling").
CancelNamesItsCall ==
  \A i \in DOMAIN out : out[i][2] = "cancel" =>
    /\ \A j \in DOMAIN out : out[j] = out[i] => j = i
    /\ \E j \in 1..(i - 1) :
         /\ out[j] = <<out[i][1], "call">>
         /\ \A k \in (j + 1)..(i - 1) :
              out[k][2] = "call" => IdOf[out[k][1]] # IdOf[out[i][1]]

\* The connection is over, or will be found to be: without pings a client never
\* learns that its peer is silent.
Ending == over \/ conn # "open" \/ peer = "gone" \/ (peer = "silent" /\ pings)

\* A Rust client has closed its end, and its reader waits for a silent peer to
\* answer: its pings have ended (genrust/ws.go, "ping().await.is_err()"), and
\* the websocket library sets no time for the answer.
LeftWaiting == lang = "Rust" /\ rd = "read" /\ conn = "closing" /\ peer = "silent"

\* Every call on a connection that is gone ends (README, "A call on a
\* connection that is gone ... fails immediately"), but for LeftWaiting.
CallsEnd ==
  \A c \in Call :
    (Ending /\ pc[c] \notin Done \cup {"idle"}) ~> (pc[c] \in Done \/ LeftWaiting)

\* A receive that waits on a connection that is gone is told, but for LeftWaiting.
ReceiverTold == (Ending /\ rx = "waiting") ~> (rx # "waiting" \/ LeftWaiting)

-----------------------------------------------------------------------------
(* The promise of CorrelatedCalls.                                         *)

\* The callers that have gone.  The Rust one drops the receiver of its reply
\* before it abandons the call.
Left == {"cancelSend", "cancelWrite", "gaveUp"}
          \cup (IF lang \in {"Rust", "Rust server"} THEN {"drop"} ELSE {})

absStatus == [c \in Call |->
  CASE pc[c] \in {"idle", "register"} -> "new"
    [] pc[c] = "ended" /\ promise[c] = "value" -> "answered"
    [] pc[c] = "ended" /\ promise[c] = "closed" -> "failed"
    [] promise[c] = "error" \/ pc[c] \in Left -> "abandoned"
    [] OTHER -> "pending"]

absAnswer == [c \in Call |-> IF target = c THEN held ELSE reply[c]]

absFresh ==
  {f \in Frame : \/ f \in unsent \/ (rd = "route" /\ held = f)
                 \/ \E i \in DOMAIN wire : wire[i] = f}

\* Nothing follows the sentinel.
absMail ==
  LET last == Len(inbox)
      frames == IF last > 0 /\ inbox[last] = Sentinel THEN SubSeq(inbox, 1, last - 1) ELSE inbox
  IN  IF rd = "push" THEN Append(frames, held) ELSE frames

\* A socket that is not open refuses calls in TypeScript; the others find out
\* when their reader ends.
absClosed == IF lang = "TypeScript" THEN conn # "open" ELSE over

Promise == INSTANCE CorrelatedCalls WITH
  status <- absStatus, answer <- absAnswer, fresh <- absFresh,
  mail <- absMail, received <- taken, closed <- absClosed

\* Each runtime's client, and the Rust server towards its handler, implements
\* the promise of CorrelatedCalls.
KeepsPromise == Promise!Spec
=============================================================================

---------------------------- MODULE Runtimes_proofs ----------------------------
(***************************************************************************)
(* Theorems about the ends of the TypeScript, Dart, Python and Rust        *)
(* runtimes, for any calls, ids and frames: what every step of each keeps  *)
(* true of the table, the promises and the messages written.               *)
(***************************************************************************)
EXTENDS Runtimes, TLAPS

InRust == lang \in {"Rust", "Rust server"}

\* Calls that are not under way.
Idle == Done \cup {"idle"}

\* Calls that may be in the table: a Rust future that is dropped where it has
\* no guard leaves its entry behind (DroppedBare).
MayWait ==
  {"send", "write", "unregister", "await", "drop"} \cup (IF InRust THEN {"gaveUp"} ELSE {})

\* A call has its promise from the start, and ends with it settled.
PromiseInv ==
  \A c \in Call :
    /\ pc[c] \in {"idle", "register"} => promise[c] = "waiting"
    /\ pc[c] = "ended" => promise[c] # "waiting"

\* An entry is under its own id, and its call has no result.
TableInv ==
  \A c \in Call, i \in Id : waiters[i] = c =>
    IdOf[c] = i /\ promise[c] = "waiting" /\ pc[c] \in MayWait

\* Calls the reader has taken out of the table and not settled: only the
\* Python one does this in two steps.
HandInv ==
  \A c \in Call : target = c \/ c \in closing =>
    /\ lang = "Python"
    /\ promise[c] = "waiting" /\ waiters[IdOf[c]] # c /\ pc[c] \notin {"idle", "register"}

\* No other call is under way under the id of c.
Alone(c) == \A d \in Call : d # c /\ IdOf[d] = IdOf[c] => pc[d] \in Idle

\* No cancellation is to come that names the id of c and is not its own.
Unhooked(c) ==
  \A d \in Call, at \in {"cancel", "send"} : <<d, at>> \in hooks /\ d # c => IdOf[d] # IdOf[c]

\* An id is in use once at a time, the cancellations to come included.
UniqueInv ==
  /\ \A c, d \in Call : c # d /\ IdOf[c] = IdOf[d] => pc[c] \in Idle \/ pc[d] \in Idle
  /\ \A c, d \in Call, at \in {"cancel", "send"} :
       <<d, at>> \in hooks /\ c # d /\ IdOf[c] = IdOf[d] => pc[c] \in Idle

\* Who has a cancellation to come.
HookOK(c) ==
  /\ <<c, "cancel">> \in hooks =>
       /\ lang = "Dart" \/ InRust
       /\ pc[c] \in (IF InRust THEN {"gaveUp"} ELSE {"await", "ended"})
       /\ <<c, "send">> \notin hooks
  /\ <<c, "send">> \in hooks => InRust /\ pc[c] = "gaveUp"

HookInv == \A c \in Call : HookOK(c)

\* A call without a result is in the table, or in the reader's hands.
WaitingInv ==
  \A c \in Call :
    /\ promise[c] = "waiting"
    /\ pc[c] \in {"send", "write", "unregister", "await"} \/ (pc[c] = "drop" /\ ~InRust)
    => waiters[IdOf[c]] = c \/ target = c \/ c \in closing

\* The types of what concerns the calls, and those of the rest.
CallsTyped ==
  /\ waiters \in Table /\ hooks \subseteq Call \X {"cancel", "send"}
  /\ pc \in [Call -> CallPC]
  /\ promise \in [Call -> {"waiting", "value", "closed", "error"}]
  /\ reply \in [Call -> Frame \cup {NoFrame}]
  /\ \A c \in Call : promise[c] = "value" <=> reply[c] # NoFrame
  /\ target \in Call \cup {NoCall} /\ closing \subseteq Call

RestTyped ==
  /\ peer \in {"up", "gone", "silent"} /\ unsent \subseteq Frame /\ wire \in Seq(Frame)
  /\ conn \in {"open", "closing", "closed"}
  /\ out \in Seq(Call \X {"call", "cancel"})
  /\ over \in BOOLEAN /\ lock \in Call \cup {NoCall}
  /\ inbox \in Seq(Frame \cup {Sentinel})
  /\ rx \in {"idle", "waiting", "reput", "told"} /\ taken \in Seq(Frame)

CallsInv ==
  CallsTyped /\ PromiseInv /\ TableInv /\ HandInv /\ UniqueInv /\ HookInv /\ WaitingInv

\* Where the reader is, and what it has in hand there.
ReaderInv ==
  /\ held \in Frame \cup {NoFrame}
  /\ rd \in {"route", "deliver", "push"} => held \in Frame
  /\ target # NoCall <=> rd = "deliver"
  /\ closing # {} => rd = "failing"
  /\ rd \in CASE lang \in {"TypeScript", "Dart"} -> {"read"}
              [] lang = "Python" -> {"read", "route", "deliver", "push", "fail", "failing", "dead"}
              [] OTHER -> {"read", "route", "handle", "fail", "closeAll", "abort", "close", "dead"}

Languages == {"TypeScript", "Dart", "Python", "Rust", "Rust server"}

IInv == lang \in Languages /\ CallsInv /\ ReaderInv /\ RestTyped

-----------------------------------------------------------------------------
\* The last call this end has written under the id of c is c, and it has
\* written no cancel frame for it.
Named(c) ==
  /\ \E j \in DOMAIN out :
       /\ out[j] = <<c, "call">>
       /\ \A k \in DOMAIN out : k > j /\ out[k][2] = "call" => IdOf[out[k][1]] # IdOf[c]
  /\ \A j \in DOMAIN out : out[j] # <<c, "cancel">>

\* The calls a cancel frame may yet be written for.
MayCancel(c) ==
  IF lang \in {"TypeScript", "Dart"}
    THEN waiters[IdOf[c]] = c /\ conn = "open"
    ELSE \/ pc[c] \in {"await", "drop", "cancelSend", "cancelWrite"}
         \/ <<c, "cancel">> \in hooks \/ <<c, "send">> \in hooks

\* Calls that have written nothing yet.
Early == {"idle", "register", "send", "write"}

CancelInv ==
  /\ CancelNamesItsCall
  /\ \A c \in Call : MayCancel(c) => Named(c)
  /\ \A c \in Call : pc[c] \in Early => \A j \in DOMAIN out : out[j][1] # c

-----------------------------------------------------------------------------
\* Calls are refused, as CorrelatedCalls sees it.
ClosedInv ==
  /\ lang \in {"Python", "Rust", "Rust server"} => (over <=> rd \in {"failing", "close", "dead"})
  /\ lang = "TypeScript" /\ over => conn # "open"
  /\ \A c \in Call : promise[c] = "closed" => absClosed \/ pc[c] = "gaveUp"

\* A frame is in one place at most before it is routed.
FreshInv ==
  /\ \A i \in DOMAIN wire : wire[i] \notin unsent
  /\ \A i, j \in DOMAIN wire : wire[i] = wire[j] => i = j
  /\ rd = "route" => held \notin unsent /\ \A i \in DOMAIN wire : wire[i] # held

\* The Python sentinel is the last thing in the inbox, and its receiver has it
\* in hand at times.  A receiver that a frame may be handed to waits on an
\* empty inbox.
InboxInv ==
  /\ \A i \in DOMAIN inbox : inbox[i] = Sentinel =>
       i = Len(inbox) /\ lang = "Python" /\ rd = "dead" /\ rx # "reput"
  /\ rx = "reput" => lang = "Python" /\ rd = "dead"
  /\ lang \in {"TypeScript", "Dart"} /\ rx = "waiting" => inbox = <<>>
  /\ lang = "Rust server" => inbox = <<>>

PromiseKept == ClosedInv /\ FreshInv /\ InboxInv

-----------------------------------------------------------------------------
\* What the proofs need of the assumptions on the constants.
LEMMA Ids ==
  NoCall \notin Call /\ NoFrame \notin Frame /\ Sentinel \notin Frame /\ IdOf \in [Call -> Id]
  BY PendingAssumption, RuntimeAssumption DEF PendingAssumption, RuntimeAssumption

\* Every end starts with an empty table and no call under way.
LEMMA InitIInv == RuntimesInit => IInv
<1> SUFFICES ASSUME RuntimesInit PROVE IInv
  OBVIOUS
<1> USE DEF RuntimesInit, Init
<1>1. CallsTyped
  BY Ids DEF CallsTyped, CallPC, Done, EmptyTable, Table
<1>2. wire = <<>> /\ out = <<>> /\ inbox = <<>> /\ taken = <<>>
  OBVIOUS
<1>3. RestTyped
  <2> HIDE DEF RuntimesInit
  <2>1. out \in Seq(Call \X {"call", "cancel"})
    BY <1>2
  <2>2. wire \in Seq(Frame) /\ inbox \in Seq(Frame \cup {Sentinel}) /\ taken \in Seq(Frame)
    BY <1>2
  <2> QED
    BY <2>1, <2>2 DEF RestTyped, RuntimesInit
<1>4. PromiseInv /\ TableInv
  BY Ids DEF PromiseInv, TableInv, EmptyTable
<1>5. HandInv /\ UniqueInv /\ HookInv /\ WaitingInv
  BY Ids DEF HandInv, UniqueInv, HookInv, HookOK, WaitingInv, Idle, EmptyTable
<1>6. ReaderInv
  BY Ids DEF ReaderInv
<1> QED
  BY <1>1, <1>3, <1>4, <1>5, <1>6 DEF IInv, CallsInv, Languages

\* A step of the peer, the reader or the application that no call notices.
LEMMA NothingMoves ==
  ASSUME IInv, UNCHANGED lang, UNCHANGED <<waiters, callVars, hooks, target, closing>>
  PROVE  CallsInv'
<1> USE DEF IInv, CallsInv
<1>0. MayWait' = MayWait
  BY DEF MayWait, InRust
<1>1. CallsTyped'
  BY Ids DEF CallsTyped, CallPC, Done, Table, callVars
<1>2. PromiseInv'
  BY Ids DEF CallsTyped, PromiseInv, callVars
<1>3. TableInv'
  BY Ids, <1>0 DEF CallsTyped, Table, TableInv, callVars
<1>4. HandInv'
  BY Ids DEF CallsTyped, Table, HandInv, callVars
<1>5. UniqueInv'
  BY Ids DEF CallsTyped, UniqueInv, Idle, Done, callVars
<1>6. HookInv'
  BY Ids DEF CallsTyped, HookInv, HookOK, InRust, callVars
<1>7. WaitingInv'
  BY Ids DEF CallsTyped, WaitingInv, InRust, callVars
<1> QED
  BY <1>1, <1>2, <1>3, <1>4, <1>5, <1>6, <1>7

\* A call goes on, with its entry and its promise as they are.
LEMMA CallMoves ==
  ASSUME IInv, UNCHANGED lang, NEW c \in Call, NEW w \in {"write", "unregister", "await", "drop", "cancelWrite", "gaveUp"},
         lang \notin {"TypeScript", "Dart"}, pc[c] \notin Idle, pc[c] = "register" => w = "gaveUp",
         waiters[IdOf[c]] = c => w \in MayWait,
         w \in {"write", "unregister", "await"} => pc[c] \in {"send", "write"},
         w = "drop" => pc[c] = "await",
         Goto(c, w), UNCHANGED <<waiters, promise, reply, hooks, target, closing>>
  PROVE  CallsInv'
<1> USE DEF IInv, CallsInv
<1>0. MayWait' = MayWait
  BY DEF MayWait, InRust
<1>1. CallsTyped'
  BY Ids DEF CallsTyped, CallPC, Done, Table, Goto
<1>2. PromiseInv'
  BY Ids DEF CallsTyped, PromiseInv, Goto
<1>3. TableInv'
  BY Ids, <1>0 DEF CallsTyped, Table, TableInv, MayWait, Goto
<1>4. HandInv'
  BY Ids DEF CallsTyped, Table, HandInv, Goto
<1>5. UniqueInv'
  BY Ids DEF CallsTyped, UniqueInv, Idle, Done, Goto
<1>6. HookInv'
  BY Ids DEF CallsTyped, HookInv, HookOK, InRust, Idle, Done, Goto
<1>7. WaitingInv'
  BY Ids DEF CallsTyped, WaitingInv, InRust, Goto
<1> QED
  BY <1>1, <1>2, <1>3, <1>4, <1>5, <1>6, <1>7

\* A call is made; its entry is not there yet.
LEMMA CallEnters ==
  ASSUME IInv, UNCHANGED lang, NEW c \in Call, Alone(c), Unhooked(c),
         pc[c] = "idle", Goto(c, "register"),
         UNCHANGED <<waiters, promise, reply, hooks, target, closing>>
  PROVE  CallsInv'
<1> USE DEF IInv, CallsInv
<1>0. MayWait' = MayWait
  BY DEF MayWait, InRust
<1>1. CallsTyped'
  BY Ids DEF CallsTyped, CallPC, Done, Table, Goto
<1>2. PromiseInv'
  BY Ids DEF CallsTyped, PromiseInv, Goto
<1>3. TableInv'
  BY Ids, <1>0 DEF CallsTyped, Table, TableInv, MayWait, Goto
<1>4. HandInv'
  BY Ids DEF CallsTyped, Table, HandInv, Goto
<1>5. UniqueInv'
  BY Ids DEF CallsTyped, UniqueInv, Idle, Done, Alone, Unhooked, Goto
<1>6. HookInv'
  BY Ids DEF CallsTyped, HookInv, HookOK, InRust, Goto
<1>7. WaitingInv'
  BY Ids DEF CallsTyped, WaitingInv, InRust, Goto
<1> QED
  BY <1>1, <1>2, <1>3, <1>4, <1>5, <1>6, <1>7

\* A call finds the table closed.
LEMMA CallIsRefused ==
  ASSUME IInv, UNCHANGED lang, NEW c \in Call, pc[c] \in {"idle", "register"},
         promise' = Settled({c}, "closed"), Goto(c, "ended"),
         UNCHANGED <<waiters, reply, hooks, target, closing>>
  PROVE  CallsInv'
<1> USE DEF IInv, CallsInv
<1>0. MayWait' = MayWait
  BY DEF MayWait, InRust
<1>1. CallsTyped'
  BY Ids DEF CallsTyped, CallPC, Done, Table, PromiseInv, Goto, Settled
<1>2. PromiseInv'
  BY Ids DEF CallsTyped, PromiseInv, Goto, Settled
<1>3. TableInv'
  BY Ids, <1>0 DEF CallsTyped, Table, TableInv, MayWait, Goto, Settled
<1>4. HandInv'
  BY Ids DEF CallsTyped, Table, HandInv, Goto, Settled
<1>5. UniqueInv'
  BY Ids DEF CallsTyped, UniqueInv, Idle, Done, Goto, Settled
<1>6. HookInv'
  BY Ids DEF CallsTyped, HookInv, HookOK, InRust, Idle, Done, Goto, Settled
<1>7. WaitingInv'
  BY Ids DEF CallsTyped, WaitingInv, InRust, Goto, Settled
<1> QED
  BY <1>1, <1>2, <1>3, <1>4, <1>5, <1>6, <1>7

\* A call gets its entry, and a Dart call perhaps its cancel future.
LEMMA CallRegisters ==
  ASSUME IInv, UNCHANGED lang, NEW c \in Call, NEW w \in {"send", "await"}, Alone(c), Unhooked(c),
         pc[c] \in {"idle", "register"}, Goto(c, w), waiters' = Registered(waiters, c),
         \/ UNCHANGED hooks
         \/ hooks' = hooks \cup {<<c, "cancel">>} /\ lang = "Dart" /\ w = "await",
         UNCHANGED <<promise, reply, target, closing>>
  PROVE  CallsInv'
<1> USE DEF IInv, CallsInv
<1>0. MayWait' = MayWait
  BY DEF MayWait, InRust
<1>1. CallsTyped'
  <2>1. hooks' \subseteq Call \X {"cancel", "send"}
    BY DEF CallsTyped
  <2> QED
    BY <2>1, Ids DEF CallsTyped, CallPC, Done, Table, Goto, Registered
<1>2. PromiseInv'
  BY Ids DEF CallsTyped, PromiseInv, Goto, Registered
<1>3. TableInv'
  BY Ids, <1>0 DEF CallsTyped, Table, TableInv, MayWait, PromiseInv, Goto, Registered
<1>4. HandInv'
  BY Ids DEF CallsTyped, Table, HandInv, Goto, Registered
<1>5. UniqueInv'
  BY Ids DEF CallsTyped, UniqueInv, Idle, Done, Alone, Unhooked, Goto, Registered
<1>6. HookInv'
  <2>1. hooks' \subseteq hooks \cup {<<c, "cancel">>} /\ (hooks' # hooks =>
          lang = "Dart" /\ w = "await")
    OBVIOUS
  <2>2. <<c, "cancel">> \notin hooks /\ <<c, "send">> \notin hooks
    BY DEF HookInv, HookOK, Idle, Done, InRust
  <2> SUFFICES ASSUME NEW d \in Call PROVE HookOK(d)'
    BY DEF HookInv
  <2>3. CASE d = c
    BY <2>1, <2>2, <2>3 DEF CallsTyped, HookOK, InRust, Goto
  <2>4. CASE d # c
    BY <2>1, <2>4 DEF CallsTyped, HookInv, HookOK, InRust, Goto
  <2> QED
    BY <2>3, <2>4
<1>7. WaitingInv'
  BY Ids DEF CallsTyped, WaitingInv, InRust, Table, Alone, Idle, Done, Goto, Registered
<1> QED
  BY <1>1, <1>2, <1>3, <1>4, <1>5, <1>6, <1>7

\* A call removes what is under its id, and gives up.
LEMMA CallRemovesEntry ==
  ASSUME IInv, UNCHANGED lang, NEW c \in Call, NEW w \in {"gaveUp", "cancelSend"}, Alone(c),
         lang \notin {"TypeScript", "Dart"}, pc[c] \notin Idle \cup {"register"},
         Goto(c, w), waiters' = Removed(waiters, IdOf[c]),
         UNCHANGED <<promise, reply, hooks, target, closing>>
  PROVE  CallsInv'
<1> USE DEF IInv, CallsInv
<1>0. MayWait' = MayWait
  BY DEF MayWait, InRust
<1>1. CallsTyped'
  BY Ids DEF CallsTyped, CallPC, Done, Table, Goto, Removed
<1>2. PromiseInv'
  BY Ids DEF CallsTyped, PromiseInv, Goto, Removed
<1>3. TableInv'
  BY Ids, <1>0 DEF CallsTyped, Table, TableInv, MayWait, Goto, Removed
<1>4. HandInv'
  BY Ids DEF CallsTyped, Table, HandInv, Goto, Removed
<1>5. UniqueInv'
  BY Ids DEF CallsTyped, UniqueInv, Idle, Done, Goto, Removed
<1>6. HookInv'
  BY Ids DEF CallsTyped, HookInv, HookOK, InRust, Idle, Done, Goto, Removed
<1>7. WaitingInv'
  BY Ids DEF CallsTyped, WaitingInv, InRust, Table, Alone, Idle, Done, Goto, Removed
<1> QED
  BY <1>1, <1>2, <1>3, <1>4, <1>5, <1>6, <1>7

\* A call whose frame cannot be sent, in TypeScript or Dart.
LEMMA CallThrows ==
  ASSUME IInv, UNCHANGED lang, NEW c \in Call, Alone(c), Unhooked(c),
         pc[c] = "idle", Goto(c, "await"),
         waiters' = Removed(waiters, IdOf[c]), promise' = Settled({c}, "error"),
         UNCHANGED <<reply, hooks, target, closing>>
  PROVE  CallsInv'
<1> USE DEF IInv, CallsInv
<1>0. MayWait' = MayWait
  BY DEF MayWait, InRust
<1>1. CallsTyped'
  BY Ids DEF CallsTyped, CallPC, Done, Table, PromiseInv, Goto, Removed, Settled
<1>2. PromiseInv'
  BY Ids DEF CallsTyped, PromiseInv, Goto, Removed, Settled
<1>3. TableInv'
  BY Ids, <1>0 DEF CallsTyped, Table, TableInv, MayWait, Goto, Removed, Settled
<1>4. HandInv'
  BY Ids DEF CallsTyped, Table, HandInv, Goto, Removed, Settled
<1>5. UniqueInv'
  BY Ids DEF CallsTyped, UniqueInv, Idle, Done, Alone, Unhooked, Goto, Removed, Settled
<1>6. HookInv'
  BY Ids DEF CallsTyped, HookInv, HookOK, InRust, Idle, Done, Goto, Removed, Settled
<1>7. WaitingInv'
  BY Ids DEF CallsTyped, WaitingInv, InRust, Table, Alone, Idle, Done, Goto, Removed,
     Settled
<1> QED
  BY <1>1, <1>2, <1>3, <1>4, <1>5, <1>6, <1>7

\* A timer or an abort signal ends a call that waits, in TypeScript or Dart.
LEMMA CallIsAbandoned ==
  ASSUME IInv, UNCHANGED lang, NEW c \in Call, waiters[IdOf[c]] = c, Alone(c),
         hooks' \subseteq hooks,
         waiters' = Removed(waiters, IdOf[c]), promise' = Settled({c}, "error"),
         UNCHANGED <<pc, reply, target, closing>>
  PROVE  CallsInv'
<1> USE DEF IInv, CallsInv
<1>0. MayWait' = MayWait
  BY DEF MayWait, InRust
<1>1. CallsTyped'
  BY Ids DEF CallsTyped, CallPC, Done, Table, TableInv, Removed, Settled
<1>2. PromiseInv'
  BY Ids DEF CallsTyped, PromiseInv, TableInv, MayWait, Removed, Settled
<1>3. TableInv'
  BY Ids, <1>0 DEF CallsTyped, Table, TableInv, Removed, Settled
<1>4. HandInv'
  BY Ids DEF CallsTyped, Table, HandInv, Removed, Settled
<1>5. UniqueInv'
  BY Ids DEF CallsTyped, UniqueInv, Idle, Done, Removed, Settled
<1>6. HookInv'
  BY Ids DEF CallsTyped, HookInv, HookOK, InRust, Removed, Settled
<1>7. WaitingInv'
  BY Ids DEF CallsTyped, WaitingInv, InRust, Table, Alone, Idle, Done, Removed, Settled
<1> QED
  BY <1>1, <1>2, <1>3, <1>4, <1>5, <1>6, <1>7

\* A caller goes on with the result of its call.
LEMMA CallResumes ==
  ASSUME IInv, UNCHANGED lang, NEW c \in Call, pc[c] = "await", promise[c] # "waiting", Goto(c, "ended"),
         UNCHANGED <<waiters, promise, reply, hooks, target, closing>>
  PROVE  CallsInv'
<1> USE DEF IInv, CallsInv
<1>0. MayWait' = MayWait
  BY DEF MayWait, InRust
<1>1. CallsTyped'
  BY Ids DEF CallsTyped, CallPC, Done, Table, Goto
<1>2. PromiseInv'
  BY Ids DEF CallsTyped, PromiseInv, Goto
<1>3. TableInv'
  BY Ids, <1>0 DEF CallsTyped, Table, TableInv, MayWait, Goto
<1>4. HandInv'
  BY Ids DEF CallsTyped, Table, HandInv, Goto
<1>5. UniqueInv'
  BY Ids DEF CallsTyped, UniqueInv, Idle, Done, Goto
<1>6. HookInv'
  BY Ids DEF CallsTyped, HookInv, HookOK, InRust, Idle, Done, Goto
<1>7. WaitingInv'
  BY Ids DEF CallsTyped, WaitingInv, InRust, Goto
<1> QED
  BY <1>1, <1>2, <1>3, <1>4, <1>5, <1>6, <1>7

\* A reply settles the promise of the call it is for.
LEMMA CallIsAnswered ==
  ASSUME IInv, UNCHANGED lang, NEW c \in Call, NEW f \in Frame, waiters[IdOf[c]] = c,
         waiters' = Removed(waiters, IdOf[c]), Answered(c, f),
         UNCHANGED <<pc, hooks, target, closing>>
  PROVE  CallsInv'
<1> USE DEF IInv, CallsInv
<1>0. MayWait' = MayWait
  BY DEF MayWait, InRust
<1>1. CallsTyped'
  BY Ids DEF CallsTyped, CallPC, Done, Table, TableInv, Removed, Answered
<1>2. PromiseInv'
  BY Ids DEF CallsTyped, PromiseInv, TableInv, MayWait, Removed, Answered
<1>3. TableInv'
  BY Ids, <1>0 DEF CallsTyped, Table, TableInv, Removed, Answered
<1>4. HandInv'
  BY Ids DEF CallsTyped, Table, HandInv, Removed, Answered
<1>5. UniqueInv'
  BY Ids DEF CallsTyped, UniqueInv, Idle, Done, Removed, Answered
<1>6. HookInv'
  BY Ids DEF CallsTyped, HookInv, HookOK, InRust, Removed, Answered
<1>7. WaitingInv'
  <2> SUFFICES ASSUME NEW d \in Call, promise'[d] = "waiting",
                      \/ pc[d] \in {"send", "write", "unregister", "await"}
                      \/ pc[d] = "drop" /\ ~InRust
               PROVE  waiters'[IdOf[d]] = d \/ target = d \/ d \in closing
    BY DEF WaitingInv, InRust
  <2>1. d # c /\ promise[d] = "waiting"
    BY DEF CallsTyped, Answered
  <2>2. waiters[IdOf[d]] = d \/ target = d \/ d \in closing
    BY <2>1 DEF WaitingInv
  <2>3. waiters[IdOf[d]] = d => waiters'[IdOf[d]] = d
    BY <2>1, Ids DEF CallsTyped, Table, Removed
  <2> QED
    BY <2>2, <2>3
<1> QED
  BY <1>1, <1>2, <1>3, <1>4, <1>5, <1>6, <1>7

\* The reply of a Rust call whose future has gone is dropped with its entry.
LEMMA ReplyIsDropped ==
  ASSUME IInv, UNCHANGED lang, NEW c \in Call, waiters[IdOf[c]] = c, InRust, pc[c] \notin {"send", "write", "unregister", "await"},
         waiters' = Removed(waiters, IdOf[c]),
         UNCHANGED <<pc, promise, reply, hooks, target, closing>>
  PROVE  CallsInv'
<1> USE DEF IInv, CallsInv
<1>0. MayWait' = MayWait
  BY DEF MayWait, InRust
<1>1. CallsTyped'
  BY Ids DEF CallsTyped, CallPC, Done, Table, Removed
<1>2. PromiseInv'
  BY Ids DEF CallsTyped, PromiseInv, Removed
<1>3. TableInv'
  BY Ids, <1>0 DEF CallsTyped, Table, TableInv, Removed
<1>4. HandInv'
  BY Ids DEF CallsTyped, Table, HandInv, Removed
<1>5. UniqueInv'
  BY Ids DEF CallsTyped, UniqueInv, Idle, Done, Removed
<1>6. HookInv'
  BY Ids DEF CallsTyped, HookInv, HookOK, InRust, Removed
<1>7. WaitingInv'
  <2> SUFFICES ASSUME NEW d \in Call, promise[d] = "waiting",
                      \/ pc[d] \in {"send", "write", "unregister", "await"}
                      \/ pc[d] = "drop" /\ ~InRust
               PROVE  waiters'[IdOf[d]] = d \/ target = d \/ d \in closing
    BY DEF WaitingInv, InRust
  <2>1. waiters[IdOf[d]] = d \/ target = d \/ d \in closing
    BY DEF WaitingInv
  <2>2. d # c
    OBVIOUS
  <2>3. waiters[IdOf[d]] = d => waiters'[IdOf[d]] = d
    BY <2>2, Ids DEF CallsTyped, Table, Removed
  <2> QED
    BY <2>1, <2>3
<1> QED
  BY <1>1, <1>2, <1>3, <1>4, <1>5, <1>6, <1>7

\* The Python reader takes the call a frame is for out of the table.
LEMMA ReplyIsInHand ==
  ASSUME IInv, UNCHANGED lang, NEW c \in Call, waiters[IdOf[c]] = c, lang = "Python",
         target = NoCall,
         waiters' = Removed(waiters, IdOf[c]), target' = c,
         UNCHANGED <<pc, promise, reply, hooks, closing>>
  PROVE  CallsInv'
<1> USE DEF IInv, CallsInv
<1>0. MayWait' = MayWait
  BY DEF MayWait, InRust
<1>1. CallsTyped'
  BY Ids DEF CallsTyped, CallPC, Done, Table, Removed
<1>2. PromiseInv'
  BY Ids DEF CallsTyped, PromiseInv, Removed
<1>3. TableInv'
  BY Ids, <1>0 DEF CallsTyped, Table, TableInv, Removed
<1>4. HandInv'
  BY Ids DEF CallsTyped, Table, HandInv, TableInv, MayWait, InRust, Removed
<1>5. UniqueInv'
  BY Ids DEF CallsTyped, UniqueInv, Idle, Done, Removed
<1>6. HookInv'
  BY Ids DEF CallsTyped, HookInv, HookOK, InRust, Removed
<1>7. WaitingInv'
  BY Ids DEF CallsTyped, WaitingInv, InRust, Table, TableInv, Removed
<1> QED
  BY <1>1, <1>2, <1>3, <1>4, <1>5, <1>6, <1>7

\* It settles the promise of that call.
LEMMA ReplyIsDelivered ==
  ASSUME IInv, UNCHANGED lang, NEW f \in Frame, target \in Call, target' = NoCall, closing = {},
         Answered(target, f),
         UNCHANGED <<waiters, pc, hooks, closing>>
  PROVE  CallsInv'
<1> USE DEF IInv, CallsInv
<1>0. MayWait' = MayWait
  BY DEF MayWait, InRust
<1>1. CallsTyped'
  BY Ids DEF CallsTyped, CallPC, Done, Table, Answered
<1>2. PromiseInv'
  BY Ids DEF CallsTyped, PromiseInv, HandInv, Answered
<1>3. TableInv'
  BY Ids, <1>0 DEF CallsTyped, Table, TableInv, HandInv, Answered
<1>4. HandInv'
  BY Ids DEF CallsTyped, Table, HandInv, Answered
<1>5. UniqueInv'
  BY Ids DEF CallsTyped, UniqueInv, Idle, Done, Answered
<1>6. HookInv'
  BY Ids DEF CallsTyped, HookInv, HookOK, InRust, Answered
<1>7. WaitingInv'
  BY Ids DEF CallsTyped, WaitingInv, InRust, Answered
<1> QED
  BY <1>1, <1>2, <1>3, <1>4, <1>5, <1>6, <1>7

\* The table is emptied, and the calls that were in it fail.
LEMMA AllFail ==
  ASSUME IInv, UNCHANGED lang, waiters' = EmptyTable, promise' = Settled(Waiting(waiters), "closed"),
         UNCHANGED <<pc, reply, hooks, target, closing>>
  PROVE  CallsInv'
<1> USE DEF IInv, CallsInv
<1>0. MayWait' = MayWait
  BY DEF MayWait, InRust
<1>1. CallsTyped'
  BY Ids DEF CallsTyped, CallPC, Done, Table, TableInv, EmptyTable, Settled, Waiting
<1>2. PromiseInv'
  BY Ids DEF CallsTyped, PromiseInv, TableInv, MayWait, EmptyTable, Settled, Waiting
<1>3. TableInv'
  BY Ids, <1>0 DEF CallsTyped, Table, TableInv, EmptyTable, Settled, Waiting
<1>4. HandInv'
  BY Ids DEF CallsTyped, Table, HandInv, TableInv, EmptyTable, Settled, Waiting
<1>5. UniqueInv'
  BY Ids DEF CallsTyped, UniqueInv, Idle, Done, EmptyTable, Settled, Waiting
<1>6. HookInv'
  BY Ids DEF CallsTyped, HookInv, HookOK, InRust, EmptyTable, Settled, Waiting
<1>7. WaitingInv'
  <2>1. \A d \in Call : waiters[IdOf[d]] = d => d \in Waiting(waiters)
    BY Ids DEF Waiting
  <2> QED
    BY <2>1, Ids DEF CallsTyped, WaitingInv, TableInv, HandInv, InRust, Settled
<1> QED
  BY <1>1, <1>2, <1>3, <1>4, <1>5, <1>6, <1>7

\* A TypeScript call does this on a socket that is not open, and fails too.
LEMMA AllFailAtCall ==
  ASSUME IInv, UNCHANGED lang, NEW c \in Call, lang = "TypeScript", pc[c] = "idle", Goto(c, "ended"),
         waiters' = EmptyTable, promise' = Settled(Waiting(waiters) \cup {c}, "closed"),
         UNCHANGED <<reply, hooks, target, closing>>
  PROVE  CallsInv'
<1> USE DEF IInv, CallsInv
<1>0. MayWait' = MayWait
  BY DEF MayWait, InRust
<1>1. CallsTyped'
  BY Ids DEF CallsTyped, CallPC, Done, Table, TableInv, PromiseInv, EmptyTable, Settled,
     Waiting, Goto
<1>2. PromiseInv'
  BY Ids DEF CallsTyped, PromiseInv, TableInv, MayWait, EmptyTable, Settled, Waiting,
     Goto
<1>3. TableInv'
  BY Ids, <1>0 DEF CallsTyped, Table, TableInv, EmptyTable, Settled, Waiting, Goto
<1>4. HandInv'
  BY Ids DEF CallsTyped, Table, HandInv, TableInv, EmptyTable, Settled, Waiting, Goto
<1>5. UniqueInv'
  BY Ids DEF CallsTyped, UniqueInv, Idle, Done, EmptyTable, Settled, Waiting, Goto
<1>6. HookInv'
  BY Ids DEF CallsTyped, HookInv, HookOK, InRust, Idle, Done, EmptyTable, Settled,
     Waiting, Goto
<1>7. WaitingInv'
  <2>1. \A d \in Call : waiters[IdOf[d]] = d => d \in Waiting(waiters)
    BY Ids DEF Waiting
  <2> QED
    BY <2>1, Ids DEF CallsTyped, WaitingInv, TableInv, HandInv, InRust, Settled, Goto
<1> QED
  BY <1>1, <1>2, <1>3, <1>4, <1>5, <1>6, <1>7

\* The Python reader empties the table and has its calls in hand.
LEMMA TableIsTaken ==
  ASSUME IInv, UNCHANGED lang, lang = "Python", target = NoCall, waiters' = EmptyTable,
         closing = {}, closing' = Waiting(waiters),
         UNCHANGED <<callVars, hooks, target>>
  PROVE  CallsInv'
<1> USE DEF IInv, CallsInv
<1>0. MayWait' = MayWait
  BY DEF MayWait, InRust
<1>1. CallsTyped'
  BY Ids DEF CallsTyped, CallPC, Done, Table, TableInv, EmptyTable, Waiting, callVars
<1>2. PromiseInv'
  BY Ids DEF CallsTyped, PromiseInv, EmptyTable, Waiting, callVars
<1>3. TableInv'
  BY Ids, <1>0 DEF CallsTyped, Table, TableInv, EmptyTable, Waiting, callVars
<1>4. HandInv'
  BY Ids DEF CallsTyped, Table, HandInv, TableInv, MayWait, InRust, EmptyTable, Waiting,
     callVars
<1>5. UniqueInv'
  BY Ids DEF CallsTyped, UniqueInv, Idle, Done, EmptyTable, Waiting, callVars
<1>6. HookInv'
  BY Ids DEF CallsTyped, HookInv, HookOK, InRust, EmptyTable, Waiting, callVars
<1>7. WaitingInv'
  BY Ids DEF CallsTyped, WaitingInv, InRust, TableInv, Table, EmptyTable, Waiting,
     callVars
<1> QED
  BY <1>1, <1>2, <1>3, <1>4, <1>5, <1>6, <1>7

\* It fails one of them.
LEMMA OneFails ==
  ASSUME IInv, UNCHANGED lang, NEW c \in closing, target = NoCall, promise' = Settled({c}, "closed"), closing' = closing \ {c},
         UNCHANGED <<waiters, pc, reply, hooks, target>>
  PROVE  CallsInv'
<1> USE DEF IInv, CallsInv
<1>0. MayWait' = MayWait
  BY DEF MayWait, InRust
<1>1. CallsTyped'
  BY Ids DEF CallsTyped, CallPC, Done, Table, HandInv, Settled
<1>2. PromiseInv'
  BY Ids DEF CallsTyped, PromiseInv, HandInv, Settled
<1>3. TableInv'
  BY Ids, <1>0 DEF CallsTyped, Table, TableInv, HandInv, Settled
<1>4. HandInv'
  BY Ids DEF CallsTyped, Table, HandInv, Settled
<1>5. UniqueInv'
  BY Ids DEF CallsTyped, UniqueInv, Idle, Done, Settled
<1>6. HookInv'
  BY Ids DEF CallsTyped, HookInv, HookOK, InRust, Settled
<1>7. WaitingInv'
  BY Ids DEF CallsTyped, WaitingInv, InRust, Settled
<1> QED
  BY <1>1, <1>2, <1>3, <1>4, <1>5, <1>6, <1>7

\* A Rust future is dropped while it awaits: its guard will cancel the call.
LEMMA GuardSpawns ==
  ASSUME IInv, UNCHANGED lang, NEW c \in Call, InRust, pc[c] = "await", Alone(c), Goto(c, "gaveUp"),
         hooks' = hooks \cup {<<c, "cancel">>},
         UNCHANGED <<waiters, promise, reply, target, closing>>
  PROVE  CallsInv'
<1> USE DEF IInv, CallsInv
<1>0. MayWait' = MayWait
  BY DEF MayWait, InRust
<1>1. CallsTyped'
  BY Ids DEF CallsTyped, CallPC, Done, Table, Goto
<1>2. PromiseInv'
  BY Ids DEF CallsTyped, PromiseInv, Goto
<1>3. TableInv'
  BY Ids, <1>0 DEF CallsTyped, Table, TableInv, MayWait, Goto
<1>4. HandInv'
  BY Ids DEF CallsTyped, Table, HandInv, Goto
<1>5. UniqueInv'
  BY Ids DEF CallsTyped, UniqueInv, Idle, Done, Alone, Unhooked, Goto
<1>6. HookInv'
  BY Ids DEF CallsTyped, HookInv, HookOK, InRust, Goto
<1>7. WaitingInv'
  BY Ids DEF CallsTyped, WaitingInv, InRust, Goto
<1> QED
  BY <1>1, <1>2, <1>3, <1>4, <1>5, <1>6, <1>7

\* The guard removes what is under the id of its call.
LEMMA GuardCancels ==
  ASSUME IInv, UNCHANGED lang, NEW c \in Call, InRust, <<c, "cancel">> \in hooks, Alone(c),
         LET d == waiters[IdOf[c]] IN
           promise' = Settled({d} \cap {e \in Call : promise[e] = "waiting"}, "closed"),
         waiters' = Removed(waiters, IdOf[c]),
         hooks' = (hooks \ {<<c, "cancel">>}) \cup (IF HasCancel THEN {<<c, "send">>} ELSE {}),
         UNCHANGED <<pc, reply, target, closing>>
  PROVE  CallsInv'
<1> USE DEF IInv, CallsInv
<1>0. MayWait' = MayWait
  BY DEF MayWait, InRust
<1>1. CallsTyped'
  BY Ids DEF CallsTyped, CallPC, Done, Table, Settled, Removed
<1>2. PromiseInv'
  BY Ids DEF CallsTyped, PromiseInv, TableInv, MayWait, Settled, Removed
<1>3. TableInv'
  BY Ids, <1>0 DEF CallsTyped, Table, TableInv, Alone, Settled, Removed
<1>4. HandInv'
  BY Ids DEF CallsTyped, Table, HandInv, TableInv, MayWait, InRust, Settled, Removed
<1>5. UniqueInv'
  BY Ids DEF CallsTyped, UniqueInv, Idle, Done, Alone, Unhooked, Settled, Removed
<1>6. HookInv'
  BY Ids DEF CallsTyped, HookInv, HookOK, InRust, Settled, Removed
<1>7. WaitingInv'
  BY Ids DEF CallsTyped, WaitingInv, InRust, Table, Alone, TableInv, Idle, Done,
     Settled, Removed
<1> QED
  BY <1>1, <1>2, <1>3, <1>4, <1>5, <1>6, <1>7

\* The cancel frame is written.
LEMMA GuardWrites ==
  ASSUME IInv, UNCHANGED lang, hooks' \subseteq hooks, UNCHANGED <<waiters, callVars, target, closing>>
  PROVE  CallsInv'
<1> USE DEF IInv, CallsInv
<1>0. MayWait' = MayWait
  BY DEF MayWait, InRust
<1>1. CallsTyped'
  BY Ids DEF CallsTyped, CallPC, Done, Table, callVars
<1>2. PromiseInv'
  BY Ids DEF CallsTyped, PromiseInv, callVars
<1>3. TableInv'
  BY Ids, <1>0 DEF CallsTyped, Table, TableInv, callVars
<1>4. HandInv'
  BY Ids DEF CallsTyped, Table, HandInv, callVars
<1>5. UniqueInv'
  BY Ids DEF CallsTyped, UniqueInv, Idle, Done, callVars
<1>6. HookInv'
  BY Ids DEF CallsTyped, HookInv, HookOK, InRust, callVars
<1>7. WaitingInv'
  BY Ids DEF CallsTyped, WaitingInv, InRust, callVars
<1> QED
  BY <1>1, <1>2, <1>3, <1>4, <1>5, <1>6, <1>7

-----------------------------------------------------------------------------
\* A call that is under way has its id for itself.
LEMMA UnderWay ==
  ASSUME IInv, NEW c \in Call, pc[c] \notin Idle \/ \E at \in {"cancel", "send"} :
         <<c, at>> \in hooks
  PROVE  Alone(c) /\ (pc[c] \notin Idle => Unhooked(c))
  BY DEF IInv, CallsInv, UniqueInv, Alone, Unhooked

\* What is written is a call or its cancellation.
LEMMA OutGrows ==
  ASSUME IInv, NEW c \in Call, NEW what \in {"call", "cancel"},
         UNCHANGED out \/ out' = Append(out, <<c, what>>)
  PROVE  out' \in Seq(Call \X {"call", "cancel"})
<1>1. out \in Seq(Call \X {"call", "cancel"})
  BY DEF IInv, RestTyped
<1>2. <<c, what>> \in Call \X {"call", "cancel"}
  OBVIOUS
<1> QED
  BY <1>1, <1>2

\* What is read from the connection, and from the mailbox.
LEMMA WireShrinks ==
  ASSUME IInv, wire # <<>> PROVE Head(wire) \in Frame /\ Tail(wire) \in Seq(Frame)
<1>1. wire \in Seq(Frame)
  BY DEF IInv, RestTyped
<1> QED
  BY <1>1

\* What the application takes from the inbox, but for the sentinel, is a frame.
LEMMA InboxShrinks ==
  ASSUME IInv, inbox # <<>>, Head(inbox) # Sentinel
  PROVE  /\ Head(inbox) \in Frame /\ Tail(inbox) \in Seq(Frame \cup {Sentinel})
         /\ Append(taken, Head(inbox)) \in Seq(Frame)
<1>1. inbox \in Seq(Frame \cup {Sentinel}) /\ taken \in Seq(Frame)
  BY DEF IInv, RestTyped
<1>2. Head(inbox) \in Frame /\ Tail(inbox) \in Seq(Frame \cup {Sentinel})
  BY <1>1
<1> QED
  BY <1>1, <1>2

\* The calls in the table are without a result.
LEMMA WaitersWait == ASSUME IInv
                            PROVE Waiting(waiters) \subseteq {c \in Call : promise[c] = "waiting"}
  BY Ids DEF IInv, CallsInv, CallsTyped, TableInv, Table, Waiting

\* Frames, and the sentinel, are what the mailbox holds.
LEMMA MailGrows ==
  ASSUME IInv, NEW f \in Frame \cup {Sentinel}
  PROVE  /\ Append(inbox, f) \in Seq(Frame \cup {Sentinel})
         /\ f \in Frame => Append(taken, f) \in Seq(Frame)
  BY DEF IInv, RestTyped

\* The call a frame resolves to waits for it in the table.
LEMMA Resolved ==
  ASSUME IInv, NEW f \in Frame, ResolvedBy(waiters, f) # NoCall
  PROVE  /\ ResolvedBy(waiters, f) \in Call
         /\ waiters[IdOf[ResolvedBy(waiters, f)]] = ResolvedBy(waiters, f)
         /\ Answers(f, ResolvedBy(waiters, f))
<1> DEFINE d == waiters[FrameId[f]]
<1>1. FrameId[f] \in Id /\ d # NoCall /\ Answers(f, d) /\ ResolvedBy(waiters, f) = d
  BY DEF ResolvedBy
<1>2. d \in Call
  BY <1>1 DEF IInv, CallsInv, CallsTyped, Table
<1> QED
  BY <1>1, <1>2 DEF IInv, CallsInv, TableInv

\* What a TypeScript application does.
LEMMA TSAppStep ==
  ASSUME IInv, lang = "TypeScript", UNCHANGED lang, ~ReuseHooked, TS!AppStep
  PROVE  IInv'
<1> USE DEF IInv, TS!netVars, TS!tableVars, TS!callVars, TS!readerVars, TS!mailVars,
        TS!Goto, Goto, TS!Settled, Settled, TS!Registered, Registered, TS!Removed,
        Removed
<1>0. ASSUME NEW c \in Call, TS!MayUse(c) PROVE Alone(c) /\ Unhooked(c)
  BY <1>0 DEF TS!MayUse, TS!Done, Done, Idle, Alone, Unhooked
<1>1. ASSUME NEW c \in Call, TS!CallClosed(c) PROVE IInv'
  <2>1. CallsInv'
    BY <1>1, AllFailAtCall, <1>0
      DEF TS!CallClosed, TS!RejectAll, TS!EmptyTable, TS!Waiting, EmptyTable, Waiting
  <2>2. RestTyped' /\ ReaderInv'
    BY <1>1 DEF RestTyped, ReaderInv, TS!CallClosed, TS!RejectAll, TS!EmptyTable,
         TS!Waiting
  <2> QED
    BY <2>1, <2>2
<1>2. ASSUME NEW c \in Call, TS!CallOpen(c) PROVE IInv'
  <2>1. CallsInv'
    BY <1>2, CallRegisters, <1>0
      DEF TS!CallOpen, TS!Writes
  <2>2. RestTyped' /\ ReaderInv'
    BY <1>2 DEF RestTyped, ReaderInv, TS!CallOpen, TS!Writes
  <2> QED
    BY <2>1, <2>2
<1>3. ASSUME NEW c \in Call, TS!CallThrows(c) PROVE IInv'
  <2>1. CallsInv'
    BY <1>3, CallThrows, <1>0
      DEF TS!CallThrows
  <2>2. RestTyped' /\ ReaderInv'
    BY <1>3 DEF RestTyped, ReaderInv, TS!CallThrows
  <2> QED
    BY <2>1, <2>2
<1>4. ASSUME NEW c \in Call, TS!Abandon(c) PROVE IInv'
  <2>0. Alone(c)
    BY <1>4, UnderWay, Ids DEF TS!Abandon, CallsInv, TableInv, MayWait, InRust, Idle, Done
  <2>1. CallsInv'
    BY <1>4, <2>0, CallIsAbandoned DEF TS!Abandon
  <2>a. UNCHANGED out \/ out' = Append(out, <<c, "cancel">>)
    <3>1. CASE HasCancel
      BY <1>4, <3>1 DEF TS!Abandon, TS!CancelsPeer, TS!Writes
    <3>2. CASE ~HasCancel
      BY <1>4, <3>2 DEF TS!Abandon, TS!CancelsPeer, TS!Writes
    <3> QED
      BY <3>1, <3>2
  <2>b. out' \in Seq(Call \X {"call", "cancel"})
    BY <2>a, OutGrows
  <2>2. RestTyped' /\ ReaderInv'
    BY <1>4, <2>b DEF RestTyped, ReaderInv, TS!Abandon
  <2> QED
    BY <2>1, <2>2
<1>5. CASE TS!Receive
  <2>1. CallsInv'
    BY <1>5, NothingMoves
      DEF TS!Receive, callVars
  <2>a. inbox' \in Seq(Frame \cup {Sentinel}) /\ taken' \in Seq(Frame)
    <3>1. CASE inbox = <<>>
      BY <1>5, <3>1 DEF RestTyped, TS!Receive, TS!Take
    <3>2. CASE inbox # <<>> /\ Head(inbox) # Sentinel
      <4>1. taken' = Append(taken, Head(inbox)) /\ inbox' = Tail(inbox)
        BY <1>5, <3>2 DEF TS!Receive, TS!Take
      <4> QED
        BY <3>2, <4>1, InboxShrinks
    <3> QED
      BY <1>5, <3>1, <3>2 DEF TS!Receive, TS!Take
  <2>b. rx' \in {"idle", "waiting", "told"}
    BY <1>5 DEF TS!Receive, TS!Take
  <2>2. RestTyped' /\ ReaderInv'
    BY <1>5, <2>a, <2>b DEF RestTyped, ReaderInv, TS!Receive
  <2> QED
    BY <2>1, <2>2
<1>6. CASE TS!Close
  <2>1. CallsInv'
    BY <1>6, NothingMoves
      DEF TS!Close, callVars
  <2>2. RestTyped' /\ ReaderInv'
    BY <1>6 DEF RestTyped, ReaderInv, TS!Close
  <2> QED
    BY <2>1, <2>2
<1> QED
  BY <1>1, <1>2, <1>3, <1>4, <1>5, <1>6
     DEF TS!AppStep

\* The callbacks of a TypeScript socket.
LEMMA TSReadStep ==
  ASSUME IInv, lang = "TypeScript", UNCHANGED lang, ~ReuseHooked, TS!ReaderStep
  PROVE  IInv'
<1> USE DEF IInv, TS!netVars, TS!tableVars, TS!callVars, TS!readerVars, TS!mailVars,
        TS!Goto, Goto, TS!Settled, Settled, TS!Registered, Registered, TS!Removed,
        Removed
<1> DEFINE f == Head(wire)
<1>0. TS!ResolvedBy(waiters, f) = ResolvedBy(waiters, f)
  BY DEF TS!ResolvedBy, ResolvedBy, TS!Answers, Answers
<1>1. CASE TS!BadMessage
  <2>1. CallsInv'
    BY <1>1, NothingMoves
      DEF TS!BadMessage, callVars
  <2>2. RestTyped' /\ ReaderInv'
    BY <1>1 DEF RestTyped, ReaderInv, TS!BadMessage
  <2> QED
    BY <2>1, <2>2
<1>2. CASE TS!ReplyMessage
  <2> DEFINE d == ResolvedBy(waiters, f)
  <2>0. f \in Frame /\ Tail(wire) \in Seq(Frame) /\ d # NoCall
    BY <1>2, <1>0, WireShrinks DEF TS!ReplyMessage
  <2>3. d \in Call /\ waiters[IdOf[d]] = d
    BY <2>0, Resolved
  <2>4. waiters' = Removed(waiters, IdOf[d]) /\ TS!Answered(d, f) /\ UNCHANGED <<pc, hooks, target, closing>>
    BY <1>2, <1>0 DEF TS!ReplyMessage
  <2>1. CallsInv'
    BY <2>0, <2>3, <2>4, CallIsAnswered DEF Answered, TS!Answered
  <2>2. RestTyped' /\ ReaderInv'
    BY <1>2, <2>0 DEF RestTyped, ReaderInv, TS!ReplyMessage
  <2> QED
    BY <2>1, <2>2
<1>3. CASE TS!OtherMessage
  <2>1. CallsInv'
    BY <1>3, NothingMoves
      DEF TS!OtherMessage, callVars
  <2>0. f \in Frame /\ Tail(wire) \in Seq(Frame)
    BY <1>3, WireShrinks DEF TS!OtherMessage
  <2>a. taken' \in Seq(Frame) /\ inbox' \in Seq(Frame \cup {Sentinel}) /\ rx' \in {rx, "idle"}
    <3>1. CASE rx = "waiting"
      BY <1>3, <2>0, <3>1, MailGrows DEF RestTyped, TS!OtherMessage
    <3>2. CASE rx # "waiting"
      BY <1>3, <2>0, <3>2, MailGrows DEF RestTyped, TS!OtherMessage
    <3> QED
      BY <3>1, <3>2
  <2>2. RestTyped' /\ ReaderInv'
    BY <1>3, <2>0, <2>a DEF RestTyped, ReaderInv, TS!OtherMessage
  <2> QED
    BY <2>1, <2>2
<1>4. CASE TS!CloseEvent
  <2>1. CallsInv'
    BY <1>4, AllFail
      DEF TS!CloseEvent, TS!RejectAll, TS!EmptyTable, TS!Waiting, EmptyTable, Waiting
  <2>2. RestTyped' /\ ReaderInv'
    BY <1>4 DEF RestTyped, ReaderInv, TS!CloseEvent, TS!RejectAll, TS!EmptyTable,
         TS!Waiting
  <2> QED
    BY <2>1, <2>2
<1> QED
  BY <1>1, <1>2, <1>3, <1>4
     DEF TS!ReaderStep

\* A TypeScript caller goes on.
LEMMA TSCallStep ==
  ASSUME IInv, lang = "TypeScript", UNCHANGED lang, ~ReuseHooked, NEW c \in Call, TS!CallStep(c)
  PROVE  IInv'
<1> USE DEF IInv, TS!netVars, TS!tableVars, TS!callVars, TS!readerVars, TS!mailVars,
        TS!Goto, Goto
<1>1. CASE TS!Resume(c)
  <2>1. CallsInv'
    BY <1>1, CallResumes
      DEF TS!Resume
  <2>2. RestTyped' /\ ReaderInv'
    BY <1>1 DEF RestTyped, ReaderInv, TS!Resume
  <2> QED
    BY <2>1, <2>2
<1> QED
  BY <1>1
     DEF TS!CallStep

\* What a Dart application does.  The entry a cancel future or a timer finds
\* is that of its own call.
LEMMA DartAppStep ==
  ASSUME IInv, lang = "Dart", UNCHANGED lang, ~ReuseHooked, Dart!AppStep
  PROVE  IInv'
<1> USE DEF IInv, Dart!netVars, Dart!tableVars, Dart!callVars, Dart!readerVars,
        Dart!mailVars, Dart!Goto, Goto, Dart!Settled, Settled, Dart!Registered,
        Registered, Dart!Removed, Removed
<1>0. ASSUME NEW c \in Call, Dart!MayUse(c) PROVE Alone(c) /\ Unhooked(c)
  BY <1>0 DEF Dart!MayUse, Dart!Done, Done, Idle, Alone, Unhooked
<1>a. ASSUME NEW c \in Call, Alone(c) PROVE waiters[IdOf[c]] \in {c, NoCall}
  <2> DEFINE d == waiters[IdOf[c]]
  <2> SUFFICES ASSUME d # NoCall PROVE d = c
    OBVIOUS
  <2>1. d \in Call
    BY Ids DEF CallsInv, CallsTyped, Table
  <2>2. IdOf[d] = IdOf[c] /\ pc[d] \notin Idle
    BY <2>1, Ids DEF CallsInv, TableInv, MayWait, InRust, Idle, Done
  <2> QED
    BY <1>a, <2>1, <2>2 DEF Alone
<1>1. ASSUME NEW c \in Call, Dart!CallOver(c) PROVE IInv'
  <2>1. CallsInv'
    BY <1>1, CallIsRefused
      DEF Dart!CallOver
  <2>2. RestTyped' /\ ReaderInv'
    BY <1>1 DEF RestTyped, ReaderInv, Dart!CallOver
  <2> QED
    BY <2>1, <2>2
<1>2. ASSUME NEW c \in Call, Dart!CallSends(c) PROVE IInv'
  <2>1. CallsInv'
    <3>1. CASE hooks' = hooks
      BY <1>2, <3>1, <1>0, CallRegisters DEF Dart!CallSends
    <3>2. CASE hooks' = hooks \cup {<<c, "cancel">>}
      BY <1>2, <3>2, <1>0, CallRegisters DEF Dart!CallSends
    <3> QED
      BY <1>2, <3>1, <3>2 DEF Dart!CallSends
  <2>a. out' \in Seq(Call \X {"call", "cancel"})
    BY <1>2, OutGrows DEF Dart!CallSends, Dart!Writes
  <2>2. RestTyped' /\ ReaderInv'
    BY <1>2, <2>a, Ids DEF RestTyped, ReaderInv, Dart!CallSends
  <2> QED
    BY <2>1, <2>2
<1>3. ASSUME NEW c \in Call, Dart!CallThrows(c) PROVE IInv'
  <2>1. CallsInv'
    BY <1>3, CallThrows, <1>0
      DEF Dart!CallThrows
  <2>2. RestTyped' /\ ReaderInv'
    BY <1>3 DEF RestTyped, ReaderInv, Dart!CallThrows
  <2> QED
    BY <2>1, <2>2
<1>4. ASSUME NEW c \in Call, Dart!TimeOut(c) PROVE IInv'
  <2>0. waiters[IdOf[c]] \in {c, NoCall} /\ Alone(c)
    BY <1>4, <1>a, UnderWay DEF Dart!TimeOut, Idle, Done
  <2>1. CallsInv'
    <3>1. CASE waiters[IdOf[c]] = NoCall
      BY <1>4, <3>1, NothingMoves DEF Dart!TimeOut, Dart!AbandonBy, callVars
    <3>2. CASE waiters[IdOf[c]] = c
      BY <1>4, <3>2, <2>0, Ids, CallIsAbandoned DEF Dart!TimeOut, Dart!AbandonBy
    <3> QED
      BY <2>0, <3>1, <3>2
  <2>a. UNCHANGED out \/ out' = Append(out, <<c, "cancel">>)
    <3>1. CASE HasCancel
      BY <1>4, <3>1 DEF Dart!TimeOut, Dart!AbandonBy, Dart!CancelsPeer, Dart!Writes
    <3>2. CASE ~HasCancel
      BY <1>4, <3>2 DEF Dart!TimeOut, Dart!AbandonBy, Dart!CancelsPeer, Dart!Writes
    <3> QED
      BY <3>1, <3>2
  <2>b. out' \in Seq(Call \X {"call", "cancel"})
    BY <2>a, OutGrows
  <2>2. RestTyped' /\ ReaderInv'
    BY <1>4, <2>b DEF RestTyped, ReaderInv, Dart!TimeOut, Dart!AbandonBy
  <2> QED
    BY <2>1, <2>2
<1>5. ASSUME NEW c \in Call, Dart!Cancelled(c) PROVE IInv'
  <2>0. waiters[IdOf[c]] \in {c, NoCall} /\ Alone(c)
    BY <1>5, <1>a, UnderWay DEF Dart!Cancelled
  <2>1. CallsInv'
    <3>1. CASE waiters[IdOf[c]] = NoCall
      BY <1>5, <3>1, GuardWrites DEF Dart!Cancelled, Dart!AbandonBy, callVars
    <3>2. CASE waiters[IdOf[c]] = c
      <4>1. promise[c] = "waiting"
        BY <3>2, Ids DEF CallsInv, TableInv
      <4>2. waiters' = Removed(waiters, IdOf[c]) /\ promise' = Settled({c}, "error")
        BY <1>5, <3>2, <4>1, Ids DEF Dart!Cancelled, Dart!AbandonBy
      <4> QED
        BY <1>5, <3>2, <4>2, <2>0, CallIsAbandoned DEF Dart!Cancelled
    <3> QED
      BY <2>0, <3>1, <3>2
  <2>a. UNCHANGED out \/ out' = Append(out, <<c, "cancel">>)
    <3>1. CASE HasCancel
      BY <1>5, <3>1 DEF Dart!Cancelled, Dart!AbandonBy, Dart!CancelsPeer, Dart!Writes
    <3>2. CASE ~HasCancel
      BY <1>5, <3>2 DEF Dart!Cancelled, Dart!AbandonBy, Dart!CancelsPeer, Dart!Writes
    <3> QED
      BY <3>1, <3>2
  <2>b. out' \in Seq(Call \X {"call", "cancel"})
    BY <2>a, OutGrows
  <2>2. RestTyped' /\ ReaderInv'
    BY <1>5, <2>b DEF RestTyped, ReaderInv, Dart!Cancelled, Dart!AbandonBy
  <2> QED
    BY <2>1, <2>2
<1>6. CASE Dart!Receive
  <2>1. CallsInv'
    BY <1>6, NothingMoves
      DEF Dart!Receive, callVars
  <2>a. inbox' \in Seq(Frame \cup {Sentinel}) /\ taken' \in Seq(Frame)
    <3>1. CASE inbox = <<>>
      BY <1>6, <3>1 DEF RestTyped, Dart!Receive, Dart!Take
    <3>2. CASE inbox # <<>> /\ Head(inbox) # Sentinel
      <4>1. taken' = Append(taken, Head(inbox)) /\ inbox' = Tail(inbox)
        BY <1>6, <3>2 DEF Dart!Receive, Dart!Take
      <4> QED
        BY <3>2, <4>1, InboxShrinks
    <3> QED
      BY <1>6, <3>1, <3>2 DEF Dart!Receive, Dart!Take
  <2>b. rx' \in {"idle", "waiting", "told"}
    BY <1>6 DEF Dart!Receive, Dart!Take
  <2>2. RestTyped' /\ ReaderInv'
    BY <1>6, <2>a, <2>b DEF RestTyped, ReaderInv, Dart!Receive
  <2> QED
    BY <2>1, <2>2
<1>7. CASE Dart!StopWaiting
  <2>1. CallsInv'
    BY <1>7, NothingMoves
      DEF Dart!StopWaiting, callVars
  <2>2. RestTyped' /\ ReaderInv'
    BY <1>7 DEF RestTyped, ReaderInv, Dart!StopWaiting
  <2> QED
    BY <2>1, <2>2
<1>8. CASE Dart!Close
  <2>1. CallsInv'
    BY <1>8, NothingMoves
      DEF Dart!Close, callVars
  <2>2. RestTyped' /\ ReaderInv'
    BY <1>8 DEF RestTyped, ReaderInv, Dart!Close
  <2> QED
    BY <2>1, <2>2
<1> QED
  BY <1>1, <1>2, <1>3, <1>4, <1>5, <1>6, <1>7, <1>8
     DEF Dart!AppStep

\* What a Dart socket does with the stream of its connection.
LEMMA DartReadStep ==
  ASSUME IInv, lang = "Dart", UNCHANGED lang, ~ReuseHooked, Dart!ReaderStep
  PROVE  IInv'
<1> USE DEF IInv, Dart!netVars, Dart!tableVars, Dart!callVars, Dart!readerVars,
        Dart!mailVars, Dart!Goto, Goto, Dart!Settled, Settled, Dart!Registered,
        Registered, Dart!Removed, Removed
<1> DEFINE f == Head(wire)
<1>0. Dart!ResolvedBy(waiters, f) = ResolvedBy(waiters, f)
  BY DEF Dart!ResolvedBy, ResolvedBy, Dart!Answers, Answers
<1>1. CASE Dart!BadData
  <2>1. CallsInv'
    BY <1>1, AllFail
      DEF Dart!BadData, Dart!Fail, Dart!EmptyTable, Dart!Waiting, EmptyTable, Waiting
  <2>a. Head(wire) \in Frame /\ Tail(wire) \in Seq(Frame)
    BY <1>1, WireShrinks DEF Dart!BadData, Dart!CanRead
  <2>2. RestTyped' /\ ReaderInv'
    BY <1>1, <2>a DEF RestTyped, ReaderInv, Dart!BadData, Dart!Fail
  <2> QED
    BY <2>1, <2>2
<1>2. CASE Dart!ReplyData
  <2> DEFINE d == ResolvedBy(waiters, f)
  <2>0. f \in Frame /\ Tail(wire) \in Seq(Frame) /\ d # NoCall
    BY <1>2, <1>0, WireShrinks DEF Dart!ReplyData, Dart!CanRead
  <2>3. d \in Call /\ waiters[IdOf[d]] = d
    BY <2>0, Resolved
  <2>4. waiters' = Removed(waiters, IdOf[d]) /\ Dart!Answered(d, f) /\ UNCHANGED <<pc, hooks, target, closing>>
    BY <1>2, <1>0 DEF Dart!ReplyData
  <2>1. CallsInv'
    BY <2>0, <2>3, <2>4, CallIsAnswered DEF Answered, Dart!Answered
  <2>2. RestTyped' /\ ReaderInv'
    BY <1>2, <2>0 DEF RestTyped, ReaderInv, Dart!ReplyData
  <2> QED
    BY <2>1, <2>2
<1>3. CASE Dart!OtherData
  <2>1. CallsInv'
    BY <1>3, NothingMoves
      DEF Dart!OtherData, callVars
  <2>0. f \in Frame /\ Tail(wire) \in Seq(Frame)
    BY <1>3, WireShrinks DEF Dart!OtherData, Dart!CanRead
  <2>a. taken' \in Seq(Frame) /\ inbox' \in Seq(Frame \cup {Sentinel}) /\ rx' \in {rx, "idle"}
    <3>1. CASE rx = "waiting"
      BY <1>3, <2>0, <3>1, MailGrows DEF RestTyped, Dart!OtherData
    <3>2. CASE rx # "waiting"
      BY <1>3, <2>0, <3>2, MailGrows DEF RestTyped, Dart!OtherData
    <3> QED
      BY <3>1, <3>2
  <2>2. RestTyped' /\ ReaderInv'
    BY <1>3, <2>0, <2>a DEF RestTyped, ReaderInv, Dart!OtherData
  <2> QED
    BY <2>1, <2>2
<1>4. CASE Dart!StreamEnds
  <2>1. CallsInv'
    <3>1. CASE over
      BY <1>4, <3>1, NothingMoves DEF Dart!StreamEnds, callVars
    <3>2. CASE ~over
      BY <1>4, <3>2, AllFail
      DEF Dart!StreamEnds, Dart!Fail, Dart!EmptyTable, Dart!Waiting, EmptyTable, Waiting
    <3> QED
      BY <3>1, <3>2
  <2>2. RestTyped' /\ ReaderInv'
    BY <1>4 DEF RestTyped, ReaderInv, Dart!StreamEnds, Dart!Fail
  <2> QED
    BY <2>1, <2>2
<1> QED
  BY <1>1, <1>2, <1>3, <1>4
     DEF Dart!ReaderStep

\* A Dart caller goes on.
LEMMA DartCallStep ==
  ASSUME IInv, lang = "Dart", UNCHANGED lang, ~ReuseHooked, NEW c \in Call, Dart!CallStep(c)
  PROVE  IInv'
<1> USE DEF IInv, Dart!netVars, Dart!tableVars, Dart!callVars, Dart!readerVars,
        Dart!mailVars, Dart!Goto, Goto
<1>1. CASE Dart!Resume(c)
  <2>1. CallsInv'
    BY <1>1, CallResumes
      DEF Dart!Resume
  <2>2. RestTyped' /\ ReaderInv'
    BY <1>1 DEF RestTyped, ReaderInv, Dart!Resume
  <2> QED
    BY <2>1, <2>2
<1> QED
  BY <1>1
     DEF Dart!CallStep

\* The thread of a Python call.
LEMMA PyCallStep ==
  ASSUME IInv, lang = "Python", UNCHANGED lang, ~ReuseHooked, NEW c \in Call, Py!CallStep(c)
  PROVE  IInv'
<1> USE DEF IInv, Py!netVars, Py!tableVars, Py!callVars, Py!readerVars, Py!mailVars,
        Py!Goto, Goto, Py!Settled, Settled, Py!Registered, Registered, Py!Removed,
        Removed
<1>1. CASE Py!Refused(c)
  <2>1. CallsInv'
    BY <1>1, CallIsRefused
      DEF Py!Refused
  <2>2. RestTyped' /\ ReaderInv'
    BY <1>1 DEF RestTyped, ReaderInv, Py!Refused
  <2> QED
    BY <2>1, <2>2
<1>2. CASE Py!Register(c)
  <2>0. Alone(c) /\ Unhooked(c)
    BY <1>2, UnderWay DEF Py!Register, Idle, Done
  <2>1. CallsInv'
    BY <1>2, <2>0, CallRegisters DEF Py!Register
  <2>2. RestTyped' /\ ReaderInv'
    BY <1>2 DEF RestTyped, ReaderInv, Py!Register
  <2> QED
    BY <2>1, <2>2
<1>3. CASE Py!EncodeFails(c)
  <2>1. CallsInv'
    BY <1>3, CallMoves, Ids DEF Py!EncodeFails, CallsInv, TableInv, MayWait, InRust, Idle, Done
  <2>2. RestTyped' /\ ReaderInv'
    BY <1>3 DEF RestTyped, ReaderInv, Py!EncodeFails
  <2> QED
    BY <2>1, <2>2
<1>4. CASE Py!LockSend(c)
  <2>1. CallsInv'
    <3>1. CASE pc[c] = "send"
      BY <1>4, <3>1, CallMoves, Ids DEF Py!LockSend, CallsInv, TableInv, MayWait, InRust, Idle, Done
    <3>2. CASE pc[c] = "cancelSend"
      BY <1>4, <3>2, CallMoves, Ids DEF Py!LockSend, CallsInv, TableInv, MayWait, InRust, Idle, Done
    <3> QED
      BY <1>4, <3>1, <3>2 DEF Py!LockSend
  <2>2. RestTyped' /\ ReaderInv'
    BY <1>4 DEF RestTyped, ReaderInv, Py!LockSend
  <2> QED
    BY <2>1, <2>2
<1>5. CASE Py!WriteOk(c)
  <2>1. CallsInv'
    <3>1. CASE pc[c] = "write"
      BY <1>5, <3>1, CallMoves, Ids DEF Py!WriteOk, CallsInv, TableInv, MayWait, InRust, Idle, Done
    <3>2. CASE pc[c] = "cancelWrite"
      BY <1>5, <3>2, CallMoves, Ids DEF Py!WriteOk, CallsInv, TableInv, MayWait, InRust, Idle, Done
    <3> QED
      BY <1>5, <3>1, <3>2 DEF Py!WriteOk
  <2>a. out' \in Seq(Call \X {"call", "cancel"})
    BY <1>5, OutGrows DEF Py!WriteOk, Py!Writes
  <2>2. RestTyped' /\ ReaderInv'
    BY <1>5, <2>a, Ids DEF RestTyped, ReaderInv, Py!WriteOk
  <2> QED
    BY <2>1, <2>2
<1>6. CASE Py!WriteFails(c)
  <2>1. CallsInv'
    <3>1. CASE pc[c] = "write"
      BY <1>6, <3>1, CallMoves, Ids
        DEF Py!WriteFails, CallsInv, TableInv, MayWait, InRust, Idle, Done
    <3>2. CASE pc[c] = "cancelWrite"
      BY <1>6, <3>2, CallMoves, Ids
        DEF Py!WriteFails, CallsInv, TableInv, MayWait, InRust, Idle, Done
    <3> QED
      BY <1>6, <3>1, <3>2 DEF Py!WriteFails
  <2>2. RestTyped' /\ ReaderInv'
    BY <1>6 DEF RestTyped, ReaderInv, Py!WriteFails
  <2> QED
    BY <2>1, <2>2
<1>7. CASE Py!Unregister(c)
  <2>0. Alone(c)
    BY <1>7, UnderWay DEF Py!Unregister, Idle, Done
  <2>1. CallsInv'
    BY <1>7, <2>0, CallRemovesEntry DEF Py!Unregister, InRust, Idle, Done
  <2>2. RestTyped' /\ ReaderInv'
    BY <1>7 DEF RestTyped, ReaderInv, Py!Unregister
  <2> QED
    BY <2>1, <2>2
<1>8. CASE Py!Resume(c)
  <2>1. CallsInv'
    BY <1>8, CallResumes
      DEF Py!Resume
  <2>2. RestTyped' /\ ReaderInv'
    BY <1>8 DEF RestTyped, ReaderInv, Py!Resume
  <2> QED
    BY <2>1, <2>2
<1>9. CASE Py!Drop(c)
  <2>0. Alone(c)
    BY <1>9, UnderWay DEF Py!Drop, Idle, Done
  <2>1. CallsInv'
    BY <1>9, <2>0, CallRemovesEntry DEF Py!Drop, InRust, Idle, Done
  <2>2. RestTyped' /\ ReaderInv'
    BY <1>9 DEF RestTyped, ReaderInv, Py!Drop
  <2> QED
    BY <2>1, <2>2
<1> QED
  BY <1>1, <1>2, <1>3, <1>4, <1>5, <1>6, <1>7, <1>8, <1>9
     DEF Py!CallStep

\* What a Python application does.
LEMMA PyAppStep ==
  ASSUME IInv, lang = "Python", UNCHANGED lang, ~ReuseHooked, Py!AppStep
  PROVE  IInv'
<1> USE DEF IInv, Py!netVars, Py!tableVars, Py!callVars, Py!readerVars, Py!mailVars,
        Py!Goto, Goto
<1>0. ASSUME NEW c \in Call, Py!MayUse(c) PROVE Alone(c) /\ Unhooked(c)
  BY <1>0 DEF Py!MayUse, Py!Done, Done, Idle, Alone, Unhooked
<1>1. ASSUME NEW c \in Call, Py!Enter(c) PROVE IInv'
  <2>1. CallsInv'
    BY <1>1, CallEnters, <1>0
      DEF Py!Enter
  <2>2. RestTyped' /\ ReaderInv'
    BY <1>1 DEF RestTyped, ReaderInv, Py!Enter
  <2> QED
    BY <2>1, <2>2
<1>2. ASSUME NEW c \in Call, Py!GiveUp(c) PROVE IInv'
  <2>1. CallsInv'
    BY <1>2, CallMoves, Ids DEF Py!GiveUp, CallsInv, TableInv, MayWait, InRust, Idle, Done
  <2>2. RestTyped' /\ ReaderInv'
    BY <1>2 DEF RestTyped, ReaderInv, Py!GiveUp
  <2> QED
    BY <2>1, <2>2
<1>3. CASE Py!Receive
  <2>1. CallsInv'
    BY <1>3, NothingMoves
      DEF Py!Receive, callVars
  <2>2. RestTyped' /\ ReaderInv'
    BY <1>3 DEF RestTyped, ReaderInv, Py!Receive
  <2> QED
    BY <2>1, <2>2
<1>4. CASE Py!StopWaiting
  <2>1. CallsInv'
    BY <1>4, NothingMoves
      DEF Py!StopWaiting, callVars
  <2>2. RestTyped' /\ ReaderInv'
    BY <1>4 DEF RestTyped, ReaderInv, Py!StopWaiting
  <2> QED
    BY <2>1, <2>2
<1>5. CASE Py!Close
  <2>1. CallsInv'
    BY <1>5, NothingMoves
      DEF Py!Close, callVars
  <2>2. RestTyped' /\ ReaderInv'
    BY <1>5 DEF RestTyped, ReaderInv, Py!Close
  <2> QED
    BY <2>1, <2>2
<1> QED
  BY <1>1, <1>2, <1>3, <1>4, <1>5
     DEF Py!AppStep

\* The receiving thread.
LEMMA PyReceiverStep ==
  ASSUME IInv, lang = "Python", UNCHANGED lang, ~ReuseHooked, Py!ReceiverStep
  PROVE  IInv'
<1> USE DEF IInv, Py!netVars, Py!tableVars, Py!callVars, Py!readerVars, Py!mailVars
<1>1. CASE Py!GetFrame
  <2>1. CallsInv'
    BY <1>1, NothingMoves
      DEF Py!GetFrame, callVars
  <2>a. inbox' \in Seq(Frame \cup {Sentinel}) /\ taken' \in Seq(Frame)
    <3>1. CASE inbox = <<>>
      BY <1>1, <3>1 DEF RestTyped, Py!GetFrame, Py!Take
    <3>2. CASE inbox # <<>> /\ Head(inbox) # Sentinel
      <4>1. taken' = Append(taken, Head(inbox)) /\ inbox' = Tail(inbox)
        BY <1>1, <3>2 DEF Py!GetFrame, Py!Take
      <4> QED
        BY <3>2, <4>1, InboxShrinks
    <3> QED
      BY <1>1, <3>1, <3>2 DEF Py!GetFrame, Py!Take
  <2>b. rx' \in {"idle", "waiting", "told"}
    BY <1>1 DEF Py!GetFrame, Py!Take
  <2>2. RestTyped' /\ ReaderInv'
    BY <1>1, <2>a, <2>b DEF RestTyped, ReaderInv, Py!GetFrame
  <2> QED
    BY <2>1, <2>2
<1>2. CASE Py!SeeEnd
  <2>1. CallsInv'
    BY <1>2, NothingMoves
      DEF Py!SeeEnd, callVars
  <2>2. RestTyped' /\ ReaderInv'
    BY <1>2 DEF RestTyped, ReaderInv, Py!SeeEnd
  <2> QED
    BY <2>1, <2>2
<1>3. CASE Py!PutBack
  <2>1. CallsInv'
    BY <1>3, NothingMoves
      DEF Py!PutBack, callVars
  <2>a. inbox' \in Seq(Frame \cup {Sentinel})
    BY <1>3, MailGrows DEF Py!PutBack
  <2>2. RestTyped' /\ ReaderInv'
    BY <1>3, <2>a DEF RestTyped, ReaderInv, Py!PutBack
  <2> QED
    BY <2>1, <2>2
<1> QED
  BY <1>1, <1>2, <1>3
     DEF Py!ReceiverStep

\* The reader thread.
LEMMA PyReadStep ==
  ASSUME IInv, lang = "Python", UNCHANGED lang, ~ReuseHooked, Py!ReaderStep
  PROVE  IInv'
<1> USE DEF IInv, Py!netVars, Py!tableVars, Py!callVars, Py!readerVars, Py!mailVars,
        Py!Settled, Settled, Py!Removed, Removed
<1>0. Py!ResolvedBy(waiters, held) = ResolvedBy(waiters, held)
  BY DEF Py!ResolvedBy, ResolvedBy, Py!Answers, Answers
<1>1. CASE Py!ReadFrame
  <2>1. CallsInv'
    BY <1>1, NothingMoves
      DEF Py!ReadFrame, callVars
  <2>a. Head(wire) \in Frame /\ Tail(wire) \in Seq(Frame)
    BY <1>1, WireShrinks DEF Py!ReadFrame, Py!CanRead
  <2>2. RestTyped' /\ ReaderInv'
    BY <1>1, <2>a DEF RestTyped, ReaderInv, Py!ReadFrame
  <2> QED
    BY <2>1, <2>2
<1>2. CASE Py!ReadBad
  <2>1. CallsInv'
    BY <1>2, NothingMoves
      DEF Py!ReadBad, callVars
  <2>a. Head(wire) \in Frame /\ Tail(wire) \in Seq(Frame)
    BY <1>2, WireShrinks DEF Py!ReadBad, Py!CanRead
  <2>2. RestTyped' /\ ReaderInv'
    BY <1>2, <2>a DEF RestTyped, ReaderInv, Py!ReadBad
  <2> QED
    BY <2>1, <2>2
<1>3. CASE Py!ReadEnd
  <2>1. CallsInv'
    BY <1>3, NothingMoves
      DEF Py!ReadEnd, callVars
  <2>2. RestTyped' /\ ReaderInv'
    BY <1>3 DEF RestTyped, ReaderInv, Py!ReadEnd
  <2> QED
    BY <2>1, <2>2
<1>4. CASE Py!Route
  <2> DEFINE d == ResolvedBy(waiters, held)
  <2>0. held \in Frame /\ target = NoCall
    BY <1>4 DEF ReaderInv, Py!Route
  <2>1. CallsInv'
    <3>1. CASE d = NoCall
      BY <1>4, <1>0, <3>1, NothingMoves DEF Py!Route, callVars
    <3>2. CASE d # NoCall
      <4>1. d \in Call /\ waiters[IdOf[d]] = d
        BY <2>0, <3>2, Resolved
      <4> QED
        BY <1>4, <1>0, <2>0, <3>2, <4>1, ReplyIsInHand DEF Py!Route
    <3> QED
      BY <3>1, <3>2
  <2>2. RestTyped' /\ ReaderInv'
    <3>1. CASE d = NoCall
      BY <1>4, <1>0, <2>0, <3>1 DEF RestTyped, ReaderInv, Py!Route
    <3>2. CASE d # NoCall
      BY <1>4, <1>0, <2>0, <3>2, Resolved DEF RestTyped, ReaderInv, Py!Route
    <3> QED
      BY <3>1, <3>2
  <2> QED
    BY <2>1, <2>2
<1>5. CASE Py!Deliver
  <2>0. held \in Frame /\ target # NoCall /\ closing = {}
    BY <1>5 DEF ReaderInv, Py!Deliver
  <2>1. CallsInv'
    BY <1>5, <2>0, ReplyIsDelivered DEF Py!Deliver, Py!Answered, Answered, CallsInv, CallsTyped
  <2>2. RestTyped' /\ ReaderInv'
    BY <1>5 DEF RestTyped, ReaderInv, Py!Deliver
  <2> QED
    BY <2>1, <2>2
<1>6. CASE Py!Push
  <2>1. CallsInv'
    BY <1>6, NothingMoves
      DEF Py!Push, callVars
  <2>a. inbox' \in Seq(Frame \cup {Sentinel})
    BY <1>6, MailGrows DEF Py!Push, ReaderInv
  <2>2. RestTyped' /\ ReaderInv'
    BY <1>6, <2>a DEF RestTyped, ReaderInv, Py!Push
  <2> QED
    BY <2>1, <2>2
<1>7. CASE Py!Fail
  <2>0. target = NoCall /\ closing = {}
    BY <1>7 DEF ReaderInv, Py!Fail
  <2>1. CallsInv'
    BY <1>7, <2>0, TableIsTaken
      DEF Py!Fail, Py!EmptyTable, Py!Waiting, EmptyTable, Waiting, callVars
  <2>2. RestTyped' /\ ReaderInv'
    BY <1>7 DEF RestTyped, ReaderInv, Py!Fail
  <2> QED
    BY <2>1, <2>2
<1>8. ASSUME NEW c \in Call, Py!FailOne(c) PROVE IInv'
  <2>0. target = NoCall /\ c \in closing
    BY <1>8 DEF ReaderInv, Py!FailOne
  <2>1. CallsInv'
    BY <1>8, <2>0, OneFails DEF Py!FailOne
  <2>2. RestTyped' /\ ReaderInv'
    BY <1>8 DEF RestTyped, ReaderInv, Py!FailOne
  <2> QED
    BY <2>1, <2>2
<1>9. CASE Py!PushEnd
  <2>1. CallsInv'
    BY <1>9, NothingMoves
      DEF Py!PushEnd, callVars
  <2>a. inbox' \in Seq(Frame \cup {Sentinel})
    BY <1>9, MailGrows DEF Py!PushEnd
  <2>2. RestTyped' /\ ReaderInv'
    BY <1>9, <2>a DEF RestTyped, ReaderInv, Py!PushEnd
  <2> QED
    BY <2>1, <2>2
<1> QED
  BY <1>1, <1>2, <1>3, <1>4, <1>5, <1>6, <1>7, <1>8, <1>9
     DEF Py!ReaderStep

\* The task of a Rust call, and what its guard spawns.
LEMMA RustCallStep ==
  ASSUME IInv, InRust, UNCHANGED lang, ~ReuseHooked, NEW c \in Call, Rust!CallStep(c)
  PROVE  IInv'
<1> USE DEF IInv, InRust, Rust!netVars, Rust!tableVars, Rust!callVars, Rust!readerVars,
        Rust!mailVars, Rust!Goto, Goto, Rust!Settled, Settled, Rust!Registered,
        Registered, Rust!Removed, Removed
<1>1. CASE Rust!Refused(c)
  <2>1. CallsInv'
    BY <1>1, CallIsRefused
      DEF Rust!Refused
  <2>2. RestTyped' /\ ReaderInv'
    BY <1>1 DEF RestTyped, ReaderInv, Rust!Refused
  <2> QED
    BY <2>1, <2>2
<1>2. CASE Rust!Register(c)
  <2>0. Alone(c) /\ Unhooked(c)
    BY <1>2, UnderWay DEF Rust!Register, Idle, Done
  <2>1. CallsInv'
    BY <1>2, <2>0, CallRegisters DEF Rust!Register
  <2>2. RestTyped' /\ ReaderInv'
    BY <1>2 DEF RestTyped, ReaderInv, Rust!Register
  <2> QED
    BY <2>1, <2>2
<1>3. CASE Rust!EncodeFails(c)
  <2>1. CallsInv'
    BY <1>3, CallMoves, Ids DEF Rust!EncodeFails, CallsInv, TableInv, MayWait, InRust, Idle, Done
  <2>2. RestTyped' /\ ReaderInv'
    BY <1>3 DEF RestTyped, ReaderInv, Rust!EncodeFails
  <2> QED
    BY <2>1, <2>2
<1>4. CASE Rust!LockSend(c)
  <2>1. CallsInv'
    <3>1. CASE pc[c] = "send"
      BY <1>4, <3>1, CallMoves, Ids
        DEF Rust!LockSend, CallsInv, TableInv, MayWait, InRust, Idle, Done
    <3>2. CASE pc[c] = "cancelSend"
      BY <1>4, <3>2, CallMoves, Ids
        DEF Rust!LockSend, CallsInv, TableInv, MayWait, InRust, Idle, Done
    <3> QED
      BY <1>4, <3>1, <3>2 DEF Rust!LockSend
  <2>2. RestTyped' /\ ReaderInv'
    BY <1>4 DEF RestTyped, ReaderInv, Rust!LockSend
  <2> QED
    BY <2>1, <2>2
<1>5. CASE Rust!WriteOk(c)
  <2>1. CallsInv'
    <3>1. CASE pc[c] = "write"
      BY <1>5, <3>1, CallMoves, Ids
        DEF Rust!WriteOk, CallsInv, TableInv, MayWait, InRust, Idle, Done
    <3>2. CASE pc[c] = "cancelWrite"
      BY <1>5, <3>2, CallMoves, Ids
        DEF Rust!WriteOk, CallsInv, TableInv, MayWait, InRust, Idle, Done
    <3> QED
      BY <1>5, <3>1, <3>2 DEF Rust!WriteOk
  <2>a. out' \in Seq(Call \X {"call", "cancel"})
    BY <1>5, OutGrows DEF Rust!WriteOk, Rust!Writes
  <2>2. RestTyped' /\ ReaderInv'
    BY <1>5, <2>a, Ids DEF RestTyped, ReaderInv, Rust!WriteOk
  <2> QED
    BY <2>1, <2>2
<1>6. CASE Rust!WriteFails(c)
  <2>1. CallsInv'
    <3>1. CASE pc[c] = "write"
      BY <1>6, <3>1, CallMoves, Ids
        DEF Rust!WriteFails, CallsInv, TableInv, MayWait, InRust, Idle, Done
    <3>2. CASE pc[c] = "cancelWrite"
      BY <1>6, <3>2, CallMoves, Ids
        DEF Rust!WriteFails, CallsInv, TableInv, MayWait, InRust, Idle, Done
    <3> QED
      BY <1>6, <3>1, <3>2 DEF Rust!WriteFails
  <2>2. RestTyped' /\ ReaderInv'
    BY <1>6 DEF RestTyped, ReaderInv, Rust!WriteFails
  <2> QED
    BY <2>1, <2>2
<1>7. CASE Rust!Unregister(c)
  <2>0. Alone(c)
    BY <1>7, UnderWay DEF Rust!Unregister, Idle, Done
  <2>1. CallsInv'
    BY <1>7, <2>0, CallRemovesEntry DEF Rust!Unregister, InRust, Idle, Done
  <2>2. RestTyped' /\ ReaderInv'
    BY <1>7 DEF RestTyped, ReaderInv, Rust!Unregister
  <2> QED
    BY <2>1, <2>2
<1>8. CASE Rust!Resume(c)
  <2>1. CallsInv'
    BY <1>8, CallResumes
      DEF Rust!Resume
  <2>2. RestTyped' /\ ReaderInv'
    BY <1>8 DEF RestTyped, ReaderInv, Rust!Resume
  <2> QED
    BY <2>1, <2>2
<1>9. CASE Rust!Drop(c)
  <2>0. Alone(c)
    BY <1>9, UnderWay DEF Rust!Drop, Idle, Done
  <2>1. CallsInv'
    BY <1>9, <2>0, CallRemovesEntry DEF Rust!Drop, InRust, Idle, Done
  <2>2. RestTyped' /\ ReaderInv'
    BY <1>9 DEF RestTyped, ReaderInv, Rust!Drop
  <2> QED
    BY <2>1, <2>2
<1>10. CASE Rust!HookCancel(c)
  <2>0. Alone(c)
    BY <1>10, UnderWay DEF Rust!HookCancel
  <2>1. CallsInv'
    BY <1>10, <2>0, GuardCancels DEF Rust!HookCancel
  <2>2. RestTyped' /\ ReaderInv'
    BY <1>10 DEF RestTyped, ReaderInv, Rust!HookCancel
  <2> QED
    BY <2>1, <2>2
<1>11. CASE Rust!HookSend(c)
  <2>1. CallsInv'
    BY <1>11, GuardWrites
      DEF Rust!HookSend, callVars
  <2>a. out' \in Seq(Call \X {"call", "cancel"})
    BY <1>11, OutGrows DEF Rust!HookSend, Rust!Writes
  <2>2. RestTyped' /\ ReaderInv'
    BY <1>11, <2>a, Ids DEF RestTyped, ReaderInv, Rust!HookSend
  <2> QED
    BY <2>1, <2>2
<1> QED
  BY <1>1, <1>2, <1>3, <1>4, <1>5, <1>6, <1>7, <1>8, <1>9, <1>10, <1>11
     DEF Rust!CallStep

\* What a Rust application does.
LEMMA RustAppStep ==
  ASSUME IInv, lang = "Rust", UNCHANGED lang, ~ReuseHooked, Rust!AppStep
  PROVE  IInv'
<1> USE DEF IInv, Rust!netVars, Rust!tableVars, Rust!callVars, Rust!readerVars,
        Rust!mailVars, Rust!Goto, Goto
<1>0. ASSUME NEW c \in Call, Rust!MayUse(c) PROVE Alone(c) /\ Unhooked(c)
  BY <1>0 DEF Rust!MayUse, Rust!Done, Done, Idle, Alone, Unhooked
<1>1. ASSUME NEW c \in Call, Rust!Enter(c) PROVE IInv'
  <2>1. CallsInv'
    BY <1>1, CallEnters, <1>0
      DEF Rust!Enter
  <2>2. RestTyped' /\ ReaderInv'
    BY <1>1 DEF RestTyped, ReaderInv, Rust!Enter
  <2> QED
    BY <2>1, <2>2
<1>2. ASSUME NEW c \in Call, Rust!TimeOut(c) PROVE IInv'
  <2>1. CallsInv'
    BY <1>2, CallMoves, Ids DEF Rust!TimeOut, CallsInv, TableInv, MayWait, InRust, Idle, Done
  <2>2. RestTyped' /\ ReaderInv'
    BY <1>2 DEF RestTyped, ReaderInv, Rust!TimeOut
  <2> QED
    BY <2>1, <2>2
<1>3. ASSUME NEW c \in Call, Rust!DroppedBare(c) PROVE IInv'
  <2>1. CallsInv'
    BY <1>3, CallMoves, Ids DEF Rust!DroppedBare, CallsInv, TableInv, MayWait, InRust, Idle, Done
  <2>a. out' \in Seq(Call \X {"call", "cancel"})
    BY <1>3, OutGrows DEF Rust!DroppedBare, Rust!Writes
  <2>2. RestTyped' /\ ReaderInv'
    BY <1>3, <2>a, Ids DEF RestTyped, ReaderInv, Rust!DroppedBare
  <2> QED
    BY <2>1, <2>2
<1>4. ASSUME NEW c \in Call, Rust!DroppedWaiting(c) PROVE IInv'
  <2>0. Alone(c)
    BY <1>4, UnderWay DEF Rust!DroppedWaiting, Idle, Done
  <2>1. CallsInv'
    BY <1>4, <2>0, GuardSpawns DEF Rust!DroppedWaiting, InRust
  <2>2. RestTyped' /\ ReaderInv'
    BY <1>4 DEF RestTyped, ReaderInv, Rust!DroppedWaiting
  <2> QED
    BY <2>1, <2>2
<1>5. CASE Rust!Receive
  <2>1. CallsInv'
    BY <1>5, NothingMoves
      DEF Rust!Receive, callVars
  <2>2. RestTyped' /\ ReaderInv'
    BY <1>5 DEF RestTyped, ReaderInv, Rust!Receive
  <2> QED
    BY <2>1, <2>2
<1>6. CASE Rust!StopWaiting
  <2>1. CallsInv'
    BY <1>6, NothingMoves
      DEF Rust!StopWaiting, callVars
  <2>2. RestTyped' /\ ReaderInv'
    BY <1>6 DEF RestTyped, ReaderInv, Rust!StopWaiting
  <2> QED
    BY <2>1, <2>2
<1>7. CASE Rust!Close
  <2>1. CallsInv'
    BY <1>7, NothingMoves
      DEF Rust!Close, callVars
  <2>2. RestTyped' /\ ReaderInv'
    BY <1>7 DEF RestTyped, ReaderInv, Rust!Close
  <2> QED
    BY <2>1, <2>2
<1> QED
  BY <1>1, <1>2, <1>3, <1>4, <1>5, <1>6, <1>7
     DEF Rust!AppStep

\* What the handler of a Rust server does, and the tasks it has spawned.
LEMMA RustServerAppStep ==
  ASSUME IInv, lang = "Rust server", UNCHANGED lang, ~ReuseHooked, Rust!ServerAppStep
  PROVE  IInv'
<1> USE DEF IInv, Rust!netVars, Rust!tableVars, Rust!callVars, Rust!readerVars,
        Rust!mailVars, Rust!Goto, Goto
<1>0. ASSUME NEW c \in Call, Rust!MayUse(c) PROVE Alone(c) /\ Unhooked(c)
  BY <1>0 DEF Rust!MayUse, Rust!Done, Done, Idle, Alone, Unhooked
<1>1. ASSUME NEW c \in Call, Rust!ServerEnter(c) PROVE IInv'
  <2>1. CallsInv'
    BY <1>1, CallEnters, <1>0
      DEF Rust!ServerEnter, Rust!Enter
  <2>2. RestTyped' /\ ReaderInv'
    BY <1>1 DEF RestTyped, ReaderInv, Rust!ServerEnter, Rust!Enter
  <2> QED
    BY <2>1, <2>2
<1>2. ASSUME NEW c \in Call, Rust!TimeOut(c) PROVE IInv'
  <2>1. CallsInv'
    BY <1>2, CallMoves, Ids DEF Rust!TimeOut, CallsInv, TableInv, MayWait, InRust, Idle, Done
  <2>2. RestTyped' /\ ReaderInv'
    BY <1>2 DEF RestTyped, ReaderInv, Rust!TimeOut
  <2> QED
    BY <2>1, <2>2
<1>3. ASSUME NEW c \in Call, Rust!DroppedBare(c) PROVE IInv'
  <2>1. CallsInv'
    BY <1>3, CallMoves, Ids DEF Rust!DroppedBare, CallsInv, TableInv, MayWait, InRust, Idle, Done
  <2>a. out' \in Seq(Call \X {"call", "cancel"})
    BY <1>3, OutGrows DEF Rust!DroppedBare, Rust!Writes
  <2>2. RestTyped' /\ ReaderInv'
    BY <1>3, <2>a, Ids DEF RestTyped, ReaderInv, Rust!DroppedBare
  <2> QED
    BY <2>1, <2>2
<1>4. ASSUME NEW c \in Call, Rust!DroppedWaiting(c) PROVE IInv'
  <2>0. Alone(c)
    BY <1>4, UnderWay DEF Rust!DroppedWaiting, Idle, Done
  <2>1. CallsInv'
    BY <1>4, <2>0, GuardSpawns DEF Rust!DroppedWaiting, InRust
  <2>2. RestTyped' /\ ReaderInv'
    BY <1>4 DEF RestTyped, ReaderInv, Rust!DroppedWaiting
  <2> QED
    BY <2>1, <2>2
<1>5. CASE Rust!Receive
  <2>1. CallsInv'
    BY <1>5, NothingMoves
      DEF Rust!Receive, callVars
  <2>2. RestTyped' /\ ReaderInv'
    BY <1>5 DEF RestTyped, ReaderInv, Rust!Receive
  <2> QED
    BY <2>1, <2>2
<1>6. CASE Rust!StopWaiting
  <2>1. CallsInv'
    BY <1>6, NothingMoves
      DEF Rust!StopWaiting, callVars
  <2>2. RestTyped' /\ ReaderInv'
    BY <1>6 DEF RestTyped, ReaderInv, Rust!StopWaiting
  <2> QED
    BY <2>1, <2>2
<1>7. CASE Rust!Close
  <2>1. CallsInv'
    BY <1>7, NothingMoves
      DEF Rust!Close, callVars
  <2>2. RestTyped' /\ ReaderInv'
    BY <1>7 DEF RestTyped, ReaderInv, Rust!Close
  <2> QED
    BY <2>1, <2>2
<1> QED
  BY <1>1, <1>2, <1>3, <1>4, <1>5, <1>6, <1>7
     DEF Rust!ServerAppStep

\* The reader of a Rust client, and the end its pings bring about.
LEMMA RustReadStep ==
  ASSUME IInv, lang = "Rust", UNCHANGED lang, ~ReuseHooked, Rust!ReaderStep
  PROVE  IInv'
<1> USE DEF IInv, Rust!netVars, Rust!tableVars, Rust!callVars, Rust!readerVars,
        Rust!mailVars, Rust!Settled, Settled, Rust!Removed, Removed
<1>0. Rust!ResolvedBy(waiters, held) = ResolvedBy(waiters, held)
  BY DEF Rust!ResolvedBy, ResolvedBy, Rust!Answers, Answers
<1>1. CASE Rust!ReadFrame
  <2>1. CallsInv'
    BY <1>1, NothingMoves
      DEF Rust!ReadFrame, callVars
  <2>a. Head(wire) \in Frame /\ Tail(wire) \in Seq(Frame)
    BY <1>1, WireShrinks DEF Rust!ReadFrame, Rust!CanRead
  <2>2. RestTyped' /\ ReaderInv'
    BY <1>1, <2>a DEF RestTyped, ReaderInv, Rust!ReadFrame
  <2> QED
    BY <2>1, <2>2
<1>2. CASE Rust!ReadEnds
  <2>1. CallsInv'
    BY <1>2, NothingMoves
      DEF Rust!ReadEnds, callVars
  <2>a. wire' \in Seq(Frame)
    BY <1>2, WireShrinks DEF RestTyped, Rust!ReadEnds, Rust!CanRead
  <2>2. RestTyped' /\ ReaderInv'
    BY <1>2, <2>a DEF RestTyped, ReaderInv, Rust!ReadEnds
  <2> QED
    BY <2>1, <2>2
<1>3. CASE Rust!Route
  <2> DEFINE d == ResolvedBy(waiters, held)
  <2>0. held \in Frame
    BY <1>3 DEF ReaderInv, Rust!Route
  <2>3. ASSUME d # NoCall
        PROVE  d \in Call /\ waiters[IdOf[d]] = d /\ waiters' = Removed(waiters, IdOf[d])
    BY <1>3, <1>0, <2>0, <2>3, Resolved DEF Rust!Route
  <2>1. CallsInv'
    <3>1. CASE d = NoCall
      BY <1>3, <1>0, <3>1, NothingMoves DEF Rust!Route, callVars
    <3>2. CASE d # NoCall /\ Rust!Listens(d)
      BY <1>3, <1>0, <2>0, <3>2, <2>3, CallIsAnswered DEF Rust!Route, Rust!Answered, Answered
    <3>3. CASE d # NoCall /\ ~Rust!Listens(d)
      BY <1>3, <1>0, <3>3, <2>3, ReplyIsDropped DEF Rust!Route, Rust!Listens, InRust
    <3> QED
      BY <3>1, <3>2, <3>3
  <2>a. inbox' \in Seq(Frame \cup {Sentinel})
    <3>1. CASE d = NoCall
      BY <1>3, <1>0, <2>0, <3>1, MailGrows DEF Rust!Route
    <3>2. CASE d # NoCall
      BY <1>3, <1>0, <3>2 DEF Rust!Route, RestTyped
    <3> QED
      BY <3>1, <3>2
  <2>2. RestTyped' /\ ReaderInv'
    BY <1>3, <2>a DEF RestTyped, ReaderInv, Rust!Route
  <2> QED
    BY <2>1, <2>2
<1>4. CASE Rust!CloseAll
  <2>0. promise' = Settled(Waiting(waiters), "closed")
    BY <1>4, WaitersWait DEF Rust!CloseAll, Rust!Waiting, Waiting
  <2>1. CallsInv'
    BY <1>4, <2>0, AllFail DEF Rust!CloseAll, Rust!EmptyTable, EmptyTable
  <2>2. RestTyped' /\ ReaderInv'
    BY <1>4 DEF RestTyped, ReaderInv, Rust!CloseAll
  <2> QED
    BY <2>1, <2>2
<1>5. CASE Rust!PingCloses
  <2>1. CallsInv'
    BY <1>5, NothingMoves
      DEF Rust!PingCloses, callVars
  <2>2. RestTyped' /\ ReaderInv'
    BY <1>5 DEF RestTyped, ReaderInv, Rust!PingCloses
  <2> QED
    BY <2>1, <2>2
<1> QED
  BY <1>1, <1>2, <1>3, <1>4, <1>5
     DEF Rust!ReaderStep

\* The read loop of a Rust server.
LEMMA RustServerReadStep ==
  ASSUME IInv, lang = "Rust server", UNCHANGED lang, ~ReuseHooked, Rust!ServerReadStep
  PROVE  IInv'
<1> USE DEF IInv, Rust!netVars, Rust!tableVars, Rust!callVars, Rust!readerVars,
        Rust!mailVars, Rust!Settled, Settled, Rust!Removed, Removed
<1>0. Rust!ResolvedBy(waiters, held) = ResolvedBy(waiters, held)
  BY DEF Rust!ResolvedBy, ResolvedBy, Rust!Answers, Answers
<1>1. CASE Rust!ReadFrame
  <2>1. CallsInv'
    BY <1>1, NothingMoves
      DEF Rust!ReadFrame, callVars
  <2>a. Head(wire) \in Frame /\ Tail(wire) \in Seq(Frame)
    BY <1>1, WireShrinks DEF Rust!ReadFrame, Rust!CanRead
  <2>2. RestTyped' /\ ReaderInv'
    BY <1>1, <2>a DEF RestTyped, ReaderInv, Rust!ReadFrame
  <2> QED
    BY <2>1, <2>2
<1>2. CASE Rust!ServerRejects
  <2>1. CallsInv'
    BY <1>2, NothingMoves
      DEF Rust!ServerRejects, callVars
  <2>a. Head(wire) \in Frame /\ Tail(wire) \in Seq(Frame)
    BY <1>2, WireShrinks DEF Rust!ServerRejects, Rust!CanRead
  <2>2. RestTyped' /\ ReaderInv'
    BY <1>2, <2>a DEF RestTyped, ReaderInv, Rust!ServerRejects
  <2> QED
    BY <2>1, <2>2
<1>3. CASE Rust!ServerReadEnds
  <2>1. CallsInv'
    BY <1>3, NothingMoves
      DEF Rust!ServerReadEnds, callVars
  <2>2. RestTyped' /\ ReaderInv'
    BY <1>3 DEF RestTyped, ReaderInv, Rust!ServerReadEnds
  <2> QED
    BY <2>1, <2>2
<1>4. CASE Rust!ServerRoute
  <2> DEFINE d == ResolvedBy(waiters, held)
  <2>0. held \in Frame
    BY <1>4 DEF ReaderInv, Rust!ServerRoute
  <2>3. ASSUME d # NoCall
        PROVE  d \in Call /\ waiters[IdOf[d]] = d /\ waiters' = Removed(waiters, IdOf[d])
    BY <1>4, <1>0, <2>0, <2>3, Resolved DEF Rust!ServerRoute
  <2>1. CallsInv'
    <3>1. CASE d = NoCall
      BY <1>4, <1>0, <3>1, NothingMoves DEF Rust!ServerRoute, callVars
    <3>2. CASE d # NoCall /\ Rust!Listens(d)
      BY <1>4, <1>0, <2>0, <3>2, <2>3, CallIsAnswered DEF Rust!ServerRoute, Rust!Answered, Answered
    <3>3. CASE d # NoCall /\ ~Rust!Listens(d)
      BY <1>4, <1>0, <3>3, <2>3, ReplyIsDropped DEF Rust!ServerRoute, Rust!Listens, InRust
    <3> QED
      BY <3>1, <3>2, <3>3
  <2>a. taken' \in Seq(Frame) /\ rd' \in {"handle", "read"}
    <3>1. CASE d = NoCall
      BY <1>4, <1>0, <2>0, <3>1, MailGrows DEF Rust!ServerRoute
    <3>2. CASE d # NoCall
      BY <1>4, <1>0, <3>2 DEF Rust!ServerRoute, RestTyped
    <3> QED
      BY <3>1, <3>2
  <2>2. RestTyped' /\ ReaderInv'
    BY <1>4, <2>a DEF RestTyped, ReaderInv, Rust!ServerRoute
  <2> QED
    BY <2>1, <2>2
<1>5. CASE Rust!HandlerReturns
  <2>1. CallsInv'
    BY <1>5, NothingMoves
      DEF Rust!HandlerReturns, callVars
  <2>2. RestTyped' /\ ReaderInv'
    BY <1>5 DEF RestTyped, ReaderInv, Rust!HandlerReturns
  <2> QED
    BY <2>1, <2>2
<1>6. CASE Rust!ServerCloses
  <2>1. CallsInv'
    BY <1>6, NothingMoves
      DEF Rust!ServerCloses, callVars
  <2>2. RestTyped' /\ ReaderInv'
    BY <1>6 DEF RestTyped, ReaderInv, Rust!ServerCloses
  <2> QED
    BY <2>1, <2>2
<1>7. CASE Rust!CloseAll
  <2>0. promise' = Settled(Waiting(waiters), "closed")
    BY <1>7, WaitersWait DEF Rust!CloseAll, Rust!Waiting, Waiting
  <2>1. CallsInv'
    BY <1>7, <2>0, AllFail DEF Rust!CloseAll, Rust!EmptyTable, EmptyTable
  <2>2. RestTyped' /\ ReaderInv'
    BY <1>7 DEF RestTyped, ReaderInv, Rust!CloseAll
  <2> QED
    BY <2>1, <2>2
<1> QED
  BY <1>1, <1>2, <1>3, <1>4, <1>5, <1>6, <1>7
     DEF Rust!ServerReadStep

\* The receiver of a Rust client, the application a Rust server tells of the
\* end, and the pings.
LEMMA OtherSteps ==
  ASSUME IInv, UNCHANGED lang,
         \/ InRust /\ (Rust!RecvSome \/ Rust!RecvNone \/ Rust!ClosedTold)
         \/ lang = "Rust" /\ Rust!PingAborts
         \/ lang = "Rust server" /\ Rust!ServerGivesUp
         \/ LibraryPing
  PROVE  IInv'
<1> USE DEF IInv, netVars, tableVars, callVars, readerVars, mailVars,
        Rust!netVars, Rust!tableVars, Rust!callVars, Rust!readerVars, Rust!mailVars
<1>1. CallsInv'
  <2>1. UNCHANGED <<waiters, callVars, hooks, target, closing>>
    BY DEF Rust!RecvSome, Rust!RecvNone, Rust!ClosedTold, Rust!PingAborts, Rust!ServerGivesUp,
      LibraryPing
  <2> QED
    BY <2>1, NothingMoves
<1>2. CASE Rust!RecvSome
  <2>a. inbox' \in Seq(Frame \cup {Sentinel}) /\ taken' \in Seq(Frame)
    <3>1. CASE inbox = <<>>
      BY <1>2, <3>1 DEF RestTyped, Rust!RecvSome, Rust!Take
    <3>2. CASE inbox # <<>> /\ Head(inbox) # Sentinel
      <4>1. taken' = Append(taken, Head(inbox)) /\ inbox' = Tail(inbox)
        BY <1>2, <3>2 DEF Rust!RecvSome, Rust!Take
      <4> QED
        BY <3>2, <4>1, InboxShrinks
    <3> QED
      BY <1>2, <3>1, <3>2 DEF Rust!RecvSome, Rust!Take
  <2>b. rx' \in {"idle", "waiting", "told"}
    BY <1>2 DEF Rust!RecvSome, Rust!Take
  <2>2. RestTyped' /\ ReaderInv'
    BY <1>2, <2>a, <2>b DEF RestTyped, ReaderInv, Rust!RecvSome
  <2> QED
    BY <1>1, <2>2
<1>3. CASE Rust!RecvNone
  BY <1>1, <1>3 DEF Rust!RecvNone, RestTyped, ReaderInv
<1>4. CASE Rust!ClosedTold
  BY <1>1, <1>4 DEF Rust!ClosedTold, RestTyped, ReaderInv
<1>5. CASE lang = "Rust" /\ Rust!PingAborts
  BY <1>1, <1>5 DEF Rust!PingAborts, RestTyped, ReaderInv
<1>6. CASE lang = "Rust server" /\ Rust!ServerGivesUp
  BY <1>1, <1>6 DEF Rust!ServerGivesUp, RestTyped, ReaderInv
<1>7. CASE LibraryPing
  BY <1>1, <1>7 DEF LibraryPing, RestTyped, ReaderInv
<1> QED
  BY <1>2, <1>3, <1>4, <1>5, <1>6, <1>7

\* The peer and the network touch no call.
LEMMA EnvStep == ASSUME IInv, Env PROVE IInv'
<1> USE DEF IInv, netVars, tableVars, callVars, readerVars, mailVars
<1>1. UNCHANGED lang /\ CallsInv'
  <2>1. UNCHANGED <<waiters, callVars, hooks, target, closing, lang>>
    BY DEF endVars, Env, PeerSend, PeerEnds
  <2> QED
    BY <2>1, NothingMoves
<1>2. ASSUME NEW f \in Frame, PeerSend(f) PROVE IInv'
  BY <1>1, <1>2 DEF PeerSend, RestTyped, ReaderInv
<1>3. CASE PeerEnds
  <2>1. wire' \in {wire, <<>>} /\ peer' \in {"gone", "silent"}
    BY <1>3 DEF PeerEnds
  <2>2. wire \in Seq(Frame) /\ <<>> \in Seq(Frame)
    BY DEF RestTyped
  <2> QED
    BY <1>1, <1>3, <2>1, <2>2 DEF PeerEnds, RestTyped, ReaderInv
<1> QED
  BY <1>2, <1>3 DEF endVars, Env

-----------------------------------------------------------------------------
\* Every step keeps the invariant.
LEMMA NextIInv == ASSUME IInv, [RuntimesNext]_allVars, ~ReuseHooked PROVE IInv'
<1>1. CASE Env
  BY <1>1, EnvStep
<1>2. CASE App
  BY <1>2, TSAppStep, DartAppStep, PyAppStep, RustAppStep, RustServerAppStep DEF endVars, App, In
<1>3. ASSUME NEW c \in Call, Calling(c) PROVE IInv'
  BY <1>3, TSCallStep, DartCallStep, PyCallStep, RustCallStep DEF endVars, Calling, In, InRust
<1>4. CASE Reading
  BY <1>4, TSReadStep, DartReadStep, PyReadStep, RustReadStep, RustServerReadStep DEF endVars, Reading, In
<1>5. CASE Receiving
  BY <1>5, PyReceiverStep, OtherSteps DEF endVars, Receiving, In, InRust, Rust!ReceiverStep
<1>6. CASE Pinging
  BY <1>6, OtherSteps DEF endVars, Pinging, In, InRust
<1>7. CASE UNCHANGED allVars
  <2>1. UNCHANGED <<waiters, callVars, hooks, target, closing, lang>>
    BY <1>7 DEF endVars, allVars, vars, tableVars, callVars, readerVars
  <2>2. CallsInv'
    BY <2>1, NothingMoves
  <2> QED
    BY <1>7, <2>2
      DEF endVars, allVars, vars, netVars, tableVars, readerVars, mailVars, IInv, RestTyped, ReaderInv
<1> QED
  BY <1>1, <1>2, <1>3, <1>4, <1>5, <1>6, <1>7 DEF RuntimesNext

\* Whichever language it is in, an end keeps IInv (RuntimesSpec, every step of
\* every runtime).
LEMMA RuntimesInvariant == ASSUME ~ReuseHooked PROVE RuntimesSpec => []IInv
<1>1. IInv /\ [RuntimesNext]_allVars => IInv'
  BY NextIInv
<1> QED
  BY InitIInv, <1>1, PTL DEF RuntimesSpec

\* The state of an end always has its declared shape, whichever runtime it is
\* one of.
THEOREM TypeCorrect == ASSUME ~ReuseHooked PROVE RuntimesSpec => []TypeOK
<1>1. IInv => TypeOK
  BY DEF IInv, CallsInv, CallsTyped, RestTyped, ReaderInv, Languages, TypeOK
<1> QED
  BY RuntimesInvariant, <1>1, PTL

\* No runtime forgets a call that waits: it is in the table, or in the hands of
\* the reader that will settle it (register, resolve, abandon and close_all).
THEOREM NoCallForgottenAlways == ASSUME ~ReuseHooked PROVE RuntimesSpec => []NoCallForgotten
<1>1. IInv => NoCallForgotten
  BY DEF IInv, CallsInv, WaitingInv, NoCallForgotten
<1> QED
  BY RuntimesInvariant, <1>1, PTL

-----------------------------------------------------------------------------
\* A step that writes nothing, and after which no more calls may be cancelled.
LEMMA QuietStep ==
  ASSUME IInv, CancelInv, UNCHANGED out, \A c \in Call : MayCancel(c)' => MayCancel(c),
         \A c \in Call : pc'[c] \in Early => pc[c] \in Early
  PROVE  CancelInv'
<1>1. CancelNamesItsCall'
  BY DEF CancelInv, CancelNamesItsCall
<1>2. ASSUME NEW c \in Call, MayCancel(c)' PROVE Named(c)'
  BY <1>2 DEF CancelInv, Named
<1>3. ASSUME NEW c \in Call, pc'[c] \in Early PROVE \A j \in DOMAIN out' : out'[j][1] # c
  BY <1>3 DEF CancelInv
<1> QED
  BY <1>1, <1>2, <1>3 DEF CancelInv

\* What Append does, index by index.
LEMMA OutAppends ==
  ASSUME IInv, NEW m \in Call \X {"call", "cancel"}, out' = Append(out, m)
  PROVE  /\ Len(out) \in Nat /\ DOMAIN out = 1..Len(out) /\ DOMAIN out' = 1..(Len(out) + 1)
         /\ \A i \in DOMAIN out : out'[i] = out[i] /\ out[i] \in Call \X {"call", "cancel"}
         /\ out'[Len(out) + 1] = m
  BY DEF IInv, RestTyped

\* The frame of a call is written: it is now the last one under its id, and no
\* call that may be cancelled has the same id.
LEMMA CallIsWritten ==
  ASSUME IInv, CancelInv, NEW c \in Call, pc[c] \in Early, Alone(c), Unhooked(c),
         out' = Append(out, <<c, "call">>), pc'[c] \notin Early, UNCHANGED lang,
         \A d \in Call \ {c} : (MayCancel(d)' => MayCancel(d)) /\ pc'[d] = pc[d]
  PROVE  CancelInv'
<1> DEFINE n == Len(out)
<1>0. /\ n \in Nat /\ DOMAIN out = 1..n /\ DOMAIN out' = 1..(n + 1)
      /\ \A i \in DOMAIN out : out'[i] = out[i] /\ out[i] \in Call \X {"call", "cancel"}
      /\ out'[n + 1] = <<c, "call">>
  BY OutAppends
<1> HIDE DEF n
<1>1. CancelNamesItsCall'
  <2> SUFFICES ASSUME NEW i \in DOMAIN out', out'[i][2] = "cancel"
               PROVE  /\ \A j \in DOMAIN out' : out'[j] = out'[i] => j = i
                      /\ \E j \in 1..(i - 1) :
                           /\ out'[j] = <<out'[i][1], "call">>
                           /\ \A k \in (j + 1)..(i - 1) :
                                out'[k][2] = "call" => IdOf[out'[k][1]] # IdOf[out'[i][1]]
    BY DEF CancelNamesItsCall
  <2>1. i \in DOMAIN out /\ i \in 1..n /\ out[i][2] = "cancel" /\ out'[i] = out[i]
    BY <1>0
  <2>2. \A j \in DOMAIN out' : out'[j] = out'[i] => j = i
    BY <1>0, <2>1 DEF CancelInv, CancelNamesItsCall
  <2>3. PICK j \in 1..(i - 1) :
           /\ out[j] = <<out[i][1], "call">>
           /\ \A k \in (j + 1)..(i - 1) : out[k][2] = "call" => IdOf[out[k][1]] # IdOf[out[i][1]]
    BY <2>1 DEF CancelInv, CancelNamesItsCall
  <2>4. \A k \in 1..(i - 1) : out'[k] = out[k]
    BY <1>0, <2>1
  <2>5. \A k \in (j + 1)..(i - 1) : k \in 1..(i - 1)
    BY <1>0, <2>1
  <2>6. out'[j] = <<out'[i][1], "call">>
    BY <2>1, <2>3, <2>4
  <2>7. ASSUME NEW k \in (j + 1)..(i - 1), out'[k][2] = "call"
        PROVE  IdOf[out'[k][1]] # IdOf[out'[i][1]]
    <3>1. out'[k] = out[k]
      BY <2>4, <2>5
    <3> QED
      BY <2>1, <2>3, <2>7, <3>1
  <2> QED
    BY <2>2, <2>6, <2>7
<1>2. ASSUME NEW d \in Call, MayCancel(d)' PROVE Named(d)'
  <2>1. CASE d = c
    <3>1. \A j \in DOMAIN out : out[j] # <<c, "cancel">>
      BY DEF CancelInv
    <3> QED
      BY <1>0, <2>1, <3>1 DEF Named
  <2>2. CASE d # c
    <3>1. MayCancel(d) /\ Named(d)
      BY <1>2, <2>2 DEF CancelInv
    <3>2. IdOf[d] # IdOf[c]
      <4>1. pc[d] \notin Idle => IdOf[d] # IdOf[c]
        BY <2>2 DEF Alone
      <4>2. CASE lang \in {"TypeScript", "Dart"}
        BY <3>1, <4>1, <4>2, Ids
          DEF MayCancel, IInv, CallsInv, TableInv, MayWait, InRust, Idle, Done
      <4>3. CASE lang \notin {"TypeScript", "Dart"}
        BY <2>2, <3>1, <4>1, <4>3 DEF MayCancel, Unhooked, Idle, Done
      <4> QED
        BY <4>2, <4>3
    <3>3. PICK j \in DOMAIN out :
             /\ out[j] = <<d, "call">>
             /\ \A k \in DOMAIN out : k > j /\ out[k][2] = "call" => IdOf[out[k][1]] # IdOf[d]
      BY <3>1 DEF Named
    <3>4. /\ j \in DOMAIN out' /\ out'[j] = <<d, "call">>
          /\ \A k \in DOMAIN out' : k > j /\ out'[k][2] = "call" => IdOf[out'[k][1]] # IdOf[d]
      BY <1>0, <3>2, <3>3
    <3>5. \A k \in DOMAIN out' : out'[k] # <<d, "cancel">>
      BY <1>0, <3>1 DEF Named
    <3> QED
      BY <3>4, <3>5 DEF Named
  <2> QED
    BY <2>1, <2>2
<1>3. ASSUME NEW d \in Call, pc'[d] \in Early PROVE \A j \in DOMAIN out' : out'[j][1] # d
  BY <1>0, <1>3 DEF CancelInv
<1> QED
  BY <1>1, <1>2, <1>3 DEF CancelInv

\* A cancel frame is written for a call that may be cancelled, and may not be
\* after that.
LEMMA CancelIsWritten ==
  ASSUME IInv, CancelInv, NEW c \in Call, MayCancel(c),
         out' = Append(out, <<c, "cancel">>), ~MayCancel(c)', pc'[c] \notin Early,
         \A d \in Call \ {c} : (MayCancel(d)' => MayCancel(d)) /\ pc'[d] = pc[d]
  PROVE  CancelInv'
<1> DEFINE n == Len(out)
<1>0. /\ n \in Nat /\ DOMAIN out = 1..n /\ DOMAIN out' = 1..(n + 1)
      /\ \A i \in DOMAIN out : out'[i] = out[i] /\ out[i] \in Call \X {"call", "cancel"}
      /\ out'[n + 1] = <<c, "cancel">>
  BY OutAppends
<1> HIDE DEF n
<1>1. Named(c)
  BY DEF CancelInv
<1>2. CancelNamesItsCall'
  <2> SUFFICES ASSUME NEW i \in DOMAIN out', out'[i][2] = "cancel"
               PROVE  /\ \A j \in DOMAIN out' : out'[j] = out'[i] => j = i
                      /\ \E j \in 1..(i - 1) :
                           /\ out'[j] = <<out'[i][1], "call">>
                           /\ \A k \in (j + 1)..(i - 1) :
                                out'[k][2] = "call" => IdOf[out'[k][1]] # IdOf[out'[i][1]]
    BY DEF CancelNamesItsCall
  <2>1. CASE i \in DOMAIN out
    <3>1. out[i][2] = "cancel" /\ out'[i] = out[i]
      BY <1>0, <2>1
    <3>2. \A j \in DOMAIN out' : out'[j] = out'[i] => j = i
      BY <1>0, <1>1, <2>1, <3>1 DEF CancelInv, CancelNamesItsCall, Named
    <3>3. PICK j \in 1..(i - 1) :
             /\ out[j] = <<out[i][1], "call">>
             /\ \A k \in (j + 1)..(i - 1) : out[k][2] = "call" => IdOf[out[k][1]] # IdOf[out[i][1]]
      BY <2>1, <3>1 DEF CancelInv, CancelNamesItsCall
    <3>4. \A k \in 1..(i - 1) : out'[k] = out[k]
      BY <1>0, <2>1
    <3>5. \A k \in (j + 1)..(i - 1) : k \in 1..(i - 1)
      BY <1>0, <2>1
    <3>6. out'[j] = <<out'[i][1], "call">>
      BY <3>1, <3>3, <3>4
    <3>7. ASSUME NEW k \in (j + 1)..(i - 1), out'[k][2] = "call"
          PROVE  IdOf[out'[k][1]] # IdOf[out'[i][1]]
      <4>1. out'[k] = out[k]
        BY <3>4, <3>5
      <4> QED
        BY <3>1, <3>3, <3>7, <4>1
    <3> QED
      BY <3>2, <3>6, <3>7
  <2>2. CASE i = n + 1
    <3>1. PICK j \in DOMAIN out :
             /\ out[j] = <<c, "call">>
             /\ \A k \in DOMAIN out : k > j /\ out[k][2] = "call" => IdOf[out[k][1]] # IdOf[c]
      BY <1>1 DEF Named
    <3>2. out'[i] = <<c, "cancel">> /\ out'[i][1] = c
      BY <1>0, <2>2
    <3>3. \A k \in DOMAIN out' : out'[k] = out'[i] => k = i
      BY <1>0, <1>1, <2>2, <3>2 DEF Named
    <3>4. /\ j \in 1..(i - 1) /\ out'[j] = <<c, "call">>
          /\ \A k \in (j + 1)..(i - 1) : out'[k][2] = "call" => IdOf[out'[k][1]] # IdOf[c]
      BY <1>0, <2>2, <3>1
    <3> QED
      BY <3>2, <3>3, <3>4
  <2>3. i \in DOMAIN out \/ i = n + 1
    BY <1>0
  <2> QED
    BY <2>1, <2>2, <2>3
<1>3. ASSUME NEW d \in Call, MayCancel(d)' PROVE Named(d)'
  <2>1. d # c /\ Named(d)
    BY <1>3 DEF CancelInv
  <2>2. PICK j \in DOMAIN out :
           /\ out[j] = <<d, "call">>
           /\ \A k \in DOMAIN out : k > j /\ out[k][2] = "call" => IdOf[out[k][1]] # IdOf[d]
    BY <2>1 DEF Named
  <2>3. /\ j \in DOMAIN out' /\ out'[j] = <<d, "call">>
        /\ \A k \in DOMAIN out' : k > j /\ out'[k][2] = "call" => IdOf[out'[k][1]] # IdOf[d]
    BY <1>0, <2>2
  <2>4. \A k \in DOMAIN out' : out'[k] # <<d, "cancel">>
    BY <1>0, <2>1 DEF Named
  <2> QED
    BY <2>3, <2>4 DEF Named
<1>4. ASSUME NEW d \in Call, pc'[d] \in Early PROVE \A j \in DOMAIN out' : out'[j][1] # d
  BY <1>0, <1>4 DEF CancelInv
<1> QED
  BY <1>2, <1>3, <1>4 DEF CancelInv

\* In TypeScript and Dart a call may be cancelled while it is in the table.
LEMMA QuietInTable ==
  ASSUME IInv, CancelInv, lang \in {"TypeScript", "Dart"}, UNCHANGED <<lang, out>>,
         \/ UNCHANGED waiters \/ waiters' = EmptyTable
         \/ \E i \in Id : waiters' = Removed(waiters, i),
         conn' = "open" => conn = "open",
         \A c \in Call : pc'[c] \in Early => pc[c] \in Early
  PROVE  CancelInv'
<1>1. ASSUME NEW c \in Call, waiters'[IdOf[c]] = c PROVE waiters[IdOf[c]] = c
  BY <1>1, Ids DEF IInv, CallsInv, CallsTyped, Table, Removed, EmptyTable
<1>2. \A c \in Call : MayCancel(c)' => MayCancel(c)
  BY <1>1 DEF MayCancel
<1> QED
  BY <1>2, QuietStep

\* In the others it may be once its frame is written, or by its hook.
LEMMA QuietInHand ==
  ASSUME IInv, CancelInv, lang \notin {"TypeScript", "Dart"}, UNCHANGED <<lang, out>>,
         \A c \in Call :
           \/ pc'[c] = pc[c]
           \/ pc[c] \in {"await", "drop", "cancelSend", "cancelWrite"} /\ pc'[c] \notin Early
           \/ pc'[c] \in {"ended", "gaveUp", "unregister"}
           \/ pc[c] \in Early /\ pc'[c] \in Early,
         \A c \in Call, at \in {"cancel", "send"} :
           <<c, at>> \in hooks' => \/ pc[c] = "await"
                                   \/ <<c, "cancel">> \in hooks \/ <<c, "send">> \in hooks
  PROVE  CancelInv'
<1>1. ASSUME NEW c \in Call, MayCancel(c)' PROVE MayCancel(c)
  <2>1. CASE \E at \in {"cancel", "send"} : <<c, at>> \in hooks'
    BY <2>1 DEF MayCancel
  <2>2. CASE pc'[c] \in {"await", "drop", "cancelSend", "cancelWrite"}
    BY <2>2 DEF MayCancel, Early
  <2> QED
    BY <1>1, <2>1, <2>2 DEF MayCancel
<1>2. \A c \in Call : pc'[c] \in Early => pc[c] \in Early
  BY DEF Early
<1> QED
  BY <1>1, <1>2, QuietStep

\* A call that may be cancelled has written its frame.
LEMMA MayNotBeEarly ==
  ASSUME IInv, CancelInv, NEW c \in Call, MayCancel(c) PROVE pc[c] \notin Early
<1>1. Named(c)
  BY DEF CancelInv
<1> QED
  BY <1>1 DEF CancelInv, Named

\* An id names the entry of the call under way, if any.
LEMMA EntryIsOwn ==
  ASSUME IInv, ~InRust, NEW c \in Call, Alone(c) PROVE waiters[IdOf[c]] \in {c, NoCall}
<1> DEFINE d == waiters[IdOf[c]]
<1> SUFFICES ASSUME d # NoCall PROVE d = c
  OBVIOUS
<1>1. d \in Call
  BY Ids DEF IInv, CallsInv, CallsTyped, Table
<1>2. IdOf[d] = IdOf[c] /\ pc[d] \notin Idle
  BY <1>1, Ids DEF IInv, CallsInv, TableInv, MayWait, InRust, Idle, Done
<1> QED
  BY <1>1, <1>2 DEF Alone

\* The frames a TypeScript client writes.
LEMMA TSWrites ==
  ASSUME IInv, CancelInv, lang = "TypeScript", UNCHANGED lang, ~ReuseHooked,
         TS!AppStep \/ TS!ReaderStep \/ \E c \in Call : TS!CallStep(c)
  PROVE  CancelInv'
<1> USE DEF TS!netVars, TS!tableVars, TS!callVars, TS!readerVars, TS!mailVars, TS!Goto,
        Goto, TS!Registered, Registered, TS!Removed, Removed, TS!Writes, Writes,
        TS!CancelsPeer, CancelsPeer
<1>t. /\ pc \in [Call -> CallPC] /\ \A c \in Call : IdOf[c] \in Id
  BY Ids DEF IInv, CallsInv, CallsTyped
<1>m. ASSUME NEW c \in Call, TS!MayUse(c) PROVE Alone(c) /\ Unhooked(c)
  BY <1>m DEF TS!MayUse, TS!Done, Done, Idle, Alone, Unhooked
<1>r. TS!ResolvedBy(waiters, Head(wire)) = ResolvedBy(waiters, Head(wire))
  BY DEF TS!ResolvedBy, ResolvedBy, TS!Answers, Answers
<1>1. ASSUME NEW c \in Call, TS!CallClosed(c) PROVE CancelInv'
  BY <1>1, <1>t, QuietInTable DEF TS!CallClosed, TS!RejectAll, TS!EmptyTable, EmptyTable, Early
<1>2. ASSUME NEW c \in Call, TS!CallThrows(c) PROVE CancelInv'
  BY <1>2, <1>t, QuietInTable DEF TS!CallThrows, Early
<1>3. CASE TS!Receive
  BY <1>3, <1>t, QuietInTable DEF TS!Receive
<1>4. CASE TS!Close
  BY <1>4, <1>t, QuietInTable DEF TS!Close
<1>5. CASE TS!BadMessage
  BY <1>5, <1>t, QuietInTable DEF TS!BadMessage
<1>6. CASE TS!OtherMessage
  BY <1>6, <1>t, QuietInTable DEF TS!OtherMessage
<1>7. CASE TS!CloseEvent
  BY <1>7, <1>t, QuietInTable DEF TS!CloseEvent, TS!RejectAll, TS!EmptyTable, EmptyTable
<1>8. ASSUME NEW c \in Call, TS!Resume(c) PROVE CancelInv'
  BY <1>8, <1>t, QuietInTable DEF TS!Resume, Early
<1>9. CASE TS!ReplyMessage
  <2>1. ResolvedBy(waiters, Head(wire)) \in Call
    BY <1>r, <1>9, WireShrinks, Resolved DEF TS!ReplyMessage, TS!CanRead
  <2> QED
    BY <1>9, <1>r, <2>1, Ids, QuietInTable DEF TS!ReplyMessage
<1>10. ASSUME NEW c \in Call, TS!CallOpen(c) PROVE CancelInv'
  <2>0. Alone(c) /\ Unhooked(c) /\ pc[c] \in Early
    BY <1>10, <1>m DEF TS!CallOpen, Early
  <2>1. \A d \in Call \ {c} : (MayCancel(d)' => MayCancel(d)) /\ pc'[d] = pc[d]
    BY <1>10, Ids DEF TS!CallOpen, MayCancel, IInv, CallsInv, CallsTyped, Table
  <2>2. pc'[c] \notin Early
    BY <1>10 DEF TS!CallOpen, Early, IInv, CallsInv, CallsTyped
  <2>3. CASE conn = "open"
    BY <1>10, <2>0, <2>1, <2>2, <2>3, CallIsWritten DEF TS!CallOpen
  <2>4. CASE conn # "open"
    <3>1. UNCHANGED out /\ \A d \in Call : pc'[d] \in Early => pc[d] \in Early
      BY <1>10, <2>1, <2>2, <2>4 DEF TS!CallOpen
    <3>2. \A d \in Call : MayCancel(d)' => MayCancel(d)
      BY <1>10, <2>4 DEF TS!CallOpen, MayCancel
    <3> QED
      BY <3>1, <3>2, QuietStep
  <2> QED
    BY <2>3, <2>4
<1>11. ASSUME NEW c \in Call, TS!Abandon(c) PROVE CancelInv'
  <2>0. waiters[IdOf[c]] = c
    BY <1>11 DEF TS!Abandon
  <2>1. CASE HasCancel /\ conn = "open"
    <3>1. out' = Append(out, <<c, "cancel">>)
      BY <1>11, <2>1, <2>0 DEF TS!Abandon
    <3>2. MayCancel(c)
      BY <2>0, <2>1 DEF MayCancel
    <3>3. \A d \in Call : pc'[d] = pc[d]
      BY <1>11 DEF TS!Abandon
    <3>4. ~MayCancel(c)' /\ \A d \in Call \ {c} : MayCancel(d)' => MayCancel(d)
      BY <1>11, <2>0, Ids
        DEF TS!Abandon, MayCancel, IInv, CallsInv, CallsTyped, Table
    <3>5. pc[c] \notin Early
      BY <3>2, MayNotBeEarly
    <3> QED
      BY <3>1, <3>2, <3>3, <3>4, <3>5, CancelIsWritten
  <2>2. CASE ~(HasCancel /\ conn = "open")
    <3>1. UNCHANGED out
      <4>1. CASE HasCancel
        BY <1>11, <2>0, <2>2, <4>1 DEF TS!Abandon
      <4>2. CASE ~HasCancel
        BY <1>11, <2>0, <4>2 DEF TS!Abandon
      <4> QED
        BY <4>1, <4>2
    <3>2. waiters' = Removed(waiters, IdOf[c])
      BY <1>11, <2>0, Ids DEF TS!Abandon
    <3> QED
      BY <1>11, <3>1, <3>2, Ids, QuietInTable DEF TS!Abandon
  <2> QED
    BY <2>1, <2>2
<1> QED
  BY <1>1, <1>2, <1>3, <1>4, <1>5, <1>6, <1>7, <1>8, <1>9, <1>10, <1>11
     DEF TS!AppStep, TS!ReaderStep, TS!CallStep

\* The frames a Dart client writes.
LEMMA DartWrites ==
  ASSUME IInv, CancelInv, lang = "Dart", UNCHANGED lang, ~ReuseHooked,
         Dart!AppStep \/ Dart!ReaderStep \/ \E c \in Call : Dart!CallStep(c)
  PROVE  CancelInv'
<1> USE DEF Dart!netVars, Dart!tableVars, Dart!callVars, Dart!readerVars, Dart!mailVars,
        Dart!Goto, Goto, Dart!Registered, Registered, Dart!Removed, Removed,
        Dart!Writes, Writes, Dart!CancelsPeer, CancelsPeer
<1>t. /\ pc \in [Call -> CallPC] /\ \A c \in Call : IdOf[c] \in Id
  BY Ids DEF IInv, CallsInv, CallsTyped
<1>m. ASSUME NEW c \in Call, Dart!MayUse(c) PROVE Alone(c) /\ Unhooked(c)
  BY <1>m DEF Dart!MayUse, Dart!Done, Done, Idle, Alone, Unhooked
<1>r. Dart!ResolvedBy(waiters, Head(wire)) = ResolvedBy(waiters, Head(wire))
  BY DEF Dart!ResolvedBy, ResolvedBy, Dart!Answers, Answers
<1>1. ASSUME NEW c \in Call, Dart!CallOver(c) PROVE CancelInv'
  BY <1>1, <1>t, QuietInTable DEF Dart!CallOver, Early
<1>2. ASSUME NEW c \in Call, Dart!CallThrows(c) PROVE CancelInv'
  BY <1>2, <1>t, QuietInTable DEF Dart!CallThrows, Early
<1>3. CASE Dart!Receive
  BY <1>3, <1>t, QuietInTable DEF Dart!Receive
<1>4. CASE Dart!StopWaiting
  BY <1>4, <1>t, QuietInTable DEF Dart!StopWaiting
<1>5. CASE Dart!Close
  BY <1>5, <1>t, QuietInTable DEF Dart!Close
<1>6. CASE Dart!BadData
  BY <1>6, <1>t, QuietInTable DEF Dart!BadData, Dart!Fail, Dart!EmptyTable, EmptyTable
<1>7. CASE Dart!OtherData
  BY <1>7, <1>t, QuietInTable DEF Dart!OtherData
<1>8. CASE Dart!StreamEnds
  BY <1>8, <1>t, QuietInTable DEF Dart!StreamEnds, Dart!Fail, Dart!EmptyTable, EmptyTable
<1>9. ASSUME NEW c \in Call, Dart!Resume(c) PROVE CancelInv'
  BY <1>9, <1>t, QuietInTable DEF Dart!Resume, Early
<1>10. CASE Dart!ReplyData
  <2>1. ResolvedBy(waiters, Head(wire)) \in Call
    BY <1>r, <1>10, WireShrinks, Resolved DEF Dart!ReplyData, Dart!CanRead
  <2> QED
    BY <1>10, <1>r, <2>1, Ids, QuietInTable DEF Dart!ReplyData
<1>11. ASSUME NEW c \in Call, Dart!CallSends(c) PROVE CancelInv'
  <2>0. Alone(c) /\ Unhooked(c) /\ pc[c] \in Early
    BY <1>11, <1>m DEF Dart!CallSends, Early
  <2>1. \A d \in Call \ {c} : (MayCancel(d)' => MayCancel(d)) /\ pc'[d] = pc[d]
    BY <1>11, Ids DEF Dart!CallSends, MayCancel, IInv, CallsInv, CallsTyped, Table
  <2>2. pc'[c] \notin Early
    BY <1>11 DEF Dart!CallSends, Early, IInv, CallsInv, CallsTyped
  <2>3. CASE conn = "open"
    BY <1>11, <2>0, <2>1, <2>2, <2>3, CallIsWritten DEF Dart!CallSends
  <2>4. CASE conn # "open"
    <3>1. UNCHANGED out /\ \A d \in Call : pc'[d] \in Early => pc[d] \in Early
      BY <1>11, <2>1, <2>2, <2>4 DEF Dart!CallSends
    <3>2. \A d \in Call : MayCancel(d)' => MayCancel(d)
      BY <1>11, <2>4 DEF Dart!CallSends, MayCancel
    <3> QED
      BY <3>1, <3>2, QuietStep
  <2> QED
    BY <2>3, <2>4
<1>12. ASSUME NEW c \in Call, Dart!TimeOut(c) PROVE CancelInv'
  <2>a. waiters[IdOf[c]] \in {c, NoCall}
    BY <1>12, UnderWay, EntryIsOwn DEF Dart!TimeOut, InRust, Idle, Done
  <2>3. CASE waiters[IdOf[c]] = NoCall
    BY <1>12, <2>3, <1>t, QuietInTable DEF Dart!TimeOut, Dart!AbandonBy
  <2>4. CASE waiters[IdOf[c]] = c
    <3>0. c # NoCall
      BY Ids
    <3>1. CASE HasCancel /\ conn = "open"
      <4>1. out' = Append(out, <<c, "cancel">>)
        BY <1>12, <3>1, <2>4, <3>0 DEF Dart!TimeOut, Dart!AbandonBy
      <4>2. MayCancel(c)
        BY <2>4, <3>0, <3>1 DEF MayCancel
      <4>3. \A d \in Call : pc'[d] = pc[d]
        BY <1>12 DEF Dart!TimeOut
      <4>4. ~MayCancel(c)' /\ \A d \in Call \ {c} : MayCancel(d)' => MayCancel(d)
        BY <1>12, <2>4, <3>0, Ids
          DEF Dart!TimeOut, Dart!AbandonBy, MayCancel, IInv, CallsInv, CallsTyped, Table
      <4>5. pc[c] \notin Early
        BY <4>2, MayNotBeEarly
      <4> QED
        BY <4>1, <4>2, <4>3, <4>4, <4>5, CancelIsWritten
    <3>2. CASE ~(HasCancel /\ conn = "open")
      <4>1. UNCHANGED out
        <5>1. CASE HasCancel
          BY <1>12, <2>4, <3>0, <3>2, <5>1 DEF Dart!TimeOut, Dart!AbandonBy
        <5>2. CASE ~HasCancel
          BY <1>12, <2>4, <3>0, <5>2 DEF Dart!TimeOut, Dart!AbandonBy
        <5> QED
          BY <5>1, <5>2
      <4>2. waiters' = Removed(waiters, IdOf[c])
        BY <1>12, <2>4, <3>0, Ids DEF Dart!TimeOut, Dart!AbandonBy
      <4> QED
        BY <1>12, <4>1, <4>2, Ids, QuietInTable DEF Dart!TimeOut
    <3> QED
      BY <3>1, <3>2
  <2> QED
    BY <2>a, <2>3, <2>4
<1>13. ASSUME NEW c \in Call, Dart!Cancelled(c) PROVE CancelInv'
  <2>a. waiters[IdOf[c]] \in {c, NoCall}
    BY <1>13, UnderWay, EntryIsOwn DEF Dart!Cancelled, InRust
  <2>3. CASE waiters[IdOf[c]] = NoCall
    BY <1>13, <2>3, <1>t, QuietInTable DEF Dart!Cancelled, Dart!AbandonBy
  <2>4. CASE waiters[IdOf[c]] = c
    <3>0. c # NoCall
      BY Ids
    <3>1. CASE HasCancel /\ conn = "open"
      <4>1. out' = Append(out, <<c, "cancel">>)
        BY <1>13, <3>1, <2>4, <3>0 DEF Dart!Cancelled, Dart!AbandonBy
      <4>2. MayCancel(c)
        BY <2>4, <3>0, <3>1 DEF MayCancel
      <4>3. \A d \in Call : pc'[d] = pc[d]
        BY <1>13 DEF Dart!Cancelled
      <4>4. ~MayCancel(c)' /\ \A d \in Call \ {c} : MayCancel(d)' => MayCancel(d)
        BY <1>13, <2>4, <3>0, Ids
          DEF Dart!Cancelled, Dart!AbandonBy, MayCancel, IInv, CallsInv, CallsTyped, Table
      <4>5. pc[c] \notin Early
        BY <4>2, MayNotBeEarly
      <4> QED
        BY <4>1, <4>2, <4>3, <4>4, <4>5, CancelIsWritten
    <3>2. CASE ~(HasCancel /\ conn = "open")
      <4>1. UNCHANGED out
        <5>1. CASE HasCancel
          BY <1>13, <2>4, <3>0, <3>2, <5>1 DEF Dart!Cancelled, Dart!AbandonBy
        <5>2. CASE ~HasCancel
          BY <1>13, <2>4, <3>0, <5>2 DEF Dart!Cancelled, Dart!AbandonBy
        <5> QED
          BY <5>1, <5>2
      <4>2. waiters' = Removed(waiters, IdOf[c])
        BY <1>13, <2>4, <3>0, Ids DEF Dart!Cancelled, Dart!AbandonBy
      <4> QED
        BY <1>13, <4>1, <4>2, Ids, QuietInTable DEF Dart!Cancelled
    <3> QED
      BY <3>1, <3>2
  <2> QED
    BY <2>a, <2>3, <2>4
<1> QED
  BY <1>1, <1>2, <1>3, <1>4, <1>5, <1>6, <1>7, <1>8, <1>9, <1>10, <1>11, <1>12, <1>13
     DEF Dart!AppStep, Dart!ReaderStep, Dart!CallStep

\* The frames a Python client writes.
LEMMA PyWrites ==
  ASSUME IInv, CancelInv, lang = "Python", UNCHANGED lang, NEW c \in Call, Py!CallStep(c)
  PROVE  CancelInv'
<1> USE DEF Py!netVars, Py!tableVars, Py!callVars, Py!readerVars, Py!mailVars, Py!Goto,
        Goto, Py!Writes, Writes
<1>t. pc \in [Call -> CallPC] /\ lang \notin {"TypeScript", "Dart"}
  BY DEF IInv, CallsInv, CallsTyped
<1>1. CASE Py!Refused(c)
  BY <1>1, <1>t, QuietInHand DEF Py!Refused, Early
<1>2. CASE Py!Register(c)
  BY <1>2, <1>t, QuietInHand DEF Py!Register, Early
<1>3. CASE Py!EncodeFails(c)
  BY <1>3, <1>t, QuietInHand DEF Py!EncodeFails, Early
<1>4. CASE Py!LockSend(c)
  BY <1>4, <1>t, QuietInHand DEF Py!LockSend, Early
<1>5. CASE Py!WriteFails(c)
  BY <1>5, <1>t, QuietInHand DEF Py!WriteFails, Early
<1>6. CASE Py!Unregister(c)
  BY <1>6, <1>t, QuietInHand DEF Py!Unregister, Early
<1>7. CASE Py!Resume(c)
  BY <1>7, <1>t, QuietInHand DEF Py!Resume, Early
<1>8. CASE Py!Drop(c)
  BY <1>8, <1>t, QuietInHand DEF Py!Drop, Early
<1>9. CASE Py!WriteOk(c)
  <2>1. Alone(c) /\ Unhooked(c) /\ <<c, "cancel">> \notin hooks /\ <<c, "send">> \notin hooks
    BY <1>9, UnderWay DEF Py!WriteOk, Idle, Done, IInv, CallsInv, HookInv, HookOK, InRust
  <2>2. \A d \in Call \ {c} : (MayCancel(d)' => MayCancel(d)) /\ pc'[d] = pc[d]
    BY <1>9, <1>t DEF Py!WriteOk, MayCancel
  <2>3. CASE pc[c] = "write"
    <3>1. out' = Append(out, <<c, "call">>) /\ pc[c] \in Early /\ pc'[c] \notin Early
      BY <1>9, <1>t, <2>3 DEF Py!WriteOk, Early
    <3> QED
      BY <2>1, <2>2, <3>1, CallIsWritten
  <2>4. CASE pc[c] = "cancelWrite"
    <3>1. out' = Append(out, <<c, "cancel">>) /\ pc'[c] = "gaveUp"
      BY <1>9, <1>t, <2>4 DEF Py!WriteOk
    <3>2. MayCancel(c) /\ ~MayCancel(c)' /\ pc'[c] \notin Early
      BY <1>9, <1>t, <2>1, <2>4, <3>1 DEF Py!WriteOk, MayCancel, Early
    <3> QED
      BY <2>2, <3>1, <3>2, CancelIsWritten
  <2> QED
    BY <1>9, <2>3, <2>4 DEF Py!WriteOk
<1> QED
  BY <1>1, <1>2, <1>3, <1>4, <1>5, <1>6, <1>7, <1>8, <1>9
     DEF Py!CallStep

\* The frames a Rust end writes for its calls.
LEMMA RustWrites ==
  ASSUME IInv, CancelInv, InRust, UNCHANGED lang, NEW c \in Call,
         Rust!CallStep(c) \/ Rust!DroppedBare(c)
  PROVE  CancelInv'
<1> USE DEF Rust!netVars, Rust!tableVars, Rust!callVars, Rust!readerVars, Rust!mailVars,
        Rust!Goto, Goto, Rust!Writes, Writes
<1>t. pc \in [Call -> CallPC] /\ lang \notin {"TypeScript", "Dart"}
  BY DEF IInv, CallsInv, CallsTyped, InRust
<1>1. CASE Rust!Refused(c)
  BY <1>1, <1>t, QuietInHand DEF Rust!Refused, Early
<1>2. CASE Rust!Register(c)
  BY <1>2, <1>t, QuietInHand DEF Rust!Register, Early
<1>3. CASE Rust!EncodeFails(c)
  BY <1>3, <1>t, QuietInHand DEF Rust!EncodeFails, Early
<1>4. CASE Rust!LockSend(c)
  BY <1>4, <1>t, QuietInHand DEF Rust!LockSend, Early
<1>5. CASE Rust!WriteFails(c)
  BY <1>5, <1>t, QuietInHand DEF Rust!WriteFails, Early
<1>6. CASE Rust!Unregister(c)
  BY <1>6, <1>t, QuietInHand DEF Rust!Unregister, Early
<1>7. CASE Rust!Resume(c)
  BY <1>7, <1>t, QuietInHand DEF Rust!Resume, Early
<1>8. CASE Rust!Drop(c)
  BY <1>8, <1>t, QuietInHand DEF Rust!Drop, Early
<1>9. CASE Rust!HookCancel(c)
  BY <1>9, <1>t, QuietInHand DEF Rust!HookCancel, Early
<1>10. CASE Rust!WriteOk(c)
  <2>1. Alone(c) /\ Unhooked(c) /\ <<c, "cancel">> \notin hooks /\ <<c, "send">> \notin hooks
    BY <1>10, UnderWay DEF Rust!WriteOk, Idle, Done, IInv, CallsInv, HookInv, HookOK, InRust
  <2>2. \A d \in Call \ {c} : (MayCancel(d)' => MayCancel(d)) /\ pc'[d] = pc[d]
    BY <1>10, <1>t DEF Rust!WriteOk, MayCancel
  <2>3. CASE pc[c] = "write"
    <3>1. out' = Append(out, <<c, "call">>) /\ pc[c] \in Early /\ pc'[c] \notin Early
      BY <1>10, <1>t, <2>3 DEF Rust!WriteOk, Early
    <3> QED
      BY <2>1, <2>2, <3>1, CallIsWritten
  <2>4. CASE pc[c] = "cancelWrite"
    <3>1. out' = Append(out, <<c, "cancel">>) /\ pc'[c] = "gaveUp"
      BY <1>10, <1>t, <2>4 DEF Rust!WriteOk
    <3>2. MayCancel(c) /\ ~MayCancel(c)' /\ pc'[c] \notin Early
      BY <1>10, <1>t, <2>1, <2>4, <3>1 DEF Rust!WriteOk, MayCancel, Early
    <3> QED
      BY <2>2, <3>1, <3>2, CancelIsWritten
  <2> QED
    BY <1>10, <2>3, <2>4 DEF Rust!WriteOk
<1>11. CASE Rust!HookSend(c)
  <2>1. pc[c] = "gaveUp" /\ <<c, "cancel">> \notin hooks
    BY <1>11 DEF Rust!HookSend, IInv, CallsInv, HookInv, HookOK
  <2>2. \A d \in Call \ {c} : (MayCancel(d)' => MayCancel(d)) /\ pc'[d] = pc[d]
    BY <1>11, <1>t DEF Rust!HookSend, Rust!callVars, MayCancel
  <2>3. CASE conn = "open"
    <3>1. out' = Append(out, <<c, "cancel">>)
      BY <1>11, <2>3 DEF Rust!HookSend
    <3>2. MayCancel(c) /\ ~MayCancel(c)' /\ pc'[c] \notin Early
      BY <1>11, <1>t, <2>1 DEF Rust!HookSend, Rust!callVars, MayCancel, Early
    <3> QED
      BY <2>2, <3>1, <3>2, CancelIsWritten
  <2>4. CASE conn # "open"
    BY <1>11, <1>t, <2>4, QuietInHand DEF Rust!HookSend, Rust!callVars
  <2> QED
    BY <2>3, <2>4
<1>12. CASE Rust!DroppedBare(c)
  <2>1. /\ Alone(c) /\ <<c, "cancel">> \notin hooks /\ <<c, "send">> \notin hooks
        /\ pc[c] = "write" => Unhooked(c)
    BY <1>12, UnderWay DEF Rust!DroppedBare, Idle, Done, IInv, CallsInv, HookInv, HookOK, InRust
  <2>2. /\ \A d \in Call \ {c} : (MayCancel(d)' => MayCancel(d)) /\ pc'[d] = pc[d]
        /\ pc'[c] = "gaveUp"
    BY <1>12, <1>t DEF Rust!DroppedBare, MayCancel
  <2>3. CASE UNCHANGED out
    BY <1>12, <1>t, <2>3, QuietInHand DEF Rust!DroppedBare, Early
  <2>4. CASE pc[c] = "write" /\ out' = Append(out, <<c, "call">>)
    <3>1. pc[c] \in Early /\ pc'[c] \notin Early
      BY <2>2, <2>4 DEF Early
    <3> QED
      BY <2>1, <2>2, <2>4, <3>1, CallIsWritten
  <2>5. CASE pc[c] = "cancelWrite" /\ out' = Append(out, <<c, "cancel">>)
    <3>1. MayCancel(c) /\ ~MayCancel(c)' /\ pc'[c] \notin Early
      BY <1>12, <1>t, <2>1, <2>2, <2>5 DEF Rust!DroppedBare, MayCancel, Early
    <3> QED
      BY <2>2, <2>5, <3>1, CancelIsWritten
  <2> QED
    BY <1>12, <2>3, <2>4, <2>5 DEF Rust!DroppedBare
<1> QED
  BY <1>1, <1>2, <1>3, <1>4, <1>5, <1>6, <1>7, <1>8, <1>9, <1>10, <1>11, <1>12
     DEF Rust!CallStep

\* What the applications, readers and receivers of these two do writes nothing.
LEMMA OthersWriteNothing ==
  ASSUME IInv, CancelInv, lang \notin {"TypeScript", "Dart"}, UNCHANGED lang,
         \/ Py!AppStep \/ Py!ReaderStep \/ Py!ReceiverStep
         \/ \E c \in Call : Rust!Enter(c) \/ Rust!TimeOut(c) \/ Rust!DroppedWaiting(c)
         \/ Rust!Receive \/ Rust!StopWaiting \/ Rust!Close
         \/ Rust!ReaderStep \/ Rust!ServerReadStep \/ Rust!ReceiverStep \/ Rust!ClosedTold
         \/ Rust!PingAborts \/ Rust!ServerGivesUp
  PROVE  CancelInv'
<1> USE DEF Py!netVars, Py!tableVars, Py!callVars, Py!readerVars, Py!mailVars, Py!Goto,
        Goto,
        Rust!netVars, Rust!tableVars, Rust!callVars, Rust!readerVars, Rust!mailVars, Rust!Goto
<1>t. pc \in [Call -> CallPC] /\ lang \notin {"TypeScript", "Dart"}
  BY DEF IInv, CallsInv, CallsTyped
<1>1. ASSUME NEW c \in Call, Py!Enter(c) PROVE CancelInv'
  BY <1>1, <1>t, QuietInHand DEF Py!Enter, Early
<1>2. ASSUME NEW c \in Call, Py!GiveUp(c) PROVE CancelInv'
  BY <1>2, <1>t, QuietInHand DEF Py!GiveUp, Early
<1>3. ASSUME NEW c \in Call, Rust!Enter(c) PROVE CancelInv'
  BY <1>3, <1>t, QuietInHand DEF Rust!Enter, Early
<1>4. ASSUME NEW c \in Call, Rust!TimeOut(c) PROVE CancelInv'
  BY <1>4, <1>t, QuietInHand DEF Rust!TimeOut, Early
<1>5. ASSUME NEW c \in Call, Rust!DroppedWaiting(c) PROVE CancelInv'
  BY <1>5, <1>t, QuietInHand DEF Rust!DroppedWaiting, Early
<1>6. CASE \/ Py!Receive \/ Py!StopWaiting \/ Py!Close \/ Py!ReaderStep \/ Py!ReceiverStep
  <2>1. UNCHANGED <<out, pc, hooks>>
    BY <1>6
      DEF Py!ReaderStep, Py!ReceiverStep, Py!Receive, Py!StopWaiting, Py!Close,
          Py!ReadFrame, Py!ReadBad, Py!ReadEnd, Py!Route, Py!Deliver, Py!Push, Py!Fail,
          Py!FailOne, Py!PushEnd, Py!SeeEnd, Py!PutBack, Py!GetFrame
  <2> QED
    BY <1>t, <2>1, QuietInHand
<1>7. CASE \/ Rust!Receive \/ Rust!StopWaiting \/ Rust!Close \/ Rust!ReaderStep \/ Rust!ServerReadStep
           \/ Rust!ReceiverStep \/ Rust!ClosedTold \/ Rust!PingAborts \/ Rust!ServerGivesUp
  <2>1. UNCHANGED <<out, pc, hooks>>
    BY <1>7
      DEF Rust!ReaderStep, Rust!ServerReadStep, Rust!ReceiverStep, Rust!Receive,
          Rust!StopWaiting, Rust!Close, Rust!ReadFrame, Rust!ReadEnds, Rust!Route,
          Rust!CloseAll, Rust!PingAborts, Rust!PingCloses, Rust!RecvSome, Rust!RecvNone,
          Rust!ServerRejects, Rust!ServerReadEnds, Rust!ServerRoute,
          Rust!HandlerReturns, Rust!ServerCloses, Rust!ServerGivesUp, Rust!ClosedTold
  <2> QED
    BY <1>t, <2>1, QuietInHand
<1> QED
  BY <1>1, <1>2, <1>3, <1>4, <1>5, <1>6, <1>7 DEF Py!AppStep

-----------------------------------------------------------------------------
\* Every step keeps what is known of the messages written.
LEMMA NextCancelInv ==
  ASSUME IInv, CancelInv, [RuntimesNext]_allVars, ~ReuseHooked PROVE CancelInv'
<1>1. CASE Env \/ UNCHANGED allVars \/ (Pinging /\ LibraryPing)
  <2>1. /\ UNCHANGED <<lang, out, pc, hooks, waiters>>
        /\ conn' = "open" => conn = "open"
    BY <1>1 DEF endVars, Env, PeerSend, PeerEnds, LibraryPing, Pinging, In, allVars, vars,
                netVars, tableVars, callVars
  <2>2. \A c \in Call : MayCancel(c)' => MayCancel(c)
    BY <2>1 DEF MayCancel
  <2> QED
    BY <2>1, <2>2, QuietStep
<1>2. CASE App
  <2>1. ASSUME InRust, UNCHANGED lang, Rust!AppStep \/ Rust!ServerAppStep PROVE CancelInv'
    BY <2>1, RustWrites, OthersWriteNothing
      DEF InRust, Rust!AppStep, Rust!ServerAppStep, Rust!ServerEnter
  <2> QED
    BY <1>2, <2>1, TSWrites, DartWrites, OthersWriteNothing DEF endVars, App, In, InRust
<1>3. ASSUME NEW c \in Call, Calling(c) PROVE CancelInv'
  BY <1>3, TSWrites, DartWrites, PyWrites, RustWrites DEF endVars, Calling, In, InRust
<1>4. CASE Reading
  BY <1>4, TSWrites, DartWrites, OthersWriteNothing DEF endVars, Reading, In
<1>5. CASE Receiving
  BY <1>5, OthersWriteNothing DEF endVars, Receiving, In
<1>6. CASE Pinging
  BY <1>1, <1>6, OthersWriteNothing DEF endVars, Pinging, In
<1> QED
  BY <1>1, <1>2, <1>3, <1>4, <1>5, <1>6 DEF RuntimesNext

\* The peer gets at most one cancel frame for a call, after the frame of that
\* call and not after that of a later call under the same id, which it would
\* stop instead (abandon of each runtime, and the guard of the Rust one).
THEOREM CancelNamesItsCallAlways ==
  ASSUME ~ReuseHooked PROVE RuntimesSpec => []CancelNamesItsCall
<1>1. ASSUME RuntimesInit PROVE CancelInv
  <2>0. out = <<>>
    BY <1>1 DEF RuntimesInit, Init
  <2>1. DOMAIN out = {}
    BY <2>0
  <2>2. \A c \in Call : ~MayCancel(c)
    BY <1>1, Ids DEF RuntimesInit, Init, MayCancel, EmptyTable
  <2> QED
    BY <2>1, <2>2 DEF CancelInv, CancelNamesItsCall
<1>2. IInv /\ CancelInv /\ [RuntimesNext]_allVars => CancelInv'
  BY NextCancelInv
<1>3. CancelInv => CancelNamesItsCall
  BY DEF CancelInv
<1> QED
  BY RuntimesInvariant, <1>1, <1>2, <1>3, PTL DEF RuntimesSpec

-----------------------------------------------------------------------------
(* The promise of CorrelatedCalls.                                         *)

\* A status for each call.
LEMMA Statuses ==
  /\ absStatus = [d \in Call |-> absStatus[d]]
  /\ absStatus' = [d \in Call |-> absStatus'[d]]
  BY DEF absStatus

\* The status of a call that has not started.
LEMMA NewCall ==
  ASSUME IInv, NEW c \in Call, pc[c] \in {"idle", "register"} PROVE absStatus[c] = "new"
<1>1. promise[c] = "waiting"
  BY DEF IInv, CallsInv, PromiseInv
<1> QED
  BY <1>1 DEF absStatus, Left

\* The status of a call that has taken a step.
LEMMA StatusNext ==
  ASSUME NEW c \in Call
  PROVE  /\ pc'[c] \in {"idle", "register"} /\ promise'[c] # "error" => absStatus'[c] = "new"
         /\ pc'[c] = "ended" /\ promise'[c] = "closed" => absStatus'[c] = "failed"
         /\ pc'[c] \in {"send", "await"} /\ promise'[c] # "error" => absStatus'[c] = "pending"
         /\ pc'[c] = "gaveUp" => absStatus'[c] = "abandoned"
  BY DEF absStatus, Left

\* What CorrelatedCalls sees of a call changes when the call moves on, not when
\* its promise is settled.
LEMMA ResultEndsNoCall ==
  ASSUME IInv, UNCHANGED lang, NEW d \in Call, pc'[d] = pc[d],
         \/ promise'[d] = promise[d]
         \/ promise[d] = "waiting" /\ promise'[d] \in {"value", "closed"}
  PROVE  absStatus'[d] = absStatus[d]
  BY DEF absStatus, Left, IInv, CallsInv, PromiseInv

\* What the rest of the promise does not notice of a step of call c.
Aside(c) ==
  /\ UNCHANGED <<lang, unsent, wire, rd, held, target, reply, inbox, rx, taken>>
  /\ lang = "TypeScript" => UNCHANGED conn
  /\ over' = over \/ (lang = "TypeScript" /\ conn # "open")
  /\ \A d \in Call \ {c} :
       /\ pc'[d] = pc[d]
       /\ \/ promise'[d] = promise[d]
          \/ promise[d] = "waiting" /\ promise'[d] = "closed" /\ (absClosed \/ pc[d] = "gaveUp")

\* A step of an end that keeps the promise.
PromiseStep == PromiseKept' /\ [Promise!Next]_(Promise!vars)

\* How a call may move on, as CorrelatedCalls has it.
MovesOn(c) ==
  \/ absStatus'[c] = absStatus[c]
  \/ absStatus[c] = "new" /\ absStatus'[c] \in {IF absClosed THEN "failed" ELSE "pending", "abandoned"}
  \/ absStatus[c] = "pending" /\ absStatus'[c] = "abandoned"
  \/ absStatus[c] = "pending" /\ absStatus'[c] = "answered" /\ absAnswer[c] # NoFrame
  \/ absStatus[c] = "pending" /\ absStatus'[c] = "failed" /\ absAnswer[c] = NoFrame /\ absClosed

\* A step of one call that leaves the frames and the reader alone is a step of
\* the promise, if it moves the call on as CorrelatedCalls has it.
LEMMA CallMovesOn ==
  ASSUME IInv, PromiseKept, NEW c \in Call, Aside(c), MovesOn(c),
         promise'[c] = "closed" =>
           absClosed \/ pc'[c] = "gaveUp" \/ (promise[c] = "closed" /\ pc[c] # "gaveUp")
  PROVE  PromiseStep
<1>1. UNCHANGED <<absAnswer, absFresh, absMail, taken, absClosed>>
  BY DEF Aside, absAnswer, absFresh, absMail, absClosed
<1>2. \A d \in Call \ {c} : absStatus'[d] = absStatus[d]
  BY ResultEndsNoCall DEF Aside
<1>3. FreshInv' /\ InboxInv'
  BY DEF Aside, PromiseKept, FreshInv, InboxInv
<1>4. ClosedInv'
  <2>1. absClosed' = absClosed
    BY <1>1
  <2>2. \A d \in Call : promise'[d] = "closed" => absClosed' \/ pc'[d] = "gaveUp"
    <3> SUFFICES ASSUME NEW d \in Call, promise'[d] = "closed"
                 PROVE  absClosed \/ pc'[d] = "gaveUp"
      BY <2>1
    <3>1. promise[d] = "closed" => absClosed \/ pc[d] = "gaveUp"
      BY DEF PromiseKept, ClosedInv
    <3> QED
      BY <3>1 DEF Aside
  <2>3. /\ lang' \in {"Python", "Rust", "Rust server"} =>
             (over' <=> rd' \in {"failing", "close", "dead"})
        /\ lang' = "TypeScript" /\ over' => conn' # "open"
    <3>1. over \in BOOLEAN
      BY DEF IInv, RestTyped
    <3>2. CASE over' = over
      BY <3>1, <3>2 DEF Aside, PromiseKept, ClosedInv
    <3>3. CASE lang = "TypeScript" /\ conn # "open"
      BY <3>3 DEF Aside
    <3> QED
      BY <3>2, <3>3 DEF Aside
  <2> QED
    BY <2>2, <2>3 DEF ClosedInv
<1>5. absStatus' = [absStatus EXCEPT ![c] = absStatus'[c]]
  BY <1>2, Statuses
<1>6. [Promise!Next]_(Promise!vars)
  <2>1. CASE absStatus'[c] = absStatus[c]
    <3>1. UNCHANGED absStatus
      BY <1>2, <2>1, Statuses
    <3> QED
      BY <1>1, <3>1 DEF Promise!vars
  <2>2. CASE absStatus[c] = "new" /\ absStatus'[c] \in {IF absClosed THEN "failed" ELSE "pending", "abandoned"}
    <3>1. Promise!Begin(c)
      BY <1>1, <1>5, <2>2 DEF Promise!Begin
    <3> QED
      BY <3>1 DEF Promise!Next
  <2>3. CASE absStatus[c] = "pending" /\ absStatus'[c] # "pending"
    <3>1. Promise!End(c)
      BY <1>1, <1>5, <2>3 DEF Promise!End, MovesOn
    <3> QED
      BY <3>1 DEF Promise!Next
  <2> QED
    BY <2>1, <2>2, <2>3 DEF MovesOn
<1> QED
  BY <1>3, <1>4, <1>6 DEF PromiseKept, PromiseStep

\* The calls of a TypeScript client begin and end as promised.
LEMMA TSCallsPromised ==
  ASSUME IInv, PromiseKept, lang = "TypeScript", UNCHANGED lang, NEW c \in Call,
         \/ TS!CallClosed(c) \/ TS!CallOpen(c) \/ TS!CallThrows(c)
         \/ TS!Abandon(c) \/ TS!CallStep(c)
  PROVE  PromiseStep
<1> USE DEF TS!netVars, TS!tableVars, TS!callVars, TS!readerVars, TS!mailVars, TS!Goto,
        Goto, TS!Settled, Settled
<1>t. /\ pc \in [Call -> CallPC]
      /\ promise \in [Call -> {"waiting", "value", "closed", "error"}]
      /\ \A d \in Call : promise[d] = "value" <=> reply[d] # NoFrame
      /\ \A d \in Call : promise[d] = "closed" => absClosed \/ pc[d] = "gaveUp"
  BY DEF IInv, CallsInv, CallsTyped, PromiseKept, ClosedInv
<1>o. \A d \in Call : pc[d] \in {"idle", "register"} => promise[d] = "waiting"
  BY DEF IInv, CallsInv, PromiseInv
<1>h. \A d \in Call : promise[d] # "waiting" => target # d
  BY DEF IInv, CallsInv, HandInv
<1>w. \A d \in Call : waiters[IdOf[d]] = d =>
        promise[d] = "waiting" /\ pc[d] \in MayWait
  BY Ids DEF IInv, CallsInv, TableInv
<1>1. CASE TS!CallClosed(c)
  <2>0. /\ Waiting(waiters) \subseteq {d \in Call : promise[d] = "waiting"}
        /\ promise' = [d \in Call |-> IF d \in Waiting(waiters) \cup {c} THEN "closed" ELSE promise[d]]
    BY <1>1, WaitersWait DEF TS!CallClosed, TS!RejectAll, TS!Waiting, Waiting
  <2>1. Aside(c)
    BY <1>1, <1>t, <2>0 DEF Aside, absClosed, TS!CallClosed, TS!RejectAll
  <2>2. pc[c] = "idle" /\ pc'[c] = "ended" /\ promise'[c] = "closed" /\ absClosed
    BY <1>1, <1>t, <2>0 DEF absClosed, TS!CallClosed
  <2>3. MovesOn(c)
    BY <2>2, NewCall, StatusNext DEF MovesOn
  <2> QED
    BY <2>1, <2>2, <2>3, CallMovesOn
<1>2. CASE TS!CallOpen(c)
  <2>1. Aside(c)
    BY <1>2, <1>t DEF Aside, absClosed, TS!CallOpen
  <2>2. MovesOn(c)
    BY <1>2, <1>t, <2>1 DEF MovesOn, absStatus, absAnswer, absClosed, Left, TS!CallOpen
  <2> QED
    BY <1>2, <1>t, <2>1, <2>2, CallMovesOn DEF absClosed, TS!CallOpen
<1>3. CASE TS!CallThrows(c)
  <2>1. Aside(c)
    BY <1>3, <1>t DEF Aside, absClosed, TS!CallThrows
  <2>2. MovesOn(c)
    BY <1>3, <1>t, <2>1 DEF MovesOn, absStatus, absAnswer, absClosed, Left, TS!CallThrows
  <2> QED
    BY <1>3, <1>t, <2>1, <2>2, CallMovesOn DEF absClosed, TS!CallThrows
<1>4. CASE TS!Abandon(c)
  <2>1. Aside(c)
    BY <1>4, <1>t, <1>w DEF Aside, absClosed, TS!Abandon
  <2>2. MovesOn(c)
    BY <1>4, <1>t, <2>1, <1>w
      DEF MovesOn, absStatus, absAnswer, absClosed, Left, TS!Abandon, MayWait, InRust
  <2> QED
    BY <1>4, <1>t, <2>1, <2>2, CallMovesOn, <1>w DEF absClosed, TS!Abandon, MayWait, InRust
<1>5. CASE TS!Resume(c)
  <2>1. Aside(c)
    BY <1>5, <1>t, <1>h DEF Aside, absClosed, TS!Resume
  <2>2. MovesOn(c)
    BY <1>5, <1>t, <2>1, <1>h DEF MovesOn, absStatus, absAnswer, absClosed, Left, TS!Resume
  <2> QED
    BY <1>5, <1>t, <2>1, <2>2, CallMovesOn, <1>h DEF absClosed, TS!Resume
<1> QED
  BY <1>1, <1>2, <1>3, <1>4, <1>5
     DEF TS!CallStep

\* The calls of a Dart client begin and end as promised.
LEMMA DartCallsPromised ==
  ASSUME IInv, PromiseKept, lang = "Dart", UNCHANGED lang, NEW c \in Call,
         \/ Dart!CallOver(c) \/ Dart!CallSends(c) \/ Dart!CallThrows(c)
         \/ Dart!TimeOut(c) \/ Dart!Cancelled(c) \/ Dart!CallStep(c)
  PROVE  PromiseStep
<1> USE DEF Dart!netVars, Dart!tableVars, Dart!callVars, Dart!readerVars, Dart!mailVars,
        Dart!Goto, Goto, Dart!Settled, Settled
<1>t. /\ pc \in [Call -> CallPC]
      /\ promise \in [Call -> {"waiting", "value", "closed", "error"}]
      /\ \A d \in Call : promise[d] = "value" <=> reply[d] # NoFrame
      /\ \A d \in Call : promise[d] = "closed" => absClosed \/ pc[d] = "gaveUp"
  BY DEF IInv, CallsInv, CallsTyped, PromiseKept, ClosedInv
<1>o. \A d \in Call : pc[d] \in {"idle", "register"} => promise[d] = "waiting"
  BY DEF IInv, CallsInv, PromiseInv
<1>h. \A d \in Call : promise[d] # "waiting" => target # d
  BY DEF IInv, CallsInv, HandInv
<1>w. \A d \in Call : waiters[IdOf[d]] = d =>
        promise[d] = "waiting" /\ pc[d] \in MayWait
  BY Ids DEF IInv, CallsInv, TableInv
<1>a. Alone(c) => waiters[IdOf[c]] \in {c, NoCall}
  BY EntryIsOwn DEF InRust
<1>1. CASE Dart!CallOver(c)
  <2>1. Aside(c)
    BY <1>1, <1>t DEF Aside, absClosed, Dart!CallOver
  <2>0. pc[c] = "idle" /\ pc'[c] = "ended" /\ promise'[c] = "closed" /\ absClosed
    BY <1>1, <1>t, <1>o DEF absClosed, Dart!CallOver
  <2>2. MovesOn(c)
    BY <2>0, NewCall, StatusNext DEF MovesOn
  <2> QED
    BY <1>1, <1>t, <2>1, <2>2, CallMovesOn DEF absClosed, Dart!CallOver
<1>2. CASE Dart!CallSends(c)
  <2>1. Aside(c)
    BY <1>2, <1>t DEF Aside, absClosed, Dart!CallSends
  <2>2. MovesOn(c)
    BY <1>2, <1>t, <2>1 DEF MovesOn, absStatus, absAnswer, absClosed, Left, Dart!CallSends
  <2> QED
    BY <1>2, <1>t, <2>1, <2>2, CallMovesOn DEF absClosed, Dart!CallSends
<1>3. CASE Dart!CallThrows(c)
  <2>1. Aside(c)
    BY <1>3, <1>t DEF Aside, absClosed, Dart!CallThrows
  <2>2. MovesOn(c)
    BY <1>3, <1>t, <2>1 DEF MovesOn, absStatus, absAnswer, absClosed, Left, Dart!CallThrows
  <2> QED
    BY <1>3, <1>t, <2>1, <2>2, CallMovesOn DEF absClosed, Dart!CallThrows
<1>4. CASE Dart!TimeOut(c)
  <2>1. waiters[IdOf[c]] \in {c, NoCall}
    BY <1>4, <1>a, UnderWay DEF Dart!TimeOut, Idle, Done
  <2>2. CASE waiters[IdOf[c]] = NoCall
    <3>1. Aside(c) /\ promise'[c] = promise[c] /\ pc'[c] = pc[c]
      BY <1>4, <2>2 DEF Aside, Dart!TimeOut, Dart!AbandonBy
    <3>2. MovesOn(c)
      BY <3>1, ResultEndsNoCall DEF MovesOn, Aside
    <3> QED
      BY <1>t, <3>1, <3>2, CallMovesOn
  <2>3. CASE waiters[IdOf[c]] = c
    <3>1. c # NoCall /\ promise[c] = "waiting" /\ pc[c] \in MayWait
      BY <1>w, <2>3, Ids
    <3>2. Aside(c) /\ promise'[c] = "error" /\ pc'[c] = pc[c]
      BY <1>4, <1>t, <2>3, <3>1 DEF Aside, Dart!TimeOut, Dart!AbandonBy
    <3>3. MovesOn(c)
      BY <3>1, <3>2 DEF MovesOn, absStatus, Left, MayWait, InRust
    <3> QED
      BY <3>2, <3>3, CallMovesOn
  <2> QED
    BY <2>1, <2>2, <2>3
<1>5. CASE Dart!Cancelled(c)
  <2>1. waiters[IdOf[c]] \in {c, NoCall}
    BY <1>5, <1>a, UnderWay DEF Dart!Cancelled
  <2>2. CASE waiters[IdOf[c]] = NoCall
    <3>1. Aside(c) /\ promise'[c] = promise[c] /\ pc'[c] = pc[c]
      BY <1>5, <2>2 DEF Aside, Dart!Cancelled, Dart!AbandonBy
    <3>2. MovesOn(c)
      BY <3>1, ResultEndsNoCall DEF MovesOn, Aside
    <3> QED
      BY <1>t, <3>1, <3>2, CallMovesOn
  <2>3. CASE waiters[IdOf[c]] = c
    <3>1. c # NoCall /\ promise[c] = "waiting" /\ pc[c] \in MayWait
      BY <1>w, <2>3, Ids
    <3>2. Aside(c) /\ promise'[c] = "error" /\ pc'[c] = pc[c]
      BY <1>5, <1>t, <2>3, <3>1 DEF Aside, Dart!Cancelled, Dart!AbandonBy
    <3>3. MovesOn(c)
      BY <3>1, <3>2 DEF MovesOn, absStatus, Left, MayWait, InRust
    <3> QED
      BY <3>2, <3>3, CallMovesOn
  <2> QED
    BY <2>1, <2>2, <2>3
<1>6. CASE Dart!Resume(c)
  <2>1. Aside(c)
    BY <1>6, <1>t, <1>h DEF Aside, absClosed, Dart!Resume
  <2>2. MovesOn(c)
    BY <1>6, <1>t, <2>1, <1>h DEF MovesOn, absStatus, absAnswer, absClosed, Left, Dart!Resume
  <2> QED
    BY <1>6, <1>t, <2>1, <2>2, CallMovesOn, <1>h DEF absClosed, Dart!Resume
<1> QED
  BY <1>1, <1>2, <1>3, <1>4, <1>5, <1>6
     DEF Dart!CallStep

\* The calls of a Python client begin and end as promised.
LEMMA PyCallsPromised ==
  ASSUME IInv, PromiseKept, lang = "Python", UNCHANGED lang, NEW c \in Call,
         Py!Enter(c) \/ Py!GiveUp(c) \/ Py!CallStep(c)
  PROVE  PromiseStep
<1> USE DEF Py!netVars, Py!tableVars, Py!callVars, Py!readerVars, Py!mailVars, Py!Goto,
        Goto, Py!Settled, Settled
<1>t. /\ pc \in [Call -> CallPC]
      /\ promise \in [Call -> {"waiting", "value", "closed", "error"}]
      /\ \A d \in Call : promise[d] = "value" <=> reply[d] # NoFrame
      /\ \A d \in Call : promise[d] = "closed" => absClosed \/ pc[d] = "gaveUp"
  BY DEF IInv, CallsInv, CallsTyped, PromiseKept, ClosedInv
<1>o. \A d \in Call : pc[d] \in {"idle", "register"} => promise[d] = "waiting"
  BY DEF IInv, CallsInv, PromiseInv
<1>h. \A d \in Call : promise[d] # "waiting" => target # d
  BY DEF IInv, CallsInv, HandInv
<1>1. CASE Py!Refused(c)
  <2>1. Aside(c)
    BY <1>1, <1>t DEF Aside, absClosed, Py!Refused
  <2>0. pc[c] = "register" /\ pc'[c] = "ended" /\ promise'[c] = "closed" /\ absClosed
    BY <1>1, <1>t, <1>o DEF absClosed, Py!Refused
  <2>2. MovesOn(c)
    BY <2>0, NewCall, StatusNext DEF MovesOn
  <2> QED
    BY <1>1, <1>t, <2>1, <2>2, CallMovesOn DEF absClosed, Py!Refused
<1>2. CASE Py!Register(c)
  <2>1. Aside(c)
    BY <1>2, <1>t DEF Aside, absClosed, Py!Register
  <2>0. pc[c] = "register" /\ pc'[c] = "send" /\ promise'[c] = "waiting" /\ ~absClosed
    BY <1>2, <1>t, <1>o DEF absClosed, Py!Register
  <2>2. MovesOn(c)
    BY <2>0, NewCall, StatusNext DEF MovesOn
  <2> QED
    BY <1>2, <1>t, <2>1, <2>2, CallMovesOn DEF absClosed, Py!Register
<1>3. CASE Py!EncodeFails(c)
  <2>1. Aside(c)
    BY <1>3, <1>t DEF Aside, absClosed, Py!EncodeFails
  <2>2. MovesOn(c)
    BY <1>3, <1>t, <2>1 DEF MovesOn, absStatus, absAnswer, absClosed, Left, Py!EncodeFails
  <2> QED
    BY <1>3, <1>t, <2>1, <2>2, CallMovesOn DEF absClosed, Py!EncodeFails
<1>4. CASE Py!LockSend(c)
  <2>1. Aside(c)
    BY <1>4, <1>t DEF Aside, absClosed, Py!LockSend
  <2>2. MovesOn(c)
    BY <1>4, <1>t, <2>1 DEF MovesOn, absStatus, absAnswer, absClosed, Left, Py!LockSend
  <2> QED
    BY <1>4, <1>t, <2>1, <2>2, CallMovesOn DEF absClosed, Py!LockSend
<1>5. CASE Py!WriteOk(c)
  <2>1. Aside(c)
    BY <1>5, <1>t DEF Aside, absClosed, Py!WriteOk
  <2>2. MovesOn(c)
    BY <1>5, <1>t, <2>1 DEF MovesOn, absStatus, absAnswer, absClosed, Left, Py!WriteOk
  <2> QED
    BY <1>5, <1>t, <2>1, <2>2, CallMovesOn DEF absClosed, Py!WriteOk
<1>6. CASE Py!WriteFails(c)
  <2>1. Aside(c)
    BY <1>6, <1>t DEF Aside, absClosed, Py!WriteFails
  <2>2. MovesOn(c)
    BY <1>6, <1>t, <2>1 DEF MovesOn, absStatus, absAnswer, absClosed, Left, Py!WriteFails
  <2> QED
    BY <1>6, <1>t, <2>1, <2>2, CallMovesOn DEF absClosed, Py!WriteFails
<1>7. CASE Py!Unregister(c)
  <2>1. Aside(c)
    BY <1>7, <1>t DEF Aside, absClosed, Py!Unregister
  <2>2. MovesOn(c)
    BY <1>7, <1>t, <2>1 DEF MovesOn, absStatus, absAnswer, absClosed, Left, Py!Unregister
  <2> QED
    BY <1>7, <1>t, <2>1, <2>2, CallMovesOn DEF absClosed, Py!Unregister
<1>8. CASE Py!Resume(c)
  <2>1. Aside(c)
    BY <1>8, <1>t, <1>h DEF Aside, absClosed, Py!Resume
  <2>2. MovesOn(c)
    BY <1>8, <1>t, <2>1, <1>h DEF MovesOn, absStatus, absAnswer, absClosed, Left, Py!Resume
  <2> QED
    BY <1>8, <1>t, <2>1, <2>2, CallMovesOn, <1>h DEF absClosed, Py!Resume
<1>9. CASE Py!Drop(c)
  <2>1. Aside(c)
    BY <1>9, <1>t DEF Aside, absClosed, Py!Drop
  <2>2. MovesOn(c)
    BY <1>9, <1>t, <2>1 DEF MovesOn, absStatus, absAnswer, absClosed, Left, Py!Drop
  <2> QED
    BY <1>9, <1>t, <2>1, <2>2, CallMovesOn DEF absClosed, Py!Drop
<1>10. CASE Py!Enter(c)
  <2>1. Aside(c)
    BY <1>10, <1>t DEF Aside, absClosed, Py!Enter
  <2>0. pc[c] = "idle" /\ pc'[c] = "register" /\ promise'[c] = "waiting"
    BY <1>10, <1>t, <1>o DEF absClosed, Py!Enter
  <2>2. MovesOn(c)
    BY <2>0, NewCall, StatusNext DEF MovesOn
  <2> QED
    BY <1>10, <1>t, <2>1, <2>2, CallMovesOn DEF absClosed, Py!Enter
<1>11. CASE Py!GiveUp(c)
  <2>1. Aside(c)
    BY <1>11, <1>t DEF Aside, absClosed, Py!GiveUp
  <2>2. MovesOn(c)
    BY <1>11, <1>t, <2>1 DEF MovesOn, absStatus, absAnswer, absClosed, Left, Py!GiveUp
  <2> QED
    BY <1>11, <1>t, <2>1, <2>2, CallMovesOn DEF absClosed, Py!GiveUp
<1> QED
  BY <1>1, <1>2, <1>3, <1>4, <1>5, <1>6, <1>7, <1>8, <1>9, <1>10, <1>11
     DEF Py!CallStep

\* The calls of a Rust end begin and end as promised.
LEMMA RustCallsPromised ==
  ASSUME IInv, PromiseKept, InRust, UNCHANGED lang, NEW c \in Call,
         \/ Rust!Enter(c) \/ Rust!TimeOut(c) \/ Rust!DroppedBare(c) \/ Rust!DroppedWaiting(c)
         \/ Rust!CallStep(c)
  PROVE  PromiseStep
<1> USE DEF Rust!netVars, Rust!tableVars, Rust!callVars, Rust!readerVars, Rust!mailVars,
        Rust!Goto, Goto, Rust!Settled, Settled, InRust
<1>t. /\ pc \in [Call -> CallPC]
      /\ promise \in [Call -> {"waiting", "value", "closed", "error"}]
      /\ \A d \in Call : promise[d] = "value" <=> reply[d] # NoFrame
      /\ \A d \in Call : promise[d] = "closed" => absClosed \/ pc[d] = "gaveUp"
  BY DEF IInv, CallsInv, CallsTyped, PromiseKept, ClosedInv
<1>o. \A d \in Call : pc[d] \in {"idle", "register"} => promise[d] = "waiting"
  BY DEF IInv, CallsInv, PromiseInv
<1>h. \A d \in Call : promise[d] # "waiting" => target # d
  BY DEF IInv, CallsInv, HandInv
<1>w. \A d \in Call : waiters[IdOf[d]] = d =>
        promise[d] = "waiting" /\ pc[d] \in MayWait
  BY Ids DEF IInv, CallsInv, TableInv
<1>1. CASE Rust!Refused(c)
  <2>1. Aside(c)
    BY <1>1, <1>t DEF Aside, absClosed, Rust!Refused
  <2>0. pc[c] = "register" /\ pc'[c] = "ended" /\ promise'[c] = "closed" /\ absClosed
    BY <1>1, <1>t, <1>o DEF absClosed, Rust!Refused
  <2>2. MovesOn(c)
    BY <2>0, NewCall, StatusNext DEF MovesOn
  <2> QED
    BY <1>1, <1>t, <2>1, <2>2, CallMovesOn DEF absClosed, Rust!Refused
<1>2. CASE Rust!Register(c)
  <2>1. Aside(c)
    BY <1>2, <1>t DEF Aside, absClosed, Rust!Register
  <2>0. pc[c] = "register" /\ pc'[c] = "send" /\ promise'[c] = "waiting" /\ ~absClosed
    BY <1>2, <1>t, <1>o DEF absClosed, Rust!Register
  <2>2. MovesOn(c)
    BY <2>0, NewCall, StatusNext DEF MovesOn
  <2> QED
    BY <1>2, <1>t, <2>1, <2>2, CallMovesOn DEF absClosed, Rust!Register
<1>3. CASE Rust!EncodeFails(c)
  <2>1. Aside(c)
    BY <1>3, <1>t DEF Aside, absClosed, Rust!EncodeFails
  <2>2. MovesOn(c)
    BY <1>3, <1>t, <2>1 DEF MovesOn, absStatus, absAnswer, absClosed, Left, Rust!EncodeFails
  <2> QED
    BY <1>3, <1>t, <2>1, <2>2, CallMovesOn DEF absClosed, Rust!EncodeFails
<1>4. CASE Rust!LockSend(c)
  <2>1. Aside(c)
    BY <1>4, <1>t DEF Aside, absClosed, Rust!LockSend
  <2>2. MovesOn(c)
    BY <1>4, <1>t, <2>1 DEF MovesOn, absStatus, absAnswer, absClosed, Left, Rust!LockSend
  <2> QED
    BY <1>4, <1>t, <2>1, <2>2, CallMovesOn DEF absClosed, Rust!LockSend
<1>5. CASE Rust!WriteOk(c)
  <2>1. Aside(c)
    BY <1>5, <1>t DEF Aside, absClosed, Rust!WriteOk
  <2>2. MovesOn(c)
    BY <1>5, <1>t, <2>1 DEF MovesOn, absStatus, absAnswer, absClosed, Left, Rust!WriteOk
  <2> QED
    BY <1>5, <1>t, <2>1, <2>2, CallMovesOn DEF absClosed, Rust!WriteOk
<1>6. CASE Rust!WriteFails(c)
  <2>1. Aside(c)
    BY <1>6, <1>t DEF Aside, absClosed, Rust!WriteFails
  <2>2. MovesOn(c)
    BY <1>6, <1>t, <2>1 DEF MovesOn, absStatus, absAnswer, absClosed, Left, Rust!WriteFails
  <2> QED
    BY <1>6, <1>t, <2>1, <2>2, CallMovesOn DEF absClosed, Rust!WriteFails
<1>7. CASE Rust!Unregister(c)
  <2>1. Aside(c)
    BY <1>7, <1>t DEF Aside, absClosed, Rust!Unregister
  <2>2. MovesOn(c)
    BY <1>7, <1>t, <2>1 DEF MovesOn, absStatus, absAnswer, absClosed, Left, Rust!Unregister
  <2> QED
    BY <1>7, <1>t, <2>1, <2>2, CallMovesOn DEF absClosed, Rust!Unregister
<1>8. CASE Rust!Resume(c)
  <2>1. Aside(c)
    BY <1>8, <1>t, <1>h DEF Aside, absClosed, Rust!Resume
  <2>2. MovesOn(c)
    BY <1>8, <1>t, <2>1, <1>h DEF MovesOn, absStatus, absAnswer, absClosed, Left, Rust!Resume
  <2> QED
    BY <1>8, <1>t, <2>1, <2>2, CallMovesOn, <1>h DEF absClosed, Rust!Resume
<1>9. CASE Rust!Drop(c)
  <2>1. Aside(c)
    BY <1>9, <1>t DEF Aside, absClosed, Rust!Drop
  <2>2. MovesOn(c)
    BY <1>9, <1>t, <2>1 DEF MovesOn, absStatus, absAnswer, absClosed, Left, Rust!Drop
  <2> QED
    BY <1>9, <1>t, <2>1, <2>2, CallMovesOn DEF absClosed, Rust!Drop
<1>10. CASE Rust!Enter(c)
  <2>1. Aside(c)
    BY <1>10, <1>t DEF Aside, absClosed, Rust!Enter
  <2>0. pc[c] = "idle" /\ pc'[c] = "register" /\ promise'[c] = "waiting"
    BY <1>10, <1>t, <1>o DEF absClosed, Rust!Enter
  <2>2. MovesOn(c)
    BY <2>0, NewCall, StatusNext DEF MovesOn
  <2> QED
    BY <1>10, <1>t, <2>1, <2>2, CallMovesOn DEF absClosed, Rust!Enter
<1>11. CASE Rust!TimeOut(c)
  <2>1. Aside(c)
    BY <1>11, <1>t DEF Aside, absClosed, Rust!TimeOut
  <2>2. MovesOn(c)
    BY <1>11, <1>t, <2>1 DEF MovesOn, absStatus, absAnswer, absClosed, Left, Rust!TimeOut
  <2> QED
    BY <1>11, <1>t, <2>1, <2>2, CallMovesOn DEF absClosed, Rust!TimeOut
<1>12. CASE Rust!DroppedBare(c)
  <2>1. Aside(c) /\ promise' = promise /\ pc'[c] = "gaveUp"
    BY <1>12, <1>t DEF Aside, Rust!DroppedBare
  <2>2. CASE pc[c] = "register"
    <3>1. MovesOn(c)
      BY <2>1, <2>2, NewCall, StatusNext DEF MovesOn
    <3> QED
      BY <2>1, <3>1, CallMovesOn
  <2>3. CASE pc[c] # "register"
    <3>1. absStatus[c] \in {"pending", "abandoned"} /\ absStatus'[c] = "abandoned"
      BY <1>12, <2>1, <2>3, StatusNext DEF Rust!DroppedBare, absStatus, Left
    <3>2. MovesOn(c)
      BY <3>1 DEF MovesOn
    <3> QED
      BY <2>1, <3>2, CallMovesOn
  <2> QED
    BY <2>2, <2>3
<1>13. CASE Rust!DroppedWaiting(c)
  <2>1. Aside(c)
    BY <1>13, <1>t DEF Aside, absClosed, Rust!DroppedWaiting
  <2>2. MovesOn(c)
    BY <1>13, <1>t, <2>1 DEF MovesOn, absStatus, absAnswer, absClosed, Left, Rust!DroppedWaiting
  <2> QED
    BY <1>13, <1>t, <2>1, <2>2, CallMovesOn DEF absClosed, Rust!DroppedWaiting
<1>14. CASE Rust!HookCancel(c)
  <2> DEFINE d == waiters[IdOf[c]]
  <2>1. Alone(c)
    BY <1>14, UnderWay DEF Rust!HookCancel
  <2>2. pc[c] = "gaveUp"
    BY <1>14 DEF Rust!HookCancel, IInv, CallsInv, HookInv, HookOK
  <2>3. d \in Call \cup {NoCall} /\ (d \in Call => IdOf[d] = IdOf[c] /\ pc[d] \in MayWait)
    BY Ids DEF IInv, CallsInv, CallsTyped, Table, TableInv
  <2>4. d \in Call => pc[d] = "gaveUp"
    BY <2>1, <2>2, <2>3 DEF Alone, MayWait, Idle, Done
  <2>5. /\ UNCHANGED pc
        /\ promise' = [e \in Call |-> IF e = d /\ promise[e] = "waiting" THEN "closed" ELSE promise[e]]
    BY <1>14 DEF Rust!HookCancel
  <2>6. Aside(c)
    BY <1>14, <2>4, <2>5 DEF Aside, Rust!HookCancel
  <2>7. MovesOn(c)
    BY <2>5, ResultEndsNoCall DEF MovesOn
  <2> QED
    BY <2>2, <2>5, <2>6, <2>7, CallMovesOn
<1>15. CASE Rust!HookSend(c)
  <2>1. Aside(c) /\ UNCHANGED <<pc, promise>>
    BY <1>15 DEF Aside, Rust!HookSend, Rust!callVars
  <2>2. MovesOn(c)
    BY <2>1, ResultEndsNoCall DEF MovesOn
  <2> QED
    BY <1>t, <2>1, <2>2, CallMovesOn
<1> QED
  BY <1>1, <1>2, <1>3, <1>4, <1>5, <1>6, <1>7, <1>8, <1>9, <1>10, <1>11, <1>12, <1>13,
     <1>14, <1>15
     DEF Rust!CallStep

-----------------------------------------------------------------------------
\* The first message on the wire, and the others.
LEMMA WireHead ==
  ASSUME IInv, wire # <<>>
  PROVE  /\ Head(wire) \in Frame /\ 1 \in DOMAIN wire /\ wire[1] = Head(wire)
         /\ DOMAIN wire = 1..Len(wire) /\ Len(wire) \in Nat
         /\ DOMAIN Tail(wire) = 1..(Len(wire) - 1)
         /\ \A i \in 1..(Len(wire) - 1) : Tail(wire)[i] = wire[i + 1]
         /\ \A i \in DOMAIN wire : wire[i] \in Frame
<1>1. wire \in Seq(Frame)
  BY DEF IInv, RestTyped
<1> QED
  BY <1>1

\* A message is read: it is then in hand, or gone.
LEMMA FrameRead ==
  ASSUME IInv, FreshInv, wire # <<>>, wire' = Tail(wire), UNCHANGED unsent, rd # "route"
  PROVE  /\ Head(wire) \in absFresh
         /\ rd' # "route" => FreshInv' /\ absFresh' = absFresh \ {Head(wire)}
         /\ rd' = "route" /\ held' = Head(wire) => FreshInv' /\ absFresh' = absFresh
<1> DEFINE f == Head(wire)
           n == Len(wire)
<1>1. /\ f \in Frame /\ n \in Nat /\ n > 0 /\ wire[1] = f /\ DOMAIN wire = 1..n
      /\ DOMAIN wire' = 1..(n - 1) /\ \A i \in 1..(n - 1) : wire'[i] = wire[i + 1]
  BY WireHead
<1> HIDE DEF f, n
<1>2. /\ \A i \in DOMAIN wire' : i + 1 \in DOMAIN wire /\ i + 1 # 1
      /\ \A i \in DOMAIN wire : i = 1 \/ (i - 1 \in DOMAIN wire' /\ wire'[i - 1] = wire[i])
  BY <1>1
<1>3. /\ f \notin unsent
      /\ \A i \in DOMAIN wire' : wire'[i] # f /\ wire'[i] \notin unsent
      /\ \A i, j \in DOMAIN wire' : wire'[i] = wire'[j] => i = j
  BY <1>1, <1>2 DEF FreshInv
<1>4. \A g \in Frame : (\E i \in DOMAIN wire' : wire'[i] = g) <=> g # f /\ \E i \in DOMAIN wire :
        wire[i] = g
  BY <1>1, <1>2, <1>3
<1>5. f \in absFresh
  BY <1>1 DEF absFresh
<1>6. rd' # "route" => absFresh' = absFresh \ {f}
  BY <1>3, <1>4 DEF absFresh
<1>7. rd' = "route" /\ held' = f => absFresh' = absFresh
  BY <1>1, <1>3, <1>4 DEF absFresh
<1>8. (rd' = "route" => held' = f) => FreshInv'
  BY <1>3 DEF FreshInv
<1> QED
  BY <1>5, <1>6, <1>7, <1>8 DEF f

\* The frame in hand is routed, or dropped.
LEMMA FrameRouted ==
  ASSUME IInv, FreshInv, rd = "route", rd' # "route", UNCHANGED <<unsent, wire>>
  PROVE  /\ held \in Frame /\ held \in absFresh
         /\ FreshInv' /\ absFresh' = absFresh \ {held}
<1>1. held \in Frame
  BY DEF IInv, ReaderInv
<1> QED
  BY <1>1 DEF FreshInv, absFresh

\* No frame is read.
LEMMA FramesStay ==
  ASSUME FreshInv, UNCHANGED <<unsent, wire>>,
         UNCHANGED <<rd, held>> \/ (rd # "route" /\ rd' # "route")
  PROVE  FreshInv' /\ absFresh' = absFresh
  BY DEF FreshInv, absFresh

-----------------------------------------------------------------------------
\* The mailbox, but for the sentinel and a frame in the hands of the Python
\* reader.
LEMMA MailIs ==
  ASSUME IInv, InboxInv, rd # "dead" \/ lang # "Python"
  PROVE  absMail = IF rd = "push" THEN Append(inbox, held) ELSE inbox
<1>1. inbox \in Seq(Frame \cup {Sentinel})
  BY DEF IInv, RestTyped
<1>2. Len(inbox) > 0 => Len(inbox) \in DOMAIN inbox
  BY <1>1
<1>3. ~(Len(inbox) > 0 /\ inbox[Len(inbox)] = Sentinel)
  BY <1>2 DEF InboxInv
<1> QED
  BY <1>3 DEF absMail

\* A receive takes the oldest message of the mailbox.
LEMMA MailTaken ==
  ASSUME IInv, InboxInv, inbox # <<>>, Head(inbox) # Sentinel,
         taken' = Append(taken, Head(inbox)), inbox' = Tail(inbox), rx' = "idle",
         UNCHANGED <<lang, rd, held>>
  PROVE  /\ absMail # <<>> /\ taken' = Append(taken, Head(absMail)) /\ absMail' = Tail(absMail)
         /\ InboxInv'
<1> DEFINE n == Len(inbox)
<1>1. /\ inbox \in Seq(Frame \cup {Sentinel}) /\ n \in Nat /\ n > 0 /\ DOMAIN inbox = 1..n
      /\ inbox' \in Seq(Frame \cup {Sentinel}) /\ Len(inbox') = n - 1 /\ DOMAIN inbox' = 1..(n - 1)
      /\ \A i \in 1..(n - 1) : inbox'[i] = inbox[i + 1]
      /\ inbox[1] = Head(inbox)
  BY DEF IInv, RestTyped
<1>2. InboxInv'
  <2>1. ASSUME NEW i \in DOMAIN inbox', inbox'[i] = Sentinel
        PROVE  i = Len(inbox') /\ lang = "Python" /\ rd = "dead" /\ rx # "reput"
    <3>1. i + 1 \in DOMAIN inbox /\ inbox[i + 1] = Sentinel
      BY <1>1, <2>1
    <3>2. i + 1 = n /\ lang = "Python" /\ rd = "dead" /\ rx # "reput"
      BY <3>1 DEF InboxInv
    <3> QED
      BY <1>1, <3>2
  <2>2. lang = "Rust server" => inbox' = <<>>
    BY DEF InboxInv
  <2> QED
    BY <2>1, <2>2 DEF InboxInv
<1>3. CASE inbox[n] = Sentinel
  <2>0. n > 1 /\ n - 1 \in 1..(n - 1) /\ (n - 1) + 1 = n /\ n \in DOMAIN inbox
    BY <1>1, <1>3
  <2>1. n > 1 /\ inbox'[n - 1] = Sentinel /\ rd # "push"
    <3>1. inbox'[n - 1] = inbox[n]
      BY <1>1, <2>0
    <3>2. rd = "dead"
      BY <1>3, <2>0 DEF InboxInv
    <3> QED
      BY <1>3, <2>0, <3>1, <3>2
  <2>2. absMail = SubSeq(inbox, 1, n - 1) /\ absMail' = SubSeq(inbox', 1, n - 2)
    BY <1>1, <1>3, <2>1 DEF absMail
  <2>3. /\ SubSeq(inbox, 1, n - 1) # <<>> /\ Head(SubSeq(inbox, 1, n - 1)) = Head(inbox)
        /\ SubSeq(inbox', 1, n - 2) = Tail(SubSeq(inbox, 1, n - 1))
    <3> DEFINE F == Frame \cup {Sentinel}
               a == SubSeq(inbox, 1, n - 1)
               b == SubSeq(inbox', 1, n - 2)
    <3>0. inbox \in Seq(F) /\ inbox' \in Seq(F) /\ Len(inbox) = n /\ Len(inbox') = n - 1
      BY <1>1
    <3> HIDE DEF n, F
    <3>1. a \in Seq(F) /\ Len(a) = n - 1 /\ \A i \in 1..(n - 1) : a[i] = inbox[i]
      BY <1>1, <2>1, <3>0
    <3>2. b \in Seq(F) /\ Len(b) = n - 2 /\ \A i \in 1..(n - 2) : b[i] = inbox[i + 1]
      BY <1>1, <2>1, <3>0
    <3> HIDE DEF a, b
    <3>3. a # <<>> /\ Head(a) = inbox[1]
      BY <1>1, <2>1, <3>1
    <3>4. /\ Tail(a) \in Seq(F) /\ Len(Tail(a)) = n - 2
          /\ \A i \in 1..(n - 2) : Tail(a)[i] = a[i + 1]
      BY <1>1, <2>1, <3>1, <3>3
    <3>5. \A i \in 1..(n - 2) : Tail(a)[i] = b[i]
      BY <1>1, <2>1, <3>1, <3>2, <3>4
    <3>6. Tail(a) = b
      BY <3>2, <3>4, <3>5
    <3> QED
      BY <1>1, <3>3, <3>6 DEF a, b
  <2> QED
    BY <1>2, <2>2, <2>3
<1>4. CASE inbox[n] # Sentinel
  <2>1. n - 1 > 0 => inbox'[n - 1] # Sentinel
    BY <1>1, <1>4
  <2>2. CASE rd = "push"
    <3>1. absMail = Append(inbox, held) /\ absMail' = Append(inbox', held)
      BY <1>1, <1>4, <2>1, <2>2 DEF absMail
    <3>2. held \in Frame
      BY <2>2 DEF IInv, ReaderInv
    <3>3. /\ Append(inbox, held) # <<>> /\ Head(Append(inbox, held)) = Head(inbox)
          /\ Append(Tail(inbox), held) = Tail(Append(inbox, held))
      BY <1>1, <3>2
    <3> QED
      BY <1>2, <3>1, <3>3
  <2>3. CASE rd # "push"
    <3>1. absMail = inbox /\ absMail' = inbox'
      BY <1>1, <1>4, <2>1, <2>3 DEF absMail
    <3> QED
      BY <1>2, <3>1
  <2> QED
    BY <2>2, <2>3
<1> QED
  BY <1>3, <1>4

\* What Append does, index by index.
LEMMA AppendIs ==
  ASSUME NEW S, NEW s \in Seq(S), NEW x \in S
  PROVE  /\ Len(s) \in Nat /\ DOMAIN s = 1..Len(s) /\ DOMAIN Append(s, x) = 1..(Len(s) + 1)
         /\ Len(Append(s, x)) = Len(s) + 1 /\ Append(s, x)[Len(s) + 1] = x
         /\ \A i \in 1..Len(s) : Append(s, x)[i] = s[i]
  OBVIOUS

\* What is in neither the sequence nor the new element is not in the longer one.
LEMMA AppendMisses ==
  ASSUME NEW S, NEW s \in Seq(S), NEW x \in S, NEW y, x # y, \A i \in DOMAIN s : s[i] # y
  PROVE  /\ \A i \in DOMAIN Append(s, x) : Append(s, x)[i] # y
         /\ Append(s, x)[Len(Append(s, x))] # y
<1>1. ASSUME NEW i \in DOMAIN Append(s, x) PROVE Append(s, x)[i] # y
  <2>1. i = Len(s) + 1 \/ i \in 1..Len(s)
    BY AppendIs
  <2> QED
    BY <2>1, AppendIs
<1> QED
  BY <1>1, AppendIs

\* A frame is put in the mailbox.
LEMMA MailPosted ==
  ASSUME IInv, InboxInv, NEW f \in Frame, lang # "Rust server", inbox' = Append(inbox, f),
         rd # "dead", rd' # "push", UNCHANGED <<lang, rx>>,
         lang \in {"TypeScript", "Dart"} => rx # "waiting"
  PROVE  absMail' = Append(inbox, f) /\ InboxInv'
<1> DEFINE M == Frame \cup {Sentinel}
<1>1. inbox \in Seq(M) /\ f \in M /\ f # Sentinel
  BY Ids DEF IInv, RestTyped
<1> HIDE DEF M
<1>2. \A i \in DOMAIN inbox : inbox[i] # Sentinel
  BY DEF InboxInv
<1>3. /\ \A i \in DOMAIN Append(inbox, f) : Append(inbox, f)[i] # Sentinel
      /\ Append(inbox, f)[Len(Append(inbox, f))] # Sentinel
  BY <1>1, <1>2, AppendMisses
<1>4. absMail' = inbox'
  BY <1>3 DEF absMail
<1>5. InboxInv'
  BY <1>3 DEF InboxInv
<1> QED
  BY <1>4, <1>5

\* The mailbox is left alone, but for who waits for it.
LEMMA MailStays ==
  ASSUME InboxInv, UNCHANGED <<lang, inbox>>, rd = "dead" => rd' = "dead",
         UNCHANGED <<rd, held>> \/ (rd # "push" /\ rd' # "push"),
         \/ rx' = rx
         \/ rx' \in {"idle", "waiting", "told"} /\ (lang \in {"TypeScript", "Dart"} => inbox = <<>>)
         \/ rx' \in {"idle", "told"}
  PROVE  absMail' = absMail /\ InboxInv'
  BY DEF absMail, InboxInv

-----------------------------------------------------------------------------
\* Results end no call.
LEMMA ResultsEndNoCall ==
  ASSUME IInv, UNCHANGED <<lang, pc>>,
         \A d \in Call : \/ promise'[d] = promise[d]
                         \/ promise[d] = "waiting" /\ promise'[d] \in {"value", "closed"}
  PROVE  UNCHANGED absStatus
<1>1. \A d \in Call : absStatus'[d] = absStatus[d]
  BY ResultEndsNoCall
<1> QED
  BY <1>1, Statuses

\* A frame that resolves to no call answers no call that waits.
LEMMA NobodyWaits ==
  ASSUME IInv, PromiseKept, NEW f \in Frame, ~absClosed, target = NoCall, closing = {},
         ResolvedBy(waiters, f) = NoCall
  PROVE  \A c \in Call : Promise!Unanswered(c) => ~Answers(f, c)
<1> SUFFICES ASSUME NEW c \in Call, Promise!Unanswered(c), Answers(f, c) PROVE FALSE
  OBVIOUS
<1>1. absStatus[c] = "pending" /\ absAnswer[c] = NoFrame
  BY DEF Promise!Unanswered
<1>2. promise[c] # "value"
  BY <1>1, Ids DEF absAnswer, IInv, CallsInv, CallsTyped
<1>3. /\ pc[c] \in {"idle", "register"} => absStatus[c] = "new"
      /\ pc[c] \in Left => absStatus[c] # "pending"
      /\ promise[c] = "error" => absStatus[c] # "pending"
  BY NewCall DEF absStatus, Left
<1>4. promise[c] = "waiting" /\ pc[c] # "ended"
  BY <1>1, <1>2, <1>3
    DEF IInv, CallsInv, CallsTyped, PromiseInv, PromiseKept, ClosedInv, Left
<1>5. pc[c] \in {"send", "write", "unregister", "await"} \/ (pc[c] = "drop" /\ ~InRust)
  BY <1>1, <1>3, <1>4 DEF IInv, CallsInv, CallsTyped, CallPC, Done, Left, InRust
<1>6. waiters[IdOf[c]] = c
  BY <1>4, <1>5, Ids DEF IInv, CallsInv, WaitingInv
<1>7. FrameId[f] = IdOf[c] /\ IdOf[c] \in Id
  BY Ids DEF Answers
<1> QED
  BY <1>6, <1>7, Ids DEF ResolvedBy

\* A call that a frame resolves to waits for it, if its caller has not gone.
LEMMA SomebodyWaits ==
  ASSUME IInv, NEW d \in Call, waiters[IdOf[d]] = d, target = NoCall, pc[d] \notin Left
  PROVE  Promise!Unanswered(d)
<1>1. promise[d] = "waiting" /\ pc[d] \in MayWait /\ d # NoCall
  BY Ids DEF IInv, CallsInv, TableInv
<1>2. absStatus[d] = "pending"
  BY <1>1 DEF absStatus, Left, MayWait, InRust
<1>3. absAnswer[d] = NoFrame
  BY <1>1, Ids DEF absAnswer, IInv, CallsInv, CallsTyped
<1> QED
  BY <1>2, <1>3 DEF Promise!Unanswered

\* The state of the connection, as a Boolean.
LEMMA ClosedOrNot == ASSUME IInv PROVE absClosed \in BOOLEAN
  BY DEF absClosed, IInv, RestTyped

\* Nothing of what CorrelatedCalls sees.
LEMMA NothingSeen ==
  ASSUME IInv, PromiseKept,
         UNCHANGED <<lang, pc, promise, reply, target, unsent, wire, inbox, taken, over>>,
         lang = "TypeScript" => UNCHANGED conn,
         \/ UNCHANGED <<rd, held>>
         \/ /\ {rd, rd'} \cap {"route", "push", "deliver"} = {}
            /\ IF rd \in {"failing", "close", "dead"}
                 THEN rd' = "dead" ELSE rd' \notin {"failing", "close", "dead"},
         \/ rx' = rx
         \/ rx' \in {"idle", "waiting", "told"} /\ (lang \in {"TypeScript", "Dart"} => inbox = <<>>)
         \/ rx' \in {"idle", "told"}
  PROVE  PromiseStep
<1>1. absFresh' = absFresh /\ FreshInv'
  BY FramesStay DEF PromiseKept
<1>2. absMail' = absMail /\ InboxInv'
  BY MailStays DEF PromiseKept
<1>3. absAnswer' = absAnswer
  BY Ids DEF absAnswer, IInv, ReaderInv
<1>4. UNCHANGED <<absStatus, absClosed>>
  BY DEF absStatus, absClosed, Left
<1>5. ClosedInv'
  BY <1>4 DEF PromiseKept, ClosedInv
<1> QED
  BY <1>1, <1>2, <1>3, <1>4, <1>5 DEF PromiseStep, PromiseKept, Promise!vars

\* A frame is rejected, or lost with what was to route it.
LEMMA FrameIsLost ==
  ASSUME IInv, PromiseKept, NEW f \in Frame, f \in absFresh,
         FreshInv', absFresh' = absFresh \ {f}, lang # "TypeScript",
         UNCHANGED <<lang, pc, promise, reply, target, inbox, rx, taken, over>>,
         rd \in {"read", "route"}, rd' \in {"read", "fail", "closeAll", "abort"}
  PROVE  PromiseStep
<1>1. absMail' = absMail /\ InboxInv'
  BY MailStays DEF PromiseKept
<1>2. absAnswer' = absAnswer
  BY Ids DEF absAnswer, IInv, ReaderInv
<1>3. UNCHANGED <<absStatus, absClosed>>
  BY DEF absStatus, absClosed, Left
<1>4. ClosedInv'
  BY <1>3 DEF PromiseKept, ClosedInv
<1>5. Promise!Lose({f})
  BY <1>1, <1>2, <1>3 DEF Promise!Lose
<1>6. Promise!Next
  BY <1>5 DEF Promise!Next
<1> QED
  BY <1>1, <1>4, <1>6 DEF PromiseStep, PromiseKept

\* A frame is a call's reply.
LEMMA FrameAnswers ==
  ASSUME IInv, PromiseKept, NEW f \in Frame, f \in absFresh,
         FreshInv', absFresh' = absFresh \ {f},
         NEW d \in Call, waiters[IdOf[d]] = d, Answers(f, d), pc[d] \notin Left,
         ~absClosed, target = NoCall, rd # "push", rd' # "push", rd # "dead",
         rd' \notin {"failing", "close", "dead"},
         UNCHANGED <<lang, pc, inbox, rx, taken, over>>, lang = "TypeScript" => UNCHANGED conn,
         \/ Answered(d, f) /\ target' = NoCall
         \/ target' = d /\ held' = f /\ UNCHANGED <<promise, reply>>
  PROVE  PromiseStep
<1>1. absMail' = absMail /\ InboxInv'
  BY MailStays DEF PromiseKept
<1>2. d # NoCall /\ promise[d] = "waiting"
  BY Ids DEF IInv, CallsInv, TableInv
<1>3. absAnswer' = [absAnswer EXCEPT ![d] = f]
  <2>1. reply \in [Call -> Frame \cup {NoFrame}] /\ NoCall \notin Call
    BY Ids DEF IInv, CallsInv, CallsTyped
  <2> QED
    BY <1>2, <2>1 DEF Answered, absAnswer
<1>4. UNCHANGED absStatus
  <2>1. \A e \in Call :
          promise'[e] = promise[e] \/ (promise[e] = "waiting" /\ promise'[e] = "value")
    BY <1>2 DEF Answered, IInv, CallsInv, CallsTyped
  <2> QED
    BY <2>1, ResultsEndNoCall
<1>5. UNCHANGED absClosed
  BY DEF absClosed
<1>6. ClosedInv'
  <2>1. \A e \in Call : promise'[e] = "closed" => promise[e] = "closed"
    BY DEF Answered, IInv, CallsInv, CallsTyped
  <2>2. lang # "Dart" => ~over
    BY DEF absClosed, PromiseKept, ClosedInv
  <2> QED
    BY <1>5, <2>1, <2>2 DEF PromiseKept, ClosedInv
<1>7. Promise!Assign(f, d)
  BY <1>1, <1>3, <1>4, <1>5, SomebodyWaits DEF Promise!Assign
<1>8. Promise!Next
  BY <1>7 DEF Promise!Next
<1> QED
  BY <1>1, <1>6, <1>8 DEF PromiseStep, PromiseKept

\* A frame is nobody's reply: it goes to the mailbox, or to its receiver.
LEMMA FrameDelivered ==
  ASSUME IInv, PromiseKept, NEW f \in Frame, f \in absFresh,
         FreshInv', absFresh' = absFresh \ {f}, InboxInv',
         ResolvedBy(waiters, f) = NoCall, ~absClosed, target = NoCall, closing = {},
         rd' \notin {"failing", "close", "dead"},
         UNCHANGED <<lang, pc, promise, reply, target, over>>,
           lang = "TypeScript" => UNCHANGED conn,
         \/ absMail' = Append(absMail, f) /\ UNCHANGED taken
         \/ absMail = <<>> /\ absMail' = absMail /\ taken' = Append(taken, f)
  PROVE  PromiseStep
<1>1. absAnswer' = absAnswer
  BY Ids DEF absAnswer
<1>2. UNCHANGED <<absStatus, absClosed>>
  BY DEF absStatus, absClosed, Left
<1>3. ClosedInv'
  <2>1. lang # "Dart" => ~over
    BY DEF absClosed, PromiseKept, ClosedInv
  <2> QED
    BY <1>2, <2>1 DEF PromiseKept, ClosedInv
<1>4. Promise!Post(f) \/ Promise!Hand(f)
  BY <1>1, <1>2, NobodyWaits DEF Promise!Post, Promise!Hand
<1>5. Promise!Next
  BY <1>4 DEF Promise!Next
<1> QED
  BY <1>3, <1>5 DEF PromiseStep, PromiseKept

\* Calls are refused from now on, and those under way fail.
LEMMA EndIsSeen ==
  ASSUME IInv, IInv', PromiseKept, absClosed', FreshInv', absFresh' \subseteq absFresh,
         InboxInv', absMail' = absMail,
         UNCHANGED <<lang, pc, reply, target, taken>>, target # NoCall => UNCHANGED held,
         \A d \in Call :
           promise'[d] = promise[d] \/ (promise[d] = "waiting" /\ promise'[d] = "closed"),
         lang \in {"Python", "Rust", "Rust server"} =>
           (over' <=> rd' \in {"failing", "close", "dead"})
  PROVE  PromiseStep
<1>1. UNCHANGED absStatus
  BY ResultsEndNoCall
<1>2. absAnswer' = absAnswer
  BY Ids DEF absAnswer
<1>3. absClosed \in BOOLEAN /\ absClosed' = TRUE
  BY ClosedOrNot DEF absClosed, IInv, RestTyped
<1>4. ClosedInv'
  BY <1>3 DEF ClosedInv, absClosed
<1>5. CASE ~absClosed
  <2>1. Promise!Shut
    BY <1>1, <1>2, <1>3, <1>5 DEF Promise!Shut
  <2> QED
    BY <1>4, <2>1 DEF PromiseStep, PromiseKept, Promise!Next
<1>6. CASE absClosed /\ absFresh' = absFresh
  BY <1>1, <1>2, <1>3, <1>4, <1>6 DEF PromiseStep, PromiseKept, Promise!vars
<1>7. CASE absClosed /\ absFresh' # absFresh
  <2> DEFINE lost == absFresh \ absFresh'
  <2>1. lost # {} /\ lost \in SUBSET Frame /\ absFresh' = absFresh \ lost
    BY <1>7 DEF absFresh
  <2>2. Promise!Lose(lost)
    BY <1>1, <1>2, <1>3, <1>7, <2>1 DEF Promise!Lose
  <2>3. Promise!Next
    BY <2>1, <2>2 DEF Promise!Next
  <2> QED
    BY <1>4, <2>3 DEF PromiseStep, PromiseKept
<1> QED
  BY <1>5, <1>6, <1>7

\* Outside Rust, whoever is in the table is there.
LEMMA WaiterListens ==
  ASSUME IInv, ~InRust, NEW d \in Call, waiters[IdOf[d]] = d PROVE pc[d] \notin Left
  BY Ids DEF IInv, CallsInv, TableInv, MayWait, Left, InRust

\* The application receives a frame.
LEMMA MessageTaken ==
  ASSUME IInv, PromiseKept, inbox # <<>>, Head(inbox) # Sentinel,
         taken' = Append(taken, Head(inbox)), inbox' = Tail(inbox), rx' = "idle",
         UNCHANGED <<lang, pc, promise, reply, target, unsent, wire, over, conn, rd, held>>
  PROVE  PromiseStep
<1>1. /\ absMail # <<>> /\ taken' = Append(taken, Head(absMail)) /\ absMail' = Tail(absMail)
      /\ InboxInv'
  BY MailTaken DEF PromiseKept
<1>2. absFresh' = absFresh /\ FreshInv'
  BY FramesStay DEF PromiseKept
<1>3. UNCHANGED <<absStatus, absClosed, absAnswer>>
  BY DEF absStatus, absClosed, absAnswer, Left
<1>4. ClosedInv'
  BY <1>3 DEF PromiseKept, ClosedInv
<1>5. Promise!Receive
  BY <1>1, <1>2, <1>3 DEF Promise!Receive
<1>6. Promise!Next
  BY <1>5 DEF Promise!Next
<1> QED
  BY <1>1, <1>2, <1>4, <1>6 DEF PromiseStep, PromiseKept

\* The reader takes up a frame.
LEMMA FrameInHand ==
  ASSUME IInv, PromiseKept, wire # <<>>, wire' = Tail(wire), held' = Head(wire),
         rd = "read", rd' = "route", lang # "TypeScript",
         UNCHANGED <<unsent, lang, pc, promise, reply, target, over, inbox, rx, taken>>
  PROVE  PromiseStep
<1>1. absFresh' = absFresh /\ FreshInv'
  BY FrameRead DEF PromiseKept
<1>2. absMail' = absMail /\ InboxInv'
  BY MailStays DEF PromiseKept
<1>3. absAnswer' = absAnswer
  BY Ids DEF absAnswer, IInv, ReaderInv
<1>4. UNCHANGED <<absStatus, absClosed>>
  BY DEF absStatus, absClosed, Left
<1>5. ClosedInv'
  BY <1>4 DEF PromiseKept, ClosedInv
<1> QED
  BY <1>1, <1>2, <1>3, <1>4, <1>5 DEF PromiseStep, PromiseKept, Promise!vars

\* The Python reader puts the sentinel in the inbox, and its receiver takes it
\* out and puts it back: the application sees no frame.
LEMMA SentinelPut ==
  ASSUME IInv, lang = "Python", UNCHANGED lang, inbox' = Append(inbox, Sentinel),
         rd # "push", rd' = "dead", rx' # "reput", \A i \in DOMAIN inbox : inbox[i] # Sentinel
  PROVE  absMail' = absMail /\ InboxInv'
<1> DEFINE M == Frame \cup {Sentinel}
<1>1. inbox \in Seq(M) /\ Sentinel \in M
  BY DEF IInv, RestTyped
<1> HIDE DEF M
<1> DEFINE s == Append(inbox, Sentinel)
<1>2. /\ Len(inbox) \in Nat /\ DOMAIN inbox = 1..Len(inbox) /\ DOMAIN s = 1..(Len(inbox) + 1)
      /\ Len(s) = Len(inbox) + 1 /\ s[Len(inbox) + 1] = Sentinel
      /\ \A i \in 1..Len(inbox) : s[i] = inbox[i]
  BY <1>1, AppendIs
<1>3. SubSeq(s, 1, Len(s) - 1) = inbox
  BY <1>1, <1>2
<1> HIDE DEF s
<1>4. inbox' = s
  BY DEF s
<1>5. absMail' = inbox
  BY <1>2, <1>3, <1>4 DEF absMail
<1>6. absMail = inbox
  <2>1. ~(Len(inbox) > 0 /\ inbox[Len(inbox)] = Sentinel)
    BY <1>2
  <2> QED
    BY <2>1 DEF absMail
<1>7. \A i \in DOMAIN s : s[i] = Sentinel => i = Len(s)
  BY <1>2
<1>8. InboxInv'
  BY <1>4, <1>7 DEF InboxInv
<1> QED
  BY <1>5, <1>6, <1>8

\* The Python receiver that takes the sentinel takes no frame.
LEMMA SentinelTaken ==
  ASSUME IInv, InboxInv, lang = "Python", UNCHANGED <<lang, rd>>, inbox # <<>>,
         Head(inbox) = Sentinel, inbox' = Tail(inbox)
  PROVE  absMail' = absMail /\ InboxInv'
<1>1. inbox \in Seq(Frame \cup {Sentinel})
  BY DEF IInv, RestTyped
<1>2. 1 \in DOMAIN inbox /\ inbox[1] = Sentinel
  BY <1>1
<1>3. Len(inbox) = 1 /\ rd = "dead"
  BY <1>2 DEF InboxInv
<1>4. inbox' = <<>> /\ SubSeq(inbox, 1, 0) = <<>>
  BY <1>1, <1>3
<1>5. absMail' = <<>> /\ absMail = <<>>
  BY <1>2, <1>3, <1>4 DEF absMail
<1>6. InboxInv'
  BY <1>3, <1>4 DEF InboxInv
<1> QED
  BY <1>5, <1>6

-----------------------------------------------------------------------------
\* A TypeScript socket routes, delivers and ends as promised.
LEMMA TSReadsPromised ==
  ASSUME IInv, IInv', PromiseKept, lang = "TypeScript", UNCHANGED lang,
         TS!ReaderStep \/ TS!Receive \/ TS!Close
  PROVE  PromiseStep
<1> USE DEF TS!netVars, TS!tableVars, TS!callVars, TS!readerVars, TS!mailVars,
        TS!Settled, Settled
<1>t. /\ target = NoCall /\ closing = {} /\ rd = "read" /\ FreshInv /\ InboxInv
      /\ absMail = inbox /\ ~InRust
  <2>1. target = NoCall /\ closing = {} /\ rd = "read" /\ FreshInv /\ InboxInv
    BY DEF IInv, ReaderInv, PromiseKept
  <2> QED
    BY <2>1, MailIs DEF InRust
<1>r. TS!ResolvedBy(waiters, Head(wire)) = ResolvedBy(waiters, Head(wire))
  BY DEF TS!ResolvedBy, ResolvedBy, TS!Answers, Answers
<1>1. CASE TS!BadMessage
  <2>1. /\ wire # <<>> /\ wire' = Tail(wire) /\ conn' = "closing"
        /\ UNCHANGED <<unsent, lang, pc, promise, reply, target, held, rd, taken, inbox, rx>>
    BY <1>1 DEF TS!BadMessage
  <2>2. FreshInv' /\ absFresh' \subseteq absFresh
    BY <1>t, <2>1, FrameRead
  <2>3. absMail' = absMail /\ InboxInv' /\ absClosed'
    BY <1>t, <2>1, MailStays DEF absClosed
  <2> QED
    BY <2>1, <2>2, <2>3, EndIsSeen
<1>2. CASE TS!ReplyMessage
  <2> DEFINE f == Head(wire)
             d == ResolvedBy(waiters, f)
  <2>1. /\ wire # <<>> /\ d # NoCall /\ ~absClosed /\ TS!Answered(d, f) /\ wire' = Tail(wire)
        /\ UNCHANGED <<unsent, lang, pc, inbox, rx, taken, over, conn, rd, held, target>>
    BY <1>2, <1>r DEF TS!ReplyMessage, TS!CanRead, absClosed
  <2>2. f \in Frame /\ f \in absFresh /\ FreshInv' /\ absFresh' = absFresh \ {f}
    BY <1>t, <2>1, WireHead, FrameRead
  <2>3. d \in Call /\ waiters[IdOf[d]] = d /\ Answers(f, d)
    BY <2>1, <2>2, Resolved
  <2>4. pc[d] \notin Left /\ Answered(d, f)
    BY <1>t, <2>1, <2>3, WaiterListens DEF Answered, TS!Answered
  <2> HIDE DEF f, d
  <2> QED
    BY <1>t, <2>1, <2>2, <2>3, <2>4, FrameAnswers
<1>3. CASE TS!OtherMessage
  <2> DEFINE f == Head(wire)
  <2>1. /\ wire # <<>> /\ ResolvedBy(waiters, f) = NoCall /\ ~absClosed /\ wire' = Tail(wire)
        /\ UNCHANGED <<unsent, lang, pc, promise, reply, over, conn, rd, held, target>>
    BY <1>3, <1>r DEF TS!OtherMessage, TS!CanRead, absClosed
  <2>2. f \in Frame /\ f \in absFresh /\ FreshInv' /\ absFresh' = absFresh \ {f}
    BY <1>t, <2>1, WireHead, FrameRead
  <2>3. CASE rx = "waiting"
    <3>1. taken' = Append(taken, f) /\ rx' = "idle" /\ UNCHANGED inbox
      BY <1>3, <2>3 DEF TS!OtherMessage
    <3>2. absMail' = absMail /\ InboxInv' /\ inbox = <<>>
      BY <1>t, <2>1, <2>3, <3>1, MailStays DEF InboxInv
    <3> HIDE DEF f
    <3> QED
      BY <1>t, <2>1, <2>2, <3>1, <3>2, FrameDelivered
  <2>4. CASE rx # "waiting"
    <3>1. inbox' = Append(inbox, f) /\ UNCHANGED <<rx, taken>>
      BY <1>3, <2>4 DEF TS!OtherMessage
    <3> HIDE DEF f
    <3>2. absMail' = Append(absMail, f) /\ InboxInv'
      BY <1>t, <2>1, <2>2, <2>4, <3>1, MailPosted
    <3> QED
      BY <1>t, <2>1, <2>2, <3>1, <3>2, FrameDelivered
  <2> QED
    BY <2>3, <2>4
<1>4. CASE TS!CloseEvent
  <2>1. /\ UNCHANGED <<unsent, wire, lang, pc, reply, target, held, rd, taken, inbox>>
        /\ conn' = "closed" /\ rx' \in {rx, "told"}
    BY <1>4 DEF TS!CloseEvent
  <2>2. FreshInv' /\ absFresh' \subseteq absFresh
    BY <1>t, <2>1, FramesStay
  <2>3. absMail' = absMail /\ InboxInv' /\ absClosed'
    BY <1>t, <2>1, MailStays DEF absClosed
  <2>4. \A d \in Call :
          promise'[d] = promise[d] \/ (promise[d] = "waiting" /\ promise'[d] = "closed")
    BY <1>4, WaitersWait DEF TS!CloseEvent, TS!RejectAll, TS!Waiting, Waiting
  <2> QED
    BY <2>1, <2>2, <2>3, <2>4, EndIsSeen
<1>5. CASE TS!Close
  <2>1. /\ UNCHANGED <<unsent, wire, lang, pc, promise, reply, target, held, rd, taken, inbox, rx>>
        /\ conn' = "closing"
    BY <1>5 DEF TS!Close
  <2>2. FreshInv' /\ absFresh' \subseteq absFresh
    BY <1>t, <2>1, FramesStay
  <2>3. absMail' = absMail /\ InboxInv' /\ absClosed'
    BY <1>t, <2>1, MailStays DEF absClosed
  <2> QED
    BY <2>1, <2>2, <2>3, EndIsSeen
<1>6. CASE TS!Receive
  <2>1. UNCHANGED <<lang, pc, promise, reply, target, unsent, wire, over, conn, rd, held>>
    BY <1>6 DEF TS!Receive
  <2>2. CASE TS!Take
    BY <2>1, <2>2, MessageTaken DEF TS!Take
  <2>3. CASE ~TS!Take
    <3>1. inbox = <<>> /\ rx' \in {"told", "waiting"} /\ UNCHANGED <<inbox, taken>>
      BY <1>6, <2>3 DEF TS!Receive
    <3> QED
      BY <2>1, <3>1, NothingSeen
  <2> QED
    BY <2>2, <2>3
<1> QED
  BY <1>1, <1>2, <1>3, <1>4, <1>5, <1>6
     DEF TS!ReaderStep

\* So does a Dart socket.
LEMMA DartReadsPromised ==
  ASSUME IInv, IInv', PromiseKept, lang = "Dart", UNCHANGED lang,
         Dart!ReaderStep \/ Dart!Receive \/ Dart!StopWaiting \/ Dart!Close
  PROVE  PromiseStep
<1> USE DEF Dart!netVars, Dart!tableVars, Dart!callVars, Dart!readerVars, Dart!mailVars,
        Dart!Settled, Settled
<1>t. /\ target = NoCall /\ closing = {} /\ rd = "read" /\ FreshInv /\ InboxInv
      /\ absMail = inbox /\ ~InRust
  <2>1. target = NoCall /\ closing = {} /\ rd = "read" /\ FreshInv /\ InboxInv
    BY DEF IInv, ReaderInv, PromiseKept
  <2> QED
    BY <2>1, MailIs DEF InRust
<1>r. Dart!ResolvedBy(waiters, Head(wire)) = ResolvedBy(waiters, Head(wire))
  BY DEF Dart!ResolvedBy, ResolvedBy, Dart!Answers, Answers
<1>f. ASSUME Dart!Fail
      PROVE  /\ \A d \in Call :
                  promise'[d] = promise[d] \/ (promise[d] = "waiting" /\ promise'[d] = "closed")
             /\ rx' \in {rx, "told"} /\ absClosed'
  BY <1>f, WaitersWait DEF Dart!Fail, Dart!Waiting, Waiting, absClosed
<1>1. CASE Dart!BadData
  <2>1. /\ wire # <<>> /\ wire' = Tail(wire) /\ Dart!Fail
        /\ UNCHANGED <<unsent, lang, pc, reply, target, held, rd, taken, inbox>>
    BY <1>1 DEF Dart!BadData, Dart!CanRead
  <2>2. FreshInv' /\ absFresh' \subseteq absFresh
    BY <1>t, <2>1, FrameRead
  <2>3. absMail' = absMail /\ InboxInv'
    BY <1>t, <1>f, <2>1, MailStays
  <2> QED
    BY <1>f, <2>1, <2>2, <2>3, EndIsSeen
<1>2. CASE Dart!ReplyData
  <2> DEFINE f == Head(wire)
             d == ResolvedBy(waiters, f)
  <2>1. /\ wire # <<>> /\ d # NoCall /\ ~absClosed /\ Dart!Answered(d, f) /\ wire' = Tail(wire)
        /\ UNCHANGED <<unsent, lang, pc, inbox, rx, taken, over, conn, rd, held, target>>
    BY <1>2, <1>r DEF Dart!ReplyData, Dart!CanRead, absClosed
  <2>2. f \in Frame /\ f \in absFresh /\ FreshInv' /\ absFresh' = absFresh \ {f}
    BY <1>t, <2>1, WireHead, FrameRead
  <2>3. d \in Call /\ waiters[IdOf[d]] = d /\ Answers(f, d)
    BY <2>1, <2>2, Resolved
  <2>4. pc[d] \notin Left /\ Answered(d, f)
    BY <1>t, <2>1, <2>3, WaiterListens DEF Answered, Dart!Answered
  <2> HIDE DEF f, d
  <2> QED
    BY <1>t, <2>1, <2>2, <2>3, <2>4, FrameAnswers
<1>3. CASE Dart!OtherData
  <2> DEFINE f == Head(wire)
  <2>1. /\ wire # <<>> /\ ResolvedBy(waiters, f) = NoCall /\ ~absClosed /\ wire' = Tail(wire)
        /\ UNCHANGED <<unsent, lang, pc, promise, reply, over, conn, rd, held, target>>
    BY <1>3, <1>r DEF Dart!OtherData, Dart!CanRead, absClosed
  <2>2. f \in Frame /\ f \in absFresh /\ FreshInv' /\ absFresh' = absFresh \ {f}
    BY <1>t, <2>1, WireHead, FrameRead
  <2>3. CASE rx = "waiting"
    <3>1. taken' = Append(taken, f) /\ rx' = "idle" /\ UNCHANGED inbox
      BY <1>3, <2>3 DEF Dart!OtherData
    <3>2. absMail' = absMail /\ InboxInv' /\ inbox = <<>>
      BY <1>t, <2>1, <2>3, <3>1, MailStays DEF InboxInv
    <3> HIDE DEF f
    <3> QED
      BY <1>t, <2>1, <2>2, <3>1, <3>2, FrameDelivered
  <2>4. CASE rx # "waiting"
    <3>1. inbox' = Append(inbox, f) /\ UNCHANGED <<rx, taken>>
      BY <1>3, <2>4 DEF Dart!OtherData
    <3> HIDE DEF f
    <3>2. absMail' = Append(absMail, f) /\ InboxInv'
      BY <1>t, <2>1, <2>2, <2>4, <3>1, MailPosted
    <3> QED
      BY <1>t, <2>1, <2>2, <3>1, <3>2, FrameDelivered
  <2> QED
    BY <2>3, <2>4
<1>4. CASE Dart!StreamEnds
  <2>1. UNCHANGED <<unsent, wire, lang, pc, reply, target, held, rd, taken, inbox>>
    BY <1>4 DEF Dart!StreamEnds
  <2>2. CASE over
    BY <1>4, <2>1, <2>2, NothingSeen DEF Dart!StreamEnds
  <2>3. CASE ~over
    <3>1. Dart!Fail
      BY <1>4, <2>3 DEF Dart!StreamEnds
    <3>2. FreshInv' /\ absFresh' \subseteq absFresh
      BY <1>t, <2>1, FramesStay
    <3>3. absMail' = absMail /\ InboxInv'
      BY <1>t, <1>f, <2>1, <3>1, MailStays
    <3> QED
      BY <1>f, <2>1, <3>1, <3>2, <3>3, EndIsSeen
  <2> QED
    BY <2>2, <2>3
<1>5. CASE Dart!StopWaiting \/ Dart!Close
  BY <1>5, NothingSeen DEF Dart!StopWaiting, Dart!Close
<1>6. CASE Dart!Receive
  <2>1. UNCHANGED <<lang, pc, promise, reply, target, unsent, wire, over, conn, rd, held>>
    BY <1>6 DEF Dart!Receive
  <2>2. CASE Dart!Take
    BY <2>1, <2>2, MessageTaken DEF Dart!Take
  <2>3. CASE ~Dart!Take
    <3>1. inbox = <<>> /\ rx' \in {"told", "waiting"} /\ UNCHANGED <<inbox, taken>>
      BY <1>6, <2>3 DEF Dart!Receive
    <3> QED
      BY <2>1, <3>1, NothingSeen
  <2> QED
    BY <2>2, <2>3
<1> QED
  BY <1>1, <1>2, <1>3, <1>4, <1>5, <1>6
     DEF Dart!ReaderStep

\* The reader and the receiver of a Python client.
LEMMA PyReadsPromised ==
  ASSUME IInv, IInv', PromiseKept, lang = "Python", UNCHANGED lang,
         Py!ReaderStep \/ Py!ReceiverStep \/ Py!Receive \/ Py!StopWaiting \/ Py!Close
  PROVE  PromiseStep
<1> USE DEF Py!netVars, Py!tableVars, Py!callVars, Py!readerVars, Py!mailVars,
        Py!Settled, Settled
<1>t. /\ FreshInv /\ InboxInv /\ lang = "Python" /\ ~InRust
      /\ target # NoCall <=> rd = "deliver"
      /\ closing # {} => rd = "failing"
      /\ over <=> rd \in {"failing", "close", "dead"}
  BY DEF InRust, IInv, ReaderInv, PromiseKept, ClosedInv
<1>r. Py!ResolvedBy(waiters, held) = ResolvedBy(waiters, held)
  BY DEF Py!ResolvedBy, ResolvedBy, Py!Answers, Answers
<1>1. CASE Py!ReadFrame
  <2>1. /\ wire # <<>> /\ wire' = Tail(wire) /\ held' = Head(wire) /\ rd = "read" /\ rd' = "route"
        /\ UNCHANGED <<unsent, lang, pc, promise, reply, target, over, inbox, rx, taken>>
    BY <1>1 DEF Py!ReadFrame, Py!CanRead
  <2> QED
    BY <2>1, <1>t, FrameInHand
<1>2. CASE Py!ReadBad
  <2>1. /\ wire # <<>> /\ wire' = Tail(wire) /\ rd = "read" /\ rd' \in {"fail", "closeAll"}
        /\ UNCHANGED <<unsent, lang, pc, promise, reply, target, over, inbox, rx, taken>>
    BY <1>2 DEF Py!ReadBad, Py!CanRead
  <2>2. Head(wire) \in Frame /\ Head(wire) \in absFresh /\ FreshInv' /\ absFresh' = absFresh \ {Head(wire)}
    BY <1>t, <2>1, WireHead, FrameRead
  <2> QED
    BY <1>t, <2>1, <2>2, FrameIsLost
<1>3. CASE Py!ReadEnd \/ Py!Receive \/ Py!StopWaiting \/ Py!Close
  BY <1>3, <1>t, NothingSeen
     DEF Py!ReadEnd, Py!Receive, Py!StopWaiting, Py!Close
<1>4. CASE Py!Route
  <2> DEFINE d == ResolvedBy(waiters, held)
  <2>1. /\ rd = "route" /\ target = NoCall /\ closing = {} /\ ~absClosed
        /\ UNCHANGED <<unsent, wire, lang, pc, promise, reply, over, inbox, rx, taken, held>>
    BY <1>4, <1>t DEF Py!Route, absClosed
  <2>2. rd' \in {"push", "deliver"}
    BY <1>4 DEF Py!Route
  <2>3. held \in Frame /\ held \in absFresh /\ FreshInv' /\ absFresh' = absFresh \ {held}
    BY <1>t, <2>1, <2>2, FrameRouted
  <2>4. CASE d = NoCall
    <3>1. rd' = "push" /\ target' = target
      BY <1>4, <1>r, <2>4 DEF Py!Route
    <3>2. absMail = inbox
      BY <1>t, <2>1, MailIs
    <3>3. InboxInv'
      BY <1>t, <2>1, <3>1 DEF InboxInv
    <3>4. absMail' = Append(absMail, held)
      <4>1. absMail' = Append(IF Len(inbox) > 0 /\ inbox[Len(inbox)] = Sentinel
                                THEN SubSeq(inbox, 1, Len(inbox) - 1) ELSE inbox, held)
        BY <2>1, <3>1 DEF absMail
      <4>2. absMail = IF Len(inbox) > 0 /\ inbox[Len(inbox)] = Sentinel
                        THEN SubSeq(inbox, 1, Len(inbox) - 1) ELSE inbox
        BY <2>1 DEF absMail
      <4> QED
        BY <4>1, <4>2
    <3> QED
      BY <1>t, <2>1, <2>3, <2>4, <3>1, <3>3, <3>4, FrameDelivered
  <2>5. CASE d # NoCall
    <3>1. rd' = "deliver" /\ target' = d
      BY <1>4, <1>r, <2>5 DEF Py!Route
    <3>2. d \in Call /\ waiters[IdOf[d]] = d /\ Answers(held, d)
      BY <2>3, <2>5, Resolved
    <3>3. pc[d] \notin Left
      BY <1>t, <3>2, WaiterListens
    <3> HIDE DEF d
    <3> QED
      BY <1>t, <2>1, <2>3, <3>1, <3>2, <3>3, FrameAnswers
  <2> QED
    BY <2>4, <2>5
<1>5. CASE Py!Deliver
  <2>1. /\ rd = "deliver" /\ rd' = "read" /\ target \in Call /\ target' = NoCall /\ ~over
        /\ UNCHANGED <<unsent, wire, lang, pc, over, inbox, rx, taken>>
        /\ promise' = [promise EXCEPT ![target] = "value"] /\ reply' = [reply EXCEPT ![target] = held]
    BY <1>5, <1>t DEF Py!Deliver, Py!Answered, IInv, CallsInv, CallsTyped
  <2>2. promise[target] = "waiting" /\ promise \in [Call -> {"waiting", "value", "closed", "error"}]
    BY <2>1 DEF IInv, CallsInv, CallsTyped, HandInv
  <2>3. UNCHANGED absStatus
    BY <2>1, <2>2, ResultsEndNoCall
  <2>4. absAnswer' = absAnswer
    <3>1. reply \in [Call -> Frame \cup {NoFrame}] /\ NoCall \notin Call
      BY Ids DEF IInv, CallsInv, CallsTyped
    <3> QED
      BY <2>1, <3>1 DEF absAnswer
  <2>5. absFresh' = absFresh /\ FreshInv'
    BY <1>t, <2>1, FramesStay
  <2>6. absMail' = absMail /\ InboxInv'
    BY <1>t, <2>1, MailStays
  <2>7. absClosed' = absClosed /\ ClosedInv'
    BY <2>1, <2>2 DEF absClosed, PromiseKept, ClosedInv
  <2> QED
    BY <2>1, <2>3, <2>4, <2>5, <2>6, <2>7 DEF PromiseStep, PromiseKept, Promise!vars
<1>6. CASE Py!Push
  <2>1. /\ rd = "push" /\ rd' = "read" /\ inbox' = Append(inbox, held) /\ target = NoCall
        /\ UNCHANGED <<unsent, wire, lang, pc, promise, reply, target, over, rx, taken>>
    BY <1>6, <1>t DEF Py!Push
  <2>2. held \in Frame
    BY <2>1 DEF IInv, ReaderInv
  <2>3. absMail = Append(inbox, held)
    BY <1>t, <2>1, MailIs
  <2>4. absMail' = absMail /\ InboxInv'
    BY <1>t, <2>1, <2>2, <2>3, MailPosted
  <2>5. absFresh' = absFresh /\ FreshInv'
    BY <1>t, <2>1, FramesStay
  <2>6. UNCHANGED <<absStatus, absAnswer, absClosed>>
    BY <2>1, Ids DEF absStatus, absAnswer, absClosed, Left
  <2>7. ClosedInv'
    BY <1>t, <2>1, <2>6 DEF PromiseKept, ClosedInv
  <2> QED
    BY <2>1, <2>4, <2>5, <2>6, <2>7 DEF PromiseStep, PromiseKept, Promise!vars
<1>7. CASE Py!Fail
  <2>1. /\ rd = "fail" /\ rd' = "failing" /\ over'
        /\ UNCHANGED <<unsent, wire, lang, pc, promise, reply, target, held, inbox, rx, taken>>
    BY <1>7 DEF Py!Fail, Py!callVars
  <2>2. absFresh' = absFresh /\ FreshInv'
    BY <1>t, <2>1, FramesStay
  <2>3. absMail' = absMail /\ InboxInv'
    BY <1>t, <2>1, MailStays
  <2>4. absClosed'
    BY <1>t, <2>1 DEF absClosed
  <2> QED
    BY <2>1, <2>2, <2>3, <2>4, EndIsSeen
<1>8. ASSUME NEW c \in Call, Py!FailOne(c) PROVE PromiseStep
  <2>1. /\ rd = "failing" /\ c \in closing /\ promise' = Settled({c}, "closed")
        /\ UNCHANGED <<unsent, wire, lang, pc, reply, target, held, inbox, rx, taken, rd, over>>
    BY <1>8 DEF Py!FailOne
  <2>2. promise[c] = "waiting"
    BY <2>1 DEF IInv, CallsInv, HandInv
  <2>3. absFresh' = absFresh /\ FreshInv'
    BY <1>t, <2>1, FramesStay
  <2>4. absMail' = absMail /\ InboxInv'
    BY <1>t, <2>1, MailStays
  <2>5. over
    BY <1>t, <2>1
  <2>6. absClosed'
    BY <1>t, <2>1, <2>5 DEF absClosed
  <2> QED
    BY <2>1, <2>2, <2>3, <2>4, <2>5, <2>6, EndIsSeen
<1>9. CASE Py!PushEnd \/ Py!SeeEnd \/ Py!PutBack
  <2>1. /\ UNCHANGED <<unsent, wire, lang, pc, promise, reply, target, held, taken, over>>
        /\ {rd, rd'} \cap {"route", "push", "deliver"} = {}
        /\ rd \in {"failing", "dead"} /\ rd' = "dead"
    BY <1>9, <1>t DEF Py!PushEnd, Py!SeeEnd, Py!PutBack, InboxInv
  <2>2. absFresh' = absFresh /\ FreshInv'
    BY <1>t, <2>1, FramesStay
  <2>3. UNCHANGED <<absStatus, absAnswer, absClosed>>
    BY <2>1, Ids DEF absStatus, absAnswer, absClosed, Left
  <2>4. ClosedInv'
    BY <2>1, <2>3 DEF PromiseKept, ClosedInv
  <2>5. absMail' = absMail /\ InboxInv'
    <3>1. CASE inbox' = Append(inbox, Sentinel) /\ rd' = "dead" /\ rx' # "reput" /\ \A i \in DOMAIN inbox : inbox[i] # Sentinel
      BY <1>t, <2>1, <3>1, SentinelPut
    <3>2. CASE Py!SeeEnd
      BY <1>t, <2>1, <3>2, SentinelTaken DEF Py!SeeEnd
    <3>3. CASE Py!PushEnd
      <4>1. rd = "failing" /\ inbox' = Append(inbox, Sentinel) /\ UNCHANGED rx
        BY <3>3 DEF Py!PushEnd
      <4> QED
        BY <1>t, <2>1, <3>1, <4>1 DEF InboxInv
    <3>4. CASE Py!PutBack
      BY <1>t, <2>1, <3>1, <3>4 DEF Py!PutBack, InboxInv
    <3> QED
      BY <1>9, <3>2, <3>3, <3>4
  <2> QED
    BY <2>1, <2>2, <2>3, <2>4, <2>5 DEF PromiseStep, PromiseKept, Promise!vars
<1>10. CASE Py!GetFrame
  <2>1. UNCHANGED <<lang, pc, promise, reply, target, unsent, wire, over, conn, rd, held>>
    BY <1>10 DEF Py!GetFrame
  <2> QED
    BY <1>10, <2>1, MessageTaken DEF Py!GetFrame, Py!Take
<1> QED
  BY <1>1, <1>2, <1>3, <1>4, <1>5, <1>6, <1>7, <1>8, <1>9, <1>10
     DEF Py!ReaderStep, Py!ReceiverStep

\* The reader, the receiver and the pings of a Rust client.
LEMMA RustReadsPromised ==
  ASSUME IInv, IInv', PromiseKept, lang = "Rust", UNCHANGED lang,
         \/ Rust!ReaderStep \/ Rust!ReceiverStep \/ Rust!Receive \/ Rust!StopWaiting \/ Rust!Close
         \/ Rust!PingAborts
  PROVE  PromiseStep
<1> USE DEF Rust!netVars, Rust!tableVars, Rust!callVars, Rust!readerVars, Rust!mailVars,
        Rust!Settled, Settled
<1>t. /\ FreshInv /\ InboxInv /\ lang = "Rust"
      /\ target # NoCall <=> rd = "deliver"
      /\ closing # {} => rd = "failing"
      /\ over <=> rd \in {"failing", "close", "dead"}
  BY DEF InRust, IInv, ReaderInv, PromiseKept, ClosedInv
<1>r. Rust!ResolvedBy(waiters, held) = ResolvedBy(waiters, held)
  BY DEF Rust!ResolvedBy, ResolvedBy, Rust!Answers, Answers
<1>1. CASE Rust!ReadFrame
  <2>1. /\ wire # <<>> /\ wire' = Tail(wire) /\ held' = Head(wire) /\ rd = "read" /\ rd' = "route"
        /\ UNCHANGED <<unsent, lang, pc, promise, reply, target, over, inbox, rx, taken>>
    BY <1>1 DEF Rust!ReadFrame, Rust!CanRead
  <2> QED
    BY <2>1, <1>t, FrameInHand
<1>2. CASE Rust!ReadEnds
  <2>1. CASE wire # <<>> /\ wire' = Tail(wire)
    <3>1. /\ rd = "read" /\ rd' = "closeAll"
          /\ UNCHANGED <<unsent, lang, pc, promise, reply, target, over, inbox, rx, taken>>
      BY <1>2 DEF Rust!ReadEnds
    <3>2. Head(wire) \in Frame /\ Head(wire) \in absFresh /\ FreshInv' /\ absFresh' = absFresh \ {Head(wire)}
      BY <1>t, <2>1, <3>1, WireHead, FrameRead
    <3> QED
      BY <1>t, <3>1, <3>2, FrameIsLost
  <2>2. CASE UNCHANGED wire
    BY <1>2, <1>t, <2>2, NothingSeen DEF Rust!ReadEnds
  <2> QED
    BY <1>2, <2>1, <2>2 DEF Rust!ReadEnds, Rust!CanRead
<1>3. CASE Rust!Receive \/ Rust!StopWaiting \/ Rust!Close \/ Rust!PingCloses \/ Rust!RecvNone
  BY <1>3, <1>t, NothingSeen
     DEF Rust!Receive, Rust!StopWaiting, Rust!Close, Rust!PingCloses, Rust!RecvNone
<1>4. CASE Rust!Route
  <2> DEFINE d == ResolvedBy(waiters, held)
  <2>1. /\ rd = "route" /\ target = NoCall /\ closing = {} /\ ~absClosed
        /\ UNCHANGED <<unsent, wire, lang, pc, over, rx, target>>
    BY <1>4, <1>t DEF Rust!Route, absClosed
  <2>2. rd' \in {"read", "handle"}
    BY <1>4, <1>r DEF Rust!Route
  <2>3. held \in Frame /\ held \in absFresh /\ FreshInv' /\ absFresh' = absFresh \ {held}
    BY <1>t, <2>1, <2>2, FrameRouted
  <2>4. CASE d = NoCall
    <3>1. inbox' = Append(inbox, held) /\ UNCHANGED <<taken, promise, reply>>
      BY <1>4, <1>r, <2>4 DEF Rust!Route
    <3>2. absMail' = Append(absMail, held) /\ InboxInv'
      BY <1>t, <2>1, <2>2, <2>3, <3>1, MailPosted, MailIs
    <3> QED
      BY <1>t, <2>1, <2>2, <2>3, <2>4, <3>1, <3>2, FrameDelivered
  <2>5. CASE d # NoCall
    <3>1. d \in Call /\ waiters[IdOf[d]] = d /\ Answers(held, d)
      BY <2>3, <2>5, Resolved
    <3>2. UNCHANGED <<inbox, taken>> /\ rd' = "read"
      BY <1>4, <1>r, <2>5 DEF Rust!Route
    <3>3. CASE Rust!Listens(d)
      <4>1. Answered(d, held) /\ pc[d] \notin Left
        BY <1>4, <1>r, <2>5, <3>3 DEF Rust!Route, Rust!Answered, Answered, Rust!Listens, Left
      <4> HIDE DEF d
      <4> QED
        BY <1>t, <2>1, <2>3, <3>1, <3>2, <4>1, FrameAnswers
    <3>4. CASE ~Rust!Listens(d)
      <4>1. UNCHANGED <<promise, reply>>
        BY <1>4, <1>r, <2>5, <3>4 DEF Rust!Route
      <4> QED
        BY <1>t, <2>1, <2>3, <3>2, <4>1, FrameIsLost
    <3> QED
      BY <3>3, <3>4
  <2> QED
    BY <2>4, <2>5
<1>5. CASE Rust!CloseAll
  <2>1. /\ rd \in {"closeAll", "abort"} /\ rd' \in {"close", "dead"} /\ over'
        /\ UNCHANGED <<unsent, wire, lang, pc, reply, target, held, inbox, rx, taken>>
    BY <1>5 DEF Rust!CloseAll
  <2>2. absFresh' = absFresh /\ FreshInv'
    BY <1>t, <2>1, FramesStay
  <2>3. absMail' = absMail /\ InboxInv'
    BY <1>t, <2>1, MailStays
  <2>4. absClosed'
    BY <1>t, <2>1 DEF absClosed
  <2>5. \A d \in Call :
          promise'[d] = promise[d] \/ (promise[d] = "waiting" /\ promise'[d] = "closed")
    BY <1>5 DEF Rust!CloseAll
  <2> QED
    BY <2>1, <2>2, <2>3, <2>4, <2>5, EndIsSeen
<1>6. CASE Rust!RecvSome
  <2>1. UNCHANGED <<lang, pc, promise, reply, target, unsent, wire, over, conn, rd, held>>
    BY <1>6 DEF Rust!RecvSome
  <2> QED
    BY <1>6, <2>1, MessageTaken DEF Rust!RecvSome, Rust!Take
<1>7. CASE Rust!PingAborts
  <2>1. /\ rd \in {"read", "route"} /\ rd' = "abort"
        /\ UNCHANGED <<unsent, wire, lang, pc, promise, reply, target, over, inbox, rx, taken>>
    BY <1>7 DEF Rust!PingAborts
  <2>2. CASE rd = "read"
    BY <1>t, <2>1, <2>2, NothingSeen
  <2>3. CASE rd = "route"
    <3>1. held \in Frame /\ held \in absFresh /\ FreshInv' /\ absFresh' = absFresh \ {held}
      BY <1>t, <2>1, <2>3, FrameRouted
    <3> QED
      BY <1>t, <2>1, <3>1, FrameIsLost
  <2> QED
    BY <2>1, <2>2, <2>3
<1> QED
  BY <1>1, <1>2, <1>3, <1>4, <1>5, <1>6, <1>7
     DEF Rust!ReaderStep, Rust!ReceiverStep

\* The read loop of a Rust server, and the application it tells of the end.
LEMMA RustServerReadsPromised ==
  ASSUME IInv, IInv', PromiseKept, lang = "Rust server", UNCHANGED lang,
         \/ Rust!ServerReadStep \/ Rust!Receive \/ Rust!StopWaiting \/ Rust!Close
         \/ Rust!ServerGivesUp \/ Rust!ClosedTold
  PROVE  PromiseStep
<1> USE DEF Rust!netVars, Rust!tableVars, Rust!callVars, Rust!readerVars, Rust!mailVars,
        Rust!Settled, Settled
<1>t. /\ FreshInv /\ InboxInv /\ lang = "Rust server"
      /\ target # NoCall <=> rd = "deliver"
      /\ closing # {} => rd = "failing"
      /\ over <=> rd \in {"failing", "close", "dead"}
  BY DEF InRust, IInv, ReaderInv, PromiseKept, ClosedInv
<1>r. Rust!ResolvedBy(waiters, held) = ResolvedBy(waiters, held)
  BY DEF Rust!ResolvedBy, ResolvedBy, Rust!Answers, Answers
<1>1. CASE Rust!ReadFrame
  <2>1. /\ wire # <<>> /\ wire' = Tail(wire) /\ held' = Head(wire) /\ rd = "read" /\ rd' = "route"
        /\ UNCHANGED <<unsent, lang, pc, promise, reply, target, over, inbox, rx, taken>>
    BY <1>1 DEF Rust!ReadFrame, Rust!CanRead
  <2> QED
    BY <2>1, <1>t, FrameInHand
<1>2. CASE Rust!ServerRejects
  <2>1. /\ wire # <<>> /\ wire' = Tail(wire) /\ rd = "read" /\ rd' \in {"fail", "closeAll"}
        /\ UNCHANGED <<unsent, lang, pc, promise, reply, target, over, inbox, rx, taken>>
    BY <1>2 DEF Rust!ServerRejects, Rust!CanRead
  <2>2. Head(wire) \in Frame /\ Head(wire) \in absFresh /\ FreshInv' /\ absFresh' = absFresh \ {Head(wire)}
    BY <1>t, <2>1, WireHead, FrameRead
  <2> QED
    BY <1>t, <2>1, <2>2, FrameIsLost
<1>3. CASE Rust!Receive
  BY <1>3, <1>t, NothingSeen
     DEF Rust!Receive
<1>4. CASE Rust!StopWaiting
  BY <1>4, <1>t, NothingSeen
     DEF Rust!StopWaiting
<1>5. CASE Rust!Close
  BY <1>5, <1>t, NothingSeen
     DEF Rust!Close
<1>6. CASE Rust!ServerReadEnds
  BY <1>6, <1>t, NothingSeen
     DEF Rust!ServerReadEnds
<1>7. CASE Rust!HandlerReturns
  BY <1>7, <1>t, NothingSeen
     DEF Rust!HandlerReturns
<1>8. CASE Rust!ServerCloses
  BY <1>8, <1>t, NothingSeen
     DEF Rust!ServerCloses
<1>9. CASE Rust!ServerGivesUp
  BY <1>9, <1>t, NothingSeen
     DEF Rust!ServerGivesUp
<1>10. CASE Rust!ClosedTold
  BY <1>10, <1>t, NothingSeen
     DEF Rust!ClosedTold
<1>11. CASE Rust!ServerRoute
  <2> DEFINE d == ResolvedBy(waiters, held)
  <2>1. /\ rd = "route" /\ target = NoCall /\ closing = {} /\ ~absClosed
        /\ UNCHANGED <<unsent, wire, lang, pc, over, rx, target>>
    BY <1>11, <1>t DEF Rust!ServerRoute, absClosed
  <2>2. rd' \in {"read", "handle"}
    BY <1>11, <1>r DEF Rust!ServerRoute
  <2>3. held \in Frame /\ held \in absFresh /\ FreshInv' /\ absFresh' = absFresh \ {held}
    BY <1>t, <2>1, <2>2, FrameRouted
  <2>4. CASE d = NoCall
    <3>1. taken' = Append(taken, held) /\ rd' = "handle" /\ UNCHANGED <<inbox, promise, reply>>
      BY <1>11, <1>r, <2>4 DEF Rust!ServerRoute
    <3>2. absMail' = absMail /\ InboxInv' /\ absMail = <<>>
      BY <1>t, <2>1, <2>2, <3>1, MailStays, MailIs DEF InboxInv
    <3> QED
      BY <1>t, <2>1, <2>2, <2>3, <2>4, <3>1, <3>2, FrameDelivered
  <2>5. CASE d # NoCall
    <3>1. d \in Call /\ waiters[IdOf[d]] = d /\ Answers(held, d)
      BY <2>3, <2>5, Resolved
    <3>2. UNCHANGED <<inbox, taken>> /\ rd' = "read"
      BY <1>11, <1>r, <2>5 DEF Rust!ServerRoute
    <3>3. CASE Rust!Listens(d)
      <4>1. Answered(d, held) /\ pc[d] \notin Left
        BY <1>11, <1>r, <2>5, <3>3 DEF Rust!ServerRoute, Rust!Answered, Answered, Rust!Listens, Left
      <4> HIDE DEF d
      <4> QED
        BY <1>t, <2>1, <2>3, <3>1, <3>2, <4>1, FrameAnswers
    <3>4. CASE ~Rust!Listens(d)
      <4>1. UNCHANGED <<promise, reply>>
        BY <1>11, <1>r, <2>5, <3>4 DEF Rust!ServerRoute
      <4> QED
        BY <1>t, <2>1, <2>3, <3>2, <4>1, FrameIsLost
    <3> QED
      BY <3>3, <3>4
  <2> QED
    BY <2>4, <2>5
<1>12. CASE Rust!CloseAll
  <2>1. /\ rd \in {"closeAll", "abort"} /\ rd' \in {"close", "dead"} /\ over'
        /\ UNCHANGED <<unsent, wire, lang, pc, reply, target, held, inbox, rx, taken>>
    BY <1>12 DEF Rust!CloseAll
  <2>2. absFresh' = absFresh /\ FreshInv'
    BY <1>t, <2>1, FramesStay
  <2>3. absMail' = absMail /\ InboxInv'
    BY <1>t, <2>1, MailStays
  <2>4. absClosed'
    BY <1>t, <2>1 DEF absClosed
  <2>5. \A d \in Call :
          promise'[d] = promise[d] \/ (promise[d] = "waiting" /\ promise'[d] = "closed")
    BY <1>12 DEF Rust!CloseAll
  <2> QED
    BY <2>1, <2>2, <2>3, <2>4, <2>5, EndIsSeen
<1> QED
  BY <1>1, <1>2, <1>3, <1>4, <1>5, <1>6, <1>7, <1>8, <1>9, <1>10, <1>11, <1>12
     DEF Rust!ServerReadStep

\* The peer and the network: what they send is seen once it is read.
LEMMA EnvPromised ==
  ASSUME IInv, PromiseKept,
         Env \/ (LibraryPing /\ lang \in {"Dart", "Python"} /\ UNCHANGED lang)
  PROVE  PromiseStep
<1> USE DEF netVars, tableVars, callVars, readerVars, mailVars
<1>1. CASE LibraryPing /\ lang \in {"Dart", "Python"} /\ UNCHANGED lang
  BY <1>1, NothingSeen DEF LibraryPing
<1>2. CASE Env
  <2>1. /\ UNCHANGED <<conn, over, pc, promise, reply, rd, held, target, inbox, rx, taken, lang>>
        /\ UNCHANGED <<absStatus, absAnswer, absMail, absClosed>> /\ ClosedInv' /\ InboxInv'
    <3>1. UNCHANGED <<conn, over, pc, promise, reply, rd, held, target, inbox, rx, taken, lang>>
      BY <1>2 DEF endVars, Env, PeerSend, PeerEnds
    <3>2. UNCHANGED <<absStatus, absAnswer, absMail, absClosed>>
      BY <3>1 DEF absStatus, absAnswer, absMail, absClosed, Left
    <3>3. ClosedInv' /\ InboxInv'
      BY <3>1, <3>2 DEF PromiseKept, ClosedInv, InboxInv
    <3> QED
      BY <3>1, <3>2, <3>3
  <2>2. ASSUME NEW f \in Frame, PeerSend(f) PROVE FreshInv' /\ absFresh' = absFresh
    <3>1. f \in unsent /\ unsent' = unsent \ {f} /\ wire' = Append(wire, f) /\ wire \in Seq(Frame)
      BY <2>2 DEF PeerSend, IInv, RestTyped
    <3>2. /\ Len(wire) \in Nat /\ DOMAIN wire = 1..Len(wire) /\ DOMAIN wire' = 1..(Len(wire) + 1)
          /\ wire'[Len(wire) + 1] = f /\ \A i \in 1..Len(wire) : wire'[i] = wire[i]
      BY <3>1, AppendIs
    <3>3. \A i \in DOMAIN wire' : i = Len(wire) + 1 \/ i \in DOMAIN wire
      BY <3>2
    <3>4. /\ \A i \in DOMAIN wire : wire[i] \notin unsent
          /\ \A i, j \in DOMAIN wire : wire[i] = wire[j] => i = j
          /\ rd = "route" => held \notin unsent /\ \A i \in DOMAIN wire : wire[i] # held
      BY DEF PromiseKept, FreshInv
    <3>5. FreshInv'
      <4>1. \A i \in DOMAIN wire' : wire'[i] \notin unsent'
        BY <3>1, <3>2, <3>3, <3>4
      <4>2. \A i, j \in DOMAIN wire' : wire'[i] = wire'[j] => i = j
        BY <3>1, <3>2, <3>3, <3>4
      <4>3. rd = "route" => held \notin unsent' /\ \A i \in DOMAIN wire' : wire'[i] # held
        BY <3>1, <3>2, <3>3, <3>4
      <4> QED
        BY <2>1, <4>1, <4>2, <4>3 DEF FreshInv
    <3>6. absFresh' = absFresh
      <4>1. \A g \in Frame : (\E i \in DOMAIN wire' : wire'[i] = g)
                               <=> g = f \/ \E i \in DOMAIN wire : wire[i] = g
        BY <3>2, <3>3
      <4> QED
        BY <2>1, <3>1, <4>1 DEF absFresh
    <3> QED
      BY <3>5, <3>6
  <2>3. CASE PeerEnds
    <3>1. UNCHANGED unsent /\ (UNCHANGED wire \/ wire' = <<>>)
      BY <2>3 DEF PeerEnds
    <3>2. CASE UNCHANGED wire
      <4>1. FreshInv' /\ absFresh' = absFresh
        BY <2>1, <3>1, <3>2, FramesStay DEF PromiseKept
      <4> QED
        BY <2>1, <4>1 DEF PromiseStep, PromiseKept, Promise!vars
    <3>3. CASE wire' = <<>>
      <4> DEFINE lost == absFresh \ absFresh'
      <4>0. DOMAIN wire' = {}
        BY <3>3
      <4>1. FreshInv' /\ absFresh' \subseteq absFresh
        BY <2>1, <3>1, <4>0 DEF PromiseKept, FreshInv, absFresh
      <4>2. lost \in SUBSET Frame /\ absFresh' = absFresh \ lost
        BY <4>1 DEF absFresh
      <4>3. CASE lost = {}
        BY <2>1, <4>1, <4>2, <4>3 DEF PromiseStep, PromiseKept, Promise!vars
      <4>4. CASE lost # {}
        <5>1. Promise!Lose(lost)
          BY <2>1, <4>1, <4>2, <4>4 DEF Promise!Lose
        <5>2. Promise!Next
          BY <4>2, <5>1 DEF Promise!Next
        <5> QED
          BY <2>1, <4>1, <5>2 DEF PromiseStep, PromiseKept
      <4> QED
        BY <4>3, <4>4
    <3> QED
      BY <3>1, <3>2, <3>3
  <2> QED
    BY <1>2, <2>1, <2>2, <2>3 DEF endVars, Env, PromiseStep, PromiseKept, Promise!vars
<1> QED
  BY <1>1, <1>2

-----------------------------------------------------------------------------
\* The initial state is one of the promise.
LEMMA InitPromised == RuntimesInit => PromiseKept /\ Promise!Init
<1> SUFFICES ASSUME RuntimesInit PROVE PromiseKept /\ Promise!Init
  OBVIOUS
<1>1. wire = <<>> /\ inbox = <<>> /\ taken = <<>> /\ rx = "idle" /\ rd = "read" /\ conn = "open"
  BY DEF RuntimesInit, Init
<1>2. DOMAIN wire = {} /\ DOMAIN inbox = {} /\ Len(inbox) = 0
  BY <1>1
<1>3. PromiseKept
  BY <1>1, <1>2 DEF RuntimesInit, Init, PromiseKept, ClosedInv, FreshInv, InboxInv
<1>4. absStatus = [c \in Call |-> "new"] /\ absAnswer = [c \in Call |-> NoFrame]
  BY Ids DEF RuntimesInit, Init, absStatus, absAnswer, Left
<1>5. absFresh = Frame
  BY <1>1, <1>2 DEF RuntimesInit, Init, absFresh
<1>6. absMail = <<>>
  BY <1>1, <1>2 DEF absMail
<1>7. absClosed = FALSE
  BY <1>1 DEF RuntimesInit, Init, absClosed
<1> QED
  BY <1>1, <1>3, <1>4, <1>5, <1>6, <1>7 DEF Promise!Init

\* Every step is one of the promise, or one its application does not notice.
LEMMA NextPromised ==
  ASSUME IInv, IInv', PromiseKept, [RuntimesNext]_allVars PROVE PromiseStep
<1>1. CASE Env
  BY <1>1, EnvPromised
<1>2. CASE App
  <2>1. CASE In("TypeScript", TS!AppStep)
    BY <2>1, TSCallsPromised, TSReadsPromised DEF endVars, In, TS!AppStep
  <2>2. CASE In("Dart", Dart!AppStep)
    BY <2>2, DartCallsPromised, DartReadsPromised DEF endVars, In, Dart!AppStep
  <2>3. CASE In("Python", Py!AppStep)
    BY <2>3, PyCallsPromised, PyReadsPromised DEF endVars, In, Py!AppStep
  <2>4. CASE In("Rust", Rust!AppStep)
    BY <2>4, RustCallsPromised, RustReadsPromised DEF endVars, In, InRust, Rust!AppStep
  <2>5. CASE In("Rust server", Rust!ServerAppStep)
    BY <2>5, RustCallsPromised, RustServerReadsPromised
      DEF endVars, In, InRust, Rust!ServerAppStep, Rust!ServerEnter
  <2> QED
    BY <1>2, <2>1, <2>2, <2>3, <2>4, <2>5 DEF App
<1>3. ASSUME NEW c \in Call, Calling(c) PROVE PromiseStep
  BY <1>3, TSCallsPromised, DartCallsPromised, PyCallsPromised, RustCallsPromised
    DEF endVars, Calling, In, InRust
<1>4. CASE Reading
  BY <1>4, TSReadsPromised, DartReadsPromised, PyReadsPromised, RustReadsPromised,
     RustServerReadsPromised DEF endVars, Reading, In
<1>5. CASE Receiving
  BY <1>5, PyReadsPromised, RustReadsPromised, RustServerReadsPromised DEF endVars, Receiving, In
<1>6. CASE Pinging
  BY <1>6, EnvPromised, RustReadsPromised, RustServerReadsPromised DEF endVars, Pinging, In
<1>7. CASE UNCHANGED allVars
  <2>1. /\ UNCHANGED <<lang, pc, promise, reply, target, unsent, wire, inbox, taken, over>>
        /\ UNCHANGED <<conn, rd, held, rx>>
    BY <1>7 DEF endVars, allVars, vars, netVars, tableVars, callVars, readerVars, mailVars
  <2> QED
    BY <2>1, NothingSeen
<1> QED
  BY <1>1, <1>2, <1>3, <1>4, <1>5, <1>6, <1>7 DEF RuntimesNext

\* Whichever runtime it is one of, an end keeps the promise of CorrelatedCalls:
\* calls that end exactly once, with their reply, the end of the connection or
\* because their caller gave up; a mailbox of every other frame, in order; and
\* an end after which nothing is delivered any more.
THEOREM KeepsPromiseAlways == ASSUME ~ReuseHooked PROVE RuntimesSpec => KeepsPromise
<1>1. IInv /\ IInv' /\ PromiseKept /\ [RuntimesNext]_allVars
        => PromiseKept' /\ [Promise!Next]_(Promise!vars)
  BY NextPromised DEF PromiseStep
<1>2. RuntimesInit => PromiseKept /\ Promise!Init
  BY InitPromised
<1> QED
  BY RuntimesInvariant, <1>1, <1>2, PTL DEF RuntimesSpec, KeepsPromise, Promise!Spec

=============================================================================

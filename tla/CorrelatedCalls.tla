--------------------------- MODULE CorrelatedCalls ---------------------------
(***************************************************************************)
(* What the client handle of a correlated WebSocket method promises its    *)
(* application, without goroutines, locks or channels: calls that end      *)
(* exactly once, a mailbox for every inbound frame that is nobody's reply, *)
(* and an end after which nothing is delivered any more.                   *)
(***************************************************************************)
EXTENDS Sequences

CONSTANTS Call, Frame, IdOf, NoFrame, Answers(_, _)

VARIABLES
  status,    \* of each call: "new", "pending", "answered", "failed", "abandoned"
  answer,    \* the frame assigned to a call as its reply, or NoFrame
  fresh,     \* the frames that have not been read from the connection
  mail,      \* frames waiting to be received, oldest first
  received,  \* frames the application has received, oldest first
  closed     \* no call is accepted any more

vars == <<status, answer, fresh, mail, received, closed>>

Init ==
  /\ status = [c \in Call |-> "new"] /\ answer = [c \in Call |-> NoFrame]
  /\ fresh = Frame /\ mail = <<>> /\ received = <<>> /\ closed = FALSE

Unanswered(c) == status[c] = "pending" /\ answer[c] = NoFrame

\* A new call is accepted until the connection is known to be closed, unless
\* its frame cannot be sent or its caller is gone already.
Begin(c) ==
  /\ status[c] = "new"
  /\ \/ status' = [status EXCEPT ![c] = IF closed THEN "failed" ELSE "pending"]
     \/ status' = [status EXCEPT ![c] = "abandoned"]
  /\ UNCHANGED <<answer, fresh, mail, received, closed>>

\* A frame that answers a pending call is that call's reply.
Assign(f, c) ==
  /\ ~closed /\ f \in fresh /\ Unanswered(c) /\ Answers(f, c)
  /\ answer' = [answer EXCEPT ![c] = f]
  /\ fresh' = fresh \ {f}
  /\ UNCHANGED <<status, mail, received, closed>>

\* A frame goes to the mailbox only if no pending call waits for it.
Post(f) ==
  /\ ~closed /\ f \in fresh
  /\ \A c \in Call : Unanswered(c) => ~Answers(f, c)
  /\ mail' = Append(mail, f)
  /\ fresh' = fresh \ {f}
  /\ UNCHANGED <<status, answer, received, closed>>

\* A receiver that waits may get such a frame at once.
Hand(f) ==
  /\ ~closed /\ f \in fresh /\ mail = <<>>
  /\ \A c \in Call : Unanswered(c) => ~Answers(f, c)
  /\ received' = Append(received, f)
  /\ fresh' = fresh \ {f}
  /\ UNCHANGED <<status, answer, mail, closed>>

\* Frames that are rejected, or lost with the connection.
Lose(lost) ==
  /\ lost # {} /\ lost \subseteq fresh
  /\ fresh' = fresh \ lost
  /\ UNCHANGED <<status, answer, mail, received, closed>>

\* The end, with what has not been read lost at once or not.
Shut ==
  /\ ~closed
  /\ closed' = TRUE
  /\ fresh' \in SUBSET fresh
  /\ UNCHANGED <<status, answer, mail, received>>

Receive ==
  /\ mail # <<>>
  /\ received' = Append(received, Head(mail))
  /\ mail' = Tail(mail)
  /\ UNCHANGED <<status, answer, fresh, closed>>

\* A pending call ends with its reply, with the end of the connection if it
\* has no reply, or because its caller gives up (its reply is then dropped).
End(c) ==
  /\ status[c] = "pending"
  /\ \/ answer[c] # NoFrame /\ status' = [status EXCEPT ![c] = "answered"]
     \/ answer[c] = NoFrame /\ closed /\ status' = [status EXCEPT ![c] = "failed"]
     \/ status' = [status EXCEPT ![c] = "abandoned"]
  /\ UNCHANGED <<answer, fresh, mail, received, closed>>

Next ==
  \/ \E c \in Call : Begin(c) \/ End(c)
  \/ \E f \in Frame : Post(f) \/ Hand(f) \/ (\E c \in Call : Assign(f, c))
  \/ \E lost \in SUBSET Frame : Lose(lost)
  \/ Shut \/ Receive

Spec == Init /\ [][Next]_vars

\* A call whose reply has arrived, or whose connection is closed, ends.
FairSpec ==
  Spec /\ \A c \in Call : WF_vars((answer[c] # NoFrame \/ closed) /\ End(c))
=============================================================================

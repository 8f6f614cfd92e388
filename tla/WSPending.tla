----------------------------- MODULE WSPending -----------------------------
(***************************************************************************)
(* The correlation table of a generated Go WebSocket endpoint: the         *)
(* wsPending / wsServerPending type of internal/gengo/ws.go.  The type is  *)
(* emitted twice, once for clients and once for servers, with the same     *)
(* methods; this module holds the operations both endpoints perform under  *)
(* the table's mutex, as operators on the table.                           *)
(*                                                                         *)
(* A table is a function from ids to the call that waits under the id.  A  *)
(* waiter is (reply channel, variant sent): the channel belongs to exactly *)
(* one call and the variant is SentTag of that call, so the call stands    *)
(* for its waiter.                                                         *)
(***************************************************************************)
CONSTANTS
  Call,      \* Call invocations; each one creates one reply channel
  Id,        \* values of the @ws_id field
  Tag,       \* oneof variant tags
  Frame,     \* inbound messages, each sent by the peer at most once
  IdOf,      \* the id a call is made under
  SentTag,   \* the oneof variant of the frame a call sends, or NoTag
  FrameId,   \* the @ws_id an inbound frame carries, or NoId
  FrameTag,  \* the oneof variant of an inbound frame, or NoTag
  NoCall, NoFrame, NoId, NoTag

ASSUME PendingAssumption ==
  /\ NoCall \notin Call
  /\ NoFrame \notin Frame
  /\ NoId \notin Id
  /\ NoTag \notin Tag
  /\ IdOf \in [Call -> Id]
  /\ SentTag \in [Call -> Tag \cup {NoTag}]
  /\ FrameId \in [Frame -> Id \cup {NoId}]
  /\ FrameTag \in [Frame -> Tag \cup {NoTag}]

Table == [Id -> Call \cup {NoCall}]

EmptyTable == [i \in Id |-> NoCall]

\* A frame is a reply to a call when it carries the call's id and is not the
\* very oneof variant the call sent (which would be the peer's own call under
\* a colliding id).
Answers(f, c) ==
  /\ FrameId[f] = IdOf[c]
  /\ SentTag[c] = NoTag \/ FrameTag[f] # SentTag[c]

\* register: the map assignment, which replaces a waiter already under the id.
Registered(w, c) == [w EXCEPT ![IdOf[c]] = c]

\* cancel, and the deletion in resolve: by id, whoever waits there.
Removed(w, i) == [w EXCEPT ![i] = NoCall]

Bug_AnyVariantAnswers(w, f) ==
  IF FrameId[f] \in Id THEN w[FrameId[f]] ELSE NoCall

\* resolve: the call an inbound frame is handed to, or NoCall when nobody
\* waits under its id or the frame is the variant that waiter sent.
ResolvedBy(w, f) ==
  LET c == IF FrameId[f] \in Id THEN w[FrameId[f]] ELSE NoCall
  IN  IF c # NoCall /\ Answers(f, c) THEN c ELSE NoCall

Bug_WaitingCountsNil(w) == {w[i] : i \in Id}

Bug_TableSwappedFirst(w) == {}

\* closeAll: the calls whose channels it closes.
Waiting(w) == {w[i] : i \in Id} \ {NoCall}
=============================================================================

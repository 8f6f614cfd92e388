----------------------------- MODULE EventStream -----------------------------
(***************************************************************************)
(* What an @Onkt.stream operation promises the handler that produces the   *)
(* events and the caller that reads them, without frames, heartbeats or    *)
(* connections: the events in order, and an end that tells the truth.      *)
(***************************************************************************)
EXTENDS Naturals, Sequences

CONSTANT Event

VARIABLES
  produced,  \* the events the handler has sent, in order
  fin,       \* "open", or how the handler came to an end: "ok" or "failed"
  link,      \* "up", "lost" (both ends learn of it) or "silent"
  received,  \* the events the caller has got
  outcome,   \* "open", or what it has been told: "whole", "failed"; or "left"
  refused,   \* the events this reader will not read
  notices    \* whether this reader can tell a lost connection from an end

vars == <<produced, fin, link, received, outcome, refused, notices>>

Init ==
  /\ produced = <<>> /\ fin = "open" /\ link = "up"
  /\ received = <<>> /\ outcome = "open"
  /\ refused \in SUBSET Event /\ notices \in BOOLEAN

Produce(e) ==
  /\ fin = "open" /\ produced' = Append(produced, e)
  /\ UNCHANGED <<fin, link, received, outcome, refused, notices>>

\* The handler ends, fails, or fails with the connection (a panic).
Finish ==
  /\ fin = "open" /\ fin' \in {"ok", "failed"}
  /\ link' = link \/ (fin' = "failed" /\ link = "up" /\ link' = "lost")
  /\ UNCHANGED <<produced, received, outcome, refused, notices>>

Break ==
  /\ link = "up" /\ link' \in {"lost", "silent"}
  /\ UNCHANGED <<produced, fin, received, outcome, refused, notices>>

AtEnd == received = produced
NextEvent == produced[Len(received) + 1]

Deliver ==
  /\ outcome = "open" /\ ~AtEnd
  /\ received' = Append(received, NextEvent)
  /\ UNCHANGED <<produced, fin, link, outcome, refused, notices>>

\* A stream that ends is one whose handler has, with every event of it: or one
\* that was lost, to a reader that cannot tell.
EndWhole ==
  /\ outcome = "open"
  /\ (fin = "ok" /\ AtEnd) \/ (link = "lost" /\ ~notices)
  /\ outcome' = "whole"
  /\ UNCHANGED <<produced, fin, link, received, refused, notices>>

\* A failure is told after the events that came before it; a lost connection
\* may take events along.
EndFailed ==
  /\ outcome = "open"
  /\ \/ fin = "failed" /\ AtEnd
     \/ link = "lost"
     \/ ~AtEnd /\ NextEvent \in refused
  /\ outcome' = "failed"
  /\ UNCHANGED <<produced, fin, link, received, refused, notices>>

\* The caller stops reading.
Leave ==
  /\ outcome = "open" /\ outcome' = "left"
  /\ UNCHANGED <<produced, fin, link, received, refused, notices>>

Reading == Deliver \/ EndWhole \/ EndFailed

Next == (\E e \in Event : Produce(e)) \/ Finish \/ Break \/ Reading \/ Leave

Spec == Init /\ [][Next]_vars

\* The caller of a stream that has come to an end gets there too.
FairSpec == Spec /\ WF_vars((fin # "open" \/ link = "lost") /\ link # "silent" /\ Reading)
=============================================================================

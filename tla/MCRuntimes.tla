---------------------------- MODULE MCRuntimes ----------------------------
(* Small instances of Runtimes.                                            *)
EXTENDS Runtimes, TLC

CONSTANTS c1, c2, i1, f1, f2, ask, result

\* Two calls under one id, one after the other; a reply to either, which is the
\* application's when none waits, and a frame that may be a bad message.
OneId == c1 :> i1 @@ c2 :> i1
BothAsk == c1 :> ask @@ c2 :> ask
Ids == f1 :> i1 @@ f2 :> NoId
Tags == f1 :> result @@ f2 :> NoTag

\* One call.
OneCall == c1 :> i1
OneAsk == c1 :> ask
=============================================================================

---------------------------- MODULE MCGoWSServer ----------------------------
(* Small instances of GoWSServer.                                          *)
EXTENDS GoWSServer, TLC

CONSTANTS c1, c2, i1, f1, f2, f3, ask, result

BothAsk == c1 :> ask @@ c2 :> ask
OneAsk == c1 :> ask

\* Two calls under one id, one after the other.
SameId == c1 :> i1 @@ c2 :> i1
OneId == c1 :> i1

\* A reply, a request of the variant the calls send, under their id, and one
\* that may be a rejected message.
ReplyAndRequests == f1 :> i1 @@ f2 :> i1 @@ f3 :> NoId
ReplyAndRequestsTag == f1 :> result @@ f2 :> ask @@ f3 :> NoTag
ReplyAndRequest == f1 :> i1 @@ f2 :> NoId
ReplyAndRequestTag == f1 :> result @@ f2 :> NoTag
=============================================================================

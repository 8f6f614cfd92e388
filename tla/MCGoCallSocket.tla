--------------------------- MODULE MCGoCallSocket ---------------------------
(* A small instance of GoCallSocket.                                       *)
EXTENDS GoCallSocket, TLC

CONSTANTS c1, i1, f1, f2, f3, r1, r2, ask, result

\* One call, its reply, a frame of the variant the call sends under its id, and
\* a rejected message.
OneCall == c1 :> i1
OneAsk == c1 :> ask
ReplyAndOwn == f1 :> i1 @@ f2 :> i1 @@ f3 :> NoId
ReplyAndOwnTag == f1 :> result @@ f2 :> ask @@ f3 :> NoTag
=============================================================================

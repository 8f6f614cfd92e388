----------------------------- MODULE MCWSChunk -----------------------------
(* A small instance of WSChunk: chunks of 2 units, a threshold of 4, a      *)
(* limit of 6.                                                             *)
EXTENDS WSChunk, TLC

CONSTANTS m1, m2, m3, m4

\* Two of the same size and kind, exactly the limit and a multiple of the chunk,
\* so that one given up in its middle goes on with the other: one has a part over
\* two chunks and an empty part.  One over the limit, whose last chunk is short;
\* one exactly the threshold, which is sent plain.
Sizes == m1 :> <<1, 3, 0, 2>> @@ m2 :> <<6>> @@ m3 :> <<7>> @@ m4 :> <<0, 4>>
=============================================================================

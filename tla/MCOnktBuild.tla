---------------------------- MODULE MCOnktBuild ----------------------------
(* Small instances of OnktBuild: directory a uses types of directory g2.   *)
EXTENDS OnktBuild, TLC

CONSTANTS a, g2, t1, t2, bad, c1, c2, v1, v2

Uses == a :> {a, g2} @@ g2 :> {g2}
\* a spreads or extends a model of g2: its output has the fields, no reference.
Inlined == a :> {a} @@ g2 :> {g2}

\* Texts, configs and binaries are only ever compared.
Alike == Permutations({t1, t2}) \cup Permutations({c1, c2}) \cup Permutations({v1, v2})
=============================================================================

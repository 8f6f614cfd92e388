---------------------------- MODULE MCOnktWatch ----------------------------
(* A small instance of OnktWatch, with its two commands: one directory.    *)
EXTENDS OnktWatch, TLC

CONSTANTS d, t1, t2, bad

Alone == d :> {d}
=============================================================================

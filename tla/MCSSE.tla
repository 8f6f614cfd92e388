-------------------------------- MODULE MCSSE --------------------------------
(* A small instance of SSE.                                                *)
EXTENDS SSE
CONSTANTS text, wide, bad, odd, err, s1, s2

\* Each client, and for each server a client that throws, the Go client or
\* both, and the Rust client.
SomePairs ==
  {"Go"} \X {"Go", "TypeScript", "Rust"}
    \cup {"TypeScript"} \X {"Go", "Python", "Rust"}
    \cup {"Rust"} \X {"Go", "Dart", "Swift", "Rust"}
=============================================================================

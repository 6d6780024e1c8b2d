----------------------- MODULE MCServerLifecycle -----------------------
(* A pool of two workers behind a queue of capacity one. *)
EXTENDS ServerLifecycle, TLC

AllThreads == Workers \cup {Main, Handler}

Symmetry == Permutations(Workers) \cup Permutations(Tasks)
========================================================================

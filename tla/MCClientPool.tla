---------------------------- MODULE MCClientPool ----------------------------
(* Small instances of ClientPool: goroutines are interchangeable.          *)
EXTENDS ClientPool, TLC

Symmetry == Permutations(Threads)
=============================================================================

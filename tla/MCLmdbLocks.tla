---------------------------- MODULE MCLmdbLocks ----------------------------
(* Processes and threads are interchangeable.                              *)
EXTENDS LmdbLocks, TLC

Symmetry == Permutations(Proc) \cup Permutations(Thread)
=============================================================================

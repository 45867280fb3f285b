-------------------------- MODULE MCThreadSafeDeque --------------------------
(* Small instances of ThreadSafeDeque for TLC.                             *)
EXTENDS ThreadSafeDeque, TLC

Symmetry == Permutations(Threads)
=============================================================================

----------------------------- MODULE MCNetThread -----------------------------
(* Small instances of NetThread for TLC.                                   *)
EXTENDS NetThread, TLC

Symmetry == Permutations(Conns) \cup Permutations(Workers)
(* The server is not stopped.                                              *)
Serving == mpc = "serve"
=============================================================================

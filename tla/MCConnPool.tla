----------------------------- MODULE MCConnPool -----------------------------
(* Instance of ConnPool for TLC: callers and connections are interchangeable. *)
EXTENDS ConnPool, TLC

Symmetry == Permutations(Callers) \cup Permutations(Conns)
=============================================================================

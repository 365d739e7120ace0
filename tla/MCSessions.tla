----------------------------- MODULE MCSessions -----------------------------
(* Two processes, which are interchangeable. *)
EXTENDS Sessions, TLC

Symmetry == Permutations(Procs)
=============================================================================

----------------------------- MODULE MCUserVars -----------------------------
(* Three keys of two lengths in the smallest area configure accepts. *)
EXTENDS UserVars

MCKeyLen == [k \in Keys |-> IF k = "key" THEN 3 ELSE 1]
=============================================================================

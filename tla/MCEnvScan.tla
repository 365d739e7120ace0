----------------------------- MODULE MCEnvScan -----------------------------
(* Config files that differ in their revision only. *)
EXTENDS EnvScan

MCRecords == {[ZeroEnv EXCEPT !.revision = r] : r \in Revisions}
=============================================================================

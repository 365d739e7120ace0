---------------------------- MODULE MCBootGuard ----------------------------
(* Small instances of BootGuard for TLC. *)
EXTENDS BootGuardRefines

CONSTANTS good, better, bad, gone

MCParts   == {Parts}
AnyParts  == SUBSET Parts

(* bg_setenv --update --ustate=INSTALLED, with a kernel and a timeout.      *)
Install(k, t) == [kernelfile |-> k, timeout |-> t, in_progress |-> Keep,
                  revision |-> Keep, ustate |-> USTATE_INSTALLED]

(* The same without --ustate, as TOOLS.md shows it, and --in_progress=1. *)
Update(k) == [Confirm EXCEPT !.kernelfile = k, !.ustate = Keep]
Progress  == [Confirm EXCEPT !.in_progress = 1, !.ustate = Keep]

AnyCommands == {Install(k, Keep) : k \in Kernels} \cup {Confirm, Progress}
                    \cup {Update(k) : k \in Kernels}

MCCommands == {Install(k, Keep) : k \in Kernels} \cup {Confirm}
=============================================================================

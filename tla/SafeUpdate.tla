----------------------------- MODULE SafeUpdate -----------------------------
(***************************************************************************)
(* What the update mechanism promises, without config files, revisions,    *)
(* boot loader and library: there is always a confirmed kernel; an update  *)
(* is started in one single boot, and if it is not confirmed in that boot  *)
(* the machine is back at the confirmed kernel, for good.                  *)
(***************************************************************************)
CONSTANTS
    Kernels,
    Works,       \* kernels that come up
    NoKernel

VARIABLES
    confirmed,   \* the kernel to fall back to
    candidate,   \* the kernel of the update, if there is one
    trial,       \* "none": there is no update; "pending": it has not been
                 \* tried; "tried": it is being tried
    running      \* the kernel that was started, or NoKernel

vars == <<confirmed, candidate, trial, running>>

Init ==
    /\ confirmed \in Works
    /\ candidate = NoKernel
    /\ trial = "none"
    /\ running = NoKernel

(* The running system installs an update. *)
Install(k) ==
    /\ running \in Works /\ trial = "none"
    /\ candidate' = k /\ trial' = "pending"
    /\ UNCHANGED <<confirmed, running>>

(* The next boot is the trial: from now on it counts. *)
Try ==
    /\ running = NoKernel /\ trial = "pending"
    /\ trial' = "tried"
    /\ UNCHANGED <<confirmed, candidate, running>>

(* A kernel is started: the update in its trial, otherwise the confirmed. *)
Start ==
    /\ running = NoKernel /\ trial # "pending"
    /\ running' = IF trial = "tried" THEN candidate ELSE confirmed
    /\ UNCHANGED <<confirmed, candidate, trial>>

Confirm ==
    /\ trial = "tried" /\ running = candidate /\ running \in Works
    /\ confirmed' = candidate
    /\ candidate' = NoKernel /\ trial' = "none"
    /\ UNCHANGED running

(* A reboot, a power cut, a watchdog, a loader that gives up: a trial      *)
(* under way is over.                                                      *)
Reset ==
    /\ running' = NoKernel
    /\ IF trial = "tried" THEN candidate' = NoKernel /\ trial' = "none"
       ELSE UNCHANGED <<candidate, trial>>
    /\ UNCHANGED confirmed

Next == (\E k \in Kernels : Install(k)) \/ Try \/ Start \/ Confirm \/ Reset

Spec == Init /\ [][Next]_vars
=============================================================================

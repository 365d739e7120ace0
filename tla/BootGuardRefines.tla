-------------------------- MODULE BootGuardRefines --------------------------
(***************************************************************************)
(* BootGuard implements SafeUpdate, for an operator who keeps to the       *)
(* procedure on sound media.  What is confirmed and what is on trial is    *)
(* read off the config files, except while the file that tells it is being *)
(* written: then the writer's memory does.                                 *)
(***************************************************************************)
EXTENDS BootGuardInv

(* The newest confirmed record. *)
IsFallback(i) ==
    Good(disk[i]) /\ \A j \in Parts :
        Good(disk[j]) => disk[j].env.revision <= disk[i].env.revision

Finished(i, s) ==
    /\ disk[i].intact /\ disk[i].env.revision > 0
    /\ disk[i].env.in_progress = 0 /\ disk[i].env.ustate = s

(* The record of the trial is being overwritten, with its confirmation or  *)
(* as it was.                                                              *)
Rewriting ==
    /\ tool.pc = "save" /\ tool.truncated
    /\ tool.mem[tool.h].in_progress = 0
    /\ tool.mem[tool.h].ustate \in {USTATE_OK, USTATE_TESTING}

(* The record of the update: from the process that rewrites it, from the   *)
(* loader that marks it, or from disk.  One that was being tried when the  *)
(* machine was reset or the loader gave up does not count any more,        *)
(* although the loader has yet to mark it as failed.                       *)
Updates ==
    IF Rewriting THEN {tool.mem[tool.h]}
    ELSE IF mode = "saving" THEN {e \in {bl.env} : e.ustate = USTATE_TESTING}
    ELSE {disk[i].env : i \in {j \in Parts :
              \/ Finished(j, USTATE_INSTALLED)
              \/ Finished(j, USTATE_TESTING) /\ mode \notin {"load", "save", "halt"}}}

confirmedKernel == disk[CHOOSE i \in Parts : IsFallback(i)].env.kernelfile

candidateKernel ==
    IF Updates = {} THEN NoKernel ELSE (CHOOSE e \in Updates : TRUE).kernelfile

trialState ==
    IF Updates = {} THEN "none"
    ELSE IF (CHOOSE e \in Updates : TRUE).ustate = USTATE_INSTALLED THEN "pending"
    ELSE "tried"

runningKernel == IF mode \in {"os", "hang"} THEN bl.payload ELSE NoKernel

Abstract ==
    INSTANCE SafeUpdate WITH confirmed <- confirmedKernel, candidate <- candidateKernel,
                             trial <- trialState, running <- runningKernel

(***************************************************************************)
(* Loader, watchdog, library and operator together keep the promise of     *)
(* SafeUpdate: every step of theirs, a power cut in the middle of a write  *)
(* included, is one of its steps or changes nothing it knows of.           *)
(***************************************************************************)
KeepsPromise == Abstract!Spec

-----------------------------------------------------------------------------
(* The inductive invariant behind KeepsPromise, MarkedBeforeStart and      *)
(* OutcomeReported.                                                        *)

(* The premises: a careful operator, config files that can be written, and *)
(* a firmware that presents all config partitions.                         *)
SoundMedia ==
    /\ CarefulOperator
    /\ ~WriteErrors
    /\ Visible = {Parts}

IsUpdate(i) == Finished(i, USTATE_INSTALLED) \/ Finished(i, USTATE_TESTING)

(* At most one record is anything but confirmed. *)
AllButOneGood == \A i, j \in Parts : Good(disk[i]) \/ Good(disk[j]) \/ i = j

(* A live record names a kernel, and so does one that is being marked. *)
Named ==
    /\ \A i \in Parts : IsLive(disk[i]) => disk[i].env.kernelfile \in Kernels
    /\ mode \in {"save", "saving"} => bl.env.kernelfile \in Kernels

(* load_config is about to mark the latest record, which it has read from  *)
(* disk: it will start the trial, or go back from a trial that failed.     *)
Marking ==
    /\ mode = "save" => /\ IsUpdate(bl.latest)
                        /\ bl.env = SavedEnv(disk[bl.latest].env)
    /\ mode = "saving" => ~disk[bl.latest].intact
    /\ mode \in {"save", "saving"} =>
          /\ bl.ustate = bl.env.ustate
          /\ \/ /\ bl.env.ustate = USTATE_TESTING
                /\ bl.part = bl.latest
                /\ bl.payload = bl.env.kernelfile
             \/ /\ bl.env.ustate = USTATE_FAILED
                /\ bl.env.revision = REVISION_FAILED
                /\ IsFallback(bl.part)
                /\ bl.payload = disk[bl.part].env.kernelfile

(* What the loader starts is the update if its trial is marked on disk,    *)
(* and the newest confirmed record otherwise; the state it passes on tells *)
(* which.                                                                  *)
Chosen ==
    mode \in {"probe", "image", "hang"} =>
        /\ disk[bl.part].intact
        /\ bl.payload = disk[bl.part].env.kernelfile
        /\ \A i \in Parts : IsUpdate(i) => i = bl.part /\ Finished(i, USTATE_TESTING)
        /\ ~IsUpdate(bl.part) => IsFallback(bl.part)
        /\ mode \in {"probe", "image"} =>
              /\ bl.ustate = USTATE_TESTING => Finished(bl.part, USTATE_TESTING)
              /\ bl.ustate = USTATE_FAILED =>
                    \E i \in Parts : /\ disk[i].intact
                                     /\ disk[i].env.revision = REVISION_FAILED
                                     /\ disk[i].env.ustate = USTATE_FAILED

(* A trial found on disk by the running system is that of the running one. *)
OnTrial ==
    mode = "os" => \A i \in Parts :
        Finished(i, USTATE_TESTING) => disk[i].env.kernelfile = bl.payload

(* The process has an update open that is not on disk as such, or the      *)
(* record of the trial that runs.                                          *)
Editing ==
    IF tool.pc = "idle" THEN ~tool.truncated
    ELSE LET w == tool.mem[tool.h] IN
        /\ \A i \in Parts \ {tool.h} :
              Good(disk[i]) /\ tool.mem[i].ustate = USTATE_OK
        /\ tool.pc # "sync"
        /\ tool.truncated => tool.pc = "save" /\ ~disk[tool.h].intact
        /\ w.kernelfile \in Kernels
        /\ IF w.in_progress = 1 \/ w.ustate = USTATE_INSTALLED
           THEN ~IsUpdate(tool.h)
           ELSE /\ w.kernelfile = bl.payload
                /\ tool.truncated \/ Finished(tool.h, USTATE_TESTING)

RInv ==
    /\ IInv /\ AllButOneGood /\ Named
    /\ Marking /\ Chosen /\ OnTrial /\ Editing
=============================================================================

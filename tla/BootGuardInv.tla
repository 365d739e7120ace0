---------------------------- MODULE BootGuardInv ----------------------------
(***************************************************************************)
(* The inductive invariant behind the safety of BootGuard, for an operator *)
(* who keeps to the procedure and a loader that can read what it sees.     *)
(***************************************************************************)
EXTENDS BootGuard

(* The premises of the safety theorems. *)
CarefulOperator ==
    /\ Procedure
    /\ ConfirmFirst
    /\ ~ReadErrors
    /\ ENV_NUM_CONFIG_PARTS > 1

IsLive(f) == f.intact /\ f.env.revision > 0

(* A record that the loader must not take for a confirmed one. *)
PendingEnv(e) ==
    \/ e.in_progress = 1 /\ e.ustate = USTATE_OK
    \/ e.in_progress = 0 /\ e.ustate \in {USTATE_INSTALLED, USTATE_TESTING}

(* f is confirmed and older than h. *)
Older(f, h) == Good(f) /\ f.env.revision < h.env.revision

(* f is pending and newer than h. *)
Newer(f, h) == PendingEnv(f.env) /\ f.env.revision > h.env.revision

(* g is the newest confirmed record, and only u may be pending: it is then *)
(* the latest.                                                             *)
Anchor(files, g, u) ==
    /\ Good(files[g])
    /\ u # g
    /\ \A i \in Parts \ {g, u} : IsLive(files[i]) => Older(files[i], files[g])
    /\ IsLive(files[u]) => Older(files[u], files[g]) \/ Newer(files[u], files[g])

(* What a process may have open: an update in progress, a finished one, or *)
(* the record of a trial that runs.                                        *)
OpenEnv(e) ==
    \/ e.in_progress = 1 /\ e.ustate = USTATE_OK
    \/ e.in_progress = 0 /\ e.ustate = USTATE_INSTALLED
    \/ /\ e.in_progress = 0
       /\ e.ustate \in {USTATE_TESTING, USTATE_OK}
       /\ e.kernelfile \in Works

(* The record the process has open may be put on disk at any time; what    *)
(* setglobalstate writes besides is not live.                              *)
Session(g, u) ==
    /\ tool.h = u
    /\ tool.mem[u].revision > disk[g].env.revision
    /\ OpenEnv(tool.mem[u])
    /\ \A i \in Parts \ {u} :
           tool.mem[i].ustate # USTATE_OK \/ i \in tool.todo
               => tool.mem[i].revision = 0 /\ ~IsLive(disk[i])
    /\ u \notin tool.todo

(* What load_config is about to write is a trial or its failure. *)
Saving(g, u) ==
    /\ bl.latest = u
    /\ bl.env.in_progress = 0
    /\ \/ bl.env.ustate = USTATE_FAILED /\ bl.env.revision = 0
       \/ bl.env.ustate = USTATE_TESTING /\ bl.env.revision > disk[g].env.revision
    /\ bl.part = u => bl.env.kernelfile = bl.payload

CoreOf(g, u) ==
    /\ Anchor(disk, g, u)
    /\ mode \in {"save", "saving"} => Saving(g, u)
    /\ tool.pc # "idle" => Session(g, u)

Core == \E g, u \in Parts : CoreOf(g, u)

(* A trial that runs is a trial of a working kernel, and only a running    *)
(* system has a process that uses the library.                             *)
TrialWorks ==
    /\ mode = "os" => bl.payload \in Works
    /\ mode # "os" => tool.pc = "idle"
    /\ tool.pc = "idle" => tool.todo = {}
    /\ mode \notin {"load", "halt"} /\ bl.payload \in Works =>
           (disk[bl.part].intact /\ disk[bl.part].env.ustate = USTATE_TESTING
                => disk[bl.part].env.kernelfile \in Works)

IInv == TypeOK /\ Core /\ TrialWorks

-----------------------------------------------------------------------------
(* The inductive invariant behind DistinctRevisions.  It needs no careful  *)
(* operator: reads and writes may fail, partitions may be hidden, records  *)
(* may be edited at will, except for their revisions.                      *)

NoRevisionByHand == \A j \in Commands : j.revision = Keep

(* A torn file of partition 0 counts too: the scan of load_config falls    *)
(* back to it when it can read no other.                                   *)
Claims(i) == disk[i].env.revision > 0 /\ (disk[i].intact \/ i = 0)

ClaimsDiffer ==
    \A i, j \in Parts : Claims(i) /\ Claims(j) /\ i # j
        => disk[i].env.revision # disk[j].env.revision

(* The process's records have different revisions, those of the others are *)
(* the ones on disk, and none is that of partition 0 or of the open file.  *)
ToolRevisions ==
    tool.pc # "idle" =>
        /\ \A i, j \in Parts :
              i # j /\ tool.mem[i].revision > 0
                  => tool.mem[i].revision # tool.mem[j].revision
        /\ \A i \in Parts \ {tool.h} :
              IsLive(disk[i]) => disk[i].env.revision = tool.mem[i].revision
        /\ \A i \in {0, tool.h}, j \in Parts :
              i # j /\ Claims(i) => disk[i].env.revision # tool.mem[j].revision

(* What load_config is about to write has a revision of its own. *)
LoaderRevisions ==
    mode \in {"save", "saving"} =>
        \A i \in Parts \ {bl.latest} :
            Claims(i) => disk[i].env.revision # bl.env.revision

VInv ==
    /\ TypeOK /\ ClaimsDiffer /\ ToolRevisions /\ LoaderRevisions
    /\ mode # "os" => tool.pc = "idle"
=============================================================================

------------------------------ MODULE Sessions ------------------------------
(***************************************************************************)
(* Several processes of the running system use the environment library     *)
(* (env/env_api.c, env/env_api_fat.c) on the same config files.  Each has  *)
(* its own static copies of all records, which bgenv_init reads one after  *)
(* the other and which survive in memory from one session to the next.     *)
(* The library takes no lock; a process may be killed at any time, a read  *)
(* or a write may fail, and the machine may be rebooted.                   *)
(*                                                                         *)
(* A session lasts from the first call that runs bgenv_init to             *)
(* ebg_env_close.  ebg_env_getglobalstate runs bgenv_init too and nothing  *)
(* ends its session: it is the sequence Begin, ReadEnv, .., ReadEnd alone. *)
(***************************************************************************)
EXTENDS EnvData

CONSTANTS
    Procs,      \* the processes
    Serial,     \* does the system run one session at a time?
    MaxMisreads, \* bound on failing reads
    NoPart      \* no handle is open

ASSUME SessionAssumption == Serial \in BOOLEAN /\ MaxMisreads \in Nat

VARIABLES
    disk,       \* the config files
    proc,       \* the processes
    misread     \* number of reads that have failed

vars == <<disk, proc, misread>>

(***************************************************************************)
(* pc: idle or reading in bgenv_init, a handle open, writing another       *)
(* record (sync) or the open one (save), with the file truncated or not;   *)
(* mem: envdata; k: the next record to read or the one being written;      *)
(* h: the open handle.  For the properties: seen, the files as the process *)
(* last read or wrote them, and whole, did all reads of this session work? *)
(***************************************************************************)
PCs == {"idle", "reading", "open", "sync", "syncing", "save", "saving"}

Process ==
    [pc : PCs, initialized : BOOLEAN, mem : [Parts -> BG_ENVDATA],
     k : 0 .. ENV_NUM_CONFIG_PARTS, h : Parts \cup {NoPart},
     seen : [Parts -> CfgFile], whole : BOOLEAN]

TypeOK ==
    /\ disk \in [Parts -> CfgFile]
    /\ proc \in [Procs -> Process]
    /\ misread \in 0 .. MaxMisreads

(* A process that was just started: static data is zero. *)
NewProcess ==
    [pc |-> "idle", initialized |-> FALSE, mem |-> [i \in Parts |-> ZeroEnv],
     k |-> 0, h |-> NoPart, seen |-> [i \in Parts |-> Intact(ZeroEnv)], whole |-> TRUE]

(* A provisioned device: confirmed records with different revisions. *)
ProvisionedEnv ==
    {e \in BG_ENVDATA : /\ e.kernelfile # NoKernel
                        /\ e.in_progress = 0
                        /\ e.ustate = USTATE_OK
                        /\ e.revision \in 1 .. ENV_NUM_CONFIG_PARTS}

Init ==
    /\ disk \in [Parts -> {Intact(e) : e \in ProvisionedEnv}]
    /\ \A i, j \in Parts : i # j => disk[i].env.revision # disk[j].env.revision
    /\ proc = [p \in Procs |-> NewProcess]
    /\ misread = 0

Step(p, new) == proc' = [proc EXCEPT ![p] = new]

-----------------------------------------------------------------------------
(* bgenv_init: nothing to do if the process is initialized. *)
InSession(p) == proc[p].initialized \/ proc[p].pc # "idle"

Begin(p) ==
    /\ ~InSession(p)
    /\ Serial => \A q \in Procs : ~InSession(q)
    /\ Step(p, [proc[p] EXCEPT !.pc = "reading", !.k = 0])
    /\ UNCHANGED <<disk, misread>>

(* Fault: a record that was read in an earlier session is not read again. *)
ReadEnv_cached(p) ==
    LET k == proc[p].k IN
    /\ proc[p].pc = "reading" /\ k < ENV_NUM_CONFIG_PARTS
    /\ IF proc[p].mem[k] = ZeroEnv
       THEN Step(p, [proc[p] EXCEPT !.k = k + 1, !.mem[k] = read_env(disk[k]),
                                    !.seen[k] = disk[k]])
       ELSE Step(p, [proc[p] EXCEPT !.k = k + 1, !.seen[k] = Intact(proc[p].mem[k])])
    /\ UNCHANGED <<disk, misread>>

(* read_env of record k.  Its result is ignored. *)
ReadEnv(p) ==
    LET k == proc[p].k IN
    /\ proc[p].pc = "reading" /\ k < ENV_NUM_CONFIG_PARTS
    /\ Step(p, [proc[p] EXCEPT !.k = k + 1, !.mem[k] = read_env(disk[k]),
                               !.seen[k] = disk[k]])
    /\ UNCHANGED <<disk, misread>>

(* If the file cannot be read the copy is cleared; if the partition cannot *)
(* be mounted or the file not opened the copy of an earlier session stays. *)
ReadFails(p) ==
    LET k == proc[p].k IN
    /\ misread < MaxMisreads
    /\ proc[p].pc = "reading" /\ k < ENV_NUM_CONFIG_PARTS
    /\ \E e \in {ZeroEnv, proc[p].mem[k]} :
           Step(p, [proc[p] EXCEPT !.k = k + 1, !.mem[k] = e, !.whole = FALSE])
    /\ misread' = misread + 1
    /\ UNCHANGED disk

ReadEnd(p) ==
    /\ proc[p].pc = "reading" /\ proc[p].k = ENV_NUM_CONFIG_PARTS
    /\ Step(p, [proc[p] EXCEPT !.pc = "idle", !.initialized = TRUE, !.k = 0])
    /\ UNCHANGED <<disk, misread>>

-----------------------------------------------------------------------------
Idle(p) == proc[p].pc = "idle" /\ proc[p].initialized

create_new(p, l, o) ==
    LET mem == proc[p].mem IN
    IF mem[l].in_progress # 1
    THEN /\ IsOldest(mem, o)
         /\ Step(p, [proc[p] EXCEPT !.pc = "open", !.h = o,
                         !.mem[o] = [mem[l] EXCEPT !.revision = mem[l].revision + 1,
                                                   !.in_progress = 1]])
    ELSE o = l /\ Step(p, [proc[p] EXCEPT !.pc = "open", !.h = l])

(* The operator starts an update when what the library shows as latest is  *)
(* confirmed (or an update of it is in progress, which keeps the state of  *)
(* the record it was cloned from).                                         *)
ebg_env_create_new(p) ==
    /\ Idle(p)
    /\ \E l, o \in Parts :
           /\ IsLatest(proc[p].mem, l)
           /\ proc[p].mem[l].ustate = USTATE_OK /\ proc[p].mem[l].revision < UINT32_MAX
           /\ create_new(p, l, o)
    /\ UNCHANGED <<disk, misread>>

(* The operator opens the latest configuration to confirm it. *)
ebg_env_open_current(p) ==
    /\ Idle(p)
    /\ \E l \in Parts :
           /\ IsLatest(proc[p].mem, l)
           /\ proc[p].mem[l].ustate = USTATE_TESTING /\ proc[p].mem[l].in_progress = 0
           /\ Step(p, [proc[p] EXCEPT !.pc = "open", !.h = l])
    /\ UNCHANGED <<disk, misread>>

Opened(p) == proc[p].mem[proc[p].h]

(* ebg_env_set and ebg_env_finalize_update, on the record of an update. *)
ebg_env_set(p) ==
    /\ proc[p].pc = "open" /\ Opened(p).in_progress = 1
    /\ \E m \in Kernels : Step(p, [proc[p] EXCEPT !.mem[proc[p].h].kernelfile = m])
    /\ UNCHANGED <<disk, misread>>

ebg_env_finalize_update(p) ==
    /\ proc[p].pc = "open" /\ Opened(p).in_progress = 1
    /\ Step(p, [proc[p] EXCEPT !.mem[proc[p].h].in_progress = 0,
                               !.mem[proc[p].h].ustate = USTATE_INSTALLED])
    /\ UNCHANGED <<disk, misread>>

(* ebg_env_setglobalstate(OK) on a configuration under test: the open      *)
(* record is set, then the others that are not OK are set and written, one *)
(* after the other.                                                        *)
ebg_env_setglobalstate(p) ==
    /\ proc[p].pc = "open"
    /\ Opened(p).ustate = USTATE_TESTING /\ Opened(p).in_progress = 0
    /\ Step(p, [proc[p] EXCEPT !.pc = "sync", !.k = 0, !.mem[proc[p].h].ustate = USTATE_OK])
    /\ UNCHANGED <<disk, misread>>

SyncNext(p) ==
    LET k == proc[p].k IN
    /\ proc[p].pc = "sync"
    /\ \/ /\ k = ENV_NUM_CONFIG_PARTS
          /\ Step(p, [proc[p] EXCEPT !.pc = "open", !.k = 0])
       \/ /\ k < ENV_NUM_CONFIG_PARTS /\ proc[p].mem[k].ustate = USTATE_OK
          /\ Step(p, [proc[p] EXCEPT !.k = k + 1])
    /\ UNCHANGED <<disk, misread>>

(* ebg_env_close, up to the write of the record. *)
ebg_env_close(p) ==
    /\ proc[p].pc = "open"
    /\ Step(p, [proc[p] EXCEPT !.pc = "save", !.k = proc[p].h])
    /\ UNCHANGED <<disk, misread>>

-----------------------------------------------------------------------------
(* write_env, which opening the file truncates first. *)
Truncated == [env |-> ZeroEnv, intact |-> FALSE]

Overwrite(p, f) == disk' = [disk EXCEPT ![proc[p].k] = f]

Truncate(p) ==
    LET k == proc[p].k IN
    /\ \/ proc[p].pc = "save"
       \/ proc[p].pc = "sync" /\ k < ENV_NUM_CONFIG_PARTS /\ proc[p].mem[k].ustate # USTATE_OK
    /\ Overwrite(p, Truncated)
    /\ IF proc[p].pc = "save"
       THEN Step(p, [proc[p] EXCEPT !.pc = "saving", !.seen[k] = Truncated])
       ELSE Step(p, [proc[p] EXCEPT !.pc = "syncing", !.seen[k] = Truncated,
                                    !.mem[k].ustate = USTATE_OK])
    /\ UNCHANGED misread

(* Fault: the process stays initialized, the next session reads nothing. *)
bgenv_finalize_not(s) == [s EXCEPT !.pc = "idle", !.h = NoPart, !.k = 0]

(* bgenv_close and bgenv_finalize; the copies stay. *)
bgenv_finalize(s) ==
    [s EXCEPT !.pc = "idle", !.h = NoPart, !.k = 0, !.initialized = FALSE,
              !.seen = NewProcess.seen, !.whole = TRUE]

(* The data is written; setglobalstate goes on with the next record,       *)
(* ebg_env_close ends the session.                                         *)
WriteData(p) ==
    LET k == proc[p].k
        f == Intact(proc[p].mem[k])
        s == [proc[p] EXCEPT !.seen[k] = f]
    IN  /\ proc[p].pc \in {"syncing", "saving"}
        /\ Overwrite(p, f)
        /\ Step(p, IF s.pc = "saving" THEN bgenv_finalize(s)
                   ELSE [s EXCEPT !.pc = "sync", !.k = k + 1])
        /\ UNCHANGED misread

(* Opening or writing the file fails: setglobalstate returns an error with *)
(* the handle open, ebg_env_close ends the session.                        *)
WriteFails(p) ==
    LET s == [proc[p] EXCEPT !.seen[proc[p].k] = disk'[proc[p].k]]
        k == proc[p].k
    IN  /\ \/ proc[p].pc \in {"syncing", "saving", "save"}
           \/ proc[p].pc = "sync" /\ k < ENV_NUM_CONFIG_PARTS
              /\ proc[p].mem[k].ustate # USTATE_OK
        /\ IF proc[p].pc \in {"syncing", "saving"}
           THEN \E f \in TornFiles(ZeroEnv, proc[p].mem[k]) : Overwrite(p, f)
           ELSE UNCHANGED disk
        /\ Step(p, IF s.pc \in {"save", "saving"} THEN bgenv_finalize(s)
                   ELSE [s EXCEPT !.pc = "open", !.k = 0, !.mem[k].ustate = USTATE_OK])
        /\ UNCHANGED misread

(* bg_printenv shows what was read and ends its session without writing. *)
bg_printenv(p) ==
    /\ Idle(p)
    /\ Step(p, bgenv_finalize(proc[p]))
    /\ UNCHANGED <<disk, misread>>

(* The process is killed, or ends. *)
Exit(p) ==
    /\ proc[p] # NewProcess
    /\ Step(p, NewProcess)
    /\ UNCHANGED <<disk, misread>>

(* A reboot: load_config saves what it decides about the latest record. *)
Reboot ==
    /\ \E l \in Parts :
           /\ IsBootLatest(disk, Parts, l)
           /\ disk' = IF NeedsSave(disk[l].env)
                      THEN [disk EXCEPT ![l] = Intact(SavedEnv(disk[l].env))] ELSE disk
    /\ proc' = [p \in Procs |-> NewProcess]
    /\ UNCHANGED misread

SessionStep(p) ==
    \/ Begin(p) \/ ReadEnv(p) \/ ReadFails(p) \/ ReadEnd(p)
    \/ ebg_env_create_new(p) \/ ebg_env_open_current(p) \/ ebg_env_set(p)
    \/ ebg_env_finalize_update(p) \/ ebg_env_setglobalstate(p) \/ SyncNext(p)
    \/ ebg_env_close(p) \/ Truncate(p) \/ WriteData(p) \/ WriteFails(p)
    \/ bg_printenv(p) \/ Exit(p)

Next == Reboot \/ \E p \in Procs : SessionStep(p)

Spec == Init /\ [][Next]_vars

-----------------------------------------------------------------------------
(***************************************************************************)
(* If sessions do not overlap, a process truncates a config file only when *)
(* it has seen what it overwrites, and the state of all the others, even   *)
(* if processes were killed in the middle of a write; unless a read of its *)
(* session has failed, in which case it goes on with an outdated copy.     *)
(***************************************************************************)
NoLostUpdate ==
    [][\A p \in Procs :
          Truncate(p) /\ proc[p].whole => proc[p].seen = disk]_vars

(***************************************************************************)
(* At any time, in the middle of any write, there is a complete confirmed  *)
(* record to fall back to; as long as no read has failed.                  *)
(***************************************************************************)
ConfirmedSurvives ==
    misread = 0 =>
    \E i \in Parts : /\ disk[i].intact /\ disk[i].env.revision > 0
                     /\ disk[i].env.ustate = USTATE_OK /\ disk[i].env.in_progress = 0
=============================================================================

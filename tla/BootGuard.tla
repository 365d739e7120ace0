----------------------------- MODULE BootGuard -----------------------------
(***************************************************************************)
(* The fail-safe update mechanism: the boot loader (main.c, env/fatvars.c) *)
(* and the user-space side (env/env_api.c, env/env_api_fat.c,              *)
(* tools/bg_setenv.c) share nothing but the config files on disk.  The     *)
(* loader runs, starts a kernel, the kernel works or hangs, a program of   *)
(* the running system edits the environments, and power may fail between   *)
(* any two steps, in the middle of a write too.                            *)
(***************************************************************************)
EXTENDS EnvData, FiniteSets

CONSTANTS
    Loadable,    \* kernels that LoadImage finds and accepts
    Works,       \* kernels that come up and let the system be confirmed
    Visible,     \* sets of config partitions the firmware may present
    PowerFails,  \* may power fail?
    ReadErrors,  \* may the loader fail to open or read a file it has seen?
    FirmwareErrors, \* may a call fail that the loader cannot do without?
    WriteErrors, \* may a write to a config file fail?
    ProbeOk,     \* outcomes of probing for a watchdog device
    Commands,    \* the journals bg_setenv is run with
    Procedure,   \* does the operator keep to the documented procedure?
    ConfirmFirst \* is an update started only from a confirmed configuration?

ASSUME SystemAssumption ==
    /\ Works \subseteq Loadable
    /\ Loadable \subseteq Kernels
    /\ Visible \subseteq SUBSET Parts
    /\ Parts \in Visible
    /\ PowerFails \in BOOLEAN
    /\ ReadErrors \in BOOLEAN
    /\ FirmwareErrors \in BOOLEAN
    /\ WriteErrors \in BOOLEAN
    /\ ProbeOk \subseteq BOOLEAN
    /\ Procedure \in BOOLEAN
    /\ ConfirmFirst \in BOOLEAN

(* A journal of bg_setenv: the value given for a field, or Keep. *)
Keep == -1

Journals ==
    [kernelfile  : Kernels \cup {Keep}, timeout  : Timeouts \cup {Keep},
     in_progress : 0 .. 1 \cup {Keep},  revision : Revisions \cup {Keep},
     ustate      : UStates \cup {Keep}]

(* bg_setenv --confirm *)
Confirm == [kernelfile |-> Keep, timeout |-> Keep, in_progress |-> Keep,
            revision |-> Keep, ustate |-> USTATE_OK]

ASSUME CommandAssumption == Commands \subseteq Journals

VARIABLES
    disk,   \* the config file of every config partition
    mode,   \* what the machine is executing
    bl,     \* the boot loader's memory that outlives load_config
    armed,  \* is the hardware watchdog running?
    tool    \* the process that uses the environment library

vars == <<disk, mode, bl, armed, tool>>

(***************************************************************************)
(* "load"   the loader is about to run load_config                         *)
(* "save"   load_config is about to write the changed record               *)
(* "saving" the write has started                                          *)
(* "probe"  load_config is done, the watchdog is not armed yet             *)
(* "image"  the watchdog is probed, LoadImage comes next                   *)
(* "os"     a working kernel runs                                          *)
(* "hang"   a kernel was started that does not come up: it hangs, or it    *)
(*          returns to the firmware                                        *)
(* "halt"   error_exit: the loader gave up                                 *)
(***************************************************************************)
Modes == {"load", "save", "saving", "probe", "image", "os", "hang", "halt"}

(***************************************************************************)
(* bl.latest is the partition load_config found to be the latest, bl.part  *)
(* the one it boots, bl.env the latest one's record as load_config changed *)
(* it; payload, timeout and ustate are BG_LOADER_PARAMS.                   *)
(***************************************************************************)
LoaderState ==
    [latest : Parts, part : Parts, env : BG_ENVDATA,
     payload : Kernels \cup {NoKernel}, timeout : Timeouts, ustate : UStates]

(***************************************************************************)
(* The process: its copy of all records (envdata), the open handle, and    *)
(* the records setglobalstate still has to write.  "sync" is the loop of   *)
(* setglobalstate, "save" the write of the open record; oneshot tells      *)
(* bg_setenv from a program that calls the library; truncated is TRUE from *)
(* fopen(.., "wb") until the data has reached the disk.                    *)
(***************************************************************************)
ToolState ==
    [pc : {"idle", "open", "sync", "save"}, mem : [Parts -> BG_ENVDATA],
     h : Parts, todo : SUBSET Parts, oneshot : BOOLEAN, truncated : BOOLEAN]

IdleTool ==
    [pc |-> "idle", mem |-> [i \in Parts |-> ZeroEnv], h |-> 0, todo |-> {},
     oneshot |-> FALSE, truncated |-> FALSE]

(* Nothing is loaded yet. *)
FreshLoader ==
    [latest |-> 0, part |-> 0, env |-> ZeroEnv,
     payload |-> NoKernel, timeout |-> 0, ustate |-> USTATE_OK]

(* One type invariant: every variable holds a value of its type. *)
TypeOK ==
    /\ disk \in [Parts -> CfgFile]
    /\ mode \in Modes
    /\ bl \in LoaderState
    /\ armed \in BOOLEAN
    /\ tool \in ToolState

(* A provisioned device: every config partition holds a confirmed record   *)
(* of a working kernel, and the revisions differ.                          *)
ProvisionedEnv ==
    {e \in BG_ENVDATA : /\ e.kernelfile \in Works
                        /\ e.in_progress = 0
                        /\ e.ustate = USTATE_OK
                        /\ e.timeout > 0
                        /\ e.revision \in 1 .. ENV_NUM_CONFIG_PARTS}

Init ==
    /\ disk \in [Parts -> {Intact(e) : e \in ProvisionedEnv}]
    /\ \A i, j \in Parts : i # j => disk[i].env.revision # disk[j].env.revision
    /\ mode = "load"
    /\ bl = FreshLoader
    /\ armed = FALSE
    /\ tool = IdleTool

-----------------------------------------------------------------------------
(* The boot loader.                                                        *)

(***************************************************************************)
(* load_config: read the visible config files, pick the latest and second  *)
(* latest, decide.  A file that cannot be opened any more counts as a      *)
(* zeroed record; one whose read stops after cut[i] parts is marked        *)
(* invalid and leaves what was read.  When not all partitions are visible, *)
(* save_current_config refuses to write and the boot goes on.              *)
(***************************************************************************)
Loaded(readable, cut) ==
    [i \in Parts |->
        IF i \in readable THEN disk[i]
        ELSE IF i \in DOMAIN cut
             THEN [env |-> Front(disk[i].env, cut[i]), intact |-> FALSE]
        ELSE Intact(ZeroEnv)]

(* Fault: save_current_config is not called. *)
load_config_unsaved(vis, files, l, p) ==
    LET e == files[l].env
        b == BootedPart(e, l, p)
    IN  /\ IsBootLatest(files, vis, l)
        /\ IsBootPreLatest(files, vis, l, p)
        /\ bl' = [latest |-> l, part |-> b, env |-> SavedEnv(e),
                  payload |-> files[b].env.kernelfile,
                  timeout |-> files[b].env.timeout,
                  ustate  |-> SavedEnv(e).ustate]
        /\ mode' = "probe"

load_config(vis, files, l, p) ==
    LET e == files[l].env
        b == BootedPart(e, l, p)
    IN  /\ IsBootLatest(files, vis, l)
        /\ IsBootPreLatest(files, vis, l, p)
        /\ bl' = [latest |-> l, part |-> b, env |-> SavedEnv(e),
                  payload |-> files[b].env.kernelfile,
                  timeout |-> files[b].env.timeout,
                  ustate  |-> SavedEnv(e).ustate]
        /\ mode' = IF NeedsSave(e) /\ vis = Parts THEN "save" ELSE "probe"

LoadConfig ==
    /\ mode = "load"
    /\ \E vis \in Visible, l, p \in Parts :
        \E readable \in (IF ReadErrors THEN SUBSET vis ELSE {vis}) :
            \E short \in SUBSET (vis \ readable) : \E cut \in [short -> 0 .. 3] :
                load_config(vis, Loaded(readable, cut), l, p)
    /\ UNCHANGED <<disk, armed, tool>>

(* No config file at all: load_config goes on with the zeroed record 0. *)
LoadNothing ==
    /\ mode = "load"
    /\ {} \in Visible
    /\ bl' = FreshLoader
    /\ mode' = "probe"
    /\ UNCHANGED <<disk, armed, tool>>

(* save_current_config: the record is overwritten in place. *)
SaveBegin ==
    /\ mode = "save"
    /\ \E f \in TornFiles(disk[bl.latest].env, bl.env) :
           disk' = [disk EXCEPT ![bl.latest] = f]
    /\ mode' = "saving"
    /\ UNCHANGED <<bl, armed, tool>>

SaveEnd ==
    /\ mode = "saving"
    /\ disk' = [disk EXCEPT ![bl.latest] = Intact(bl.env)]
    /\ mode' = "probe"
    /\ UNCHANGED <<bl, armed, tool>>

(* Open or write fails: the loader reports it and goes on. *)
SaveFails ==
    /\ WriteErrors
    /\ mode \in {"save", "saving"}
    /\ mode' = "probe"
    /\ UNCHANGED <<disk, bl, armed, tool>>

(* probe_watchdogs: a timeout of 0 skips the watchdog, and without a       *)
(* device that accepts a non-zero timeout efi_main gives up.               *)
ProbeWatchdogs ==
    /\ mode = "probe"
    /\ \E ok \in ProbeOk :
           /\ armed' = (bl.timeout > 0 /\ ok)
           /\ mode' = IF bl.timeout > 0 /\ ~ok THEN "halt" ELSE "image"
    /\ UNCHANGED <<disk, bl, tool>>

(* The kernel takes over; of the loader only the answer to "what was       *)
(* started" remains.                                                       *)
StartImage ==
    /\ mode = "image"
    /\ bl.payload \in Loadable
    /\ mode' = IF bl.payload \in Works THEN "os" ELSE "hang"
    /\ bl' = [FreshLoader EXCEPT !.part = bl.part, !.payload = bl.payload]
    /\ UNCHANGED <<disk, armed, tool>>

(* LoadImage fails: a cold reset if the latest record is under test,       *)
(* error_exit otherwise.                                                   *)
LoadImageFails ==
    /\ mode = "image"
    /\ bl.payload \notin Loadable
    /\ IF bl.ustate = USTATE_TESTING
       THEN mode' = "load" /\ bl' = FreshLoader /\ armed' = FALSE
       ELSE mode' = "halt" /\ UNCHANGED <<bl, armed>>
    /\ UNCHANGED <<disk, tool>>

(***************************************************************************)
(* error_exit for what has nothing to do with a record: before and in      *)
(* load_config there is no memory, no volume or one config partition too   *)
(* many; after it the path of the payload cannot be built; a loaded image  *)
(* cannot be opened.  The watchdog runs only in the last case.             *)
(***************************************************************************)
ErrorExit ==
    /\ FirmwareErrors
    /\ \/ mode \in {"load", "probe"}
       \/ mode = "image" /\ bl.payload \in Loadable
    /\ mode' = "halt"
    /\ UNCHANGED <<disk, bl, armed, tool>>

LoaderStep ==
    \/ LoadConfig \/ LoadNothing
    \/ SaveBegin \/ SaveEnd \/ SaveFails
    \/ ProbeWatchdogs \/ StartImage \/ LoadImageFails
    \/ ErrorExit

-----------------------------------------------------------------------------
(* Resets.                                                                 *)

Restart ==
    /\ mode' = "load"
    /\ bl' = FreshLoader
    /\ armed' = FALSE
    /\ tool' = IdleTool
    /\ UNCHANGED disk

(* Nobody serves the watchdog of a kernel that hangs or was never started. *)
WatchdogReset ==
    /\ mode \in {"hang", "halt"}
    /\ armed
    /\ Restart

Reboot ==
    /\ mode = "os"
    /\ tool.pc = "idle"
    /\ Restart

PowerCut ==
    /\ PowerFails
    /\ mode # "load"
    /\ Restart

-----------------------------------------------------------------------------
(* The environment library and bg_setenv.                                  *)

ReadAll == [i \in Parts |-> read_env(disk[i])]

(* Fault: only the latest record is asked. *)
ebg_env_getglobalstate_latest(mem) == mem[CHOOSE l \in Parts : IsLatest(mem, l)].ustate

(* ebg_env_getglobalstate: FAILED if any record was rolled back, else the  *)
(* state of the latest one.                                                *)
ebg_env_getglobalstate(mem) ==
    IF \E i \in Parts : /\ mem[i].revision = REVISION_FAILED
                        /\ mem[i].ustate = USTATE_FAILED
    THEN USTATE_FAILED
    ELSE mem[CHOOSE l \in Parts : IsLatest(mem, l)].ustate

(* Faults: the revision outgrows its 32 bits; a clone keeps its revision. *)
NextRevision_wide(r) == r + 1
NextRevision_same(r) == r

(* The increment of a uint32_t revision. *)
NextRevision(r) == (r + 1) % (UINT32_MAX + 1)

(***************************************************************************)
(* The operator, who decides which calls are made.  Procedure: an update   *)
(* is made with create_new and finalize_update, or with bg_setenv --update *)
(* --ustate=INSTALLED while none is in progress, and a configuration is    *)
(* confirmed only while it runs and is under test.  ConfirmFirst: updates  *)
(* start from a configuration that is OK, not from one that still has to   *)
(* be tried or confirmed.  Nobody makes 2^32 updates.                      *)
(***************************************************************************)
MayUpdate(e) ==
    /\ ConfirmFirst => e.ustate = USTATE_OK
    /\ Procedure => e.revision < UINT32_MAX

MayConfirm(e, l) == Procedure => e.ustate = USTATE_TESTING /\ l = bl.part

(***************************************************************************)
(* ebg_env_create_new: clone the latest record over the oldest one, with   *)
(* the next revision and marked in progress; an update already in progress *)
(* is continued instead.                                                   *)
(***************************************************************************)
CloneLatest(mem, l, o) ==
    [mem EXCEPT ![o] = [mem[l] EXCEPT !.revision = NextRevision(mem[l].revision),
                                      !.in_progress = 1]]

ebg_env_create_new ==
    /\ mode = "os" /\ tool.pc = "idle"
    /\ \E l, o \in Parts :
           /\ IsLatest(ReadAll, l)
           /\ MayUpdate(ReadAll[l])
           /\ IF ReadAll[l].in_progress # 1
              THEN /\ IsOldest(ReadAll, o)
                   /\ tool' = [tool EXCEPT !.pc = "open", !.h = o,
                                           !.mem = CloneLatest(ReadAll, l, o)]
              ELSE /\ o = l
                   /\ tool' = [tool EXCEPT !.pc = "open", !.h = l,
                                           !.mem = ReadAll]
    /\ UNCHANGED <<disk, mode, bl, armed>>

ebg_env_open_current ==
    /\ mode = "os" /\ tool.pc = "idle"
    /\ \E l \in Parts :
           /\ IsLatest(ReadAll, l)
           /\ MayConfirm(ReadAll[l], l)
           /\ tool' = [tool EXCEPT !.pc = "open", !.h = l, !.mem = ReadAll]
    /\ UNCHANGED <<disk, mode, bl, armed>>

(* ebg_env_set on "kernelfile" and on "watchdog_timeout_sec".  By the     *)
(* procedure only the record of an update in progress is edited.           *)
Editable == Procedure => tool.mem[tool.h].in_progress = 1

ebg_env_set_kernelfile(k) ==
    /\ mode = "os" /\ tool.pc = "open"
    /\ Editable
    /\ tool' = [tool EXCEPT !.mem[tool.h].kernelfile = k]
    /\ UNCHANGED <<disk, mode, bl, armed>>

ebg_env_set_timeout(t) ==
    /\ mode = "os" /\ tool.pc = "open"
    /\ Editable
    /\ Procedure => t > 0
    /\ tool' = [tool EXCEPT !.mem[tool.h].timeout = t]
    /\ UNCHANGED <<disk, mode, bl, armed>>

ebg_env_finalize_update ==
    /\ mode = "os" /\ tool.pc = "open"
    /\ Editable
    /\ tool' = [tool EXCEPT !.mem[tool.h].in_progress = 0,
                            !.mem[tool.h].ustate = USTATE_INSTALLED]
    /\ UNCHANGED <<disk, mode, bl, armed>>

(***************************************************************************)
(* ebg_env_setglobalstate: sets the open record's state; on OK every other *)
(* record that says something else is set to OK and written at once.       *)
(***************************************************************************)
Dirty(mem, h, s) ==
    IF s = USTATE_OK
    THEN {i \in Parts \ {h} : mem[i].ustate # USTATE_OK} ELSE {}

ebg_env_setglobalstate(s) ==
    /\ mode = "os" /\ tool.pc = "open"
    /\ Procedure => /\ s = USTATE_OK
                    /\ tool.mem[tool.h].ustate = USTATE_TESTING
                    /\ tool.mem[tool.h].in_progress = 0
    /\ tool' = [tool EXCEPT !.pc = IF Dirty(tool.mem, tool.h, s) = {}
                                   THEN "open" ELSE "sync",
                            !.mem[tool.h].ustate = s,
                            !.todo = Dirty(tool.mem, tool.h, s)]
    /\ UNCHANGED <<disk, mode, bl, armed>>

ebg_env_close ==
    /\ mode = "os" /\ tool.pc = "open"
    /\ tool' = [tool EXCEPT !.pc = "save"]
    /\ UNCHANGED <<disk, mode, bl, armed>>

(***************************************************************************)
(* bg_setenv: one run of the tool.  --update clones the latest record over *)
(* the oldest with the next revision (nothing else changes, and an update  *)
(* in progress is cloned like any other); otherwise the latest record or   *)
(* partition number --partition is edited.  The journal is applied in the  *)
(* order of the options; as each names a field of its own, the order does  *)
(* not show, except that the state is set by setglobalstate.               *)
(***************************************************************************)
Given(x, old) == IF x = Keep THEN old ELSE x

Edited(e, j) ==
    [e EXCEPT !.kernelfile  = Given(j.kernelfile, @),
              !.timeout     = Given(j.timeout, @),
              !.in_progress = Given(j.in_progress, @),
              !.revision    = Given(j.revision, @),
              !.ustate      = Given(j.ustate, @)]

RunJournal(mem, h, j) ==
    tool' = [tool EXCEPT
                !.pc = IF Dirty(mem, h, j.ustate) = {} THEN "save" ELSE "sync",
                !.mem = [mem EXCEPT ![h] = Edited(@, j)],
                !.h = h, !.todo = Dirty(mem, h, j.ustate), !.oneshot = TRUE]

CloneForUpdate(mem, l, o) ==
    [mem EXCEPT ![o] = [mem[l] EXCEPT !.revision = NextRevision(mem[l].revision)]]

bg_setenv_update(j) ==
    /\ mode = "os" /\ tool.pc = "idle"
    /\ Procedure => /\ j.ustate = USTATE_INSTALLED
                    /\ j.in_progress = Keep /\ j.revision = Keep
                    /\ j.timeout # 0
    /\ \E l, o \in Parts :
           /\ IsLatest(ReadAll, l)
           /\ MayUpdate(ReadAll[l])
           /\ Procedure => ReadAll[l].in_progress = 0
           /\ IsOldest(ReadAll, o)
           /\ RunJournal(CloneForUpdate(ReadAll, l, o), o, j)
    /\ UNCHANGED <<disk, mode, bl, armed>>

bg_setenv_latest(j) ==
    /\ mode = "os" /\ tool.pc = "idle"
    /\ Procedure => j = Confirm
    /\ \E l \in Parts :
           /\ IsLatest(ReadAll, l)
           /\ MayConfirm(ReadAll[l], l)
           /\ RunJournal(ReadAll, l, j)
    /\ UNCHANGED <<disk, mode, bl, armed>>

bg_setenv_part(i, j) ==
    /\ mode = "os" /\ tool.pc = "idle"
    /\ ~Procedure
    /\ RunJournal(ReadAll, i, j)
    /\ UNCHANGED <<disk, mode, bl, armed>>

-----------------------------------------------------------------------------
(* write_env, for the record setglobalstate has come to and for the open   *)
(* record: fopen(.., "wb") truncates the file, then the data is written.   *)

Writes(i) ==
    \/ tool.pc = "sync" /\ IsFirst(tool.todo, i)
    \/ tool.pc = "save" /\ i = tool.h

(* setglobalstate sets a record to OK just before it writes it. *)
Record(i) ==
    IF tool.pc = "sync" THEN [tool.mem[i] EXCEPT !.ustate = USTATE_OK]
    ELSE tool.mem[i]

(* The tool once the write is over, with the records left to setglobalstate. *)
AfterWrite(i, left) ==
    IF tool.pc = "save"
    THEN IdleTool
    ELSE [tool EXCEPT !.mem[i] = Record(i),
                      !.todo = left,
                      !.truncated = FALSE,
                      !.pc = IF left # {} THEN "sync"
                             ELSE IF tool.oneshot THEN "save" ELSE "open"]

write_env_truncate(i) ==
    /\ mode = "os" /\ ~tool.truncated
    /\ Writes(i)
    /\ \E f \in TornFiles(ZeroEnv, Record(i)) : disk' = [disk EXCEPT ![i] = f]
    /\ tool' = [tool EXCEPT !.truncated = TRUE]
    /\ UNCHANGED <<mode, bl, armed>>

write_env_data(i) ==
    /\ mode = "os" /\ tool.truncated
    /\ Writes(i)
    /\ disk' = [disk EXCEPT ![i] = Intact(Record(i))]
    /\ tool' = AfterWrite(i, tool.todo \ {i})
    /\ UNCHANGED <<mode, bl, armed>>

(* A failed write ends setglobalstate; bg_setenv still writes its record. *)
write_env_fails(i) ==
    /\ WriteErrors
    /\ mode = "os"
    /\ Writes(i)
    /\ tool' = AfterWrite(i, {})
    /\ UNCHANGED <<disk, mode, bl, armed>>

ToolWrite ==
    \E i \in Parts :
        write_env_truncate(i) \/ write_env_data(i) \/ write_env_fails(i)

ToolCall ==
    \/ ebg_env_create_new
    \/ ebg_env_open_current
    \/ \E k \in Kernels : ebg_env_set_kernelfile(k)
    \/ \E t \in Timeouts : ebg_env_set_timeout(t)
    \/ ebg_env_finalize_update
    \/ \E s \in UStates : ebg_env_setglobalstate(s)
    \/ ebg_env_close
    \/ \E j \in Commands : bg_setenv_update(j)
    \/ \E j \in Commands : bg_setenv_latest(j)
    \/ \E i \in Parts, j \in Commands : bg_setenv_part(i, j)

-----------------------------------------------------------------------------
Next ==
    \/ LoaderStep
    \/ WatchdogReset \/ Reboot \/ PowerCut
    \/ ToolCall \/ ToolWrite

Spec == Init /\ [][Next]_vars

(***************************************************************************)
(* The loader runs without waiting for anybody, and an armed watchdog that *)
(* nobody serves fires.  Nothing forces a reboot, a power cut or a call of *)
(* the library.                                                            *)
(***************************************************************************)
FairSpec == Spec /\ WF_vars(LoaderStep) /\ WF_vars(WatchdogReset)

-----------------------------------------------------------------------------
(* Properties.                                                             *)

(* The partition the loader would boot, were it to run on these files. *)
NextBoot(files, b) ==
    \E l, p \in Parts :
        /\ IsBootLatest(files, Parts, l)
        /\ IsBootPreLatest(files, Parts, l, p)
        /\ b = BootedPart(files[l].env, l, p)

(* A confirmed record of a working kernel. *)
Good(f) ==
    /\ f.intact
    /\ f.env.revision > 0
    /\ f.env.in_progress = 0
    /\ f.env.ustate = USTATE_OK
    /\ f.env.kernelfile \in Works

(***************************************************************************)
(* Whatever happens, and wherever power fails, the next run of load_config *)
(* picks a partition whose file is intact, finished and not known to have  *)
(* failed: it never falls through to the index the scan starts with, nor   *)
(* to a half-written record.                                               *)
(***************************************************************************)
AlwaysBootable ==
    \A b \in Parts : NextBoot(disk, b) =>
        /\ disk[b].intact
        /\ disk[b].env.revision > 0
        /\ disk[b].env.in_progress = 0
        /\ disk[b].env.ustate \in {USTATE_OK, USTATE_INSTALLED}

(***************************************************************************)
(* If the next boot tries a kernel that nobody has confirmed, then the     *)
(* boot after that, should the first not be confirmed, goes back to a      *)
(* confirmed working one (UPDATE.md, scenario 2).                          *)
(***************************************************************************)
RollbackWorks ==
    \A b, c \in Parts :
        /\ NextBoot(disk, b)
        /\ ~Good(disk[b])
        /\ NextBoot([disk EXCEPT ![b] = Intact(SavedEnv(@.env))], c)
        => Good(disk[c])

(***************************************************************************)
(* The loader has put TESTING on disk before it arms the watchdog or       *)
(* starts an unconfirmed kernel, so that the next boot knows of the trial; *)
(* and what it starts is what the record on disk names.                    *)
(***************************************************************************)
MarkedBeforeStart ==
    mode \in {"probe", "image", "hang"} =>
        /\ disk[bl.part].intact
        /\ disk[bl.part].env.kernelfile = bl.payload
        /\ disk[bl.part].env.ustate \in {USTATE_OK, USTATE_TESTING}
        /\ bl.payload \notin Works => disk[bl.part].env.ustate = USTATE_TESTING

(***************************************************************************)
(* No step takes away the newest confirmed configuration: if a confirmed   *)
(* record has some revision, there is one with at least this revision      *)
(* after every step, a crash in the middle of a write included.            *)
(***************************************************************************)
Confirmed(files, r) ==
    \E i \in Parts : Good(files[i]) /\ files[i].env.revision >= r

ConfirmedNeverLost ==
    [][\A r \in Revisions : Confirmed(disk, r) => Confirmed(disk, r)']_vars

(***************************************************************************)
(* When a kernel comes up for a trial, or after a rollback, the library    *)
(* tells the running system exactly that (ebg_env_getglobalstate), though  *)
(* it sees only what the loader managed to put on disk.                    *)
(***************************************************************************)
OutcomeReported ==
    [][ mode = "image" /\ mode' = "os" /\ bl.ustate \in {USTATE_TESTING, USTATE_FAILED}
        => ebg_env_getglobalstate(ReadAll) = bl.ustate ]_vars

(***************************************************************************)
(* No two live records share a revision, whatever the operator does short  *)
(* of setting revisions by hand: the scans for the latest and the oldest   *)
(* record then never have a tie to break, and an update never overwrites   *)
(* the record it was cloned from.                                          *)
(***************************************************************************)
DistinctRevisions ==
    \A i, j \in Live(disk, Parts) :
        disk[i].env.revision = disk[j].env.revision => i = j

(* A restart that neither the watchdog nor the running system nor the      *)
(* loader has caused: only a loss of power explains it.                    *)
PowerLost == PowerCut /\ ~(WatchdogReset \/ Reboot \/ LoaderStep)

(***************************************************************************)
(* Whenever no working kernel runs (the update hangs, or its image cannot  *)
(* be loaded), one eventually does, with no hand laid on the machine: the  *)
(* watchdog and the loader do not reset it over and over into an update    *)
(* that does not come up.  Only power that is lost again and again can     *)
(* prevent it.                                                             *)
(***************************************************************************)
RollbackHappens ==
    <>[][~PowerLost]_vars => (mode # "os" ~> mode = "os")

(***************************************************************************)
(* UPDATE.md:57 on a failed configuration: "A revision of `0` is the       *)
(* lowest possible number and avoids that the corresponding configuration  *)
(* is booted again in future."                                             *)
(***************************************************************************)
FailedNeverBooted ==
    mode = "image" => ~ /\ disk[bl.part].env.revision = REVISION_FAILED
                        /\ disk[bl.part].env.ustate = USTATE_FAILED
=============================================================================

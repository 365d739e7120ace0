------------------------------ MODULE EnvData ------------------------------
(***************************************************************************)
(* The environment record of EFI Boot Guard (include/envdata.h), the       *)
(* config file it is stored in, and the rules by which the boot loader     *)
(* (env/fatvars.c) and the user-space library (env/env_api_fat.c) pick     *)
(* one config partition out of ENV_NUM_CONFIG_PARTS.                       *)
(*                                                                         *)
(* A kernel file name stands for the kernel image, its command line and    *)
(* its user variables: the properties only ask which image is started.     *)
(***************************************************************************)
EXTENDS Integers

CONSTANTS
    ENV_NUM_CONFIG_PARTS,   \* number of config partitions
    UINT32_MAX,             \* the largest revision a uint32_t can hold
    Kernels,                \* the kernel images an update may install
    NoKernel,               \* the empty kernelfile of a zeroed record
    Timeouts                \* watchdog timeouts in seconds

ASSUME PartsAssumption == ENV_NUM_CONFIG_PARTS \in Nat \ {0}
ASSUME RevisionAssumption == UINT32_MAX \in Nat \ {0}
ASSUME KernelAssumption == NoKernel \notin Kernels
ASSUME TimeoutAssumption == Timeouts \subseteq Nat /\ 0 \in Timeouts

Parts == 0 .. ENV_NUM_CONFIG_PARTS - 1

(* enum of envdata.h; USTATE_UNKNOWN is never stored in a config file. *)
USTATE_OK        == 0
USTATE_INSTALLED == 1
USTATE_TESTING   == 2
USTATE_FAILED    == 3
UStates          == USTATE_OK .. USTATE_FAILED

REVISION_FAILED == 0
Revisions       == 0 .. UINT32_MAX

BG_ENVDATA ==
    [kernelfile  : Kernels \cup {NoKernel},
     in_progress : 0 .. 1,
     ustate      : UStates,
     timeout     : Timeouts,
     revision    : Revisions]

(* What memset(.., 0, ..) and clear_envdata leave behind. *)
ZeroEnv ==
    [kernelfile  |-> NoKernel,
     in_progress |-> 0,
     ustate      |-> USTATE_OK,
     timeout     |-> 0,
     revision    |-> REVISION_FAILED]

(***************************************************************************)
(* A config file: the bytes of the record and whether the file is complete *)
(* with a matching CRC32.  The CRC is taken to detect every incomplete     *)
(* write.                                                                  *)
(***************************************************************************)
CfgFile == [env : BG_ENVDATA, intact : BOOLEAN]

Intact(e) == [env |-> e, intact |-> TRUE]

(***************************************************************************)
(* What a write of `new' over `base' leaves when it is cut short.  The     *)
(* file is written front to back in sectors of 512 bytes: the kernel file  *)
(* name lies in the first, the flags and the timeout in the second, the    *)
(* revision in the third and the CRC32 in the last.                        *)
(***************************************************************************)
Torn(base, new) ==
    {base,
     [base EXCEPT !.kernelfile = new.kernelfile],
     [new EXCEPT !.revision = base.revision],
     new}

TornFiles(base, new) == {[env |-> e, intact |-> FALSE] : e \in Torn(base, new)}

(* The first n of these four parts, read into a buffer of zeros. *)
Front(e, n) ==
    CASE n = 0 -> ZeroEnv
      [] n = 1 -> [ZeroEnv EXCEPT !.kernelfile = e.kernelfile]
      [] n = 2 -> [e EXCEPT !.revision = ZeroEnv.revision]
      [] OTHER -> e

(* read_env: a short file or a wrong checksum is replaced by zeros. *)
read_env(f) == IF f.intact THEN f.env ELSE ZeroEnv

-----------------------------------------------------------------------------
(***************************************************************************)
(* First-match scans.  IsFirstMax(S, rev, i): i is the lowest of the       *)
(* indices in S whose revision is largest; IsFirstMin is its mirror image. *)
(***************************************************************************)
IsFirstMax(S, rev, i) ==
    /\ i \in S
    /\ \A j \in S : rev[j] <= rev[i]
    /\ \A j \in S : rev[j] = rev[i] => i <= j

IsFirstMin(S, rev, i) ==
    /\ i \in S
    /\ \A j \in S : rev[i] <= rev[j]
    /\ \A j \in S : rev[j] = rev[i] => i <= j

RevOf(envs) == [i \in DOMAIN envs |-> envs[i].revision]

(* bgenv_open_latest and bgenv_open_oldest over the library's copy of all  *)
(* records.  Revision 0 never beats the start value of the maximum, and    *)
(* UINT32_MAX never beats that of the minimum: then index 0 is taken.      *)
IsLatest(mem, i) ==
    LET S == {j \in DOMAIN mem : mem[j].revision > 0}
    IN  IF S = {} THEN i = 0 ELSE IsFirstMax(S, RevOf(mem), i)

(* Fault: the comparison of the search for the oldest record is turned. *)
IsOldest_turned(mem, i) == IsFirstMax(DOMAIN mem, RevOf(mem), i)

IsOldest(mem, i) ==
    LET S == {j \in DOMAIN mem : mem[j].revision < UINT32_MAX}
    IN  IF S = {} THEN i = 0 ELSE IsFirstMin(S, RevOf(mem), i)

(***************************************************************************)
(* The scan of load_config over the config files the loader can see, vis.  *)
(* Only intact files with a non-zero revision take part; when none (or no  *)
(* second one) does, the start value of the index survives, which is the   *)
(* first visible config partition whatever its file contains.              *)
(***************************************************************************)
Live(files, vis) ==
    {i \in vis : files[i].intact /\ files[i].env.revision > 0}

FileRev(files) == [i \in DOMAIN files |-> files[i].env.revision]

IsFirst(vis, i) == i \in vis /\ \A j \in vis : i <= j

IsBootLatest(files, vis, i) ==
    IF Live(files, vis) = {}
    THEN IsFirst(vis, i)
    ELSE IsFirstMax(Live(files, vis), FileRev(files), i)

IsBootPreLatest(files, vis, l, i) ==
    IF Live(files, vis) \ {l} = {}
    THEN IsFirst(vis, i)
    ELSE IsFirstMax(Live(files, vis) \ {l}, FileRev(files), i)

(***************************************************************************)
(* The decision of load_config, from the records of the latest and the     *)
(* second latest partition: which record, if any, is saved for the latest  *)
(* one, and which of the two is booted.                                    *)
(***************************************************************************)
NeedsSave(e) == e.in_progress # 1 /\ e.ustate \in {USTATE_TESTING, USTATE_INSTALLED}

(* Fault: the trial of an installed record leaves no mark. *)
SavedEnv_unmarked(e) ==
    IF e.in_progress # 1 /\ e.ustate = USTATE_TESTING
    THEN [e EXCEPT !.ustate = USTATE_FAILED, !.revision = REVISION_FAILED]
    ELSE e

SavedEnv(e) ==
    IF e.in_progress = 1 THEN e
    ELSE IF e.ustate = USTATE_TESTING
         THEN [e EXCEPT !.ustate = USTATE_FAILED, !.revision = REVISION_FAILED]
    ELSE IF e.ustate = USTATE_INSTALLED
         THEN [e EXCEPT !.ustate = USTATE_TESTING]
    ELSE e

(* Fault: the update in progress is booted. *)
BootedPart_unfinished(e, l, p) == IF e.ustate = USTATE_TESTING THEN p ELSE l

BootedPart(e, l, p) ==
    IF e.in_progress = 1 \/ e.ustate = USTATE_TESTING THEN p ELSE l
=============================================================================

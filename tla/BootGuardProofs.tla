-------------------------- MODULE BootGuardProofs --------------------------
(***************************************************************************)
(* Proofs about BootGuard for every number of config partitions, every set *)
(* of kernels, timeouts and commands: types; revisions; and the safety of  *)
(* an operator who keeps to the procedure, from the inductive IInv.        *)
(***************************************************************************)
EXTENDS BootGuardInv, WellFoundedInduction, TLAPS

(***************************************************************************)
(* Part 1: types.                                                          *)
(***************************************************************************)

(* The zeroed record is a record. *)
LEMMA ZeroEnvType == ZeroEnv \in BG_ENVDATA
BY RevisionAssumption, TimeoutAssumption
   DEF ZeroEnv, BG_ENVDATA, USTATE_OK, USTATE_FAILED, UStates, Revisions,
       REVISION_FAILED

(* Partition 0 exists. *)
LEMMA ZeroPart == 0 \in Parts
BY PartsAssumption DEF Parts

(* A record stays one when a field is given another value of its type. *)
LEMMA EnvUpdate ==
    ASSUME NEW e \in BG_ENVDATA
    PROVE  /\ \A k \in Kernels \cup {NoKernel} :
                  [e EXCEPT !.kernelfile = k] \in BG_ENVDATA
           /\ \A n \in 0 .. 1 : [e EXCEPT !.in_progress = n] \in BG_ENVDATA
           /\ \A s \in UStates : [e EXCEPT !.ustate = s] \in BG_ENVDATA
           /\ \A t \in Timeouts : [e EXCEPT !.timeout = t] \in BG_ENVDATA
           /\ \A r \in Revisions : [e EXCEPT !.revision = r] \in BG_ENVDATA
BY DEF BG_ENVDATA

(* The same for the two pairs of fields that are set together. *)
LEMMA EnvUpdateTwice ==
    ASSUME NEW e \in BG_ENVDATA, NEW n \in 0 .. 1
    PROVE  /\ \A r \in Revisions :
                  [e EXCEPT !.revision = r, !.in_progress = n] \in BG_ENVDATA
           /\ \A s \in UStates :
                  [e EXCEPT !.in_progress = n, !.ustate = s] \in BG_ENVDATA
<1>1. ASSUME NEW r \in Revisions
      PROVE  [e EXCEPT !.revision = r, !.in_progress = n] \in BG_ENVDATA
  <2> DEFINE d == [e EXCEPT !.revision = r]
  <2>1. d \in BG_ENVDATA
    BY EnvUpdate
  <2> HIDE DEF d
  <2>2. [d EXCEPT !.in_progress = n] \in BG_ENVDATA
    BY <2>1, EnvUpdate
  <2> QED BY <2>2, Zenon DEF d
<1>2. ASSUME NEW s \in UStates
      PROVE  [e EXCEPT !.in_progress = n, !.ustate = s] \in BG_ENVDATA
  <2> DEFINE d == [e EXCEPT !.in_progress = n]
  <2>1. d \in BG_ENVDATA
    BY EnvUpdate
  <2> HIDE DEF d
  <2>2. [d EXCEPT !.ustate = s] \in BG_ENVDATA
    BY <2>1, EnvUpdate
  <2> QED BY <2>2, Zenon DEF d
<1> QED BY <1>1, <1>2

(* The states and the revision the code names are values of their types. *)
LEMMA UStateTypes ==
    /\ {USTATE_OK, USTATE_INSTALLED, USTATE_TESTING, USTATE_FAILED} \subseteq UStates
    /\ REVISION_FAILED \in Revisions
BY RevisionAssumption
   DEF UStates, USTATE_OK, USTATE_INSTALLED, USTATE_TESTING, USTATE_FAILED,
       Revisions, REVISION_FAILED

(* What load_config saves is a record. *)
LEMMA SavedEnvType ==
    ASSUME NEW e \in BG_ENVDATA
    PROVE  SavedEnv(e) \in BG_ENVDATA
<1>1. [e EXCEPT !.ustate = USTATE_TESTING] \in BG_ENVDATA
  BY EnvUpdate, UStateTypes
<1>2. [e EXCEPT !.ustate = USTATE_FAILED, !.revision = REVISION_FAILED] \in BG_ENVDATA
  BY UStateTypes DEF BG_ENVDATA
<1> QED BY <1>1, <1>2 DEF SavedEnv

(* An interrupted write leaves a config file of fields old and new. *)
LEMMA TornType ==
    ASSUME NEW a \in BG_ENVDATA, NEW b \in BG_ENVDATA, NEW f \in TornFiles(a, b)
    PROVE  f \in CfgFile /\ ~f.intact
<1>1. PICK e \in Torn(a, b) : f = [env |-> e, intact |-> FALSE]
  BY DEF TornFiles
<1>2. /\ b.revision \in Revisions /\ a.revision \in Revisions
      /\ b.kernelfile \in Kernels \cup {NoKernel}
  BY DEF BG_ENVDATA
<1>3. /\ [a EXCEPT !.kernelfile = b.kernelfile] \in BG_ENVDATA
      /\ [b EXCEPT !.revision = a.revision] \in BG_ENVDATA
  BY <1>2, EnvUpdate
<1>4. e \in BG_ENVDATA
  BY <1>1, <1>3 DEF Torn
<1> QED BY <1>1, <1>4 DEF CfgFile

(* The library reads records only. *)
LEMMA ReadAllType ==
    ASSUME TypeOK
    PROVE  ReadAll \in [Parts -> BG_ENVDATA]
BY ZeroEnvType DEF TypeOK, ReadAll, read_env, CfgFile

(* A revision is incremented modulo 2^32. *)
LEMMA NextRevisionType ==
    ASSUME NEW r \in Revisions
    PROVE  /\ NextRevision(r) \in Revisions
           /\ r < UINT32_MAX => NextRevision(r) = r + 1
BY RevisionAssumption DEF NextRevision, Revisions

(* The library before its first call. *)
LEMMA IdleToolType == IdleTool \in ToolState
BY ZeroEnvType, ZeroPart DEF IdleTool, ToolState

(* The loader's memory at power-on. *)
LEMMA FreshLoaderType == FreshLoader \in LoaderState
BY ZeroEnvType, ZeroPart, TimeoutAssumption
   DEF FreshLoader, LoaderState, UStates, USTATE_OK, USTATE_FAILED

(* The front part of a record is a record. *)
LEMMA FrontType ==
    ASSUME NEW e \in BG_ENVDATA, NEW n
    PROVE  /\ Front(e, n) \in BG_ENVDATA
           /\ Front(e, n).revision \in {0, e.revision}
<1>1. /\ ZeroEnv \in BG_ENVDATA /\ ZeroEnv.revision = 0
      /\ e.kernelfile \in Kernels \cup {NoKernel} /\ 0 \in Revisions
  BY ZeroEnvType, RevisionAssumption DEF BG_ENVDATA, ZeroEnv, REVISION_FAILED, Revisions
<1>2. /\ [ZeroEnv EXCEPT !.kernelfile = e.kernelfile] \in BG_ENVDATA
      /\ [ZeroEnv EXCEPT !.kernelfile = e.kernelfile].revision = 0
  BY <1>1 DEF BG_ENVDATA
<1>3. /\ [e EXCEPT !.revision = ZeroEnv.revision] \in BG_ENVDATA
      /\ [e EXCEPT !.revision = ZeroEnv.revision].revision = 0
  BY <1>1 DEF BG_ENVDATA
<1> QED BY <1>1, <1>2, <1>3 DEF Front

(* What the loader has read is a function to config files. *)
LEMMA LoadedType ==
    ASSUME TypeOK, NEW readable, NEW cut
    PROVE  Loaded(readable, cut) \in [Parts -> CfgFile]
<1> SUFFICES ASSUME NEW i \in Parts PROVE Loaded(readable, cut)[i] \in CfgFile
  BY DEF Loaded
<1>1. disk[i] \in CfgFile /\ disk[i].env \in BG_ENVDATA
  BY DEF TypeOK, CfgFile
<1>2. Front(disk[i].env, cut[i]) \in BG_ENVDATA
  BY <1>1, FrontType
<1> QED BY <1>1, <1>2, ZeroEnvType DEF Loaded, Intact, CfgFile

(* Each disjunct of the loader keeps the types. *)
LEMMA LoaderTypes == TypeOK /\ LoaderStep => TypeOK'
<1> SUFFICES ASSUME TypeOK, LoaderStep PROVE TypeOK'
  OBVIOUS
<1>1. CASE LoadConfig
  <2>1. PICK vis \in Visible, l \in Parts, p \in Parts :
            \E readable, cut : load_config(vis, Loaded(readable, cut), l, p)
    BY <1>1 DEF LoadConfig
  <2>2. PICK readable, cut : load_config(vis, Loaded(readable, cut), l, p)
    BY <2>1
  <2> DEFINE files == Loaded(readable, cut)
             b == BootedPart(files[l].env, l, p)
  <2>3. files \in [Parts -> CfgFile]
    BY LoadedType
  <2>4. b \in Parts
    BY DEF BootedPart
  <2>5. SavedEnv(files[l].env) \in BG_ENVDATA
    BY <2>3, SavedEnvType DEF CfgFile
  <2>6. bl' = [latest |-> l, part |-> b, env |-> SavedEnv(files[l].env),
               payload |-> files[b].env.kernelfile,
               timeout |-> files[b].env.timeout,
               ustate  |-> SavedEnv(files[l].env).ustate]
    BY <2>2 DEF load_config
  <2>7. files[b].env \in BG_ENVDATA
    BY <2>3, <2>4 DEF CfgFile
  <2>8. bl' \in LoaderState
    <3> HIDE DEF files, b
    <3> QED BY <2>4, <2>5, <2>6, <2>7 DEF LoaderState, BG_ENVDATA
  <2>9. mode' \in Modes
    BY <2>2 DEF load_config, Modes
  <2> QED BY <1>1, <2>8, <2>9 DEF LoadConfig, TypeOK
<1>2. CASE LoadNothing
  BY <1>2, FreshLoaderType DEF LoadNothing, TypeOK, Modes
<1>3. CASE SaveBegin
  <2>1. PICK f \in TornFiles(disk[bl.latest].env, bl.env) :
            disk' = [disk EXCEPT ![bl.latest] = f]
    BY <1>3 DEF SaveBegin
  <2>2. f \in CfgFile
    BY <2>1, TornType DEF TypeOK, LoaderState, CfgFile
  <2> QED BY <1>3, <2>1, <2>2 DEF SaveBegin, TypeOK, Modes
<1>4. CASE SaveEnd
  BY <1>4 DEF SaveEnd, TypeOK, Modes, LoaderState, Intact, CfgFile
<1>5. CASE SaveFails
  BY <1>5 DEF SaveFails, TypeOK, Modes
<1>6. CASE ProbeWatchdogs
  BY <1>6 DEF ProbeWatchdogs, TypeOK, Modes
<1>7. CASE StartImage
  <2>1. [FreshLoader EXCEPT !.part = bl.part, !.payload = bl.payload] \in LoaderState
    BY FreshLoaderType DEF TypeOK, LoaderState
  <2> QED BY <1>7, <2>1 DEF StartImage, TypeOK, Modes
<1>8. CASE LoadImageFails
  BY <1>8, FreshLoaderType DEF LoadImageFails, TypeOK, Modes
<1>9. CASE ErrorExit
  BY <1>9 DEF ErrorExit, TypeOK, Modes
<1> QED
  BY <1>1, <1>2, <1>3, <1>4, <1>5, <1>6, <1>7, <1>8, <1>9 DEF LoaderStep

(* A reset keeps the types. *)
LEMMA RestartTypes == TypeOK /\ Restart => TypeOK'
BY IdleToolType, FreshLoaderType DEF Restart, TypeOK, Modes

(* An edited copy of the records keeps its type. *)
LEMMA MemUpdate ==
    ASSUME NEW mem \in [Parts -> BG_ENVDATA], NEW h \in Parts, NEW e \in BG_ENVDATA
    PROVE  [mem EXCEPT ![h] = e] \in [Parts -> BG_ENVDATA]
OBVIOUS

(* One run of bg_setenv over a copy of the records keeps the types. *)
LEMMA JournalTypes ==
    ASSUME TypeOK, NEW mem \in [Parts -> BG_ENVDATA], NEW h \in Parts,
           NEW j \in Commands, RunJournal(mem, h, j)
    PROVE  /\ tool' \in ToolState
           /\ Edited(mem[h], j) \in BG_ENVDATA
<1>1. mem[h] \in BG_ENVDATA /\ j \in Journals
  BY CommandAssumption
<1>2. Edited(mem[h], j) \in BG_ENVDATA
  BY <1>1 DEF Edited, Given, Journals, BG_ENVDATA
<1>3. [mem EXCEPT ![h] = Edited(@, j)] \in [Parts -> BG_ENVDATA]
  BY <1>2, MemUpdate
<1>4. Dirty(mem, h, j.ustate) \in SUBSET Parts
  BY DEF Dirty
<1> QED BY <1>2, <1>3, <1>4 DEF RunJournal, TypeOK, ToolState

(* The two ways of cloning the latest record yield records. *)
LEMMA CloneTypes ==
    ASSUME NEW mem \in [Parts -> BG_ENVDATA], NEW l \in Parts, NEW o \in Parts
    PROVE  /\ CloneLatest(mem, l, o) \in [Parts -> BG_ENVDATA]
           /\ CloneForUpdate(mem, l, o) \in [Parts -> BG_ENVDATA]
<1>1. mem[l] \in BG_ENVDATA /\ NextRevision(mem[l].revision) \in Revisions
  BY NextRevisionType DEF BG_ENVDATA
<1>2. [mem[l] EXCEPT !.revision = NextRevision(mem[l].revision)] \in BG_ENVDATA
  BY <1>1, EnvUpdate
<1>3. [mem[l] EXCEPT !.revision = NextRevision(mem[l].revision),
                     !.in_progress = 1] \in BG_ENVDATA
  <2>1. 1 \in 0 .. 1
    OBVIOUS
  <2> QED BY <1>1, <2>1, EnvUpdateTwice, Zenon
<1> QED BY <1>2, <1>3, MemUpdate DEF CloneLatest, CloneForUpdate

(* Each call of the library and each run of bg_setenv keeps the types. *)
LEMMA CallTypes == TypeOK /\ ToolCall => TypeOK'
<1> SUFFICES ASSUME TypeOK, ToolCall PROVE TypeOK'
  OBVIOUS
<1>0. /\ ReadAll \in [Parts -> BG_ENVDATA]
      /\ tool.mem \in [Parts -> BG_ENVDATA]
      /\ tool.h \in Parts
      /\ tool.mem[tool.h] \in BG_ENVDATA
  BY ReadAllType DEF TypeOK, ToolState
<1> SUFFICES tool' \in ToolState /\ UNCHANGED <<disk, mode, bl, armed>>
  BY DEF TypeOK
<1>1. CASE ebg_env_create_new
  <2>1. PICK l \in Parts, o \in Parts :
            \/ tool' = [tool EXCEPT !.pc = "open", !.h = o,
                                    !.mem = CloneLatest(ReadAll, l, o)]
            \/ tool' = [tool EXCEPT !.pc = "open", !.h = l, !.mem = ReadAll]
    BY <1>1 DEF ebg_env_create_new
  <2>2. CloneLatest(ReadAll, l, o) \in [Parts -> BG_ENVDATA]
    BY <1>0, CloneTypes
  <2>3. tool' \in ToolState
    BY <1>0, <2>1, <2>2 DEF TypeOK, ToolState
  <2> QED BY <1>1, <2>3 DEF ebg_env_create_new
<1>2. CASE ebg_env_open_current
  BY <1>0, <1>2 DEF ebg_env_open_current, TypeOK, ToolState
<1>3. ASSUME NEW k \in Kernels, ebg_env_set_kernelfile(k)
      PROVE  tool' \in ToolState /\ UNCHANGED <<disk, mode, bl, armed>>
  <2>1. [tool.mem[tool.h] EXCEPT !.kernelfile = k] \in BG_ENVDATA
    BY <1>0, EnvUpdate
  <2>2. [tool.mem EXCEPT ![tool.h] = [@ EXCEPT !.kernelfile = k]]
            \in [Parts -> BG_ENVDATA]
    BY <1>0, <2>1, MemUpdate
  <2>3. tool' = [tool EXCEPT !.mem = [tool.mem EXCEPT ![tool.h] =
                                         [@ EXCEPT !.kernelfile = k]]]
    BY <1>3 DEF ebg_env_set_kernelfile
  <2> QED BY <1>3, <2>2, <2>3 DEF ebg_env_set_kernelfile, TypeOK, ToolState
<1>4. ASSUME NEW t \in Timeouts, ebg_env_set_timeout(t)
      PROVE  tool' \in ToolState /\ UNCHANGED <<disk, mode, bl, armed>>
  <2>1. [tool.mem[tool.h] EXCEPT !.timeout = t] \in BG_ENVDATA
    BY <1>0, EnvUpdate
  <2>2. [tool.mem EXCEPT ![tool.h] = [@ EXCEPT !.timeout = t]]
            \in [Parts -> BG_ENVDATA]
    BY <1>0, <2>1, MemUpdate
  <2>3. tool' = [tool EXCEPT !.mem = [tool.mem EXCEPT ![tool.h] =
                                         [@ EXCEPT !.timeout = t]]]
    BY <1>4 DEF ebg_env_set_timeout
  <2> QED BY <1>4, <2>2, <2>3 DEF ebg_env_set_timeout, TypeOK, ToolState
<1>5. CASE ebg_env_finalize_update
  <2>1. [tool.mem[tool.h] EXCEPT !.in_progress = 0, !.ustate = USTATE_INSTALLED]
            \in BG_ENVDATA
    <3>1. 0 \in 0 .. 1 /\ USTATE_INSTALLED \in UStates
      BY UStateTypes
    <3> QED BY <1>0, <3>1, EnvUpdateTwice, Zenon
  <2>2. [tool.mem EXCEPT ![tool.h] = [@ EXCEPT !.in_progress = 0,
                                                !.ustate = USTATE_INSTALLED]]
            \in [Parts -> BG_ENVDATA]
    BY <1>0, <2>1, MemUpdate
  <2>3. tool' = [tool EXCEPT !.mem = [tool.mem EXCEPT ![tool.h] =
                    [@ EXCEPT !.in_progress = 0, !.ustate = USTATE_INSTALLED]]]
    BY <1>0, <1>5 DEF ebg_env_finalize_update, TypeOK, ToolState
  <2> QED BY <1>5, <2>2, <2>3 DEF ebg_env_finalize_update, TypeOK, ToolState
<1>6. ASSUME NEW s \in UStates, ebg_env_setglobalstate(s)
      PROVE  tool' \in ToolState /\ UNCHANGED <<disk, mode, bl, armed>>
  <2>1. [tool.mem[tool.h] EXCEPT !.ustate = s] \in BG_ENVDATA
    BY <1>0, EnvUpdate
  <2>2. Dirty(tool.mem, tool.h, s) \in SUBSET Parts
    BY DEF Dirty
  <2>3. [tool.mem EXCEPT ![tool.h] = [@ EXCEPT !.ustate = s]]
            \in [Parts -> BG_ENVDATA]
    BY <1>0, <2>1, MemUpdate
  <2>4. tool' = [tool EXCEPT !.pc = IF Dirty(tool.mem, tool.h, s) = {}
                                    THEN "open" ELSE "sync",
                             !.mem = [tool.mem EXCEPT ![tool.h] =
                                         [@ EXCEPT !.ustate = s]],
                             !.todo = Dirty(tool.mem, tool.h, s)]
    BY <1>6 DEF ebg_env_setglobalstate
  <2> QED
    BY <1>6, <2>2, <2>3, <2>4 DEF ebg_env_setglobalstate, TypeOK, ToolState
<1>7. CASE ebg_env_close
  BY <1>7 DEF ebg_env_close, TypeOK, ToolState
<1>8. ASSUME NEW j \in Commands, bg_setenv_update(j)
      PROVE  tool' \in ToolState /\ UNCHANGED <<disk, mode, bl, armed>>
  BY <1>0, <1>8, CloneTypes, JournalTypes DEF bg_setenv_update
<1>9. ASSUME NEW j \in Commands, bg_setenv_latest(j)
      PROVE  tool' \in ToolState /\ UNCHANGED <<disk, mode, bl, armed>>
  BY <1>0, <1>9, JournalTypes DEF bg_setenv_latest
<1>10. ASSUME NEW i \in Parts, NEW j \in Commands, bg_setenv_part(i, j)
       PROVE  tool' \in ToolState /\ UNCHANGED <<disk, mode, bl, armed>>
  BY <1>0, <1>10, JournalTypes DEF bg_setenv_part
<1> QED
  BY <1>1, <1>2, <1>3, <1>4, <1>5, <1>6, <1>7, <1>8, <1>9, <1>10 DEF ToolCall

(* The record being written is a record. *)
LEMMA RecordType ==
    ASSUME TypeOK, NEW i \in Parts
    PROVE  Record(i) \in BG_ENVDATA
<1>1. tool.mem[i] \in BG_ENVDATA
  BY DEF TypeOK, ToolState
<1> QED BY <1>1, EnvUpdate, UStateTypes DEF Record

(* So is the state of the process after a write. *)
LEMMA AfterWriteType ==
    ASSUME TypeOK, NEW i \in Parts, NEW left \in SUBSET Parts
    PROVE  AfterWrite(i, left) \in ToolState
<1>1. [tool.mem EXCEPT ![i] = Record(i)] \in [Parts -> BG_ENVDATA]
  BY RecordType, MemUpdate DEF TypeOK, ToolState
<1> QED BY <1>1, IdleToolType DEF AfterWrite, TypeOK, ToolState

(* Each step of write_env keeps the types. *)
LEMMA WriteTypes == TypeOK /\ ToolWrite => TypeOK'
<1> SUFFICES ASSUME TypeOK, NEW i \in Parts,
                    \/ write_env_truncate(i)
                    \/ write_env_data(i)
                    \/ write_env_fails(i)
             PROVE  TypeOK'
  BY DEF ToolWrite
<1>1. CASE write_env_truncate(i)
  <2>1. PICK f \in TornFiles(ZeroEnv, Record(i)) : disk' = [disk EXCEPT ![i] = f]
    BY <1>1 DEF write_env_truncate
  <2>2. f \in CfgFile
    BY <2>1, TornType, RecordType, ZeroEnvType
  <2> QED BY <1>1, <2>1, <2>2 DEF write_env_truncate, TypeOK, ToolState
<1>2. CASE write_env_data(i)
  <2>1. AfterWrite(i, tool.todo \ {i}) \in ToolState
    BY AfterWriteType DEF TypeOK, ToolState
  <2>2. Intact(Record(i)) \in CfgFile
    BY RecordType DEF Intact, CfgFile
  <2> QED BY <1>2, <2>1, <2>2 DEF write_env_data, TypeOK
<1>3. CASE write_env_fails(i)
  BY <1>3, AfterWriteType DEF write_env_fails, TypeOK
<1> QED BY <1>1, <1>2, <1>3

(* TypeOK holds initially. *)
LEMMA InitTypes == Init => TypeOK
<1> SUFFICES ASSUME Init PROVE TypeOK
  OBVIOUS
<1>1. \A e \in ProvisionedEnv : Intact(e) \in CfgFile
  BY DEF ProvisionedEnv, Intact, CfgFile
<1>2. {Intact(e) : e \in ProvisionedEnv} \subseteq CfgFile
  BY <1>1
<1>3. disk \in [Parts -> CfgFile]
  BY <1>2 DEF Init
<1> QED BY <1>3, IdleToolType, FreshLoaderType DEF Init, TypeOK, Modes

(* TypeOK is inductive. *)
LEMMA NextTypes == TypeOK /\ [Next]_vars => TypeOK'
<1> SUFFICES ASSUME TypeOK, [Next]_vars PROVE TypeOK'
  OBVIOUS
<1>1. CASE LoaderStep
  BY <1>1, LoaderTypes
<1>2. CASE WatchdogReset \/ Reboot \/ PowerCut
  BY <1>2, RestartTypes DEF WatchdogReset, Reboot, PowerCut
<1>3. CASE ToolCall
  BY <1>3, CallTypes
<1>4. CASE ToolWrite
  BY <1>4, WriteTypes
<1>5. CASE UNCHANGED vars
  BY <1>5 DEF vars, TypeOK
<1> QED BY <1>1, <1>2, <1>3, <1>4, <1>5 DEF Next

(***************************************************************************)
(* Every reachable state is well typed, whatever the operator does: the    *)
(* loader's and the library's updates of the records in env/fatvars.c,     *)
(* env/env_api.c and tools/bg_setenv.c stay within the types of envdata.h. *)
(***************************************************************************)
THEOREM TypeCorrect == Spec => []TypeOK
<1>1. Init => TypeOK
  BY InitTypes
<1>2. TypeOK /\ [Next]_vars => TypeOK'
  BY NextTypes
<1> QED BY <1>1, <1>2, PTL DEF Spec

(***************************************************************************)
(* Part 2: revisions, whatever the operator does.                          *)
(***************************************************************************)

(* The states are four different numbers. *)
LEMMA UStateValues ==
    /\ USTATE_OK = 0 /\ USTATE_INSTALLED = 1
    /\ USTATE_TESTING = 2 /\ USTATE_FAILED = 3 /\ REVISION_FAILED = 0
BY DEF USTATE_OK, USTATE_INSTALLED, USTATE_TESTING, USTATE_FAILED, REVISION_FAILED

(* The fields of a config file have their types. *)
LEMMA FileFields ==
    ASSUME NEW files \in [Parts -> CfgFile], NEW i \in Parts
    PROVE  /\ files[i].env \in BG_ENVDATA
           /\ files[i].intact \in BOOLEAN
           /\ files[i].env.revision \in Nat
           /\ files[i].env.revision <= UINT32_MAX
           /\ files[i].env.in_progress \in 0 .. 1
           /\ files[i].env.ustate \in UStates
BY RevisionAssumption DEF CfgFile, BG_ENVDATA, Revisions

(* The revision of an interrupted write is the old or the new one. *)
LEMMA TornRevision ==
    ASSUME NEW a \in BG_ENVDATA, NEW b \in BG_ENVDATA, NEW f \in TornFiles(a, b)
    PROVE  ~f.intact /\ f.env.revision \in {a.revision, b.revision}
<1>1. PICK e \in Torn(a, b) : f = [env |-> e, intact |-> FALSE]
  BY DEF TornFiles
<1>2. e.revision \in {a.revision, b.revision}
  BY <1>1 DEF Torn, BG_ENVDATA
<1> QED BY <1>1, <1>2

(* The library reads the revision of a live file, and 0 for any other. *)
LEMMA ReadRevision ==
    ASSUME TypeOK, NEW i \in Parts
    PROVE  /\ ReadAll[i].revision \in Nat
           /\ IsLive(disk[i]) => ReadAll[i].revision = disk[i].env.revision
           /\ ReadAll[i].revision > 0 => IsLive(disk[i]) /\ Claims(i)
           /\ IsLive(disk[i]) => Claims(i)
<1>1. disk \in [Parts -> CfgFile]
  BY DEF TypeOK
<1> QED
  BY <1>1, FileFields, UStateValues DEF ReadAll, read_env, IsLive, ZeroEnv, Claims

(* A step that leaves disk and tool alone. *)
LEMMA SameRevisions ==
    ASSUME VInv, disk' = disk, tool' = tool \/ tool'.pc = "idle",
           mode' \in {"save", "saving"} => mode \in {"save", "saving"} /\ bl' = bl
    PROVE  ClaimsDiffer' /\ ToolRevisions' /\ LoaderRevisions'
<1>1. \A i \in Parts : Claims(i)' <=> Claims(i)
  BY DEF Claims
<1>2. ClaimsDiffer'
  BY <1>1 DEF VInv, ClaimsDiffer
<1>3. ToolRevisions'
  BY <1>1 DEF VInv, ToolRevisions, Claims
<1>4. LoaderRevisions'
  BY <1>1 DEF VInv, LoaderRevisions
<1> QED BY <1>2, <1>3, <1>4

(* What load_config saves has the revision of the record it has read, or 0. *)
LEMMA LoadRevisions ==
    ASSUME VInv, LoadConfig
    PROVE  ClaimsDiffer' /\ ToolRevisions' /\ LoaderRevisions'
<1>0. TypeOK /\ disk \in [Parts -> CfgFile] /\ disk' = disk /\ tool' = tool
  BY DEF VInv, TypeOK, LoadConfig
<1>1. PICK vis \in Visible, l \in Parts, p \in Parts :
          \E readable, cut : load_config(vis, Loaded(readable, cut), l, p)
  BY DEF LoadConfig
<1>2. PICK readable, cut : load_config(vis, Loaded(readable, cut), l, p)
  BY <1>1
<1> DEFINE files == Loaded(readable, cut)
           e == files[l].env
<1>3. files \in [Parts -> CfgFile] /\ e \in BG_ENVDATA
  BY <1>0, LoadedType, FileFields
<1>4. mode' \in {"save", "saving"} =>
          /\ NeedsSave(e) /\ bl'.latest = l /\ bl'.env = SavedEnv(e)
          /\ IsBootLatest(files, Parts, l)
  BY <1>2 DEF load_config
<1>5. ClaimsDiffer' /\ ToolRevisions'
  BY <1>0 DEF VInv, ClaimsDiffer, ToolRevisions, Claims
<1>6. ASSUME NeedsSave(e), IsBootLatest(files, Parts, l),
             NEW i \in Parts \ {l}, Claims(i)
      PROVE  disk[i].env.revision # SavedEnv(e).revision
  <2>1. SavedEnv(e).revision = 0 \/ SavedEnv(e).revision = e.revision
    BY <1>3, UStateValues DEF SavedEnv, BG_ENVDATA
  <2>2. files[l] = disk[l] \/ (~files[l].intact /\ e.revision \in {0, disk[l].env.revision})
    <3>1. disk[l].env \in BG_ENVDATA
      BY <1>0, FileFields
    <3>2. Front(disk[l].env, cut[l]).revision \in {0, disk[l].env.revision}
      BY <3>1, FrontType
    <3> QED BY <1>6, <3>2, UStateValues DEF Loaded, NeedsSave, Intact, ZeroEnv
  <2>3. disk[i].env.revision \in Nat /\ disk[l].env.revision \in Nat
    BY <1>0, FileFields
  <2>4. disk[l].intact \/ l = 0
    <3>1. CASE Live(files, Parts) = {}
      BY <1>6, <3>1, ZeroPart DEF IsBootLatest, IsFirst, Parts
    <3>2. CASE Live(files, Parts) # {}
      BY <1>6, <2>2, <3>2 DEF IsBootLatest, IsFirstMax, Live
    <3> QED BY <3>1, <3>2
  <2> HIDE DEF files
  <2>5. CASE disk[l].env.revision > 0
    BY <1>6, <2>1, <2>2, <2>3, <2>4, <2>5 DEF VInv, ClaimsDiffer, Claims
  <2>6. CASE disk[l].env.revision = 0
    BY <1>6, <2>1, <2>2, <2>3, <2>6 DEF Claims
  <2> QED BY <2>3, <2>5, <2>6
<1>7. LoaderRevisions'
  <2> HIDE DEF files
  <2> QED BY <1>0, <1>4, <1>6 DEF LoaderRevisions, Claims
<1> QED BY <1>5, <1>7

(* The loader's write gives the latest record a revision of its own, or    *)
(* leaves the one it had.                                                  *)
LEMMA SaveRevisions ==
    ASSUME VInv, SaveBegin \/ SaveEnd
    PROVE  ClaimsDiffer' /\ ToolRevisions' /\ LoaderRevisions'
<1>0. /\ TypeOK /\ disk \in [Parts -> CfgFile] /\ bl.latest \in Parts
      /\ bl.env \in BG_ENVDATA
  BY DEF VInv, TypeOK, LoaderState
<1>1. mode \in {"save", "saving"} /\ bl' = bl /\ tool' = tool /\ tool.pc = "idle"
  BY DEF SaveBegin, SaveEnd, VInv
<1>2. PICK f : /\ disk' = [disk EXCEPT ![bl.latest] = f]
               /\ f.env.revision \in {disk[bl.latest].env.revision, bl.env.revision}
               /\ f.intact => f.env.revision = bl.env.revision
  <2>1. CASE SaveBegin
    <3>1. PICK f \in TornFiles(disk[bl.latest].env, bl.env) :
              disk' = [disk EXCEPT ![bl.latest] = f]
      BY <2>1 DEF SaveBegin
    <3>2. disk[bl.latest].env \in BG_ENVDATA
      BY <1>0, FileFields
    <3> QED BY <1>0, <3>1, <3>2, TornRevision
  <2>2. CASE SaveEnd
    <3>1. disk' = [disk EXCEPT ![bl.latest] = Intact(bl.env)]
      BY <2>2 DEF SaveEnd
    <3>2. Intact(bl.env).env.revision = bl.env.revision
      BY DEF Intact
    <3> QED BY <3>1, <3>2
  <2> QED BY <2>1, <2>2
<1>3. disk'[bl.latest] = f /\ \A i \in Parts \ {bl.latest} : disk'[i] = disk[i]
  BY <1>0, <1>2
<1>4. \A i \in Parts \ {bl.latest} : Claims(i)' <=> Claims(i)
  BY <1>3 DEF Claims
<1>5. \A i \in Parts \ {bl.latest} :
          Claims(i) => disk[i].env.revision # bl.env.revision
  BY <1>1 DEF VInv, LoaderRevisions
<1>6. LoaderRevisions'
  BY <1>1, <1>3, <1>4, <1>5 DEF LoaderRevisions
<1>7. ASSUME NEW i \in Parts \ {bl.latest}, Claims(i), Claims(bl.latest)'
      PROVE  disk[i].env.revision # f.env.revision
  <2>1. CASE f.env.revision = bl.env.revision
    BY <1>5, <1>7, <2>1
  <2>2. CASE f.env.revision # bl.env.revision
    <3>1. /\ f.env.revision = disk[bl.latest].env.revision
          /\ ~f.intact /\ f.env.revision > 0 /\ bl.latest = 0
      BY <1>1, <1>2, <1>3, <1>7, <2>2 DEF Claims
    <3> QED BY <1>0, <1>7, <3>1 DEF VInv, ClaimsDiffer, Claims
  <2> QED BY <2>1, <2>2
<1>8. ClaimsDiffer'
  <2> SUFFICES ASSUME NEW i \in Parts, NEW j \in Parts,
                      Claims(i)', Claims(j)', i # j
               PROVE  disk'[i].env.revision # disk'[j].env.revision
    BY DEF ClaimsDiffer
  <2>1. CASE i = bl.latest
    BY <1>1, <1>3, <1>4, <1>7, <2>1
  <2>2. CASE j = bl.latest
    BY <1>1, <1>3, <1>4, <1>7, <2>2
  <2>3. CASE i # bl.latest /\ j # bl.latest
    BY <1>3, <1>4, <2>3 DEF VInv, ClaimsDiffer
  <2> QED BY <2>1, <2>2, <2>3
<1> QED BY <1>1, <1>6, <1>8 DEF ToolRevisions

(* A session that starts with a copy of the files, one record of which is  *)
(* as it was read or has a revision that is not in use.                    *)
LEMMA OpenRevisions ==
    ASSUME VInv, UNCHANGED <<disk, mode, bl>>, mode = "os", NEW h \in Parts, tool'.h = h,
           \A i \in Parts \ {h} : tool'.mem[i].revision = ReadAll[i].revision,
           \/ tool'.mem[h].revision = ReadAll[h].revision
           \/ tool'.mem[h].revision = 0
           \/ /\ tool'.mem[h].revision \in Nat
              /\ \A i \in Parts : tool'.mem[h].revision > ReadAll[i].revision
              /\ h = 0 \/ IsLive(disk[0]) \/ ~Claims(0)
    PROVE  ClaimsDiffer' /\ ToolRevisions' /\ LoaderRevisions'
<1>0. TypeOK /\ disk \in [Parts -> CfgFile]
  BY DEF VInv, TypeOK
<1> DEFINE r(i) == ReadAll[i].revision
           m == tool'.mem[h].revision
<1>1. \A i \in Parts : /\ r(i) \in Nat
                       /\ IsLive(disk[i]) => r(i) = disk[i].env.revision
                       /\ r(i) > 0 => IsLive(disk[i]) /\ Claims(i)
                       /\ IsLive(disk[i]) => Claims(i)
  BY <1>0, ReadRevision
<1>2. \A i \in Parts : disk[i].env.revision \in Nat
  BY <1>0, FileFields
<1>3. \A i \in Parts : Claims(i)' <=> Claims(i)
  BY DEF Claims
<1>4. ClaimsDiffer' /\ LoaderRevisions'
  BY <1>3 DEF VInv, ClaimsDiffer, LoaderRevisions
<1>5. \A i, j \in Parts : i # j /\ r(i) > 0 => r(i) # r(j)
  BY <1>1 DEF VInv, ClaimsDiffer
<1>6. \A i, j \in Parts : i # j /\ Claims(i) => disk[i].env.revision # r(j)
  BY <1>1, <1>2 DEF VInv, ClaimsDiffer, Claims
<1> HIDE DEF r
<1>7. m = r(h) \/ m = 0 \/ (m \in Nat /\ \A i \in Parts : m > r(i))
  BY DEF r
<1>8. \A i, j \in Parts : i # j /\ tool'.mem[i].revision > 0
          => tool'.mem[i].revision # tool'.mem[j].revision
  <2>1. \A i \in Parts \ {h} : tool'.mem[i].revision = r(i)
    BY DEF r
  <2> QED BY <1>1, <1>5, <1>7, <2>1
<1>9. \A i \in Parts \ {h} :
          IsLive(disk[i]) => disk[i].env.revision = tool'.mem[i].revision
  BY <1>1 DEF r
<1>10. ASSUME NEW i \in {0, h}, NEW j \in Parts, i # j, Claims(i)
       PROVE  disk[i].env.revision # tool'.mem[j].revision
  <2>0. i \in Parts /\ disk[i].env.revision > 0
    BY <1>10, ZeroPart DEF Claims
  <2>1. CASE j # h
    BY <1>6, <1>10, <2>0, <2>1 DEF r
  <2>2. CASE j = h /\ m = r(h)
    BY <1>6, <1>10, <2>0, <2>2
  <2>3. CASE j = h /\ m = 0
    BY <1>2, <2>0, <2>3
  <2>4. CASE j = h /\ m # r(h) /\ m # 0
    <3>1. i = 0 /\ IsLive(disk[0]) /\ m > r(0)
      BY <1>10, <2>4, ZeroPart DEF r
    <3> QED BY <1>1, <1>7, <2>0, <2>4, <3>1
  <2> QED BY <2>1, <2>2, <2>3, <2>4
<1>11. ToolRevisions'
  BY <1>3, <1>8, <1>9, <1>10 DEF ToolRevisions, Claims
<1> QED BY <1>4, <1>11

(* An edit of the open record, or of its state and those of the others,    *)
(* that leaves the revisions alone.                                        *)
LEMMA EditRevisions ==
    ASSUME VInv, UNCHANGED <<disk, mode, bl>>, tool.pc # "idle", tool'.h = tool.h,
           \A i \in Parts : tool'.mem[i].revision = tool.mem[i].revision
    PROVE  ClaimsDiffer' /\ ToolRevisions' /\ LoaderRevisions'
<1>1. \A i \in Parts : Claims(i)' <=> Claims(i)
  BY DEF Claims
<1>2. ClaimsDiffer' /\ LoaderRevisions'
  BY <1>1 DEF VInv, ClaimsDiffer, LoaderRevisions
<1>3. tool.h \in Parts
  BY DEF VInv, TypeOK, ToolState
<1>4. ToolRevisions'
  BY <1>1, <1>3, ZeroPart DEF VInv, ToolRevisions, Claims
<1> QED BY <1>2, <1>4

(* The write of a record, complete or not: the file then has the revision  *)
(* of the record, or 0.                                                    *)
LEMMA WriteRevisions ==
    ASSUME VInv, UNCHANGED <<mode, bl>>, mode = "os", tool.pc # "idle",
           NEW i \in Parts, NEW f, disk' = [disk EXCEPT ![i] = f],
           f.env.revision \in {0, tool.mem[i].revision},
           f.intact => f.env.revision = tool.mem[i].revision,
           tool'.pc = "idle" \/
               /\ tool'.h = tool.h
               /\ \A k \in Parts : tool'.mem[k].revision = tool.mem[k].revision
    PROVE  ClaimsDiffer' /\ ToolRevisions' /\ LoaderRevisions'
<1>0. /\ disk \in [Parts -> CfgFile] /\ tool.h \in Parts
      /\ \A k \in Parts : tool.mem[k].revision \in Nat
  BY RevisionAssumption DEF VInv, TypeOK, ToolState, BG_ENVDATA, Revisions
<1> DEFINE m(k) == tool.mem[k].revision
<1>1. /\ disk'[i] = f
      /\ \A k \in Parts \ {i} : disk'[k] = disk[k]
  BY <1>0
<1>2. \A k \in Parts \ {i} : Claims(k)' <=> Claims(k)
  BY <1>1 DEF Claims
<1>3. Claims(i)' => m(i) > 0 /\ f.env.revision = m(i)
  BY <1>0, <1>1 DEF Claims
<1>4. \A k, j \in Parts : k # j /\ m(k) > 0 => m(k) # m(j)
  BY DEF VInv, ToolRevisions
<1>5. \A k \in Parts \ {i} : Claims(k) /\ m(i) > 0 => disk[k].env.revision # m(i)
  <2> SUFFICES ASSUME NEW k \in Parts \ {i}, Claims(k), m(i) > 0
               PROVE  disk[k].env.revision # m(i)
    OBVIOUS
  <2>1. CASE k \in {0, tool.h}
    BY <2>1 DEF VInv, ToolRevisions
  <2>2. CASE k \notin {0, tool.h}
    <3>1. disk[k].env.revision = m(k)
      BY <2>2 DEF VInv, ToolRevisions, Claims, IsLive
    <3> QED BY <1>4, <3>1
  <2> QED BY <2>1, <2>2
<1>6. ClaimsDiffer'
  <2> SUFFICES ASSUME NEW k \in Parts, NEW j \in Parts,
                      Claims(k)', Claims(j)', k # j
               PROVE  disk'[k].env.revision # disk'[j].env.revision
    BY DEF ClaimsDiffer
  <2>1. CASE k = i
    BY <1>1, <1>2, <1>3, <1>5, <2>1
  <2>2. CASE j = i
    BY <1>1, <1>2, <1>3, <1>5, <2>2
  <2>3. CASE k # i /\ j # i
    BY <1>1, <1>2, <2>3 DEF VInv, ClaimsDiffer
  <2> QED BY <2>1, <2>2, <2>3
<1>7. LoaderRevisions'
  BY DEF LoaderRevisions
<1>8. ASSUME tool'.pc # "idle"
      PROVE  ToolRevisions'
  <2>1. tool'.h = tool.h /\ \A k \in Parts : tool'.mem[k].revision = m(k)
    BY <1>8
  <2>2. \A k \in Parts \ {tool.h} :
            disk'[k].intact /\ disk'[k].env.revision > 0
                => disk'[k].env.revision = m(k)
    BY <1>1 DEF VInv, ToolRevisions, IsLive
  <2>3. ASSUME NEW k \in {0, tool.h}, NEW j \in Parts, k # j, Claims(k)'
        PROVE  disk'[k].env.revision # m(j)
    <3>1. CASE k = i
      BY <1>1, <1>3, <1>4, <2>3, <3>1
    <3>2. CASE k # i
      BY <1>0, <1>1, <1>2, <2>3, <3>2, ZeroPart DEF VInv, ToolRevisions
    <3> QED BY <3>1, <3>2
  <2> HIDE DEF m
  <2>4. \A k, j \in Parts : k # j /\ tool'.mem[k].revision > 0
            => tool'.mem[k].revision # tool'.mem[j].revision
    BY <1>4, <2>1
  <2>5. \A k \in Parts \ {tool'.h} :
            IsLive(disk[k])' => disk'[k].env.revision = tool'.mem[k].revision
    BY <2>1, <2>2 DEF IsLive
  <2>6. \A k \in {0, tool'.h}, j \in Parts :
            k # j /\ Claims(k)' => disk'[k].env.revision # tool'.mem[j].revision
    BY <2>1, <2>3
  <2> QED BY <2>4, <2>5, <2>6 DEF ToolRevisions
<1>9. tool'.pc = "idle" => ToolRevisions'
  BY DEF ToolRevisions
<1> QED BY <1>6, <1>7, <1>8, <1>9

(* The record bgenv_open_latest picks has the highest revision there is. *)
LEMMA LatestIsHighest ==
    ASSUME TypeOK, NEW l \in Parts, IsLatest(ReadAll, l)
    PROVE  \A i \in Parts : ReadAll[i].revision <= ReadAll[l].revision
<1>1. \A i \in Parts : ReadAll[i].revision \in Nat
  BY ReadRevision
<1>2. DOMAIN ReadAll = Parts
  BY DEF ReadAll
<1> QED BY <1>1, <1>2 DEF IsLatest, IsFirstMax, RevOf

(* bgenv_open_oldest passes over partition 0 only when its file is live. *)
LEMMA OldestOrLive ==
    ASSUME TypeOK, NEW o \in Parts, IsOldest(ReadAll, o)
    PROVE  o = 0 \/ IsLive(disk[0])
<1>1. \A i \in Parts : ReadAll[i].revision \in Nat
  BY ReadRevision
<1>2. DOMAIN ReadAll = Parts
  BY DEF ReadAll
<1>3. o # 0 => ReadAll[0].revision > 0
  <2> SUFFICES ASSUME o # 0, ReadAll[0].revision = 0 PROVE FALSE
    BY <1>1, ZeroPart
  <2>1. IsFirstMin({j \in Parts : ReadAll[j].revision < UINT32_MAX}, RevOf(ReadAll), o)
    BY <1>2 DEF IsOldest
  <2>2. RevOf(ReadAll)[0] = 0 /\ RevOf(ReadAll)[o] \in Nat
    BY <1>1, <1>2, ZeroPart DEF RevOf
  <2>3. o <= 0
    BY <2>1, <2>2, ZeroPart, RevisionAssumption DEF IsFirstMin
  <2> QED BY <2>3, PartsAssumption DEF Parts
<1> QED BY <1>3, ReadRevision, ZeroPart

(* The increment of the latest revision is one not in use, or wraps to 0. *)
LEMMA NewRevision ==
    ASSUME TypeOK, NEW l \in Parts, IsLatest(ReadAll, l)
    PROVE  LET m == NextRevision(ReadAll[l].revision)
           IN  m = 0 \/ (m \in Nat /\ \A i \in Parts : m > ReadAll[i].revision)
<1>1. \A i \in Parts : /\ ReadAll[i].revision \in Nat
                       /\ ReadAll[i].revision <= ReadAll[l].revision
  BY ReadRevision, LatestIsHighest
<1>2. ReadAll[l].revision \in Revisions
  BY ReadAllType DEF BG_ENVDATA
<1>3. CASE ReadAll[l].revision < UINT32_MAX
  BY <1>1, <1>2, <1>3, NextRevisionType
<1>4. CASE ReadAll[l].revision >= UINT32_MAX
  <2>1. ReadAll[l].revision = UINT32_MAX
    BY <1>2, <1>4, RevisionAssumption DEF Revisions
  <2>2. NextRevision(ReadAll[l].revision) = 0
    BY <2>1, RevisionAssumption DEF NextRevision
  <2> QED BY <2>2
<1> QED BY <1>2, <1>3, <1>4, RevisionAssumption DEF Revisions

(* A journal that sets no revision keeps those of the records it is given. *)
LEMMA JournalRevisions ==
    ASSUME NoRevisionByHand, TypeOK, NEW mem \in [Parts -> BG_ENVDATA],
           NEW h \in Parts, NEW j \in Commands, RunJournal(mem, h, j)
    PROVE  /\ tool'.h = h
           /\ \A i \in Parts : tool'.mem[i].revision = mem[i].revision
<1>1. Edited(mem[h], j).revision = mem[h].revision
  BY DEF NoRevisionByHand, Edited, Given, BG_ENVDATA
<1>2. /\ tool'.h = h
      /\ tool'.mem = [mem EXCEPT ![h] = Edited(mem[h], j)]
  BY DEF RunJournal, TypeOK, ToolState
<1> HIDE DEF Edited
<1> QED BY <1>1, <1>2

(* Both ways of cloning change one revision only. *)
LEMMA CloneRevisions ==
    ASSUME NEW mem \in [Parts -> BG_ENVDATA], NEW l \in Parts, NEW o \in Parts,
           NEW new \in {CloneLatest(mem, l, o), CloneForUpdate(mem, l, o)}
    PROVE  /\ new[o].revision = NextRevision(mem[l].revision)
           /\ \A i \in Parts \ {o} : new[i] = mem[i]
<1>1. mem[l] \in BG_ENVDATA
  OBVIOUS
<1> QED BY <1>1 DEF CloneLatest, CloneForUpdate, BG_ENVDATA

(* The calls that start a session keep the revisions apart. *)
LEMMA StartRevisions ==
    ASSUME VInv, NoRevisionByHand,
           \/ ebg_env_create_new \/ ebg_env_open_current
           \/ \E j \in Commands : bg_setenv_update(j)
           \/ \E j \in Commands : bg_setenv_latest(j)
           \/ \E i \in Parts, j \in Commands : bg_setenv_part(i, j)
    PROVE  ClaimsDiffer' /\ ToolRevisions' /\ LoaderRevisions'
<1>0. TypeOK /\ ReadAll \in [Parts -> BG_ENVDATA] /\ tool \in ToolState
  BY ReadAllType DEF VInv, TypeOK
<1>1. mode = "os" /\ UNCHANGED <<disk, mode, bl>>
  BY DEF ebg_env_create_new, ebg_env_open_current, bg_setenv_update,
         bg_setenv_latest, bg_setenv_part
<1>2. ASSUME NEW h \in Parts, tool'.h = h,
             \A i \in Parts : tool'.mem[i].revision = ReadAll[i].revision
      PROVE  ClaimsDiffer' /\ ToolRevisions' /\ LoaderRevisions'
  BY <1>1, <1>2, OpenRevisions
<1>3. ASSUME NEW l \in Parts, NEW o \in Parts,
             IsLatest(ReadAll, l), IsOldest(ReadAll, o),
             tool'.h = o, tool'.mem[o].revision = NextRevision(ReadAll[l].revision),
             \A i \in Parts \ {o} : tool'.mem[i].revision = ReadAll[i].revision
      PROVE  ClaimsDiffer' /\ ToolRevisions' /\ LoaderRevisions'
  <2>1. o = 0 \/ IsLive(disk[0])
    BY <1>0, <1>3, OldestOrLive
  <2>2. \/ tool'.mem[o].revision = 0
        \/ /\ tool'.mem[o].revision \in Nat
           /\ \A i \in Parts : tool'.mem[o].revision > ReadAll[i].revision
    BY <1>0, <1>3, NewRevision
  <2> QED BY <1>1, <1>3, <2>1, <2>2, OpenRevisions
<1>4. CASE ebg_env_create_new
  <2>1. PICK l \in Parts, o \in Parts :
            /\ IsLatest(ReadAll, l)
            /\ \/ /\ IsOldest(ReadAll, o)
                  /\ tool' = [tool EXCEPT !.pc = "open", !.h = o,
                                          !.mem = CloneLatest(ReadAll, l, o)]
               \/ tool' = [tool EXCEPT !.pc = "open", !.h = l, !.mem = ReadAll]
    BY <1>4 DEF ebg_env_create_new
  <2>2. CASE tool' = [tool EXCEPT !.pc = "open", !.h = l, !.mem = ReadAll]
    BY <1>0, <1>2, <2>2 DEF ToolState
  <2>3. CASE /\ IsOldest(ReadAll, o)
             /\ tool' = [tool EXCEPT !.pc = "open", !.h = o,
                                     !.mem = CloneLatest(ReadAll, l, o)]
    <3>1. tool'.h = o /\ tool'.mem = CloneLatest(ReadAll, l, o)
      BY <1>0, <2>3 DEF ToolState
    <3> QED BY <1>0, <1>3, <2>1, <2>3, <3>1, CloneRevisions
  <2> QED BY <2>1, <2>2, <2>3
<1>5. CASE ebg_env_open_current
  <2>1. PICK l \in Parts :
            tool' = [tool EXCEPT !.pc = "open", !.h = l, !.mem = ReadAll]
    BY <1>5 DEF ebg_env_open_current
  <2> QED BY <1>0, <1>2, <2>1 DEF ToolState
<1>6. ASSUME NEW j \in Commands, bg_setenv_update(j)
      PROVE  ClaimsDiffer' /\ ToolRevisions' /\ LoaderRevisions'
  <2>1. PICK l \in Parts, o \in Parts :
            /\ IsLatest(ReadAll, l) /\ IsOldest(ReadAll, o)
            /\ RunJournal(CloneForUpdate(ReadAll, l, o), o, j)
    BY <1>6 DEF bg_setenv_update
  <2>2. CloneForUpdate(ReadAll, l, o) \in [Parts -> BG_ENVDATA]
    BY <1>0, CloneTypes
  <2>3. /\ tool'.h = o
        /\ \A i \in Parts :
              tool'.mem[i].revision = CloneForUpdate(ReadAll, l, o)[i].revision
    BY <1>0, <2>1, <2>2, JournalRevisions
  <2>4. /\ tool'.mem[o].revision = NextRevision(ReadAll[l].revision)
        /\ \A i \in Parts \ {o} : tool'.mem[i].revision = ReadAll[i].revision
    BY <1>0, <2>3, CloneRevisions
  <2> QED BY <1>3, <2>1, <2>3, <2>4
<1>7. ASSUME NEW j \in Commands, bg_setenv_latest(j)
      PROVE  ClaimsDiffer' /\ ToolRevisions' /\ LoaderRevisions'
  <2>1. PICK l \in Parts : RunJournal(ReadAll, l, j)
    BY <1>7 DEF bg_setenv_latest
  <2> QED BY <1>0, <1>2, <2>1, JournalRevisions
<1>8. ASSUME NEW i \in Parts, NEW j \in Commands, bg_setenv_part(i, j)
      PROVE  ClaimsDiffer' /\ ToolRevisions' /\ LoaderRevisions'
  <2>1. RunJournal(ReadAll, i, j)
    BY <1>8 DEF bg_setenv_part
  <2> QED BY <1>0, <1>2, <2>1, JournalRevisions
<1> QED BY <1>4, <1>5, <1>6, <1>7, <1>8

(* The calls made within a session leave the revisions alone. *)
LEMMA SessionRevisions ==
    ASSUME VInv,
           \/ \E k \in Kernels : ebg_env_set_kernelfile(k)
           \/ \E t \in Timeouts : ebg_env_set_timeout(t)
           \/ ebg_env_finalize_update
           \/ \E s \in UStates : ebg_env_setglobalstate(s)
           \/ ebg_env_close
    PROVE  ClaimsDiffer' /\ ToolRevisions' /\ LoaderRevisions'
<1>0. /\ tool \in ToolState /\ tool.h \in Parts
      /\ \A i \in Parts : tool.mem[i] \in BG_ENVDATA
      /\ tool.mem \in [Parts -> BG_ENVDATA]
  BY DEF VInv, TypeOK, ToolState
<1>1. tool.pc = "open" /\ UNCHANGED <<disk, mode, bl>>
  BY DEF ebg_env_set_kernelfile, ebg_env_set_timeout, ebg_env_finalize_update,
         ebg_env_setglobalstate, ebg_env_close
<1> SUFFICES /\ tool'.h = tool.h
             /\ \A i \in Parts : tool'.mem[i].revision = tool.mem[i].revision
  BY <1>1, EditRevisions
<1>2. ASSUME NEW k \in Kernels, ebg_env_set_kernelfile(k)
      PROVE  /\ tool'.h = tool.h
             /\ \A i \in Parts : tool'.mem[i].revision = tool.mem[i].revision
  BY <1>0, <1>2 DEF ebg_env_set_kernelfile, ToolState, BG_ENVDATA
<1>3. ASSUME NEW t \in Timeouts, ebg_env_set_timeout(t)
      PROVE  /\ tool'.h = tool.h
             /\ \A i \in Parts : tool'.mem[i].revision = tool.mem[i].revision
  BY <1>0, <1>3 DEF ebg_env_set_timeout, ToolState, BG_ENVDATA
<1>6. CASE ebg_env_finalize_update
  <2>1. tool' = [tool EXCEPT !.mem[tool.h].in_progress = 0,
                             !.mem[tool.h].ustate = USTATE_INSTALLED]
    BY <1>6 DEF ebg_env_finalize_update
  <2> QED BY <1>0, <2>1 DEF ToolState, BG_ENVDATA
<1>7. ASSUME NEW s \in UStates, ebg_env_setglobalstate(s)
      PROVE  /\ tool'.h = tool.h
             /\ \A i \in Parts : tool'.mem[i].revision = tool.mem[i].revision
  <2>1. PICK c, d : tool' = [tool EXCEPT !.pc = c, !.mem[tool.h].ustate = s, !.todo = d]
    BY <1>7 DEF ebg_env_setglobalstate
  <2> QED BY <1>0, <2>1 DEF ToolState, BG_ENVDATA
<1>8. CASE ebg_env_close
  BY <1>0, <1>8 DEF ebg_env_close, ToolState
<1> QED BY <1>2, <1>3, <1>6, <1>7, <1>8

(* The steps of write_env keep the revisions apart. *)
LEMMA FileRevisions ==
    ASSUME VInv, ToolWrite
    PROVE  ClaimsDiffer' /\ ToolRevisions' /\ LoaderRevisions'
<1>1. PICK i \in Parts : \/ write_env_truncate(i)
                         \/ write_env_data(i)
                         \/ write_env_fails(i)
  BY DEF ToolWrite
<1>2. /\ TypeOK /\ tool \in ToolState /\ tool.pc # "idle" /\ mode = "os"
      /\ UNCHANGED <<mode, bl>>
      /\ tool.mem \in [Parts -> BG_ENVDATA]
  BY <1>1 DEF VInv, TypeOK, ToolState, write_env_truncate, write_env_data,
              write_env_fails, Writes
<1>3. Record(i) \in BG_ENVDATA /\ Record(i).revision = tool.mem[i].revision
  BY <1>2, RecordType DEF Record, BG_ENVDATA
<1>4. ASSUME NEW left, tool' = AfterWrite(i, left)
      PROVE  tool'.pc = "idle" \/
                 /\ tool'.h = tool.h
                 /\ \A k \in Parts : tool'.mem[k].revision = tool.mem[k].revision
  <2>1. CASE tool.pc = "save"
    BY <1>4, <2>1 DEF AfterWrite, IdleTool
  <2>2. CASE tool.pc # "save"
    <3>1. tool'.h = tool.h /\ tool'.mem = [tool.mem EXCEPT ![i] = Record(i)]
      BY <1>2, <1>4, <2>2 DEF AfterWrite, ToolState
    <3> QED BY <1>2, <1>3, <3>1
  <2> QED BY <2>1, <2>2
<1>5. CASE write_env_truncate(i)
  <2>1. PICK f \in TornFiles(ZeroEnv, Record(i)) : disk' = [disk EXCEPT ![i] = f]
    BY <1>5 DEF write_env_truncate
  <2>2. ~f.intact /\ f.env.revision \in {0, tool.mem[i].revision}
    <3>1. ZeroEnv.revision = 0
      BY DEF ZeroEnv, REVISION_FAILED
    <3> QED BY <1>3, <2>1, <3>1, TornRevision, ZeroEnvType
  <2>3. tool'.h = tool.h /\ tool'.mem = tool.mem
    BY <1>2, <1>5 DEF write_env_truncate, ToolState
  <2> QED BY <1>2, <2>1, <2>2, <2>3, WriteRevisions
<1>6. CASE write_env_data(i)
  <2>1. /\ disk' = [disk EXCEPT ![i] = Intact(Record(i))]
        /\ tool' = AfterWrite(i, tool.todo \ {i})
    BY <1>6 DEF write_env_data
  <2>2. Intact(Record(i)).env.revision = tool.mem[i].revision
    BY <1>3 DEF Intact
  <2> QED BY <1>2, <1>4, <2>1, <2>2, WriteRevisions
<1>7. CASE write_env_fails(i)
  <2>1. disk' = disk /\ tool' = AfterWrite(i, {})
    BY <1>7 DEF write_env_fails
  <2>2. CASE tool'.pc = "idle"
    BY <1>2, <2>1, <2>2, SameRevisions
  <2>3. CASE tool'.pc # "idle"
    BY <1>2, <1>4, <2>1, <2>3, EditRevisions
  <2> QED BY <2>2, <2>3
<1> QED BY <1>1, <1>5, <1>6, <1>7

(* VInv holds initially. *)
LEMMA InitRevisions == Init => VInv
<1> SUFFICES ASSUME Init PROVE VInv
  OBVIOUS
<1>1. TypeOK /\ tool.pc = "idle" /\ mode = "load"
  BY InitTypes DEF Init, IdleTool
<1>2. ClaimsDiffer
  BY DEF Init, ClaimsDiffer
<1> QED BY <1>1, <1>2 DEF VInv, ToolRevisions, LoaderRevisions

(* Only a running system has a process that uses the library. *)
LEMMA ToolNeedsOs ==
    ASSUME mode # "os" => tool.pc = "idle", TypeOK, [Next]_vars
    PROVE  mode' # "os" => tool'.pc = "idle"
<1>1. CASE LoaderStep
  BY <1>1 DEF LoaderStep, LoadConfig, load_config, LoadNothing, SaveBegin, SaveEnd,
              SaveFails, ProbeWatchdogs, StartImage, LoadImageFails, ErrorExit
<1>2. CASE WatchdogReset \/ Reboot \/ PowerCut
  BY <1>2 DEF WatchdogReset, Reboot, PowerCut, Restart, IdleTool
<1>3. CASE ToolCall
  <2>1. mode = "os" /\ mode' = mode
    BY <1>3 DEF ToolCall, ebg_env_create_new, ebg_env_open_current,
                ebg_env_set_kernelfile, ebg_env_set_timeout,
                ebg_env_finalize_update, ebg_env_setglobalstate, ebg_env_close,
                bg_setenv_update, bg_setenv_latest, bg_setenv_part
  <2> QED BY <2>1
<1>4. CASE ToolWrite
  BY <1>4 DEF ToolWrite, write_env_truncate, write_env_data, write_env_fails
<1>5. CASE UNCHANGED vars
  BY <1>5 DEF vars
<1> QED BY <1>1, <1>2, <1>3, <1>4, <1>5 DEF Next

(* VInv is inductive when no revision is set by hand. *)
LEMMA NextRevisions ==
    ASSUME NoRevisionByHand
    PROVE  VInv /\ [Next]_vars => VInv'
<1> SUFFICES ASSUME VInv, [Next]_vars PROVE VInv'
  OBVIOUS
<1>1. TypeOK' /\ (mode' # "os" => tool'.pc = "idle")
  BY NextTypes, ToolNeedsOs DEF VInv
<1> SUFFICES ClaimsDiffer' /\ ToolRevisions' /\ LoaderRevisions'
  BY <1>1 DEF VInv
<1>2. CASE LoadConfig
  BY <1>2, LoadRevisions
<1>3. CASE SaveBegin \/ SaveEnd
  BY <1>3, SaveRevisions
<1>4. CASE \/ LoadNothing \/ SaveFails \/ ProbeWatchdogs \/ StartImage \/ LoadImageFails
           \/ ErrorExit
  <2>1. disk' = disk /\ tool' = tool /\ mode' \notin {"save", "saving"}
    BY <1>4 DEF LoadNothing, SaveFails, ProbeWatchdogs, StartImage, LoadImageFails,
                ErrorExit
  <2> QED BY <2>1, SameRevisions
<1>5. CASE WatchdogReset \/ Reboot \/ PowerCut
  <2>1. disk' = disk /\ tool'.pc = "idle" /\ mode' \notin {"save", "saving"}
    BY <1>5 DEF WatchdogReset, Reboot, PowerCut, Restart, IdleTool
  <2> QED BY <2>1, SameRevisions
<1>6. CASE ToolCall
  BY <1>6, StartRevisions, SessionRevisions DEF ToolCall
<1>7. CASE ToolWrite
  BY <1>7, FileRevisions
<1>8. CASE UNCHANGED vars
  <2>1. disk' = disk /\ tool' = tool /\ mode' = mode /\ bl' = bl
    BY <1>8 DEF vars
  <2> QED BY <2>1, SameRevisions
<1> QED BY <1>2, <1>3, <1>4, <1>5, <1>6, <1>7, <1>8 DEF Next, LoaderStep

(***************************************************************************)
(* However reads and writes fail, wherever power is cut and whatever the   *)
(* library and bg_setenv are asked to do, as long as nobody passes         *)
(* --revision: no two live config files ever share a revision, so that the *)
(* scans of load_config, bgenv_open_latest and bgenv_open_oldest never     *)
(* have a tie to break.  The increment of the latest revision may wrap.    *)
(***************************************************************************)
THEOREM Distinct ==
    ASSUME NoRevisionByHand
    PROVE  Spec => []DistinctRevisions
<1>1. Init => VInv
  BY InitRevisions
<1>2. VInv /\ [Next]_vars => VInv'
  BY NextRevisions
<1>3. VInv => DistinctRevisions
  BY DEF VInv, ClaimsDiffer, Claims, DistinctRevisions, Live
<1> QED BY <1>1, <1>2, <1>3, PTL DEF Spec

-----------------------------------------------------------------------------
(***************************************************************************)
(* Part 3: what the scans find on disks the invariant allows.              *)
(***************************************************************************)

(* Every non-empty set of numbers has a least element. *)
LEMMA NatMin ==
    ASSUME NEW T, T \subseteq Nat, T # {}
    PROVE  \E x \in T : \A y \in T : x <= y
<1>1. \E x \in T : \A y \in T : ~(<<y, x>> \in OpToRel(<, Nat))
  BY WFMin, NatLessThanWellFounded, Zenon
<1>2. \E x \in T : \A y \in T : ~(y < x)
  BY <1>1, Zenon DEF OpToRel
<1>3. \A x, y \in T : ~(y < x) => x <= y
  OBVIOUS
<1> QED BY <1>2, <1>3, Zenon

(* Every live record but u is confirmed. *)
LEMMA LiveIsGood ==
    ASSUME NEW files \in [Parts -> CfgFile], NEW g \in Parts, NEW u \in Parts,
           Anchor(files, g, u), NEW i \in Parts, i # u, IsLive(files[i])
    PROVE  Good(files[i]) /\ files[i].env.revision <= files[g].env.revision
BY FileFields DEF Anchor, Older, Good

(* The newest confirmed record is live. *)
LEMMA AnchorLive ==
    ASSUME NEW files, NEW g \in Parts, Good(files[g])
    PROVE  IsLive(files[g]) /\ g \in Live(files, Parts)
BY DEF Good, IsLive, Live

(* The latest record is the pending one if there is one, else g. *)
LEMMA LatestIs ==
    ASSUME NEW files \in [Parts -> CfgFile], NEW g \in Parts, NEW u \in Parts,
           Anchor(files, g, u), NEW l \in Parts,
           IsBootLatest(files, Parts, l)
    PROVE  /\ IsLive(files[u]) /\ Newer(files[u], files[g]) => l = u
           /\ ~(IsLive(files[u]) /\ Newer(files[u], files[g])) => l = g
<1>1. g \in Live(files, Parts)
  BY AnchorLive DEF Anchor
<1>2. /\ l \in Live(files, Parts)
      /\ \A j \in Live(files, Parts) : files[j].env.revision <= files[l].env.revision
  BY <1>1 DEF IsBootLatest, IsFirstMax, FileRev, Live
<1>3. \A i \in Parts : files[i].env.revision \in Nat
  BY FileFields
<1>4. files[g].env.revision <= files[l].env.revision
  BY <1>1, <1>2
<1>5. l \in {g, u}
  BY <1>2, <1>3, <1>4 DEF Anchor, Older, Live, IsLive
<1>6. ASSUME IsLive(files[u]), Newer(files[u], files[g])
      PROVE  l = u
  <2>1. files[u].env.revision <= files[l].env.revision
    BY <1>2, <1>6 DEF Live, IsLive
  <2> QED BY <1>3, <1>5, <1>6, <2>1 DEF Newer
<1>7. ASSUME ~(IsLive(files[u]) /\ Newer(files[u], files[g]))
      PROVE  l = g
  <2>1. SUFFICES ASSUME l = u PROVE FALSE
    BY <1>5
  <2>2. IsLive(files[u])
    BY <1>2, <2>1 DEF Live, IsLive
  <2>3. files[u].env.revision < files[g].env.revision
    BY <1>7, <2>2 DEF Anchor, Older
  <2> QED BY <1>3, <1>4, <2>1, <2>3
<1> QED BY <1>6, <1>7

(* Behind a pending record, the second latest is a confirmed one. *)
LEMMA PreLatestIs ==
    ASSUME NEW files \in [Parts -> CfgFile], NEW g \in Parts, NEW u \in Parts,
           Anchor(files, g, u), NEW p \in Parts,
           IsBootPreLatest(files, Parts, u, p)
    PROVE  p # u /\ Good(files[p])
<1>1. g \in Live(files, Parts) \ {u}
  BY AnchorLive DEF Anchor
<1>2. p \in Live(files, Parts) \ {u}
  BY <1>1 DEF IsBootPreLatest, IsFirstMax
<1> QED BY <1>2, LiveIsGood DEF Live, IsLive

(* The same two facts about the library's copy of the records. *)
LEMMA LibLatestIs ==
    ASSUME TypeOK, NEW g \in Parts, NEW u \in Parts, Anchor(disk, g, u),
           NEW l \in Parts, IsLatest(ReadAll, l)
    PROVE  /\ ReadAll[l] = disk[l].env
           /\ \/ l = u /\ IsLive(disk[u]) /\ Newer(disk[u], disk[g])
              \/ l = g /\ ~(IsLive(disk[u]) /\ Newer(disk[u], disk[g]))
<1>0. disk \in [Parts -> CfgFile]
  BY DEF TypeOK
<1> DEFINE S == {j \in DOMAIN ReadAll : ReadAll[j].revision > 0}
<1>1. DOMAIN ReadAll = Parts /\ DOMAIN disk = Parts
  BY <1>0 DEF ReadAll
<1>2. \A j \in Parts : /\ j \in S <=> IsLive(disk[j])
                       /\ j \in S => ReadAll[j] = disk[j].env
  BY <1>0, <1>1 DEF ReadAll, read_env, IsLive, ZeroEnv, REVISION_FAILED
<1>3. S = Live(disk, Parts)
  BY <1>1, <1>2 DEF Live, IsLive
<1>4. g \in S
  BY <1>3, AnchorLive DEF Anchor
<1>5. IsFirstMax(S, RevOf(ReadAll), l)
  BY <1>4 DEF IsLatest
<1>6. l \in S
  BY <1>5 DEF IsFirstMax
<1>7. \A j \in S : RevOf(ReadAll)[j] = FileRev(disk)[j]
  BY <1>1, <1>2 DEF RevOf, FileRev
<1>8. IsFirstMax(Live(disk, Parts), FileRev(disk), l)
  <2> HIDE DEF S
  <2> QED BY <1>3, <1>5, <1>6, <1>7 DEF IsFirstMax
<1>9. IsBootLatest(disk, Parts, l)
  BY <1>3, <1>4, <1>8 DEF IsBootLatest
<1> QED BY <1>0, <1>1, <1>2, <1>6, <1>9, LatestIs

(* The oldest record is never the newest confirmed one, so that it may be  *)
(* overwritten: from then on it is the one that may be pending.            *)
LEMMA LibOldestIs ==
    ASSUME TypeOK, NEW g \in Parts, NEW u \in Parts, Anchor(disk, g, u),
           ~(IsLive(disk[u]) /\ Newer(disk[u], disk[g])),
           disk[g].env.revision < UINT32_MAX,
           NEW o \in Parts, IsOldest(ReadAll, o)
    PROVE  Anchor(disk, g, o)
<1>0. disk \in [Parts -> CfgFile] /\ ReadAll \in [Parts -> BG_ENVDATA]
  BY ReadAllType DEF TypeOK
<1>1. \A i \in Parts : ReadAll[i].revision \in Nat /\ disk[i].env.revision \in Nat
  BY <1>0, FileFields DEF BG_ENVDATA, Revisions
<1>2. ReadAll[g].revision = disk[g].env.revision
  BY DEF Anchor, Good, ReadAll, read_env
<1>3. ReadAll[u].revision < disk[g].env.revision
  <2>1. CASE IsLive(disk[u])
    BY <2>1 DEF Anchor, Older, IsLive, ReadAll, read_env
  <2>2. CASE ~IsLive(disk[u])
    <3>1. ReadAll[u].revision = 0
      BY <1>1, <2>2, UStateValues DEF IsLive, ReadAll, read_env, ZeroEnv
    <3> QED BY <3>1 DEF Anchor, Good
  <2> QED BY <2>1, <2>2
<1> DEFINE S == {j \in DOMAIN ReadAll : ReadAll[j].revision < UINT32_MAX}
<1>4. u \in S /\ g \in S
  BY <1>0, <1>1, <1>2, <1>3, RevisionAssumption
<1>5. RevOf(ReadAll)[o] <= RevOf(ReadAll)[u]
  BY <1>4 DEF IsOldest, IsFirstMin
<1>6. ReadAll[o].revision <= ReadAll[u].revision
  BY <1>0, <1>5 DEF RevOf
<1>7. o # g
  BY <1>1, <1>2, <1>3, <1>6
<1>8. \A i \in Parts \ {g} : IsLive(disk[i]) => Older(disk[i], disk[g])
  BY DEF Anchor
<1> QED BY <1>7, <1>8 DEF Anchor

(* Of the records the library reads, only u and records that are not live  *)
(* can have a state other than OK.                                         *)
LEMMA OthersOK ==
    ASSUME TypeOK, NEW g \in Parts, NEW u \in Parts, Anchor(disk, g, u),
           NEW i \in Parts, i # u, ReadAll[i].ustate # USTATE_OK
    PROVE  ReadAll[i].revision = 0 /\ ~IsLive(disk[i])
<1>1. disk \in [Parts -> CfgFile]
  BY DEF TypeOK
<1>2. disk[i].intact /\ ReadAll[i] = disk[i].env
  BY DEF ReadAll, read_env, ZeroEnv
<1>3. ~IsLive(disk[i])
  BY <1>1, <1>2, LiveIsGood DEF Good
<1> QED BY <1>1, <1>2, <1>3, FileFields DEF IsLive

(***************************************************************************)
(* Part 4: IInv is inductive, and no step changes the newest confirmed     *)
(* record.                                                                 *)
(***************************************************************************)

(* A step that leaves disk and tool alone keeps g and u, if what is to be  *)
(* saved is in order.                                                      *)
LEMMA SameDisk ==
    ASSUME NEW g \in Parts, NEW u \in Parts, CoreOf(g, u),
           disk' = disk, tool' = tool,
           mode' \in {"save", "saving"} => Saving(g, u)'
    PROVE  Core' /\ disk'[g] = disk[g]
<1>1. Anchor(disk, g, u)' /\ (tool'.pc # "idle" => Session(g, u)')
  BY DEF CoreOf, Anchor, Session
<1> QED BY <1>1 DEF Core, CoreOf

(* load_config: what it saves is a trial of the pending record or the      *)
(* failure of one.                                                         *)
LEMMA LoadConfigSafe ==
    ASSUME TypeOK, CarefulOperator, TrialWorks, LoadConfig,
           NEW g \in Parts, NEW u \in Parts, CoreOf(g, u)
    PROVE  Core' /\ TrialWorks' /\ disk'[g] = disk[g]
<1>0. disk \in [Parts -> CfgFile]
  BY DEF TypeOK
<1>a. PICK vis \in Visible, l \in Parts, p \in Parts :
          \E cut : load_config(vis, Loaded(vis, cut), l, p)
  BY DEF LoadConfig, CarefulOperator
<1>1. PICK cut : load_config(vis, Loaded(vis, cut), l, p)
  BY <1>a
<1> DEFINE files == Loaded(vis, cut)
           e == files[l].env
           b == BootedPart(e, l, p)
<1>2. vis \subseteq Parts
  BY SystemAssumption
<1>3. \A i \in vis : files[i] = disk[i]
  BY <1>2 DEF Loaded
<1>4. l \in vis /\ p \in vis
  BY <1>1 DEF load_config, IsBootLatest, IsBootPreLatest, IsFirst, IsFirstMax, Live
<1>5. b \in vis /\ b \in Parts
  BY <1>2, <1>4 DEF BootedPart
<1>6. /\ bl'.latest = l /\ bl'.part = b /\ bl'.env = SavedEnv(e)
      /\ bl'.payload = files[b].env.kernelfile
      /\ mode' = IF NeedsSave(e) /\ vis = Parts THEN "save" ELSE "probe"
  BY <1>1 DEF load_config
<1>7. disk' = disk /\ tool' = tool /\ mode = "load"
  BY DEF LoadConfig
<1>8. bl'.payload = disk'[bl'.part].env.kernelfile
  BY <1>3, <1>5, <1>6, <1>7
<1>9. TrialWorks'
  BY <1>6, <1>7, <1>8 DEF TrialWorks
<1>10. ASSUME NeedsSave(e), vis = Parts
       PROVE  Saving(g, u)'
  <2>1. files = disk
    BY <1>0, <1>10 DEF Loaded
  <2>2. IsBootLatest(disk, Parts, l) /\ IsBootPreLatest(disk, Parts, l, p)
    BY <1>1, <1>10, <2>1 DEF load_config
  <2>3. Anchor(disk, g, u)
    BY DEF CoreOf
  <2>4. e = disk[l].env /\ e.in_progress # 1
        /\ e.ustate \in {USTATE_TESTING, USTATE_INSTALLED}
    BY <1>10, <2>1 DEF NeedsSave
  <2>5. l = u /\ Newer(disk[u], disk[g])
    BY <1>0, <2>2, <2>3, <2>4, LatestIs, UStateValues DEF Anchor, Good
  <2>6. e \in BG_ENVDATA
    BY <1>0, <2>4 DEF CfgFile
  <2>7. p # u
    BY <1>0, <2>2, <2>3, <2>5, PreLatestIs
  <2>8. /\ SavedEnv(e).in_progress = 0
        /\ SavedEnv(e).kernelfile = e.kernelfile
        /\ \/ SavedEnv(e).ustate = USTATE_FAILED /\ SavedEnv(e).revision = 0
           \/ SavedEnv(e).ustate = USTATE_TESTING /\ SavedEnv(e).revision = e.revision
    BY <2>4, <2>6, UStateValues DEF SavedEnv, BG_ENVDATA
  <2>9. b = u => files[b].env.kernelfile = e.kernelfile
    BY <2>1, <2>5
  <2> HIDE DEF b, e, files
  <2> QED BY <1>6, <1>7, <2>4, <2>5, <2>8, <2>9 DEF Saving, Newer
<1> QED BY <1>6, <1>7, <1>9, <1>10, SameDisk

(* The loader replaces the file of u: as long as the new one is not live,  *)
(* or pending and newer than g, all is well.                               *)
LEMMA ReplaceU ==
    ASSUME TypeOK, NEW g \in Parts, NEW u \in Parts, Anchor(disk, g, u),
           NEW f, disk' = [disk EXCEPT ![u] = f],
           IsLive(f) => Newer(f, disk[g])
    PROVE  Anchor(disk, g, u)' /\ disk'[g] = disk[g]
<1>1. disk'[u] = f /\ \A i \in Parts \ {u} : disk'[i] = disk[i]
  BY DEF TypeOK
<1> QED BY <1>1 DEF Anchor

(* Every step of the loader preserves the invariant. *)
LEMMA LoaderSafe ==
    ASSUME TypeOK, CarefulOperator, TrialWorks, LoaderStep,
           NEW g \in Parts, NEW u \in Parts, CoreOf(g, u)
    PROVE  Core' /\ TrialWorks' /\ disk'[g] = disk[g]
<1>1. CASE LoadConfig
  BY <1>1, LoadConfigSafe
<1>2. CASE LoadNothing
  <2>1. bl'.payload \notin Works
    BY <1>2, SystemAssumption, KernelAssumption DEF LoadNothing, FreshLoader
  <2>2. Core' /\ disk'[g] = disk[g]
    BY <1>2, SameDisk DEF LoadNothing
  <2> QED BY <1>2, <2>1, <2>2 DEF LoadNothing, TrialWorks
<1>3. CASE SaveBegin
  <2>1. Saving(g, u) /\ Anchor(disk, g, u)
    BY <1>3 DEF SaveBegin, CoreOf
  <2>2. PICK f \in TornFiles(disk[bl.latest].env, bl.env) :
            disk' = [disk EXCEPT ![bl.latest] = f]
    BY <1>3 DEF SaveBegin
  <2>3. ~f.intact
    BY <2>2, TornType DEF TypeOK, LoaderState, CfgFile
  <2>4. disk' = [disk EXCEPT ![u] = f] /\ bl.latest = u
    BY <2>1, <2>2 DEF Saving
  <2>5. Anchor(disk, g, u)' /\ disk'[g] = disk[g]
    BY <2>1, <2>3, <2>4, ReplaceU DEF IsLive
  <2>6. Saving(g, u)'
    BY <1>3, <2>1, <2>5 DEF SaveBegin, Saving
  <2>7. tool' = tool /\ tool.pc = "idle" /\ mode' # "os" /\ bl' = bl /\ mode = "save"
    BY <1>3 DEF SaveBegin, TrialWorks
  <2>8. Core'
    BY <2>5, <2>6, <2>7 DEF Core, CoreOf
  <2>9. \A i \in Parts : disk'[i] = disk[i] \/ ~disk'[i].intact
    BY <2>3, <2>4 DEF TypeOK
  <2>10. bl.part \in Parts
    BY DEF TypeOK, LoaderState
  <2>11. TrialWorks'
    BY <2>7, <2>9, <2>10 DEF TrialWorks
  <2> QED BY <2>5, <2>8, <2>11
<1>4. CASE SaveEnd
  <2>1. Saving(g, u) /\ Anchor(disk, g, u)
    BY <1>4 DEF SaveEnd, CoreOf
  <2>2. disk' = [disk EXCEPT ![u] = Intact(bl.env)]
    BY <1>4, <2>1 DEF SaveEnd, Saving
  <2>3. IsLive(Intact(bl.env)) => Newer(Intact(bl.env), disk[g])
    BY <2>1 DEF IsLive, Intact, Saving, Newer, PendingEnv
  <2>4. Anchor(disk, g, u)' /\ disk'[g] = disk[g]
    BY <2>1, <2>2, <2>3, ReplaceU
  <2>5. tool' = tool /\ tool.pc = "idle" /\ mode' = "probe" /\ bl' = bl /\ mode = "saving"
    BY <1>4 DEF SaveEnd, TrialWorks
  <2>6. Core'
    BY <2>4, <2>5 DEF Core, CoreOf
  <2>7. /\ \A i \in Parts \ {u} : disk'[i] = disk[i]
        /\ disk'[u].env = bl.env
    BY <2>2 DEF TypeOK, Intact
  <2>8. bl.part \in Parts
    BY DEF TypeOK, LoaderState
  <2>9. TrialWorks'
    <3>1. CASE bl.part = u
      BY <2>1, <2>5, <2>7, <3>1 DEF TrialWorks, Saving
    <3>2. CASE bl.part # u
      BY <2>5, <2>7, <2>8, <3>2 DEF TrialWorks
    <3> QED BY <3>1, <3>2
  <2> QED BY <2>4, <2>6, <2>9
<1>5. CASE SaveFails
  <2>1. Core' /\ disk'[g] = disk[g]
    BY <1>5, SameDisk DEF SaveFails
  <2> QED BY <1>5, <2>1 DEF SaveFails, TrialWorks
<1>6. CASE ProbeWatchdogs
  <2>1. mode = "probe" /\ mode' \in {"halt", "image"}
    BY <1>6 DEF ProbeWatchdogs
  <2>2. Core' /\ disk'[g] = disk[g]
    BY <1>6, <2>1, SameDisk DEF ProbeWatchdogs
  <2> QED BY <1>6, <2>1, <2>2 DEF ProbeWatchdogs, TrialWorks
<1>7. CASE StartImage
  <2>1. Core' /\ disk'[g] = disk[g]
    BY <1>7, SameDisk DEF StartImage
  <2>2. bl'.part = bl.part /\ bl'.payload = bl.payload
    BY <1>7 DEF StartImage, FreshLoader
  <2> QED BY <1>7, <2>1, <2>2 DEF StartImage, TrialWorks
<1>8. CASE LoadImageFails
  <2>1. Core' /\ disk'[g] = disk[g]
    BY <1>8, SameDisk DEF LoadImageFails
  <2> QED BY <1>8, <2>1 DEF LoadImageFails, TrialWorks
<1>9. CASE ErrorExit
  <2>1. Core' /\ disk'[g] = disk[g]
    BY <1>9, SameDisk DEF ErrorExit
  <2> QED BY <1>9, <2>1 DEF ErrorExit, TrialWorks
<1> QED
  BY <1>1, <1>2, <1>3, <1>4, <1>5, <1>6, <1>7, <1>8, <1>9 DEF LoaderStep

(* So does a reset at any moment. *)
LEMMA RestartSafe ==
    ASSUME Restart, NEW g \in Parts, NEW u \in Parts, CoreOf(g, u)
    PROVE  Core' /\ TrialWorks' /\ disk'[g] = disk[g]
<1>1. mode' = "load" /\ disk' = disk /\ tool'.pc = "idle" /\ tool'.todo = {}
  BY DEF Restart, IdleTool
<1>2. Anchor(disk, g, u)'
  BY <1>1 DEF CoreOf, Anchor
<1> QED BY <1>1, <1>2 DEF Core, CoreOf, TrialWorks

(* A call that leaves the disk alone is safe if what the process has open  *)
(* afterwards is.                                                          *)
LEMMA CallFrame ==
    ASSUME TrialWorks, mode = "os", UNCHANGED <<disk, mode, bl, armed>>,
           NEW g \in Parts, NEW v \in Parts, Anchor(disk, g, v),
           tool'.pc # "idle", Session(g, v)'
    PROVE  Core' /\ TrialWorks' /\ disk'[g] = disk[g]
<1>1. Anchor(disk, g, v)'
  BY DEF Anchor
<1>2. TrialWorks'
  BY DEF TrialWorks
<1> QED BY <1>1, <1>2 DEF Core, CoreOf

(* A session starts with a copy of all records but its own. *)
LEMMA SessionOpens ==
    ASSUME TypeOK, disk' = disk, NEW g \in Parts, NEW v \in Parts, Anchor(disk, g, v),
           tool'.h = v, OpenEnv(tool'.mem[v]),
           tool'.mem[v].revision > disk[g].env.revision,
           \A i \in Parts \ {v} : tool'.mem[i] = ReadAll[i],
           \A i \in tool'.todo : i # v /\ ReadAll[i].ustate # USTATE_OK,
           tool'.todo \subseteq Parts
    PROVE  Session(g, v)'
<1>1. \A i \in Parts \ {v} :
          tool'.mem[i].ustate # USTATE_OK \/ i \in tool'.todo
              => tool'.mem[i].revision = 0 /\ ~IsLive(disk'[i])
  BY OthersOK
<1> QED BY <1>1 DEF Session

(* Cloning the newest confirmed record over the oldest one. *)
LEMMA CloneFields ==
    ASSUME NEW mem \in [Parts -> BG_ENVDATA], NEW l \in Parts, NEW o \in Parts,
           mem[l].revision < UINT32_MAX
    PROVE  /\ CloneLatest(mem, l, o)[o].revision = mem[l].revision + 1
           /\ CloneLatest(mem, l, o)[o].in_progress = 1
           /\ CloneLatest(mem, l, o)[o].ustate = mem[l].ustate
           /\ \A i \in Parts \ {o} : CloneLatest(mem, l, o)[i] = mem[i]
           /\ CloneForUpdate(mem, l, o)[o].revision = mem[l].revision + 1
           /\ CloneForUpdate(mem, l, o)[o].in_progress = mem[l].in_progress
           /\ \A i \in Parts \ {o} : CloneForUpdate(mem, l, o)[i] = mem[i]
<1>1. mem[l] \in BG_ENVDATA /\ mem[l].revision \in Revisions
  BY DEF BG_ENVDATA
<1>2. NextRevision(mem[l].revision) = mem[l].revision + 1
  BY <1>1, NextRevisionType
<1> DEFINE e == mem[l]
           n == NextRevision(mem[l].revision)
           c == [e EXCEPT !.revision = n, !.in_progress = 1]
           d == [e EXCEPT !.revision = n]
<1>3. c.revision = n /\ c.in_progress = 1 /\ c.ustate = e.ustate
  BY <1>1 DEF BG_ENVDATA
<1>4. d.revision = n /\ d.in_progress = e.in_progress
  BY <1>1 DEF BG_ENVDATA
<1>5. CloneLatest(mem, l, o) = [mem EXCEPT ![o] = c]
  BY DEF CloneLatest
<1>6. CloneForUpdate(mem, l, o) = [mem EXCEPT ![o] = d]
  BY DEF CloneForUpdate
<1> HIDE DEF c, d
<1> QED BY <1>2, <1>3, <1>4, <1>5, <1>6

(* ebg_env_create_new opens an update over a record that may be lost. *)
LEMMA CreateNewSafe ==
    ASSUME TypeOK, CarefulOperator, TrialWorks, ebg_env_create_new,
           NEW g \in Parts, NEW u \in Parts, CoreOf(g, u)
    PROVE  Core' /\ TrialWorks' /\ disk'[g] = disk[g]
<1>0. /\ mode = "os" /\ tool.pc = "idle" /\ UNCHANGED <<disk, mode, bl, armed>>
      /\ tool.todo = {} /\ Anchor(disk, g, u) /\ tool \in ToolState
      /\ ReadAll \in [Parts -> BG_ENVDATA] /\ disk \in [Parts -> CfgFile]
  BY ReadAllType DEF ebg_env_create_new, TrialWorks, CoreOf, TypeOK
<1>1. PICK l \in Parts, o \in Parts :
          /\ IsLatest(ReadAll, l)
          /\ MayUpdate(ReadAll[l])
          /\ IF ReadAll[l].in_progress # 1
             THEN /\ IsOldest(ReadAll, o)
                  /\ tool' = [tool EXCEPT !.pc = "open", !.h = o,
                                          !.mem = CloneLatest(ReadAll, l, o)]
             ELSE /\ o = l
                  /\ tool' = [tool EXCEPT !.pc = "open", !.h = l,
                                          !.mem = ReadAll]
  BY DEF ebg_env_create_new
<1>2. ReadAll[l].ustate = USTATE_OK /\ ReadAll[l].revision < UINT32_MAX
  BY <1>1 DEF MayUpdate, CarefulOperator
<1>3. CASE ReadAll[l].in_progress # 1
  <2>1. IsOldest(ReadAll, o)
        /\ tool' = [tool EXCEPT !.pc = "open", !.h = o,
                                !.mem = CloneLatest(ReadAll, l, o)]
    BY <1>1, <1>3
  <2>2. /\ tool'.pc = "open" /\ tool'.h = o /\ tool'.todo = {}
        /\ tool'.mem = CloneLatest(ReadAll, l, o)
    BY <1>0, <2>1 DEF ToolState
  <2>3. l = g /\ ~(IsLive(disk[u]) /\ Newer(disk[u], disk[g])) /\ ReadAll[l] = disk[l].env
    BY <1>0, <1>1, <1>2, <1>3, LibLatestIs, UStateValues DEF Newer, PendingEnv
  <2>4. Anchor(disk, g, o)
    BY <1>0, <1>2, <2>1, <2>3, LibOldestIs
  <2>5. /\ tool'.mem[o].revision = disk[g].env.revision + 1
        /\ tool'.mem[o].in_progress = 1
        /\ tool'.mem[o].ustate = USTATE_OK
        /\ \A i \in Parts \ {o} : tool'.mem[i] = ReadAll[i]
    BY <1>0, <1>2, <2>2, <2>3, CloneFields
  <2>6. tool'.mem[o].revision > disk[g].env.revision
    BY <1>0, <2>5, FileFields
  <2>7. Session(g, o)'
    BY <1>0, <2>2, <2>4, <2>5, <2>6, SessionOpens DEF OpenEnv
  <2> QED BY <1>0, <2>2, <2>4, <2>7, CallFrame
<1>4. CASE ReadAll[l].in_progress = 1
  <2>1. tool' = [tool EXCEPT !.pc = "open", !.h = l, !.mem = ReadAll]
    BY <1>1, <1>4
  <2>2. tool'.pc = "open" /\ tool'.h = l /\ tool'.todo = {} /\ tool'.mem = ReadAll
    BY <1>0, <2>1 DEF ToolState
  <2>3. l = u /\ Newer(disk[u], disk[g]) /\ ReadAll[l] = disk[l].env
    BY <1>0, <1>1, <1>4, LibLatestIs DEF Anchor, Good
  <2>4. Session(g, u)'
    BY <1>0, <1>2, <1>4, <2>2, <2>3, SessionOpens DEF OpenEnv, Newer
  <2> QED BY <1>0, <2>2, <2>4, CallFrame
<1> QED BY <1>3, <1>4

(* The record of a trial that runs is u's, and its kernel works. *)
LEMMA ConfirmOpens ==
    ASSUME TypeOK, CarefulOperator, TrialWorks, mode = "os",
           NEW g \in Parts, NEW u \in Parts, Anchor(disk, g, u),
           NEW l \in Parts, IsLatest(ReadAll, l), MayConfirm(ReadAll[l], l)
    PROVE  /\ l = u
           /\ ReadAll[u].revision > disk[g].env.revision
           /\ ReadAll[u].in_progress = 0
           /\ ReadAll[u].ustate = USTATE_TESTING
           /\ ReadAll[u].kernelfile \in Works
<1>1. ReadAll[l].ustate = USTATE_TESTING /\ l = bl.part
  BY DEF MayConfirm, CarefulOperator
<1>2. l = u /\ IsLive(disk[u]) /\ Newer(disk[u], disk[g]) /\ ReadAll[l] = disk[l].env
  BY <1>1, LibLatestIs, UStateValues DEF Anchor, Good
<1>3. disk[u].env.kernelfile \in Works
  BY <1>1, <1>2 DEF TrialWorks, IsLive
<1> QED BY <1>1, <1>2, <1>3, UStateValues DEF Newer, PendingEnv

(* An edit of the open record keeps the session if the record stays one a  *)
(* process may have open.                                                  *)
LEMMA EditSafe ==
    ASSUME TypeOK, TrialWorks, mode = "os", UNCHANGED <<disk, mode, bl, armed>>,
           NEW g \in Parts, NEW u \in Parts, CoreOf(g, u), tool.pc = "open",
           NEW e, tool'.mem = [tool.mem EXCEPT ![tool.h] = e],
           OpenEnv(e), e.revision = tool.mem[tool.h].revision,
           tool'.h = tool.h, tool'.pc # "idle",
           \A i \in tool'.todo : \/ i # tool.h /\ tool.mem[i].ustate # USTATE_OK
                                 \/ i \in tool.todo,
           tool'.todo \subseteq Parts
    PROVE  Core' /\ TrialWorks' /\ disk'[g] = disk[g]
<1>1. Session(g, u) /\ Anchor(disk, g, u) /\ tool.h = u
  BY DEF CoreOf, Session
<1>2. tool'.mem[u] = e /\ \A i \in Parts \ {u} : tool'.mem[i] = tool.mem[i]
  BY <1>1 DEF TypeOK, ToolState
<1>3. Session(g, u)'
  BY <1>1, <1>2 DEF Session
<1> QED BY <1>1, <1>3, CallFrame

(* Every call of the library and every run of bg_setenv is safe. *)
LEMMA CallSafe ==
    ASSUME TypeOK, CarefulOperator, TrialWorks, ToolCall,
           NEW g \in Parts, NEW u \in Parts, CoreOf(g, u)
    PROVE  Core' /\ TrialWorks' /\ disk'[g] = disk[g]
<1>0. /\ tool \in ToolState /\ ReadAll \in [Parts -> BG_ENVDATA]
      /\ disk \in [Parts -> CfgFile] /\ Anchor(disk, g, u)
      /\ tool.mem[tool.h] \in BG_ENVDATA
  BY ReadAllType DEF TypeOK, CoreOf, ToolState
<1>1. CASE ebg_env_create_new
  BY <1>1, CreateNewSafe
<1>2. CASE ebg_env_open_current
  <2>1. PICK l \in Parts :
            /\ IsLatest(ReadAll, l)
            /\ MayConfirm(ReadAll[l], l)
            /\ tool' = [tool EXCEPT !.pc = "open", !.h = l, !.mem = ReadAll]
    BY <1>2 DEF ebg_env_open_current
  <2>2. mode = "os" /\ tool.todo = {} /\ UNCHANGED <<disk, mode, bl, armed>>
    BY <1>2 DEF ebg_env_open_current, TrialWorks
  <2>3. tool'.pc = "open" /\ tool'.h = l /\ tool'.mem = ReadAll /\ tool'.todo = {}
    BY <1>0, <2>1, <2>2 DEF ToolState
  <2>4. /\ l = u /\ ReadAll[u].revision > disk[g].env.revision
        /\ OpenEnv(ReadAll[u])
    BY <1>0, <2>1, <2>2, ConfirmOpens DEF OpenEnv
  <2>5. Session(g, u)'
    BY <1>0, <2>2, <2>3, <2>4, SessionOpens
  <2> QED BY <1>0, <2>2, <2>3, <2>5, CallFrame
<1>3. ASSUME NEW k \in Kernels, ebg_env_set_kernelfile(k)
      PROVE  Core' /\ TrialWorks' /\ disk'[g] = disk[g]
  <2> DEFINE e == [tool.mem[tool.h] EXCEPT !.kernelfile = k]
  <2>1. OpenEnv(tool.mem[tool.h]) /\ tool.mem[tool.h].in_progress = 1
    BY <1>3 DEF CoreOf, Session, ebg_env_set_kernelfile, Editable, CarefulOperator
  <2>2. OpenEnv(e) /\ e.revision = tool.mem[tool.h].revision
    BY <1>0, <2>1, UStateValues DEF OpenEnv, BG_ENVDATA
  <2>3. /\ tool'.mem = [tool.mem EXCEPT ![tool.h] = e] /\ tool'.h = tool.h
        /\ tool'.pc = tool.pc /\ tool'.todo = tool.todo
    BY <1>0, <1>3 DEF ebg_env_set_kernelfile, ToolState
  <2>4. tool'.todo \subseteq Parts
    BY <1>0, <2>3 DEF ToolState
  <2> HIDE DEF e
  <2> QED BY <1>3, <2>2, <2>3, <2>4, EditSafe DEF ebg_env_set_kernelfile
<1>4. ASSUME NEW t \in Timeouts, ebg_env_set_timeout(t)
      PROVE  Core' /\ TrialWorks' /\ disk'[g] = disk[g]
  <2> DEFINE e == [tool.mem[tool.h] EXCEPT !.timeout = t]
  <2>1. OpenEnv(tool.mem[tool.h])
    BY <1>4 DEF CoreOf, Session, ebg_env_set_timeout
  <2>2. OpenEnv(e) /\ e.revision = tool.mem[tool.h].revision
    BY <1>0, <2>1 DEF OpenEnv, BG_ENVDATA
  <2>3. /\ tool'.mem = [tool.mem EXCEPT ![tool.h] = e] /\ tool'.h = tool.h
        /\ tool'.pc = tool.pc /\ tool'.todo = tool.todo
    BY <1>0, <1>4 DEF ebg_env_set_timeout, ToolState
  <2>4. tool'.todo \subseteq Parts
    BY <1>0, <2>3 DEF ToolState
  <2> HIDE DEF e
  <2> QED BY <1>4, <2>2, <2>3, <2>4, EditSafe DEF ebg_env_set_timeout
<1>5. CASE ebg_env_finalize_update
  <2> DEFINE e == [tool.mem[tool.h] EXCEPT !.in_progress = 0,
                                           !.ustate = USTATE_INSTALLED]
  <2>1. OpenEnv(e) /\ e.revision = tool.mem[tool.h].revision
    BY <1>0 DEF OpenEnv, BG_ENVDATA
  <2>2. /\ tool'.mem = [tool.mem EXCEPT ![tool.h] = e] /\ tool'.h = tool.h
        /\ tool'.pc = tool.pc /\ tool'.todo = tool.todo
    BY <1>0, <1>5 DEF ebg_env_finalize_update, ToolState
  <2>3. tool'.todo \subseteq Parts
    BY <1>0, <2>2 DEF ToolState
  <2> HIDE DEF e
  <2> QED BY <1>5, <2>1, <2>2, <2>3, EditSafe DEF ebg_env_finalize_update
<1>6. ASSUME NEW s \in UStates, ebg_env_setglobalstate(s)
      PROVE  Core' /\ TrialWorks' /\ disk'[g] = disk[g]
  <2> DEFINE e == [tool.mem[tool.h] EXCEPT !.ustate = s]
  <2>1. /\ OpenEnv(tool.mem[tool.h])
        /\ tool.mem[tool.h].ustate = USTATE_TESTING
        /\ tool.mem[tool.h].in_progress = 0
        /\ s = USTATE_OK
    BY <1>6 DEF CoreOf, Session, ebg_env_setglobalstate, CarefulOperator
  <2>2. OpenEnv(e) /\ e.revision = tool.mem[tool.h].revision
    BY <1>0, <2>1, UStateValues DEF OpenEnv, BG_ENVDATA
  <2>3. /\ tool'.mem = [tool.mem EXCEPT ![tool.h] = e] /\ tool'.h = tool.h
        /\ tool'.pc \in {"open", "sync"}
        /\ tool'.todo = Dirty(tool.mem, tool.h, s)
    BY <1>0, <1>6 DEF ebg_env_setglobalstate, ToolState
  <2>4. /\ tool'.todo \subseteq Parts
        /\ \A i \in tool'.todo : i # tool.h /\ tool.mem[i].ustate # USTATE_OK
    BY <2>3 DEF Dirty
  <2> HIDE DEF e
  <2> QED BY <1>6, <2>2, <2>3, <2>4, EditSafe DEF ebg_env_setglobalstate
<1>7. CASE ebg_env_close
  <2>1. /\ tool'.mem = tool.mem /\ tool'.h = tool.h /\ tool'.pc = "save"
        /\ tool'.todo = tool.todo /\ tool.pc = "open" /\ mode = "os"
        /\ UNCHANGED <<disk, mode, bl, armed>>
    BY <1>0, <1>7 DEF ebg_env_close, ToolState
  <2>2. Session(g, u)'
    BY <2>1 DEF CoreOf, Session
  <2> QED BY <1>0, <2>1, <2>2, CallFrame
<1>8. ASSUME NEW j \in Commands, bg_setenv_update(j)
      PROVE  Core' /\ TrialWorks' /\ disk'[g] = disk[g]
  <2>1. PICK l \in Parts, o \in Parts :
            /\ IsLatest(ReadAll, l)
            /\ MayUpdate(ReadAll[l])
            /\ Procedure => ReadAll[l].in_progress = 0
            /\ IsOldest(ReadAll, o)
            /\ RunJournal(CloneForUpdate(ReadAll, l, o), o, j)
    BY <1>8 DEF bg_setenv_update
  <2>2. /\ ReadAll[l].in_progress = 0 /\ ReadAll[l].ustate = USTATE_OK
        /\ ReadAll[l].revision < UINT32_MAX
        /\ j.ustate = USTATE_INSTALLED /\ j.in_progress = Keep /\ j.revision = Keep
    BY <1>8, <2>1 DEF bg_setenv_update, MayUpdate, CarefulOperator
  <2>3. mode = "os" /\ UNCHANGED <<disk, mode, bl, armed>>
    BY <1>8 DEF bg_setenv_update
  <2>4. l = g /\ ~(IsLive(disk[u]) /\ Newer(disk[u], disk[g])) /\ ReadAll[l] = disk[l].env
    BY <1>0, <2>1, <2>2, LibLatestIs, UStateValues DEF Newer, PendingEnv
  <2>5. Anchor(disk, g, o)
    BY <1>0, <2>1, <2>2, <2>4, LibOldestIs
  <2> DEFINE mem == CloneForUpdate(ReadAll, l, o)
             e == Edited(mem[o], j)
  <2>6. mem \in [Parts -> BG_ENVDATA]
    BY <1>0, CloneTypes
  <2>7. /\ mem[o].revision = disk[g].env.revision + 1
        /\ mem[o].in_progress = 0
        /\ \A i \in Parts \ {o} : mem[i] = ReadAll[i]
    BY <1>0, <2>2, <2>4, CloneFields
  <2> HIDE DEF mem
  <2>8. /\ e.revision = disk[g].env.revision + 1
        /\ e.in_progress = 0 /\ e.ustate = USTATE_INSTALLED
    <3>1. mem[o] \in BG_ENVDATA
      BY <2>6
    <3> QED BY <2>2, <2>7, <3>1, UStateValues DEF Edited, Given, Keep, BG_ENVDATA
  <2>9. Dirty(mem, o, j.ustate) = {}
    BY <2>2, UStateValues DEF Dirty
  <2>10. tool' = [tool EXCEPT
                     !.pc = IF Dirty(mem, o, j.ustate) = {} THEN "save" ELSE "sync",
                     !.mem = [mem EXCEPT ![o] = e],
                     !.h = o, !.todo = Dirty(mem, o, j.ustate), !.oneshot = TRUE]
    BY <2>1 DEF RunJournal, mem
  <2> HIDE DEF e
  <2>11. tool'.pc = "save" /\ tool'.h = o /\ tool'.todo = {}
         /\ tool'.mem = [mem EXCEPT ![o] = e]
    BY <1>0, <2>9, <2>10 DEF ToolState
  <2>12. tool'.mem[o] = e /\ \A i \in Parts \ {o} : tool'.mem[i] = ReadAll[i]
    BY <2>6, <2>7, <2>11
  <2>13. e.revision > disk[g].env.revision
    BY <1>0, <2>8, FileFields
  <2>14. Session(g, o)'
    BY <2>3, <2>5, <2>8, <2>11, <2>12, <2>13, SessionOpens DEF OpenEnv
  <2> QED BY <2>3, <2>5, <2>11, <2>14, CallFrame
<1>9. ASSUME NEW j \in Commands, bg_setenv_latest(j)
      PROVE  Core' /\ TrialWorks' /\ disk'[g] = disk[g]
  <2>1. PICK l \in Parts :
            /\ IsLatest(ReadAll, l)
            /\ MayConfirm(ReadAll[l], l)
            /\ RunJournal(ReadAll, l, j)
    BY <1>9 DEF bg_setenv_latest
  <2>2. j = Confirm /\ mode = "os" /\ UNCHANGED <<disk, mode, bl, armed>>
    BY <1>9 DEF bg_setenv_latest, CarefulOperator
  <2>3. /\ l = u /\ ReadAll[u].revision > disk[g].env.revision
        /\ ReadAll[u].in_progress = 0
        /\ ReadAll[u].kernelfile \in Works
    BY <1>0, <2>1, <2>2, ConfirmOpens
  <2> DEFINE e == Edited(ReadAll[u], j)
  <2>4. /\ e.revision = ReadAll[u].revision /\ e.in_progress = 0
        /\ e.ustate = USTATE_OK /\ e.kernelfile \in Works
    <3>1. ReadAll[u] \in BG_ENVDATA
      BY <1>0
    <3> QED
      BY <2>2, <2>3, <3>1, UStateValues DEF Edited, Given, Keep, Confirm, BG_ENVDATA
  <2>5. tool' = [tool EXCEPT
                    !.pc = IF Dirty(ReadAll, u, j.ustate) = {} THEN "save" ELSE "sync",
                    !.mem = [ReadAll EXCEPT ![u] = e],
                    !.h = u, !.todo = Dirty(ReadAll, u, j.ustate), !.oneshot = TRUE]
    BY <2>1, <2>3 DEF RunJournal
  <2> HIDE DEF e
  <2>6. /\ tool'.pc \in {"save", "sync"} /\ tool'.h = u
        /\ tool'.todo = Dirty(ReadAll, u, j.ustate)
        /\ tool'.mem = [ReadAll EXCEPT ![u] = e]
    BY <1>0, <2>5 DEF ToolState
  <2>7. tool'.mem[u] = e /\ \A i \in Parts \ {u} : tool'.mem[i] = ReadAll[i]
    BY <1>0, <2>6
  <2>8. /\ tool'.todo \subseteq Parts
        /\ \A i \in tool'.todo : i # u /\ ReadAll[i].ustate # USTATE_OK
    BY <2>6 DEF Dirty
  <2>9. Session(g, u)'
    BY <1>0, <2>2, <2>3, <2>4, <2>6, <2>7, <2>8, SessionOpens DEF OpenEnv
  <2> QED BY <1>0, <2>2, <2>6, <2>9, CallFrame
<1>10. ASSUME NEW i \in Parts, NEW j \in Commands, bg_setenv_part(i, j)
       PROVE  Core' /\ TrialWorks' /\ disk'[g] = disk[g]
  BY <1>10 DEF bg_setenv_part, CarefulOperator
<1> QED
  BY <1>1, <1>2, <1>3, <1>4, <1>5, <1>6, <1>7, <1>8, <1>9, <1>10 DEF ToolCall

(* The file of a record that is neither g's nor u's may become any file    *)
(* that is not live.                                                       *)
LEMMA ReplaceDead ==
    ASSUME TypeOK, NEW g \in Parts, NEW u \in Parts, Anchor(disk, g, u),
           NEW i \in Parts, i # g,
           NEW f, disk' = [disk EXCEPT ![i] = f], ~IsLive(f)
    PROVE  /\ Anchor(disk, g, u)' /\ disk'[g] = disk[g]
           /\ \A k \in Parts : disk'[k] = disk[k] \/ ~IsLive(disk'[k])
<1>1. disk'[i] = f /\ \A k \in Parts \ {i} : disk'[k] = disk[k]
  BY DEF TypeOK
<1> QED BY <1>1 DEF Anchor

(* write_env: the records of setglobalstate are not live before or after,  *)
(* and the open record is either pending or the new newest confirmed one.  *)
LEMMA WriteSafe ==
    ASSUME TypeOK, CarefulOperator, TrialWorks, NEW i \in Parts,
           \/ write_env_truncate(i)
           \/ write_env_data(i)
           \/ write_env_fails(i),
           NEW g \in Parts, NEW u \in Parts, CoreOf(g, u)
    PROVE  Core' /\ TrialWorks' /\ disk'[g] = disk[g]
<1>0. /\ mode = "os" /\ UNCHANGED <<mode, bl, armed>> /\ Writes(i)
      /\ tool.pc \in {"sync", "save"}
      /\ tool \in ToolState /\ disk \in [Parts -> CfgFile]
      /\ bl.part \in Parts
  BY DEF write_env_truncate, write_env_data, write_env_fails, Writes, TypeOK,
         LoaderState
<1>1. Session(g, u) /\ Anchor(disk, g, u) /\ g # u
  BY <1>0 DEF CoreOf, Anchor
<1>2. tool.pc = "save" => i = u
  BY <1>0, <1>1 DEF Writes, Session
<1>3. ASSUME tool.pc = "sync"
      PROVE  /\ i \in tool.todo /\ i # u /\ i # g /\ ~IsLive(disk[i])
             /\ Record(i).revision = 0 /\ Record(i).ustate = USTATE_OK
  <2>1. i \in tool.todo
    BY <1>0, <1>3 DEF Writes, IsFirst
  <2>2. i # u /\ tool.mem[i].revision = 0 /\ ~IsLive(disk[i])
    BY <1>1, <2>1 DEF Session
  <2>3. i # g
    BY <1>1, <2>2, AnchorLive DEF Anchor
  <2>4. tool.mem[i] \in BG_ENVDATA
    BY <1>0 DEF ToolState
  <2>5. Record(i) = [tool.mem[i] EXCEPT !.ustate = USTATE_OK]
    BY <1>3 DEF Record
  <2>6. Record(i).revision = 0 /\ Record(i).ustate = USTATE_OK
    BY <2>2, <2>4, <2>5 DEF BG_ENVDATA
  <2> QED BY <2>1, <2>2, <2>3, <2>6
<1>4. CASE write_env_truncate(i)
  <2>1. PICK f \in TornFiles(ZeroEnv, Record(i)) : disk' = [disk EXCEPT ![i] = f]
    BY <1>4 DEF write_env_truncate
  <2>2. ~f.intact
    BY <2>1, TornType, RecordType, ZeroEnvType
  <2>3. i # g
    BY <1>0, <1>1, <1>2, <1>3
  <2>4. /\ Anchor(disk, g, u)' /\ disk'[g] = disk[g]
        /\ \A k \in Parts : disk'[k] = disk[k] \/ ~IsLive(disk'[k])
    BY <1>1, <2>1, <2>2, <2>3, ReplaceDead DEF IsLive
  <2>5. /\ tool'.mem = tool.mem /\ tool'.h = tool.h /\ tool'.todo = tool.todo
        /\ tool'.pc = tool.pc
    BY <1>0, <1>4 DEF write_env_truncate, ToolState
  <2>6. Session(g, u)'
    BY <1>1, <2>4, <2>5 DEF Session
  <2>7. \A k \in Parts : disk'[k] = disk[k] \/ ~disk'[k].intact
    BY <1>0, <2>1, <2>2
  <2>8. TrialWorks'
    BY <1>0, <2>5, <2>7 DEF TrialWorks
  <2> QED BY <1>0, <2>4, <2>6, <2>8 DEF Core, CoreOf
<1>5. ASSUME tool.pc = "sync", NEW left \in SUBSET tool.todo, i \notin left,
             tool' = AfterWrite(i, left),
             Anchor(disk, g, u)', disk'[g] = disk[g],
             \A k \in Parts : disk'[k] = disk[k] \/ ~IsLive(disk'[k])
      PROVE  Core' /\ tool'.pc # "idle"
  <2>1. tool' = [tool EXCEPT !.mem[i] = Record(i),
                             !.todo = left,
                             !.truncated = FALSE,
                             !.pc = IF left # {} THEN "sync"
                                    ELSE IF tool.oneshot THEN "save" ELSE "open"]
    BY <1>5 DEF AfterWrite
  <2>2. /\ tool'.mem = [tool.mem EXCEPT ![i] = Record(i)]
        /\ tool'.h = tool.h /\ tool'.todo = left
        /\ tool'.pc \in {"sync", "save", "open"}
    BY <1>0, <2>1 DEF ToolState
  <2>3. tool'.mem[i] = Record(i) /\ \A k \in Parts \ {i} : tool'.mem[k] = tool.mem[k]
    BY <1>0, <2>2 DEF ToolState
  <2>4. Session(g, u)'
    BY <1>1, <1>3, <1>5, <2>2, <2>3 DEF Session
  <2> QED BY <1>0, <1>5, <2>2, <2>4 DEF Core, CoreOf
<1>6. CASE write_env_data(i)
  <2>0. disk' = [disk EXCEPT ![i] = Intact(Record(i))]
        /\ tool' = AfterWrite(i, tool.todo \ {i})
    BY <1>6 DEF write_env_data
  <2>1. disk'[i] = Intact(Record(i)) /\ \A k \in Parts \ {i} : disk'[k] = disk[k]
    BY <1>0, <2>0
  <2>2. CASE tool.pc = "sync"
    <3>1. ~IsLive(Intact(Record(i)))
      BY <1>3, <2>2 DEF IsLive, Intact
    <3>2. /\ Anchor(disk, g, u)' /\ disk'[g] = disk[g]
          /\ \A k \in Parts : disk'[k] = disk[k] \/ ~IsLive(disk'[k])
      BY <1>1, <1>3, <2>0, <2>2, <3>1, ReplaceDead
    <3>3. Core' /\ tool'.pc # "idle"
      BY <1>5, <2>0, <2>2, <3>2
    <3>4. TrialWorks'
      BY <1>0, <1>3, <2>1, <2>2, <3>3, UStateValues DEF TrialWorks, Intact
    <3> QED BY <3>2, <3>3, <3>4
  <2>3. CASE tool.pc = "save"
    <3> DEFINE w == tool.mem[u]
    <3>1. i = u /\ Record(i) = w /\ tool' = IdleTool
      BY <1>0, <1>2, <2>0, <2>3 DEF Record, AfterWrite
    <3>2. disk'[u] = Intact(w) /\ disk'[g] = disk[g]
          /\ \A k \in Parts \ {u} : disk'[k] = disk[k]
      BY <1>1, <2>1, <3>1
    <3>3. w.revision > disk[g].env.revision /\ OpenEnv(w) /\ w \in BG_ENVDATA
      BY <1>0, <1>1 DEF Session, ToolState
    <3>4. Core'
      <4>1. CASE PendingEnv(w)
        <5>1. Newer(Intact(w), disk[g])
          BY <3>3, <4>1 DEF Newer, Intact
        <5>2. Anchor(disk, g, u)'
          BY <1>1, <3>2, <5>1 DEF Anchor
        <5> QED BY <1>0, <3>1, <5>2 DEF Core, CoreOf, IdleTool
      <4>2. CASE ~PendingEnv(w)
        <5>1. /\ w.in_progress = 0 /\ w.ustate = USTATE_OK /\ w.kernelfile \in Works
          BY <3>3, <4>2 DEF OpenEnv, PendingEnv
        <5>2. \A k \in Parts : disk[k].env.revision \in Nat
          BY <1>0, FileFields
        <5>3. w.revision \in Nat
          BY <3>3, RevisionAssumption DEF BG_ENVDATA, Revisions
        <5>4. Good(disk'[u])
          BY <1>1, <3>2, <3>3, <5>1, <5>2, <5>3 DEF Good, Intact, Anchor
        <5>5. disk'[u].env.revision > disk[g].env.revision
          BY <3>2, <3>3 DEF Intact
        <5>6. Older(disk'[g], disk'[u])
          BY <1>1, <3>2, <5>5 DEF Older, Anchor
        <5>7. \A k \in Parts \ {u, g} :
                  IsLive(disk'[k]) => Older(disk'[k], disk'[u])
          BY <1>1, <3>2, <3>3, <5>2, <5>3, <5>5 DEF Anchor, Older, Intact
        <5>8. Anchor(disk, u, g)'
          BY <1>1, <5>4, <5>6, <5>7 DEF Anchor
        <5> QED BY <1>0, <3>1, <5>8 DEF Core, CoreOf, IdleTool
      <4> QED BY <4>1, <4>2
    <3>5. w.ustate = USTATE_TESTING => w.kernelfile \in Works
      BY <3>3, UStateValues DEF OpenEnv
    <3>6. TrialWorks'
      BY <1>0, <3>1, <3>2, <3>5 DEF TrialWorks, IdleTool, Intact
    <3> QED BY <3>2, <3>4, <3>6
  <2> QED BY <1>0, <2>2, <2>3
<1>7. CASE write_env_fails(i)
  <2>1. disk' = disk /\ tool' = AfterWrite(i, {})
    BY <1>7 DEF write_env_fails
  <2>2. Anchor(disk, g, u)'
    BY <1>1, <2>1 DEF Anchor
  <2>3. CASE tool.pc = "sync"
    <3>1. Core' /\ tool'.pc # "idle"
      BY <1>5, <2>1, <2>2, <2>3
    <3> QED BY <1>0, <2>1, <3>1 DEF TrialWorks
  <2>4. CASE tool.pc = "save"
    <3>1. tool' = IdleTool
      BY <2>1, <2>4 DEF AfterWrite
    <3> QED BY <1>0, <2>1, <2>2, <3>1 DEF Core, CoreOf, TrialWorks, IdleTool
  <2> QED BY <1>0, <2>3, <2>4
<1> QED BY <1>4, <1>6, <1>7

(* One step from a state with newest confirmed record g: the invariant     *)
(* holds again, and the file of g is as it was.                            *)
LEMMA StepSafe ==
    ASSUME CarefulOperator, TypeOK, TrialWorks, [Next]_vars,
           NEW g \in Parts, NEW u \in Parts, CoreOf(g, u)
    PROVE  Core' /\ TrialWorks' /\ disk'[g] = disk[g]
<1>1. CASE LoaderStep
  BY <1>1, LoaderSafe
<1>2. CASE WatchdogReset \/ Reboot \/ PowerCut
  BY <1>2, RestartSafe DEF WatchdogReset, Reboot, PowerCut
<1>3. CASE ToolCall
  BY <1>3, CallSafe
<1>4. CASE ToolWrite
  BY <1>4, WriteSafe DEF ToolWrite
<1>5. CASE UNCHANGED vars
  <2>1. Core'
    BY <1>5 DEF vars, Core, CoreOf, Anchor, Session, Saving
  <2>2. TrialWorks'
    BY <1>5 DEF vars, TrialWorks
  <2> QED BY <1>5, <2>1, <2>2 DEF vars
<1> QED BY <1>1, <1>2, <1>3, <1>4, <1>5 DEF Next

(* A provisioned device has a newest record. *)
LEMMA InitSafe ==
    ASSUME CarefulOperator, Init
    PROVE  IInv
<1>0. TypeOK
  BY InitTypes
<1>1. \A i \in Parts : /\ Good(disk[i])
                       /\ disk[i].env.revision \in 1 .. ENV_NUM_CONFIG_PARTS
  <2> SUFFICES ASSUME NEW i \in Parts
               PROVE  /\ Good(disk[i])
                      /\ disk[i].env.revision \in 1 .. ENV_NUM_CONFIG_PARTS
    OBVIOUS
  <2>1. disk[i] \in {Intact(e) : e \in ProvisionedEnv}
    BY DEF Init
  <2>2. PICK e \in ProvisionedEnv : disk[i] = Intact(e)
    BY <2>1
  <2> QED BY <2>2, PartsAssumption DEF ProvisionedEnv, Intact, Good
<1>2. \A i, j \in Parts : i # j => disk[i].env.revision # disk[j].env.revision
  BY DEF Init
<1> DEFINE Gap(i) == ENV_NUM_CONFIG_PARTS - disk[i].env.revision
           T == {Gap(i) : i \in Parts}
<1>3. T \subseteq Nat
  BY <1>1, PartsAssumption
<1>4. T # {}
  BY ZeroPart
<1>5. PICK x \in T : \A y \in T : x <= y
  BY <1>3, <1>4, NatMin
<1>6. PICK g \in Parts : x = Gap(g)
  BY <1>5
<1>7. \A i \in Parts : Gap(g) <= Gap(i)
  BY <1>5, <1>6
<1>8. \A i \in Parts \ {g} : disk[i].env.revision < disk[g].env.revision
  BY <1>1, <1>2, <1>7, PartsAssumption
<1>9. PICK u \in Parts : u # g
  <2>1. 0 \in Parts /\ 1 \in Parts
    BY PartsAssumption DEF Parts, CarefulOperator
  <2> QED BY <2>1
<1>10. Anchor(disk, g, u)
  BY <1>1, <1>8, <1>9 DEF Anchor, Older
<1>11. Core /\ TrialWorks
  BY <1>10 DEF Core, CoreOf, TrialWorks, Init, IdleTool
<1> QED BY <1>0, <1>11 DEF IInv

(***************************************************************************)
(* The invariant holds in every reachable state.                           *)
(***************************************************************************)
THEOREM Invariance ==
    ASSUME CarefulOperator
    PROVE  Spec => []IInv
<1>1. Init => IInv
  BY InitSafe
<1>2. IInv /\ [Next]_vars => IInv'
  <2> SUFFICES ASSUME IInv, [Next]_vars PROVE IInv'
    OBVIOUS
  <2>1. TypeOK'
    BY NextTypes DEF IInv
  <2>2. PICK g \in Parts, u \in Parts : CoreOf(g, u)
    BY DEF IInv, Core
  <2>3. Core' /\ TrialWorks'
    BY <2>2, StepSafe DEF IInv
  <2> QED BY <2>1, <2>3 DEF IInv
<1> QED BY <1>1, <1>2, PTL DEF Spec

(***************************************************************************)
(* Part 5: what the invariant gives.                                       *)
(***************************************************************************)

(* What the loader boots is confirmed, or the pending record's first trial. *)
LEMMA BootIs ==
    ASSUME NEW files \in [Parts -> CfgFile], NEW g \in Parts, NEW u \in Parts,
           Anchor(files, g, u), NEW b \in Parts, NextBoot(files, b)
    PROVE  \/ Good(files[b])
           \/ /\ b = u /\ IsLive(files[u]) /\ Newer(files[u], files[g])
              /\ files[u].env.in_progress = 0
              /\ files[u].env.ustate = USTATE_INSTALLED
<1>1. PICK l \in Parts, p \in Parts :
          /\ IsBootLatest(files, Parts, l)
          /\ IsBootPreLatest(files, Parts, l, p)
          /\ b = BootedPart(files[l].env, l, p)
  BY DEF NextBoot
<1>2. CASE IsLive(files[u]) /\ Newer(files[u], files[g])
  <2>1. l = u
    BY <1>1, <1>2, LatestIs
  <2>2. Good(files[p])
    BY <1>1, <2>1, PreLatestIs
  <2> QED BY <1>1, <1>2, <2>1, <2>2, UStateValues DEF BootedPart, Newer, PendingEnv
<1>3. CASE ~(IsLive(files[u]) /\ Newer(files[u], files[g]))
  <2>1. l = g /\ Good(files[g])
    BY <1>1, <1>3, LatestIs DEF Anchor
  <2> QED BY <1>1, <2>1, UStateValues DEF BootedPart, Good
<1> QED BY <1>2, <1>3

(***************************************************************************)
(* AlwaysBootable for every number of partitions above one, all kernels    *)
(* and commands, any set of visible partitions and failing writes: after   *)
(* any crash load_config (env/fatvars.c) picks an intact, finished record  *)
(* that is confirmed or about to be tried.                                 *)
(***************************************************************************)
THEOREM Bootable ==
    ASSUME CarefulOperator
    PROVE  Spec => []AlwaysBootable
<1>1. IInv => AlwaysBootable
  <2> SUFFICES ASSUME IInv, NEW b \in Parts, NextBoot(disk, b)
               PROVE  /\ disk[b].intact
                      /\ disk[b].env.revision > 0
                      /\ disk[b].env.in_progress = 0
                      /\ disk[b].env.ustate \in {USTATE_OK, USTATE_INSTALLED}
    BY DEF AlwaysBootable
  <2>1. PICK g \in Parts, u \in Parts : Anchor(disk, g, u)
    BY DEF IInv, Core, CoreOf
  <2>2. disk \in [Parts -> CfgFile]
    BY DEF IInv, TypeOK
  <2> QED BY <2>1, <2>2, BootIs DEF Good, IsLive
<1>2. Spec => []IInv
  BY Invariance
<1> QED BY <1>1, <1>2, PTL

(***************************************************************************)
(* RollbackWorks under the same premises: an unconfirmed trial is followed *)
(* by a boot of a confirmed working configuration.                         *)
(***************************************************************************)
THEOREM Rollback ==
    ASSUME CarefulOperator
    PROVE  Spec => []RollbackWorks
<1>1. IInv => RollbackWorks
  <2> SUFFICES ASSUME IInv, NEW b \in Parts, NEW c \in Parts,
                      NextBoot(disk, b), ~Good(disk[b]),
                      NextBoot([disk EXCEPT ![b] = Intact(SavedEnv(@.env))], c)
               PROVE  Good(disk[c])
    BY DEF RollbackWorks
  <2>1. PICK g \in Parts, u \in Parts : Anchor(disk, g, u)
    BY DEF IInv, Core, CoreOf
  <2>2. disk \in [Parts -> CfgFile]
    BY DEF IInv, TypeOK
  <2>3. /\ b = u /\ IsLive(disk[u]) /\ Newer(disk[u], disk[g])
        /\ disk[u].env.in_progress = 0
        /\ disk[u].env.ustate = USTATE_INSTALLED
    BY <2>1, <2>2, BootIs
  <2> DEFINE e == SavedEnv(disk[u].env)
             tried == [disk EXCEPT ![u] = Intact(e)]
  <2>4. disk[u].env \in BG_ENVDATA
    BY <2>2, FileFields
  <2>5. /\ e.revision = disk[u].env.revision
        /\ e.in_progress = 0 /\ e.ustate = USTATE_TESTING
        /\ e \in BG_ENVDATA
    <3>1. e = [disk[u].env EXCEPT !.ustate = USTATE_TESTING]
      BY <2>3, UStateValues DEF SavedEnv
    <3>2. e \in BG_ENVDATA
      BY <2>4, SavedEnvType
    <3> QED BY <2>3, <2>4, <3>1, <3>2 DEF BG_ENVDATA
  <2>6. NextBoot(tried, c)
    BY <2>3
  <2> HIDE DEF e
  <2>7. tried \in [Parts -> CfgFile]
    BY <2>2, <2>5 DEF Intact, CfgFile
  <2>8. tried[u] = Intact(e) /\ \A i \in Parts \ {u} : tried[i] = disk[i]
    BY <2>2
  <2> HIDE DEF tried
  <2>9. Newer(tried[u], tried[g])
    BY <2>1, <2>3, <2>5, <2>8 DEF Newer, PendingEnv, Intact, Anchor
  <2>10. Anchor(tried, g, u)
    BY <2>1, <2>8, <2>9 DEF Anchor
  <2>11. Good(tried[c])
    BY <2>5, <2>6, <2>7, <2>8, <2>10, BootIs, UStateValues DEF Intact
  <2>12. c # u
    BY <2>5, <2>8, <2>11, UStateValues DEF Good, Intact
  <2> QED BY <2>8, <2>11, <2>12
<1>2. Spec => []IInv
  BY Invariance
<1> QED BY <1>1, <1>2, PTL

(***************************************************************************)
(* ConfirmedNeverLost under the same premises: no step of the loader, the  *)
(* library or bg_setenv, and no crash in one of their writes, takes away   *)
(* the newest confirmed configuration.                                     *)
(***************************************************************************)
THEOREM NeverLost ==
    ASSUME CarefulOperator
    PROVE  Spec => ConfirmedNeverLost
<1>1. IInv /\ [Next]_vars
        => [\A r \in Revisions : Confirmed(disk, r) => Confirmed(disk, r)']_vars
  <2> SUFFICES ASSUME IInv, [Next]_vars, NEW r \in Revisions, Confirmed(disk, r)
               PROVE  Confirmed(disk, r)'
    OBVIOUS
  <2>1. PICK g \in Parts, u \in Parts : CoreOf(g, u)
    BY DEF IInv, Core
  <2>2. disk'[g] = disk[g]
    BY <2>1, StepSafe DEF IInv
  <2>3. PICK i \in Parts : Good(disk[i]) /\ disk[i].env.revision >= r
    BY DEF Confirmed
  <2>4. disk \in [Parts -> CfgFile] /\ r \in Nat
    BY RevisionAssumption DEF IInv, TypeOK, Revisions
  <2>5. Anchor(disk, g, u) /\ IsLive(disk[i])
    BY <2>1, <2>3 DEF CoreOf, Good, IsLive
  <2>6. disk[i].env.revision <= disk[g].env.revision
    <3>1. CASE i = u
      BY <2>3, <2>4, <2>5, <3>1, FileFields, UStateValues
         DEF Anchor, Older, Newer, PendingEnv, Good
    <3>2. CASE i # u
      BY <2>4, <2>5, <3>2, LiveIsGood
    <3> QED BY <3>1, <3>2
  <2>7. Good(disk'[g]) /\ disk'[g].env.revision >= r
    BY <2>2, <2>3, <2>4, <2>5, <2>6, FileFields DEF Anchor
  <2> QED BY <2>7 DEF Confirmed
<1>2. Spec => []IInv
  BY Invariance
<1> QED BY <1>1, <1>2, PTL DEF Spec, ConfirmedNeverLost
=============================================================================

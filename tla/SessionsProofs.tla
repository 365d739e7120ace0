--------------------------- MODULE SessionsProofs ---------------------------
(***************************************************************************)
(* Proofs about Sessions for every number of processes and of config       *)
(* partitions: what the library guarantees, without a lock of its own, on  *)
(* a system that runs one session at a time.                               *)
(***************************************************************************)
EXTENDS Sessions, TLAPS, WellFoundedInduction

-----------------------------------------------------------------------------
(* The inductive invariants.                                               *)

WithHandle == {"open", "sync", "syncing", "save", "saving"}

(* A process that has a handle open knows its partition, and what it is    *)
(* writing is a partition.                                                 *)
Sane(s) ==
    /\ s.pc \in WithHandle => s.h \in Parts
    /\ s.pc \in {"save", "saving"} => s.k = s.h
    /\ s.pc = "syncing" => s.k \in Parts

Types == TypeOK /\ \A p \in Procs : Sane(proc[p])

Busy(s) == s.initialized \/ s.pc # "idle"

(* One session at a time. *)
Exclusive == \A p, q \in Procs : Busy(proc[p]) /\ Busy(proc[q]) => p = q

(* What the process has read in its session is what is on disk. *)
Fresh(s) ==
    Busy(s) /\ s.whole =>
        IF s.pc = "reading" THEN \A i \in Parts : i < s.k => s.seen[i] = disk[i]
        ELSE s.seen = disk

UpToDate == Types /\ Exclusive /\ \A p \in Procs : Fresh(proc[p])

IsLive(f) == f.intact /\ f.env.revision > 0

Confirmed(f) == IsLive(f) /\ f.env.in_progress = 0 /\ f.env.ustate = USTATE_OK

(* A confirmed record that is older than h. *)
Older(f, h) == Confirmed(f) /\ f.env.revision < h.env.revision

(* A record the library or the loader has still to decide about: an update *)
(* in progress, or one to be tried or under test.                          *)
Pending(e) ==
    \/ e.in_progress = 1 /\ e.ustate = USTATE_OK
    \/ e.in_progress = 0 /\ e.ustate \in {USTATE_INSTALLED, USTATE_TESTING}

Newer(f, h) == Pending(f.env) /\ f.env.revision > h.env.revision

(* g is the newest confirmed record; only u may be pending, and is newer.  *)
Anchor(g, u) ==
    /\ Confirmed(disk[g])
    /\ u # g
    /\ \A i \in Parts \ {g, u} : IsLive(disk[i]) => Older(disk[i], disk[g])
    /\ IsLive(disk[u]) => Older(disk[u], disk[g]) \/ Newer(disk[u], disk[g])

(* The open record may be put on disk at any time; the other records that  *)
(* setglobalstate writes are not live.                                     *)
Holding(s, g, u) ==
    /\ s.h = u
    /\ s.mem[u].revision > disk[g].env.revision
    /\ s.mem[u].ustate # USTATE_FAILED
    /\ s.mem[u].in_progress = 1 => s.mem[u].ustate = USTATE_OK
    /\ \A i \in Parts \ {u} :
           s.mem[i].ustate # USTATE_OK \/ (s.pc = "syncing" /\ i = s.k)
               => s.mem[i].revision = 0 /\ ~IsLive(disk[i])
    /\ s.pc \in {"sync", "syncing"} => s.mem[u].ustate = USTATE_OK
    /\ s.pc = "syncing" => s.k # u

(* The copies of a process: up to date until a handle is opened. *)
Copies(s, g, u) ==
    /\ s.pc = "reading" => \A i \in Parts : i < s.k => s.mem[i] = read_env(disk[i])
    /\ s.pc = "idle" /\ s.initialized => \A i \in Parts : s.mem[i] = read_env(disk[i])
    /\ s.pc \in WithHandle => Holding(s, g, u)

Protected == \E g, u \in Parts : Anchor(g, u) /\ \A p \in Procs : Copies(proc[p], g, u)

SafeInv == Types /\ Exclusive /\ (misread = 0 => Protected)

-----------------------------------------------------------------------------
(* Types.                                                                  *)

(* The zeroed record is a record, and partition 0 exists. *)
LEMMA ZeroTypes == ZeroEnv \in BG_ENVDATA /\ 0 \in Parts
BY RevisionAssumption, TimeoutAssumption, PartsAssumption
   DEF ZeroEnv, BG_ENVDATA, USTATE_OK, USTATE_FAILED, UStates, Revisions,
       REVISION_FAILED, Parts

(* The states are four different numbers. *)
LEMMA UStateValues ==
    /\ USTATE_OK = 0 /\ USTATE_INSTALLED = 1 /\ USTATE_TESTING = 2
    /\ USTATE_FAILED = 3 /\ REVISION_FAILED = 0 /\ UStates = 0 .. 3
BY DEF USTATE_OK, USTATE_INSTALLED, USTATE_TESTING, USTATE_FAILED, UStates,
       REVISION_FAILED

(* The program counters and 0 are values of their types. *)
LEMMA FieldTypes ==
    /\ "idle" \in PCs /\ "reading" \in PCs /\ "open" \in PCs /\ "sync" \in PCs
    /\ "syncing" \in PCs /\ "save" \in PCs /\ "saving" \in PCs
    /\ 0 \in 0 .. ENV_NUM_CONFIG_PARTS
    /\ "idle" \notin WithHandle /\ "reading" \notin WithHandle
    /\ Parts \subseteq 0 .. ENV_NUM_CONFIG_PARTS
    /\ \A k \in Parts : k + 1 \in 0 .. ENV_NUM_CONFIG_PARTS
BY PartsAssumption DEF PCs, WithHandle, Parts

(* A process without a handle is sane. *)
LEMMA SaneWithout ==
    ASSUME NEW s, s.pc \notin WithHandle
    PROVE  Sane(s)
BY DEF Sane, WithHandle

(* A started process is well typed. *)
LEMMA NewProcessType == NewProcess \in Process /\ Sane(NewProcess)
BY ZeroTypes, PartsAssumption
   DEF NewProcess, Process, PCs, CfgFile, Intact, Sane, WithHandle

(* A step of one process leaves the others alone. *)
LEMMA StepOf ==
    ASSUME TypeOK, NEW p \in Procs, NEW new, Step(p, new)
    PROVE  /\ proc'[p] = new
           /\ \A q \in Procs \ {p} : proc'[q] = proc[q]
           /\ new \in Process => proc' \in [Procs -> Process]
BY DEF TypeOK, Step

(* A process that is well typed after its step. *)
LEMMA StepTypes ==
    ASSUME Types, NEW p \in Procs, NEW new \in Process, Sane(new), Step(p, new),
           disk' \in [Parts -> CfgFile], misread' \in 0 .. MaxMisreads
    PROVE  Types'
<1>1. TypeOK
  BY DEF Types
<1>2. /\ proc'[p] = new
      /\ \A q \in Procs \ {p} : proc'[q] = proc[q]
      /\ proc' \in [Procs -> Process]
  BY <1>1, StepOf
<1>3. \A q \in Procs : Sane(proc'[q])
  BY <1>2 DEF Types
<1> QED BY <1>2, <1>3 DEF Types, TypeOK, Sane

(* What an interrupted write leaves is a config file that is not intact. *)
LEMMA TornType ==
    ASSUME NEW e \in BG_ENVDATA, NEW f \in TornFiles(ZeroEnv, e)
    PROVE  f \in CfgFile /\ ~f.intact
<1>1. PICK b \in Torn(ZeroEnv, e) : f = [env |-> b, intact |-> FALSE]
  BY DEF TornFiles
<1>2. b \in BG_ENVDATA
  BY ZeroTypes DEF Torn, BG_ENVDATA
<1> QED BY <1>1, <1>2 DEF CfgFile

(* The end of a session. *)
LEMMA FinalizeType ==
    ASSUME NEW s \in Process
    PROVE  /\ bgenv_finalize(s) \in Process
           /\ Sane(bgenv_finalize(s)) /\ ~Busy(bgenv_finalize(s))
<1>1. NewProcess.seen \in [Parts -> CfgFile]
  BY NewProcessType DEF Process
<1>2. bgenv_finalize(s) = [s EXCEPT !.pc = "idle", !.h = NoPart, !.k = 0,
                               !.initialized = FALSE,
                               !.seen = NewProcess.seen, !.whole = TRUE]
  BY DEF bgenv_finalize
<1>3. bgenv_finalize(s) \in Process
  BY <1>1, <1>2, FieldTypes DEF Process
<1>4. bgenv_finalize(s).pc = "idle" /\ ~bgenv_finalize(s).initialized
  BY <1>2 DEF Process
<1> QED BY <1>3, <1>4, FieldTypes, SaneWithout DEF Busy

(* The steps of bgenv_init keep the types. *)
LEMMA ReadTypes ==
    ASSUME Types, NEW p \in Procs,
           Begin(p) \/ ReadEnv(p) \/ ReadFails(p) \/ ReadEnd(p)
    PROVE  Types'
<1> DEFINE s == proc[p]
<1>0. /\ s \in Process /\ disk \in [Parts -> CfgFile] /\ misread \in 0 .. MaxMisreads
      /\ TypeOK
  BY DEF Types, TypeOK
<1>1. CASE Begin(p)
  <2>1. Step(p, [s EXCEPT !.pc = "reading", !.k = 0]) /\ UNCHANGED <<disk, misread>>
    BY <1>1 DEF Begin
  <2> HIDE DEF s
  <2>2. /\ [s EXCEPT !.pc = "reading", !.k = 0] \in Process
        /\ [s EXCEPT !.pc = "reading", !.k = 0].pc = "reading"
    BY <1>0, FieldTypes DEF Process
  <2>3. Sane([s EXCEPT !.pc = "reading", !.k = 0])
    BY <2>2, FieldTypes, SaneWithout
  <2> QED BY <1>0, <2>1, <2>2, <2>3, StepTypes
<1>2. CASE ReadEnv(p)
  <2> DEFINE t == [s EXCEPT !.k = s.k + 1, !.mem[s.k] = read_env(disk[s.k]),
                            !.seen[s.k] = disk[s.k]]
  <2>1. /\ Step(p, t) /\ UNCHANGED <<disk, misread>>
        /\ s.pc = "reading" /\ s.k < ENV_NUM_CONFIG_PARTS
    BY <1>2 DEF ReadEnv
  <2>2. s.k \in Parts
    BY <1>0, <2>1, PartsAssumption DEF Process, Parts
  <2>3. read_env(disk[s.k]) \in BG_ENVDATA /\ disk[s.k] \in CfgFile
    BY <1>0, <2>2, ZeroTypes DEF read_env, CfgFile
  <2>4. t \in Process /\ Sane(t)
    <3> HIDE DEF s
    <3>1. t \in Process /\ t.pc = "reading"
      BY <1>0, <2>1, <2>2, <2>3, FieldTypes DEF Process
    <3> QED BY <3>1, FieldTypes, SaneWithout
  <2> HIDE DEF s, t
  <2> QED BY <1>0, <2>1, <2>4, StepTypes
<1>3. CASE ReadFails(p)
  <2>1. PICK e \in {ZeroEnv, s.mem[s.k]} :
            Step(p, [s EXCEPT !.k = s.k + 1, !.mem[s.k] = e, !.whole = FALSE])
    BY <1>3 DEF ReadFails
  <2> DEFINE t == [s EXCEPT !.k = s.k + 1, !.mem[s.k] = e, !.whole = FALSE]
  <2>2. /\ disk' = disk /\ misread < MaxMisreads /\ misread' = misread + 1
        /\ s.pc = "reading" /\ s.k < ENV_NUM_CONFIG_PARTS
    BY <1>3 DEF ReadFails
  <2>3. s.k \in Parts
    BY <1>0, <2>2, PartsAssumption DEF Process, Parts
  <2>4. e \in BG_ENVDATA
    BY <1>0, <2>1, <2>3, ZeroTypes DEF Process
  <2>5. t \in Process /\ Sane(t)
    <3> HIDE DEF s
    <3>1. t \in Process /\ t.pc = "reading"
      BY <1>0, <2>2, <2>3, <2>4, FieldTypes DEF Process
    <3> QED BY <3>1, FieldTypes, SaneWithout
  <2>6. misread' \in 0 .. MaxMisreads
    BY <1>0, <2>2, SessionAssumption
  <2> HIDE DEF s, t
  <2> QED BY <1>0, <2>1, <2>2, <2>5, <2>6, StepTypes DEF t
<1>4. CASE ReadEnd(p)
  <2> DEFINE t == [s EXCEPT !.pc = "idle", !.initialized = TRUE, !.k = 0]
  <2>1. Step(p, t) /\ UNCHANGED <<disk, misread>>
    BY <1>4 DEF ReadEnd
  <2>2. t \in Process /\ Sane(t)
    <3> HIDE DEF s
    <3>1. t \in Process /\ t.pc = "idle"
      BY <1>0, FieldTypes DEF Process
    <3> QED BY <3>1, FieldTypes, SaneWithout
  <2> HIDE DEF s, t
  <2> QED BY <1>0, <2>1, <2>2, StepTypes
<1> QED BY <1>1, <1>2, <1>3, <1>4

(***************************************************************************)
(* The calls on a session that has read the records edit the copies only:  *)
(* s is the process before and t after the call.                           *)
(***************************************************************************)
Edit(s, t) ==
    /\ Busy(s) /\ s.pc # "reading" /\ Sane(t) /\ t.pc \in WithHandle
    /\ t.seen = s.seen /\ t.whole = s.whole

(* The calls of the library change the memory of one process and no file. *)
LEMMA CallShape ==
    ASSUME Types, NEW p \in Procs,
           \/ ebg_env_create_new(p) \/ ebg_env_open_current(p) \/ ebg_env_set(p)
           \/ ebg_env_finalize_update(p) \/ ebg_env_setglobalstate(p)
           \/ SyncNext(p) \/ ebg_env_close(p)
    PROVE  /\ \E t \in Process : Step(p, t) /\ Edit(proc[p], t)
           /\ UNCHANGED <<disk, misread>>
<1>0. PICK s \in Process : s = proc[p] /\ Sane(s)
  BY DEF Types, TypeOK
<1>1. UNCHANGED <<disk, misread>>
  BY DEF ebg_env_create_new, ebg_env_open_current, ebg_env_set, SyncNext,
         ebg_env_finalize_update, ebg_env_setglobalstate, ebg_env_close
<1>2. s.pc \in WithHandle => s.h \in Parts /\ s.mem[s.h] \in BG_ENVDATA
  BY <1>0 DEF Sane, Process
<1> SUFFICES \E t \in Process : Step(p, t) /\ Edit(s, t)
  BY <1>0, <1>1
<1>3. "open" \in WithHandle /\ "sync" \in WithHandle /\ "save" \in WithHandle
  BY DEF WithHandle
<1>4. CASE ebg_env_create_new(p)
  <2>1. PICK l \in Parts, o \in Parts :
            /\ IsLatest(s.mem, l)
            /\ s.mem[l].ustate = USTATE_OK /\ s.mem[l].revision < UINT32_MAX
            /\ create_new(p, l, o)
    BY <1>0, <1>4 DEF ebg_env_create_new
  <2>2. s.pc = "idle" /\ s.initialized
    BY <1>0, <1>4 DEF ebg_env_create_new, Idle
  <2> DEFINE e == [s.mem[l] EXCEPT !.revision = s.mem[l].revision + 1, !.in_progress = 1]
             t == [s EXCEPT !.pc = "open", !.h = o, !.mem[o] = e]
             u == [s EXCEPT !.pc = "open", !.h = l]
  <2>3. s.mem[l] \in BG_ENVDATA
    BY DEF Process
  <2>4. s.mem[l].revision + 1 \in Revisions /\ 1 \in 0 .. 1
    BY <2>1, <2>3, RevisionAssumption DEF BG_ENVDATA, Revisions
  <2>5. e \in BG_ENVDATA
    BY <2>3, <2>4 DEF BG_ENVDATA
  <2>6. Step(p, t) \/ Step(p, u)
    BY <1>0, <2>1 DEF create_new
  <2> HIDE DEF e
  <2>7. /\ t \in Process /\ t.pc = "open" /\ t.h = o
        /\ t.seen = s.seen /\ t.whole = s.whole
    BY <2>5, FieldTypes DEF Process
  <2>8. /\ u \in Process /\ u.pc = "open" /\ u.h = l
        /\ u.seen = s.seen /\ u.whole = s.whole
    BY FieldTypes DEF Process
  <2> HIDE DEF t, u
  <2>9. Edit(s, t)
    BY <1>3, <2>2, <2>7 DEF Edit, Sane, Busy
  <2>10. Edit(s, u)
    BY <1>3, <2>2, <2>8 DEF Edit, Sane, Busy
  <2> QED BY <2>6, <2>7, <2>8, <2>9, <2>10
<1>5. CASE ebg_env_open_current(p)
  <2>1. PICK l \in Parts : Step(p, [s EXCEPT !.pc = "open", !.h = l])
    BY <1>0, <1>5 DEF ebg_env_open_current
  <2> DEFINE t == [s EXCEPT !.pc = "open", !.h = l]
  <2>2. s.pc = "idle" /\ s.initialized
    BY <1>0, <1>5 DEF ebg_env_open_current, Idle
  <2>3. /\ t \in Process /\ t.pc = "open" /\ t.h = l
        /\ t.seen = s.seen /\ t.whole = s.whole
    BY FieldTypes DEF Process
  <2>4. Step(p, t)
    BY <2>1
  <2> HIDE DEF t
  <2>5. Edit(s, t)
    BY <1>3, <2>2, <2>3 DEF Edit, Sane, Busy
  <2> QED BY <2>3, <2>4, <2>5
<1>6. CASE ebg_env_set(p)
  <2>1. s.pc = "open"
    BY <1>0, <1>6 DEF ebg_env_set
  <2>2. PICK m \in Kernels : Step(p, [s EXCEPT !.mem[s.h].kernelfile = m])
    BY <1>0, <1>6 DEF ebg_env_set
  <2> DEFINE t == [s EXCEPT !.mem[s.h].kernelfile = m]
  <2>3. [s.mem[s.h] EXCEPT !.kernelfile = m] \in BG_ENVDATA
    BY <1>2, <1>3, <2>1 DEF BG_ENVDATA
  <2>4. /\ t \in Process /\ t.pc = "open" /\ t.h = s.h
        /\ t.seen = s.seen /\ t.whole = s.whole
    BY <2>1, <2>3 DEF Process
  <2>5. Step(p, t)
    BY <2>2
  <2> HIDE DEF t
  <2>6. Edit(s, t)
    BY <1>2, <1>3, <2>1, <2>4 DEF Edit, Sane, Busy
  <2> QED BY <2>4, <2>5, <2>6
<1>7. CASE ebg_env_finalize_update(p)
  <2>1. s.pc = "open"
    BY <1>0, <1>7 DEF ebg_env_finalize_update
  <2> DEFINE t == [s EXCEPT !.mem[s.h].in_progress = 0,
                            !.mem[s.h].ustate = USTATE_INSTALLED]
             e == [s.mem[s.h] EXCEPT !.in_progress = 0, !.ustate = USTATE_INSTALLED]
  <2>2. e \in BG_ENVDATA
    <3>1. 0 \in 0 .. 1 /\ USTATE_INSTALLED \in UStates
      BY UStateValues
    <3> QED BY <1>2, <1>3, <2>1, <3>1 DEF BG_ENVDATA
  <2>3. t = [s EXCEPT !.mem = [s.mem EXCEPT ![s.h] = e]]
    BY <1>2, <1>3, <2>1 DEF Process
  <2>4. Step(p, t)
    BY <1>0, <1>7 DEF ebg_env_finalize_update
  <2> HIDE DEF e, t
  <2>5. /\ t \in Process /\ t.pc = "open" /\ t.h = s.h
        /\ t.seen = s.seen /\ t.whole = s.whole
    BY <1>2, <1>3, <2>1, <2>2, <2>3 DEF Process
  <2>6. Edit(s, t)
    BY <1>2, <1>3, <2>1, <2>5 DEF Edit, Sane, Busy
  <2> QED BY <2>4, <2>5, <2>6
<1>8. CASE ebg_env_setglobalstate(p)
  <2>1. s.pc = "open"
    BY <1>0, <1>8 DEF ebg_env_setglobalstate
  <2> DEFINE t == [s EXCEPT !.pc = "sync", !.k = 0, !.mem[s.h].ustate = USTATE_OK]
  <2>2. [s.mem[s.h] EXCEPT !.ustate = USTATE_OK] \in BG_ENVDATA
    <3>1. USTATE_OK \in UStates
      BY UStateValues
    <3> QED BY <1>2, <1>3, <2>1, <3>1 DEF BG_ENVDATA
  <2>3. /\ t \in Process /\ t.pc = "sync" /\ t.h = s.h
        /\ t.seen = s.seen /\ t.whole = s.whole
    BY <2>1, <2>2, FieldTypes DEF Process
  <2>4. Step(p, t)
    BY <1>0, <1>8 DEF ebg_env_setglobalstate
  <2> HIDE DEF t
  <2>5. Edit(s, t)
    BY <1>2, <1>3, <2>1, <2>3 DEF Edit, Sane, Busy
  <2> QED BY <2>3, <2>4, <2>5
<1>9. CASE SyncNext(p)
  <2>1. s.pc = "sync"
    BY <1>0, <1>9 DEF SyncNext
  <2>2. PICK t : /\ Step(p, t)
                 /\ \/ t = [s EXCEPT !.pc = "open", !.k = 0]
                    \/ s.k < ENV_NUM_CONFIG_PARTS /\ t = [s EXCEPT !.k = s.k + 1]
    BY <1>0, <1>9 DEF SyncNext
  <2>3. s.k < ENV_NUM_CONFIG_PARTS => s.k + 1 \in 0 .. ENV_NUM_CONFIG_PARTS
    BY PartsAssumption DEF Process
  <2>4. /\ t \in Process /\ t.pc \in {"open", "sync"} /\ t.h = s.h
        /\ t.seen = s.seen /\ t.whole = s.whole
    BY <2>1, <2>2, <2>3, FieldTypes DEF Process
  <2>5. Edit(s, t)
    BY <1>2, <1>3, <2>1, <2>4 DEF Edit, Sane, Busy
  <2> QED BY <2>2, <2>4, <2>5
<1>10. CASE ebg_env_close(p)
  <2>1. s.pc = "open" /\ s.h \in Parts /\ s.h \in 0 .. ENV_NUM_CONFIG_PARTS
    BY <1>0, <1>2, <1>3, <1>10, FieldTypes DEF ebg_env_close
  <2> DEFINE t == [s EXCEPT !.pc = "save", !.k = s.h]
  <2>2. /\ t \in Process /\ t.pc = "save" /\ t.h = s.h /\ t.k = s.h
        /\ t.seen = s.seen /\ t.whole = s.whole
    BY <2>1, FieldTypes DEF Process
  <2>3. Step(p, t)
    BY <1>0, <1>10 DEF ebg_env_close
  <2> HIDE DEF t
  <2>4. Edit(s, t)
    BY <1>3, <2>1, <2>2 DEF Edit, Sane, Busy
  <2> QED BY <2>2, <2>3, <2>4
<1> QED BY <1>4, <1>5, <1>6, <1>7, <1>8, <1>9, <1>10

(***************************************************************************)
(* The steps of write_env replace one file, of which the process then      *)
(* knows; or they end the session.                                         *)
(***************************************************************************)
Written(s, t, f) ==
    /\ s.pc \in WithHandle /\ s.k \in Parts /\ Sane(t)
    /\ disk' = [disk EXCEPT ![s.k] = f]
    /\ \/ ~Busy(t)
       \/ /\ t.pc \in WithHandle /\ t.whole = s.whole
          /\ t.seen = [s.seen EXCEPT ![s.k] = f]

(* A write changes one file, to what the process has in memory or to an    *)
(* incomplete one.                                                         *)
LEMMA WriteShape ==
    ASSUME Types, NEW p \in Procs, Truncate(p) \/ WriteData(p) \/ WriteFails(p)
    PROVE  /\ \E t \in Process, f \in CfgFile : Step(p, t) /\ Written(proc[p], t, f)
           /\ misread' = misread
<1>0. PICK s \in Process : s = proc[p] /\ Sane(s)
  BY DEF Types, TypeOK
<1>1. misread' = misread
  BY DEF Truncate, WriteData, WriteFails
<1>2. disk \in [Parts -> CfgFile]
  BY DEF Types, TypeOK
<1>3. s.pc \in WithHandle
  BY <1>0 DEF Truncate, WriteData, WriteFails, WithHandle
<1>4. s.h \in Parts /\ s.k \in Parts
  <2>1. s.h \in Parts
    BY <1>0, <1>3 DEF Sane
  <2>2. CASE s.pc \in {"syncing", "save", "saving"}
    BY <1>0, <2>1, <2>2 DEF Sane
  <2>3. CASE s.pc \notin {"syncing", "save", "saving"}
    <3>1. s.k < ENV_NUM_CONFIG_PARTS
      BY <1>0, <2>3 DEF Truncate, WriteData, WriteFails
    <3> QED BY <2>1, <3>1, PartsAssumption DEF Process, Parts
  <2> QED BY <2>1, <2>2, <2>3
<1>5. s.mem[s.k] \in BG_ENVDATA /\ disk[s.k] \in CfgFile
  BY <1>2, <1>4 DEF Process
<1>6. [s.mem[s.k] EXCEPT !.ustate = USTATE_OK] \in BG_ENVDATA
  <2>1. USTATE_OK \in UStates
    BY UStateValues
  <2> QED BY <1>5, <2>1 DEF BG_ENVDATA
<1> SUFFICES \E t \in Process, f \in CfgFile : Step(p, t) /\ Written(s, t, f)
  BY <1>0, <1>1
<1>7. ASSUME NEW f \in CfgFile, NEW t \in Process, Step(p, t),
             disk' = [disk EXCEPT ![s.k] = f], t.whole = s.whole, t.h = s.h,
             t.seen = [s.seen EXCEPT ![s.k] = f],
             \/ t.pc \in {"open", "sync"}
             \/ t.pc = "syncing" /\ t.k = s.k
             \/ t.pc = "saving" /\ t.k = s.k /\ s.pc = "save"
      PROVE  Written(s, t, f)
  <2>1. s.pc = "save" => s.k = s.h
    BY <1>0 DEF Sane
  <2>2. Sane(t) /\ t.pc \in WithHandle
    BY <1>4, <1>7, <2>1 DEF Sane, WithHandle
  <2> QED BY <1>3, <1>4, <1>7, <2>2 DEF Written
<1>8. ASSUME NEW f \in CfgFile, NEW c \in Process, Step(p, bgenv_finalize(c)),
             disk' = [disk EXCEPT ![s.k] = f]
      PROVE  bgenv_finalize(c) \in Process /\ Written(s, bgenv_finalize(c), f)
  <2>1. /\ bgenv_finalize(c) \in Process
        /\ Sane(bgenv_finalize(c)) /\ ~Busy(bgenv_finalize(c))
    BY FinalizeType
  <2> QED BY <1>3, <1>4, <1>8, <2>1 DEF Written
<1>9. CASE Truncate(p)
  <2>1. Truncated \in CfgFile
    BY ZeroTypes DEF Truncated, CfgFile
  <2> DEFINE t == [s EXCEPT !.pc = "saving", !.seen[s.k] = Truncated]
             u == [s EXCEPT !.pc = "syncing", !.seen[s.k] = Truncated,
                            !.mem[s.k].ustate = USTATE_OK]
  <2>2. /\ disk' = [disk EXCEPT ![s.k] = Truncated]
        /\ (s.pc = "save" /\ Step(p, t)) \/ Step(p, u)
    BY <1>0, <1>9 DEF Truncate, Overwrite
  <2>3. /\ t \in Process /\ t.pc = "saving" /\ t.k = s.k /\ t.h = s.h
        /\ t.whole = s.whole /\ t.seen = [s.seen EXCEPT ![s.k] = Truncated]
    BY <1>4, <2>1, FieldTypes DEF Process
  <2>4. /\ u \in Process /\ u.pc = "syncing" /\ u.k = s.k /\ u.h = s.h
        /\ u.whole = s.whole /\ u.seen = [s.seen EXCEPT ![s.k] = Truncated]
    BY <1>4, <1>6, <2>1, FieldTypes DEF Process
  <2> HIDE DEF t, u
  <2>5. CASE s.pc = "save" /\ Step(p, t)
    BY <1>7, <2>1, <2>2, <2>3, <2>5
  <2>6. CASE Step(p, u)
    BY <1>7, <2>1, <2>2, <2>4, <2>6
  <2> QED BY <2>2, <2>5, <2>6
<1>10. CASE WriteData(p)
  <2> DEFINE f == Intact(s.mem[s.k])
             c == [s EXCEPT !.seen[s.k] = f]
             t == [c EXCEPT !.pc = "sync", !.k = s.k + 1]
  <2>1. /\ disk' = [disk EXCEPT ![s.k] = f]
        /\ Step(p, bgenv_finalize(c)) \/ Step(p, t)
    BY <1>0, <1>10 DEF WriteData, Overwrite
  <2>2. f \in CfgFile
    BY <1>5 DEF Intact, CfgFile
  <2> HIDE DEF f
  <2>3. c \in Process /\ c.h = s.h /\ c.whole = s.whole
    BY <1>4, <2>2 DEF Process
  <2>4. c.seen = [s.seen EXCEPT ![s.k] = f]
    BY <1>4, <2>2 DEF Process
  <2> HIDE DEF c
  <2>5. /\ t \in Process /\ t.pc = "sync" /\ t.h = s.h
        /\ t.whole = s.whole /\ t.seen = [s.seen EXCEPT ![s.k] = f]
    BY <1>4, <2>3, <2>4, FieldTypes DEF Process
  <2> HIDE DEF t
  <2>6. CASE Step(p, bgenv_finalize(c))
    BY <1>8, <2>1, <2>2, <2>3, <2>6
  <2>7. CASE Step(p, t)
    BY <1>7, <2>1, <2>2, <2>5, <2>7
  <2> QED BY <2>1, <2>6, <2>7
<1>11. CASE WriteFails(p)
  <2>1. PICK f \in CfgFile : disk' = [disk EXCEPT ![s.k] = f]
    <3>1. CASE s.pc \in {"syncing", "saving"}
      BY <1>0, <1>5, <1>11, <3>1, TornType DEF WriteFails, Overwrite
    <3>2. CASE s.pc \notin {"syncing", "saving"}
      <4>1. disk' = disk
        BY <1>0, <1>11, <3>2 DEF WriteFails
      <4>2. disk = [disk EXCEPT ![s.k] = disk[s.k]]
        BY <1>2
      <4> QED BY <1>5, <4>1, <4>2
    <3> QED BY <3>1, <3>2
  <2>2. disk'[s.k] = f
    BY <1>2, <1>4, <2>1
  <2> DEFINE c == [s EXCEPT !.seen[s.k] = f]
             t == [c EXCEPT !.pc = "open", !.k = 0, !.mem[s.k].ustate = USTATE_OK]
  <2>3. Step(p, bgenv_finalize(c)) \/ Step(p, t)
    BY <1>0, <1>11, <2>2 DEF WriteFails
  <2>4. c \in Process /\ c.h = s.h /\ c.whole = s.whole /\ c.mem = s.mem
    BY <1>4 DEF Process
  <2>5. c.seen = [s.seen EXCEPT ![s.k] = f]
    BY <1>4 DEF Process
  <2> HIDE DEF c
  <2>6. /\ t \in Process /\ t.pc = "open" /\ t.h = s.h
        /\ t.whole = s.whole /\ t.seen = [s.seen EXCEPT ![s.k] = f]
    BY <1>4, <1>6, <2>4, <2>5, FieldTypes DEF Process
  <2> HIDE DEF t
  <2>7. CASE Step(p, bgenv_finalize(c))
    BY <1>8, <2>1, <2>4, <2>7
  <2>8. CASE Step(p, t)
    BY <1>7, <2>1, <2>6, <2>8
  <2> QED BY <2>3, <2>7, <2>8
<1> QED BY <1>9, <1>10, <1>11

(* The end of a process, and of bg_printenv. *)
LEMMA EndShape ==
    ASSUME Types, NEW p \in Procs, bg_printenv(p) \/ Exit(p)
    PROVE  /\ \E t \in Process : Step(p, t) /\ Sane(t) /\ ~Busy(t)
           /\ UNCHANGED <<disk, misread>>
<1>1. proc[p] \in Process
  BY DEF Types, TypeOK
<1>2. CASE bg_printenv(p)
  BY <1>1, <1>2, FinalizeType DEF bg_printenv
<1>3. CASE Exit(p)
  <2>1. ~Busy(NewProcess)
    BY DEF Busy, NewProcess
  <2> QED BY <1>3, <2>1, NewProcessType DEF Exit
<1> QED BY <1>2, <1>3

(* A reboot keeps the types. *)
LEMMA RebootTypes == Types /\ Reboot => Types'
<1> SUFFICES ASSUME Types, Reboot PROVE Types'
  OBVIOUS
<1>0. disk \in [Parts -> CfgFile] /\ misread' \in 0 .. MaxMisreads
  BY DEF Types, TypeOK, Reboot
<1>1. PICK l \in Parts :
          disk' = IF NeedsSave(disk[l].env)
                  THEN [disk EXCEPT ![l] = Intact(SavedEnv(disk[l].env))] ELSE disk
  BY DEF Reboot
<1>2. disk[l].env \in BG_ENVDATA
  BY <1>0 DEF CfgFile
<1>3. SavedEnv(disk[l].env) \in BG_ENVDATA
  <2>1. USTATE_FAILED \in UStates /\ USTATE_TESTING \in UStates /\ REVISION_FAILED \in Revisions
    BY UStateValues, RevisionAssumption DEF Revisions
  <2> QED BY <1>2, <2>1 DEF SavedEnv, BG_ENVDATA
<1>4. Intact(SavedEnv(disk[l].env)) \in CfgFile
  BY <1>3 DEF Intact, CfgFile
<1>5. disk' \in [Parts -> CfgFile]
  BY <1>0, <1>1, <1>4
<1>6. proc' \in [Procs -> Process] /\ \A p \in Procs : Sane(proc'[p])
  BY NewProcessType DEF Reboot
<1> QED BY <1>0, <1>5, <1>6 DEF Types, TypeOK, Sane

(* Types holds initially. *)
LEMMA InitTypes == Init => Types
<1> SUFFICES ASSUME Init PROVE Types
  OBVIOUS
<1>0. \A e \in ProvisionedEnv : Intact(e) \in CfgFile
  BY DEF ProvisionedEnv, Intact, CfgFile
<1>1. {Intact(e) : e \in ProvisionedEnv} \subseteq CfgFile
  BY <1>0
<1>2. disk \in [Parts -> CfgFile]
  BY <1>1 DEF Init
<1>3. proc \in [Procs -> Process] /\ \A p \in Procs : Sane(proc[p])
  BY NewProcessType DEF Init
<1> QED BY <1>2, <1>3, SessionAssumption DEF Init, Types, TypeOK

(* Types is inductive. *)
LEMMA NextTypes == Types /\ [Next]_vars => Types'
<1> SUFFICES ASSUME Types, [Next]_vars PROVE Types'
  OBVIOUS
<1>0. disk \in [Parts -> CfgFile] /\ misread \in 0 .. MaxMisreads
  BY DEF Types, TypeOK
<1>1. CASE Reboot
  BY <1>1, RebootTypes
<1>2. CASE UNCHANGED vars
  BY <1>2 DEF vars, Types, TypeOK
<1>3. ASSUME NEW p \in Procs, SessionStep(p) PROVE Types'
  <2>1. CASE Begin(p) \/ ReadEnv(p) \/ ReadFails(p) \/ ReadEnd(p)
    BY <2>1, ReadTypes
  <2>2. CASE \/ ebg_env_create_new(p) \/ ebg_env_open_current(p) \/ ebg_env_set(p)
             \/ ebg_env_finalize_update(p) \/ ebg_env_setglobalstate(p)
             \/ SyncNext(p) \/ ebg_env_close(p)
    BY <1>0, <2>2, CallShape, StepTypes DEF Edit
  <2>3. CASE Truncate(p) \/ WriteData(p) \/ WriteFails(p)
    <3>1. PICK t \in Process, f \in CfgFile : Step(p, t) /\ Written(proc[p], t, f)
      BY <2>3, WriteShape
    <3>2. misread' = misread /\ disk' \in [Parts -> CfgFile] /\ Sane(t)
      BY <1>0, <2>3, <3>1, WriteShape DEF Written
    <3> QED BY <1>0, <3>1, <3>2, StepTypes
  <2>4. CASE bg_printenv(p) \/ Exit(p)
    BY <1>0, <2>4, EndShape, StepTypes
  <2> QED BY <1>3, <2>1, <2>2, <2>3, <2>4 DEF SessionStep
<1> QED BY <1>1, <1>2, <1>3 DEF Next

(***************************************************************************)
(* However many processes use the library at once, their copies of the     *)
(* records, the handles of env_api.c and the config files stay within      *)
(* their types; a process that writes knows which partition it writes.     *)
(***************************************************************************)
THEOREM SessionTypes == Spec => []Types
<1>1. Init => Types
  BY InitTypes
<1>2. Types /\ [Next]_vars => Types'
  BY NextTypes
<1> QED BY <1>1, <1>2, PTL DEF Spec

-----------------------------------------------------------------------------
(* One session at a time: nothing is overwritten unseen.                   *)

(* Sessions stay exclusive when at most the process that steps is in one,  *)
(* and it was before or nobody was.                                        *)
LEMMA StillExclusive ==
    ASSUME Types, Exclusive, NEW p \in Procs, NEW t, Step(p, t),
           \/ ~Busy(t)
           \/ Busy(proc[p])
           \/ \A q \in Procs : ~Busy(proc[q])
    PROVE  Exclusive'
<1>1. proc'[p] = t /\ \A q \in Procs \ {p} : proc'[q] = proc[q]
  BY StepOf DEF Types
<1> QED BY <1>1 DEF Exclusive, Busy

(* The other processes are not concerned when one in a session writes.     *)
LEMMA OthersFresh ==
    ASSUME Types, Exclusive, \A q \in Procs : Fresh(proc[q]),
           NEW p \in Procs, NEW t, Step(p, t),
           Busy(proc[p]) \/ disk' = disk, Fresh(proc[p])'
    PROVE  \A q \in Procs : Fresh(proc[q])'
<1>1. proc'[p] = t /\ \A q \in Procs \ {p} : proc'[q] = proc[q]
  BY StepOf DEF Types
<1>2. ASSUME NEW q \in Procs \ {p} PROVE Fresh(proc[q])'
  <2>1. CASE disk' = disk
    BY <1>1, <2>1 DEF Fresh, Busy
  <2>2. CASE Busy(proc[p])
    <3>1. ~Busy(proc'[q])
      BY <1>1, <2>2 DEF Exclusive
    <3> QED BY <3>1 DEF Fresh, Busy
  <2> QED BY <2>1, <2>2
<1> QED BY <1>2

(* bgenv_init keeps what is read up to date. *)
LEMMA ReadFresh ==
    ASSUME Serial, UpToDate, NEW p \in Procs,
           Begin(p) \/ ReadEnv(p) \/ ReadFails(p) \/ ReadEnd(p)
    PROVE  Exclusive' /\ \A q \in Procs : Fresh(proc[q])'
<1>0. PICK s \in Process : s = proc[p]
  BY DEF UpToDate, Types, TypeOK
<1>1. /\ Types /\ Exclusive /\ disk' = disk /\ Fresh(s)
      /\ \A q \in Procs : Fresh(proc[q])
  BY <1>0 DEF UpToDate, Begin, ReadEnv, ReadFails, ReadEnd
<1>2. PICK t : Step(p, t)
  BY DEF Begin, ReadEnv, ReadFails, ReadEnd
<1>3. t = proc'[p]
  BY <1>1, <1>2, StepOf DEF Types
<1>4. Busy(s) \/ \A q \in Procs : ~Busy(proc[q])
  BY <1>0 DEF Begin, ReadEnv, ReadFails, ReadEnd, InSession, Busy
<1>5. Exclusive'
  BY <1>0, <1>1, <1>2, <1>4, StillExclusive
<1>6. Fresh(t)'
  <2>1. CASE Begin(p)
    <3>1. proc'[p] = [s EXCEPT !.pc = "reading", !.k = 0]
      BY <1>0, <1>1, <2>1, StepOf DEF Begin, Types
    <3>2. t.pc = "reading" /\ t.k = 0
      BY <1>3, <3>1 DEF Process
    <3> QED BY <3>2, PartsAssumption DEF Fresh, Parts
  <2>2. CASE ReadEnv(p)
    <3>1. /\ proc'[p] = [s EXCEPT !.k = s.k + 1, !.mem[s.k] = read_env(disk[s.k]),
                                  !.seen[s.k] = disk[s.k]]
          /\ s.pc = "reading" /\ s.k < ENV_NUM_CONFIG_PARTS
      BY <1>0, <1>1, <2>2, StepOf DEF ReadEnv, Types
    <3>2. s.k \in Parts /\ s.k \in Nat
      BY <3>1, PartsAssumption DEF Process, Parts
    <3>3. /\ t.pc = "reading" /\ t.k = s.k + 1 /\ t.whole = s.whole
          /\ t.seen = [s.seen EXCEPT ![s.k] = disk[s.k]]
      BY <1>3, <3>1 DEF Process
    <3>4. s.seen \in [Parts -> CfgFile]
      BY DEF Process
    <3>5. s.whole => \A i \in Parts : i < s.k => s.seen[i] = disk[i]
      BY <1>1, <3>1 DEF Fresh, Busy
    <3>6. \A i \in Parts : i < s.k + 1 => i = s.k \/ i < s.k
      BY <3>2 DEF Parts
    <3> QED BY <1>1, <3>2, <3>3, <3>4, <3>5, <3>6 DEF Fresh
  <2>3. CASE ReadFails(p)
    <3>1. PICK e : proc'[p] = [s EXCEPT !.k = s.k + 1, !.mem[s.k] = e, !.whole = FALSE]
      BY <1>0, <1>1, <2>3, StepOf DEF ReadFails, Types
    <3>2. ~t.whole
      BY <1>3, <3>1 DEF Process
    <3> QED BY <3>2 DEF Fresh
  <2>4. CASE ReadEnd(p)
    <3>1. /\ proc'[p] = [s EXCEPT !.pc = "idle", !.initialized = TRUE, !.k = 0]
          /\ s.pc = "reading" /\ s.k = ENV_NUM_CONFIG_PARTS
      BY <1>0, <1>1, <2>4, StepOf DEF ReadEnd, Types
    <3>2. t.pc = "idle" /\ t.whole = s.whole /\ t.seen = s.seen
      BY <1>3, <3>1 DEF Process
    <3>3. s.whole => \A i \in Parts : s.seen[i] = disk[i]
      BY <1>1, <3>1, PartsAssumption DEF Fresh, Busy, Parts
    <3>4. s.seen \in [Parts -> CfgFile] /\ disk \in [Parts -> CfgFile]
      BY <1>1 DEF Process, Types, TypeOK
    <3>5. s.whole => s.seen = disk
      BY <3>3, <3>4
    <3> QED BY <1>1, <3>2, <3>5 DEF Fresh
  <2> QED BY <2>1, <2>2, <2>3, <2>4
<1>7. Fresh(proc[p])'
  BY <1>3, <1>6 DEF Fresh, Busy
<1> QED BY <1>1, <1>2, <1>5, <1>7, OthersFresh

(* The calls and the writes keep it up to date. *)
LEMMA SessionFresh ==
    ASSUME UpToDate, NEW p \in Procs,
           \/ ebg_env_create_new(p) \/ ebg_env_open_current(p) \/ ebg_env_set(p)
           \/ ebg_env_finalize_update(p) \/ ebg_env_setglobalstate(p)
           \/ SyncNext(p) \/ ebg_env_close(p)
           \/ Truncate(p) \/ WriteData(p) \/ WriteFails(p)
    PROVE  Exclusive' /\ \A q \in Procs : Fresh(proc[q])'
<1>0. PICK s \in Process : s = proc[p]
  BY DEF UpToDate, Types, TypeOK
<1>1. /\ Types /\ Exclusive /\ Fresh(s) /\ disk \in [Parts -> CfgFile]
      /\ \A q \in Procs : Fresh(proc[q])
  BY <1>0 DEF UpToDate, Types, TypeOK
<1>2. ASSUME NEW t \in Process, Step(p, t), Busy(s), Fresh(t)'
      PROVE  Exclusive' /\ \A q \in Procs : Fresh(proc[q])'
  <2>1. proc'[p] = t
    BY <1>1, <1>2, StepOf DEF Types
  <2>2. Fresh(proc[p])'
    BY <1>2, <2>1 DEF Fresh, Busy
  <2> QED BY <1>0, <1>1, <1>2, <2>2, StillExclusive, OthersFresh
<1>3. CASE Truncate(p) \/ WriteData(p) \/ WriteFails(p)
  <2>1. PICK t \in Process, f \in CfgFile : Step(p, t) /\ Written(s, t, f)
    BY <1>0, <1>1, <1>3, WriteShape
  <2>2. s.pc # "idle" /\ s.pc # "reading"
    BY <2>1 DEF Written, WithHandle
  <2>3. Fresh(t)'
    <3>1. CASE ~Busy(t)
      BY <3>1 DEF Fresh
    <3>2. CASE /\ t.pc \in WithHandle /\ t.whole = s.whole
               /\ t.seen = [s.seen EXCEPT ![s.k] = f]
      <4>1. s.whole => s.seen = disk
        BY <1>1, <2>2 DEF Fresh, Busy
      <4>2. disk' = [disk EXCEPT ![s.k] = f]
        BY <2>1 DEF Written
      <4>3. t.whole => t.seen = disk'
        BY <3>2, <4>1, <4>2
      <4>4. t.pc # "reading"
        BY <3>2, FieldTypes
      <4> QED BY <4>3, <4>4 DEF Fresh
    <3> QED BY <2>1, <3>1, <3>2 DEF Written
  <2> QED BY <1>2, <2>1, <2>2, <2>3 DEF Busy
<1>4. CASE ~(Truncate(p) \/ WriteData(p) \/ WriteFails(p))
  <2>1. PICK t \in Process : Step(p, t) /\ Edit(s, t)
    BY <1>0, <1>1, <1>4, CallShape
  <2>2. disk' = disk
    BY <1>1, <1>4, CallShape
  <2>3. Fresh(t)'
    BY <1>1, <2>1, <2>2, FieldTypes DEF Fresh, Edit
  <2> QED BY <1>2, <2>1, <2>3 DEF Edit
<1> QED BY <1>3, <1>4

(* UpToDate holds initially. *)
LEMMA InitFresh == Init => UpToDate
<1> SUFFICES ASSUME Init PROVE UpToDate
  OBVIOUS
<1>1. \A p \in Procs : ~Busy(proc[p])
  BY DEF Init, NewProcess, Busy
<1> QED BY <1>1, InitTypes DEF UpToDate, Exclusive, Fresh

(* UpToDate is inductive if sessions do not overlap. *)
LEMMA NextFresh ==
    ASSUME Serial
    PROVE  UpToDate /\ [Next]_vars => UpToDate'
<1> SUFFICES ASSUME UpToDate, [Next]_vars PROVE UpToDate'
  OBVIOUS
<1>1. Types /\ Types' /\ Exclusive /\ \A q \in Procs : Fresh(proc[q])
  BY NextTypes DEF UpToDate
<1> SUFFICES Exclusive' /\ \A q \in Procs : Fresh(proc[q])'
  BY <1>1 DEF UpToDate
<1>2. CASE Reboot
  <2>1. \A p \in Procs : ~Busy(proc'[p])
    BY <1>2 DEF Reboot, NewProcess, Busy
  <2> QED BY <2>1 DEF Exclusive, Fresh, Busy
<1>3. CASE UNCHANGED vars
  BY <1>1, <1>3 DEF vars, Exclusive, Fresh, Busy
<1>4. ASSUME NEW p \in Procs, SessionStep(p)
      PROVE  Exclusive' /\ \A q \in Procs : Fresh(proc[q])'
  <2>1. CASE Begin(p) \/ ReadEnv(p) \/ ReadFails(p) \/ ReadEnd(p)
    BY <2>1, ReadFresh
  <2>2. CASE bg_printenv(p) \/ Exit(p)
    <3>1. PICK t \in Process : Step(p, t) /\ Sane(t) /\ ~Busy(t)
      BY <1>1, <2>2, EndShape
    <3>2. disk' = disk /\ proc'[p] = t
      BY <1>1, <2>2, <3>1, EndShape, StepOf DEF Types
    <3>3. Fresh(proc[p])'
      BY <3>1, <3>2 DEF Fresh, Busy
    <3> QED BY <1>1, <3>1, <3>2, <3>3, StillExclusive, OthersFresh
  <2>3. CASE ~(Begin(p) \/ ReadEnv(p) \/ ReadFails(p) \/ ReadEnd(p)
               \/ bg_printenv(p) \/ Exit(p))
    BY <1>4, <2>3, SessionFresh DEF SessionStep
  <2> QED BY <2>1, <2>2, <2>3
<1> QED BY <1>2, <1>3, <1>4 DEF Next

(***************************************************************************)
(* If the system runs one session at a time, a process about to truncate a *)
(* config file in write_env has seen what all the files contain, although  *)
(* others were killed in the middle of a write and the copies of earlier   *)
(* sessions survive in its memory; unless a read of this session failed,   *)
(* which bgenv_init does not notice.                                       *)
(***************************************************************************)
THEOREM NothingLost ==
    ASSUME Serial
    PROVE  Spec => NoLostUpdate
<1>1. Init => UpToDate
  BY InitFresh
<1>2. UpToDate /\ [Next]_vars => UpToDate'
  BY NextFresh
<1>3. UpToDate => \A p \in Procs : Truncate(p) /\ proc[p].whole => proc[p].seen = disk
  BY DEF UpToDate, Fresh, Busy, Truncate
<1> QED BY <1>1, <1>2, <1>3, PTL DEF Spec, NoLostUpdate

-----------------------------------------------------------------------------
(* One session at a time: a confirmed record always remains.               *)

(* The fields of a config file and of a copy have their types. *)
LEMMA FileFields ==
    ASSUME TypeOK, NEW i \in Parts
    PROVE  /\ disk[i].env \in BG_ENVDATA /\ disk[i].env.revision \in Nat
           /\ disk[i].env.in_progress \in 0 .. 1 /\ disk[i].env.ustate \in 0 .. 3
           /\ read_env(disk[i]).revision \in Nat
           /\ IsLive(disk[i]) => read_env(disk[i]) = disk[i].env
           /\ ~IsLive(disk[i]) => read_env(disk[i]).revision = 0
           /\ ~disk[i].intact => read_env(disk[i]).ustate = USTATE_OK
<1>1. disk[i] \in CfgFile
  BY DEF TypeOK
<1>2. ZeroEnv.revision = 0 /\ ZeroEnv.ustate = USTATE_OK
  BY UStateValues DEF ZeroEnv
<1> HIDE DEF ZeroEnv
<1> QED
  BY <1>1, <1>2, UStateValues, RevisionAssumption
     DEF CfgFile, BG_ENVDATA, Revisions, IsLive, read_env

(* The fields of a record in memory. *)
LEMMA CopyFields ==
    ASSUME NEW s \in Process, NEW i \in Parts
    PROVE  /\ s.mem[i] \in BG_ENVDATA /\ s.mem[i].revision \in Nat
           /\ s.mem[i].in_progress \in 0 .. 1 /\ s.mem[i].ustate \in 0 .. 3
<1>1. s.mem[i] \in BG_ENVDATA
  BY DEF Process
<1> QED BY <1>1, UStateValues, RevisionAssumption DEF BG_ENVDATA, Revisions

(* The latest record a process finds is the newest confirmed one, or the   *)
(* pending one.                                                            *)
LEMMA LatestCopy ==
    ASSUME TypeOK, NEW g \in Parts, NEW u \in Parts, Anchor(g, u),
           NEW mem \in [Parts -> BG_ENVDATA],
           \A i \in Parts : mem[i] = read_env(disk[i]),
           NEW l \in Parts, IsLatest(mem, l)
    PROVE  \/ l = g /\ (IsLive(disk[u]) => Older(disk[u], disk[g]))
           \/ l = u /\ IsLive(disk[u]) /\ Newer(disk[u], disk[g])
<1>1. \A i \in Parts : /\ mem[i].revision \in Nat
                       /\ disk[i].env.revision \in Nat
                       /\ IsLive(disk[i]) => mem[i] = disk[i].env
                       /\ ~IsLive(disk[i]) => mem[i].revision = 0
  BY FileFields
<1>2. IsLive(disk[g]) /\ mem[g].revision > 0
  BY <1>1 DEF Anchor, Confirmed, IsLive
<1>3. /\ mem[l].revision > 0
      /\ \A j \in Parts : mem[j].revision > 0 => mem[j].revision <= mem[l].revision
  BY <1>2 DEF IsLatest, IsFirstMax, RevOf
<1>4. IsLive(disk[l]) /\ disk[l].env.revision >= disk[g].env.revision
  BY <1>1, <1>2, <1>3
<1>5. l \in {g, u}
  BY <1>1, <1>4 DEF Anchor, Older
<1>6. CASE l = u
  BY <1>1, <1>4, <1>6 DEF Anchor, Older
<1>7. CASE l = g
  <2>1. IsLive(disk[u]) /\ Newer(disk[u], disk[g]) => FALSE
    BY <1>1, <1>2, <1>3, <1>7 DEF Newer, IsLive
  <2> QED BY <1>7, <2>1 DEF Anchor
<1> QED BY <1>5, <1>6, <1>7

(* The oldest record is another one. *)
LEMMA OldestCopy ==
    ASSUME TypeOK, ENV_NUM_CONFIG_PARTS > 1,
           NEW g \in Parts, NEW u \in Parts, Anchor(g, u),
           IsLive(disk[u]) => Older(disk[u], disk[g]),
           NEW mem \in [Parts -> BG_ENVDATA],
           \A i \in Parts : mem[i] = read_env(disk[i]),
           NEW o \in Parts, IsOldest(mem, o), mem[g].revision < UINT32_MAX
    PROVE  o # g
<1>1. \A i \in Parts : /\ mem[i].revision \in Nat
                       /\ disk[i].env.revision \in Nat
                       /\ IsLive(disk[i]) => mem[i] = disk[i].env
                       /\ ~IsLive(disk[i]) => mem[i].revision = 0
  BY FileFields
<1>2. mem[u].revision < mem[g].revision /\ u # g
  BY <1>1 DEF Anchor, Confirmed, Older, IsLive
<1>3. mem[u].revision < UINT32_MAX
  BY <1>1, <1>2, RevisionAssumption
<1>4. mem[o].revision <= mem[u].revision
  BY <1>3 DEF IsOldest, IsFirstMin, RevOf
<1> QED BY <1>1, <1>2, <1>4

(* So does the loader. *)
LEMMA LatestFile ==
    ASSUME TypeOK, NEW g \in Parts, NEW u \in Parts, Anchor(g, u),
           NEW l \in Parts, IsBootLatest(disk, Parts, l)
    PROVE  l = g \/ (l = u /\ IsLive(disk[u]) /\ Newer(disk[u], disk[g]))
<1>1. \A i \in Parts : disk[i].env.revision \in Nat
  BY FileFields
<1>2. g \in Live(disk, Parts)
  BY DEF Anchor, Confirmed, IsLive, Live
<1>3. DOMAIN disk = Parts
  BY DEF TypeOK
<1>4. IsLive(disk[l]) /\ disk[l].env.revision >= disk[g].env.revision
  BY <1>2, <1>3 DEF IsBootLatest, IsFirstMax, Live, FileRev, IsLive
<1> QED BY <1>1, <1>4 DEF Anchor, Older

(* A file that is not the anchor and is not live may be anything. *)
LEMMA AnchorDead ==
    ASSUME TypeOK, NEW g \in Parts, NEW u \in Parts, Anchor(g, u),
           NEW i \in Parts \ {g}, NEW f, ~IsLive(f),
           disk' = [disk EXCEPT ![i] = f]
    PROVE  Anchor(g, u)'
<1>1. disk'[i] = f /\ \A j \in Parts \ {i} : disk'[j] = disk[j]
  BY DEF TypeOK
<1> QED BY <1>1 DEF Anchor, IsLive, Confirmed, Older, Newer

(* The pending file may be replaced by a newer record. *)
LEMMA AnchorWritten ==
    ASSUME TypeOK, NEW g \in Parts, NEW u \in Parts, Anchor(g, u),
           NEW e \in BG_ENVDATA, e.revision > disk[g].env.revision,
           disk' = [disk EXCEPT ![u] = Intact(e)]
    PROVE  /\ Pending(e) => Anchor(g, u)'
           /\ e.in_progress = 0 /\ e.ustate = USTATE_OK => Anchor(u, g)'
<1>1. /\ disk'[u].env = e /\ disk'[u].intact
      /\ \A j \in Parts \ {u} : disk'[j] = disk[j]
  BY DEF TypeOK, Intact
<1>2. \A i \in Parts : disk[i].env.revision \in Nat
  BY FileFields
<1>3. e.revision \in Nat
  BY RevisionAssumption DEF BG_ENVDATA, Revisions
<1>4. g # u /\ disk'[g] = disk[g]
  BY <1>1 DEF Anchor
<1>5. ASSUME Pending(e) PROVE Anchor(g, u)'
  BY <1>1, <1>4, <1>5 DEF Anchor, IsLive, Confirmed, Older, Newer
<1>6. ASSUME e.in_progress = 0, e.ustate = USTATE_OK PROVE Anchor(u, g)'
  <2>1. Confirmed(disk'[u])
    BY <1>1, <1>2, <1>3, <1>6 DEF Confirmed, IsLive
  <2>2. ASSUME NEW i \in Parts \ {g, u}, IsLive(disk'[i])
        PROVE  Older(disk'[i], disk'[u])
    BY <1>1, <1>2, <1>3, <2>2 DEF Anchor, Older
  <2>3. Older(disk'[g], disk'[u])
    BY <1>1, <1>4 DEF Anchor, Older
  <2> QED BY <1>4, <2>1, <2>2, <2>3 DEF Anchor, IsLive, Confirmed, Older, Newer
<1> QED BY <1>5, <1>6

(* It is enough to look at the process that steps. *)
LEMMA Protect ==
    ASSUME Types, Exclusive, NEW p \in Procs, NEW t, Step(p, t),
           Busy(proc[p]) \/ \A q \in Procs : ~Busy(proc[q]),
           NEW g \in Parts, NEW u \in Parts, Anchor(g, u)', Copies(t, g, u)'
    PROVE  Protected'
<1>1. proc'[p] = t /\ \A q \in Procs \ {p} : proc'[q] = proc[q]
  BY StepOf DEF Types
<1>2. ASSUME NEW q \in Procs \ {p} PROVE Copies(proc[q], g, u)'
  <2>1. ~Busy(proc'[q])
    BY <1>1 DEF Exclusive
  <2>2. proc'[q].pc = "idle" /\ ~proc'[q].initialized
    BY <2>1 DEF Busy
  <2> QED BY <2>2, FieldTypes DEF Copies
<1>3. Copies(proc[p], g, u)'
  BY <1>1 DEF Copies, Holding
<1> QED BY <1>2, <1>3 DEF Protected

(* bgenv_init: the copies that were read are what is on disk. *)
LEMMA ReadProtected ==
    ASSUME Serial, SafeInv, misread' = 0, Protected, NEW p \in Procs, misread = 0,
           Begin(p) \/ ReadEnv(p) \/ ReadFails(p) \/ ReadEnd(p)
    PROVE  Protected'
<1>0. PICK s \in Process : s = proc[p]
  BY DEF SafeInv, Types, TypeOK
<1>1. Types /\ TypeOK /\ Exclusive /\ disk' = disk /\ ~ReadFails(p)
  BY DEF SafeInv, Types, TypeOK, Begin, ReadEnv, ReadFails, ReadEnd
<1>2. PICK g \in Parts, u \in Parts : Anchor(g, u) /\ \A q \in Procs : Copies(proc[q], g, u)
  BY DEF Protected
<1>3. Anchor(g, u)'
  BY <1>1, <1>2 DEF Anchor
<1>4. PICK t : Step(p, t)
  BY DEF Begin, ReadEnv, ReadFails, ReadEnd
<1>5. t = proc'[p]
  BY <1>1, <1>4, StepOf
<1>6. Busy(s) \/ \A q \in Procs : ~Busy(proc[q])
  BY <1>0 DEF Begin, ReadEnv, ReadFails, ReadEnd, InSession, Busy
<1>7. Copies(t, g, u)'
  <2>1. CASE Begin(p)
    <3>1. proc'[p] = [s EXCEPT !.pc = "reading", !.k = 0]
      BY <1>0, <1>1, <2>1, StepOf DEF Begin
    <3>2. t.pc = "reading" /\ t.k = 0
      BY <1>5, <3>1 DEF Process
    <3>3. \A i \in Parts : ~(i < 0)
      BY DEF Parts
    <3> QED BY <3>2, <3>3, FieldTypes DEF Copies
  <2>2. CASE ReadEnv(p)
    <3>1. /\ proc'[p] = [s EXCEPT !.k = s.k + 1, !.mem[s.k] = read_env(disk[s.k]),
                                  !.seen[s.k] = disk[s.k]]
          /\ s.pc = "reading" /\ s.k < ENV_NUM_CONFIG_PARTS
      BY <1>0, <1>1, <2>2, StepOf DEF ReadEnv
    <3>2. s.k \in Parts /\ s.k \in Nat
      BY <3>1, PartsAssumption DEF Process, Parts
    <3>3. /\ t.pc = "reading" /\ t.k = s.k + 1
          /\ t.mem = [s.mem EXCEPT ![s.k] = read_env(disk[s.k])]
      BY <1>5, <3>1 DEF Process
    <3>4. s.mem \in [Parts -> BG_ENVDATA]
      BY DEF Process
    <3>5. \A i \in Parts : i < s.k => s.mem[i] = read_env(disk[i])
      BY <1>0, <1>2, <3>1 DEF Copies
    <3>6. \A i \in Parts : i < s.k + 1 => i = s.k \/ i < s.k
      BY <3>2 DEF Parts
    <3>7. \A i \in Parts : i < t.k => t.mem[i] = read_env(disk[i])
      BY <3>2, <3>3, <3>4, <3>5, <3>6
    <3> QED BY <1>1, <3>3, <3>7, FieldTypes DEF Copies
  <2>3. CASE ReadEnd(p)
    <3>1. /\ proc'[p] = [s EXCEPT !.pc = "idle", !.initialized = TRUE, !.k = 0]
          /\ s.pc = "reading" /\ s.k = ENV_NUM_CONFIG_PARTS
      BY <1>0, <1>1, <2>3, StepOf DEF ReadEnd
    <3>2. t.pc = "idle" /\ t.mem = s.mem
      BY <1>5, <3>1 DEF Process
    <3>3. \A i \in Parts : i < ENV_NUM_CONFIG_PARTS
      BY PartsAssumption DEF Parts
    <3>4. \A i \in Parts : s.mem[i] = read_env(disk[i])
      BY <1>0, <1>2, <3>1, <3>3 DEF Copies
    <3> QED BY <1>1, <3>2, <3>4, FieldTypes DEF Copies
  <2> QED BY <1>1, <2>1, <2>2, <2>3
<1> QED BY <1>0, <1>1, <1>3, <1>4, <1>6, <1>7, Protect

(* Opening a handle: the record of an update is never the anchor. *)
LEMMA OpenProtected ==
    ASSUME SafeInv, Protected, ENV_NUM_CONFIG_PARTS > 1, NEW p \in Procs,
           ebg_env_create_new(p) \/ ebg_env_open_current(p)
    PROVE  Protected'
<1>0. PICK s \in Process : s = proc[p]
  BY DEF SafeInv, Types, TypeOK
<1>1. /\ Types /\ TypeOK /\ Exclusive /\ disk' = disk
      /\ s.pc = "idle" /\ s.initialized
  BY <1>0 DEF SafeInv, Types, TypeOK, ebg_env_create_new, ebg_env_open_current, Idle
<1>2. PICK g \in Parts, u \in Parts : Anchor(g, u) /\ \A q \in Procs : Copies(proc[q], g, u)
  BY DEF Protected
<1>3. /\ \A i \in Parts : s.mem[i] = read_env(disk[i])
      /\ s.mem \in [Parts -> BG_ENVDATA]
  BY <1>0, <1>1, <1>2 DEF Copies, Process
<1>4. \A i \in Parts : /\ s.mem[i].revision \in Nat
                       /\ s.mem[i].in_progress \in 0 .. 1
                       /\ s.mem[i].ustate \in 0 .. 3
                       /\ disk[i].env.revision \in Nat
                       /\ IsLive(disk[i]) => s.mem[i] = disk[i].env
                       /\ ~IsLive(disk[i]) => s.mem[i].revision = 0
  BY <1>1, <1>3, FileFields, CopyFields
(* The handle is that of v, which becomes the pending record. *)
<1>5. ASSUME NEW v \in Parts, NEW t \in Process, Step(p, t), t.pc = "open", t.h = v,
             Anchor(g, v), \A i \in Parts \ {v} : t.mem[i] = s.mem[i],
             t.mem[v].revision > disk[g].env.revision,
             t.mem[v].ustate # USTATE_FAILED,
             t.mem[v].in_progress = 1 => t.mem[v].ustate = USTATE_OK
      PROVE  Protected'
  <2>1. ASSUME NEW i \in Parts \ {v}, t.mem[i].ustate # USTATE_OK
        PROVE  t.mem[i].revision = 0 /\ ~IsLive(disk[i])
    <3>1. ~IsLive(disk[i])
      BY <1>4, <1>5, <2>1 DEF Anchor, Confirmed, Older
    <3> QED BY <1>4, <1>5, <3>1
  <2>2. Holding(t, g, v)'
    BY <1>1, <1>5, <2>1 DEF Holding, IsLive
  <2>3. Copies(t, g, v)' /\ Anchor(g, v)'
    BY <1>1, <1>5, <2>2 DEF Copies, Anchor
  <2> QED BY <1>0, <1>1, <1>5, <2>3, Protect DEF Busy
<1>6. ASSUME NEW l \in Parts, IsLatest(s.mem, l),
             Step(p, [s EXCEPT !.pc = "open", !.h = l]),
             s.mem[l].ustate # USTATE_OK \/ s.mem[l].in_progress = 1
      PROVE  Protected'
  <2>1. l = u /\ IsLive(disk[u]) /\ Newer(disk[u], disk[g])
    <3>1. \/ l = g
          \/ l = u /\ IsLive(disk[u]) /\ Newer(disk[u], disk[g])
      BY <1>1, <1>2, <1>3, <1>6, LatestCopy
    <3>2. s.mem[g].ustate = USTATE_OK /\ s.mem[g].in_progress = 0
      BY <1>2, <1>4 DEF Anchor, Confirmed
    <3> QED BY <1>6, <3>1, <3>2
  <2> DEFINE t == [s EXCEPT !.pc = "open", !.h = l]
  <2>2. t \in Process /\ t.pc = "open" /\ t.h = u /\ t.mem = s.mem /\ Step(p, t)
    BY <1>6, <2>1, FieldTypes DEF Process
  <2> HIDE DEF t
  <2>3. /\ t.mem[u].revision > disk[g].env.revision
        /\ t.mem[u].ustate # USTATE_FAILED
        /\ t.mem[u].in_progress = 1 => t.mem[u].ustate = USTATE_OK
    BY <1>4, <2>1, <2>2, UStateValues DEF Newer, Pending
  <2> QED BY <1>2, <1>5, <2>2, <2>3
<1>7. CASE ebg_env_open_current(p)
  <2>1. PICK l \in Parts :
            /\ IsLatest(s.mem, l) /\ s.mem[l].ustate = USTATE_TESTING
            /\ Step(p, [s EXCEPT !.pc = "open", !.h = l])
    BY <1>0, <1>7 DEF ebg_env_open_current
  <2>2. s.mem[l].ustate # USTATE_OK
    BY <2>1, UStateValues
  <2> QED BY <1>6, <2>1, <2>2
<1>8. CASE ebg_env_create_new(p)
  <2>1. PICK l \in Parts, o \in Parts :
            /\ IsLatest(s.mem, l)
            /\ s.mem[l].ustate = USTATE_OK /\ s.mem[l].revision < UINT32_MAX
            /\ create_new(p, l, o)
    BY <1>0, <1>8 DEF ebg_env_create_new
  <2>2. CASE s.mem[l].in_progress = 1
    <3>1. Step(p, [s EXCEPT !.pc = "open", !.h = l])
      BY <1>0, <2>1, <2>2 DEF create_new
    <3> QED BY <1>6, <2>1, <2>2, <3>1
  <2>3. CASE s.mem[l].in_progress # 1
    <3> DEFINE e == [s.mem[l] EXCEPT !.revision = s.mem[l].revision + 1, !.in_progress = 1]
               t == [s EXCEPT !.pc = "open", !.h = o, !.mem[o] = e]
    <3>1. IsOldest(s.mem, o) /\ Step(p, t)
      BY <1>0, <2>1, <2>3 DEF create_new
    <3>2. l = g /\ (IsLive(disk[u]) => Older(disk[u], disk[g]))
      BY <1>1, <1>2, <1>3, <1>4, <2>1, <2>3, LatestCopy, UStateValues
         DEF Newer, Pending
    <3>3. o # g
      BY <1>1, <1>2, <1>3, <2>1, <3>1, <3>2, OldestCopy
    <3>4. Anchor(g, o)
      BY <1>2, <3>2, <3>3 DEF Anchor
    <3>5. s.mem[l] \in BG_ENVDATA /\ s.mem[l].revision = disk[g].env.revision
      BY <1>2, <1>3, <1>4, <3>2 DEF Anchor, Confirmed
    <3>6. /\ e \in BG_ENVDATA /\ e.revision = disk[g].env.revision + 1
          /\ e.ustate = USTATE_OK
      <4>1. s.mem[l].revision + 1 \in Revisions /\ 1 \in 0 .. 1
        BY <2>1, <3>5, RevisionAssumption DEF BG_ENVDATA, Revisions
      <4> QED BY <2>1, <3>5, <4>1 DEF BG_ENVDATA
    <3> HIDE DEF e
    <3>7. t \in Process /\ t.pc = "open" /\ t.h = o /\ t.mem = [s.mem EXCEPT ![o] = e]
      BY <3>6, FieldTypes DEF Process
    <3> HIDE DEF t
    <3>8. t.mem[o] = e /\ \A i \in Parts \ {o} : t.mem[i] = s.mem[i]
      BY <1>3, <3>7
    <3>9. /\ t.mem[o].revision > disk[g].env.revision
          /\ t.mem[o].ustate = USTATE_OK /\ t.mem[o].ustate # USTATE_FAILED
      BY <1>4, <3>6, <3>8, UStateValues
    <3> QED BY <1>5, <3>1, <3>4, <3>7, <3>8, <3>9
  <2> QED BY <2>2, <2>3
<1> QED BY <1>7, <1>8

(* The calls on an open handle. *)
LEMMA CallProtected ==
    ASSUME SafeInv, Protected, NEW p \in Procs,
           \/ ebg_env_set(p) \/ ebg_env_finalize_update(p)
           \/ ebg_env_setglobalstate(p) \/ SyncNext(p) \/ ebg_env_close(p)
    PROVE  Protected'
<1>0. PICK s \in Process : s = proc[p] /\ Sane(s)
  BY DEF SafeInv, Types, TypeOK
<1>1. /\ Types /\ TypeOK /\ Exclusive /\ disk' = disk /\ s.pc \in {"open", "sync"}
  BY <1>0 DEF SafeInv, Types, TypeOK, ebg_env_set, ebg_env_finalize_update,
              ebg_env_setglobalstate, SyncNext, ebg_env_close
<1>2. PICK g \in Parts, u \in Parts : Anchor(g, u) /\ \A q \in Procs : Copies(proc[q], g, u)
  BY DEF Protected
<1>3. Holding(s, g, u) /\ s.h = u
  BY <1>0, <1>1, <1>2 DEF Copies, WithHandle, Holding
<1>4. /\ s.mem \in [Parts -> BG_ENVDATA]
      /\ s.mem[u] \in BG_ENVDATA
      /\ s.mem[u].in_progress \in 0 .. 1 /\ s.mem[u].ustate \in 0 .. 3
  BY CopyFields DEF Process
<1>5. ASSUME NEW t, NEW e, Step(p, t), t.pc \in {"open", "sync", "save"}, t.h = u,
             t.mem = [s.mem EXCEPT ![u] = e], e.revision = s.mem[u].revision,
             e.ustate # USTATE_FAILED, e.in_progress = 1 => e.ustate = USTATE_OK,
             t.pc = "sync" => e.ustate = USTATE_OK
      PROVE  Protected'
  <2>1. t.mem[u] = e /\ \A i \in Parts \ {u} : t.mem[i] = s.mem[i]
    BY <1>4, <1>5
  <2>2. \A i \in Parts \ {u} : t.mem[i].ustate # USTATE_OK
            => t.mem[i].revision = 0 /\ ~IsLive(disk[i])
    BY <1>3, <2>1 DEF Holding
  <2>3. t.mem[u].revision > disk[g].env.revision
    BY <1>3, <1>5, <2>1 DEF Holding
  <2>4. Holding(t, g, u)'
    BY <1>1, <1>5, <2>1, <2>2, <2>3 DEF Holding, IsLive
  <2>5. Copies(t, g, u)' /\ Anchor(g, u)'
    BY <1>1, <1>2, <1>5, <2>4 DEF Copies, Anchor
  <2>6. Busy(proc[p])
    BY <1>0, <1>1 DEF Busy
  <2> QED BY <1>1, <1>5, <2>5, <2>6, Protect
<1>6. /\ s.mem[u].ustate # USTATE_FAILED
      /\ s.mem[u].in_progress = 1 => s.mem[u].ustate = USTATE_OK
      /\ s.pc = "sync" => s.mem[u].ustate = USTATE_OK
  BY <1>3 DEF Holding
<1>7. s.mem = [s.mem EXCEPT ![u] = s.mem[u]]
  BY <1>4
<1>8. CASE ebg_env_set(p)
  <2>1. PICK m : Step(p, [s EXCEPT !.mem[u].kernelfile = m])
    BY <1>0, <1>3, <1>8 DEF ebg_env_set
  <2> DEFINE t == [s EXCEPT !.mem[u].kernelfile = m]
             e == [s.mem[u] EXCEPT !.kernelfile = m]
  <2>2. s.pc = "open"
    BY <1>0, <1>8 DEF ebg_env_set
  <2>3. t.pc = "open" /\ t.h = u /\ t.mem = [s.mem EXCEPT ![u] = e]
    BY <1>3, <2>2 DEF Process
  <2>4. /\ e.revision = s.mem[u].revision /\ e.ustate = s.mem[u].ustate
        /\ e.in_progress = s.mem[u].in_progress
    BY <1>4 DEF BG_ENVDATA
  <2>5. Step(p, t)
    BY <2>1
  <2> HIDE DEF t, e
  <2> QED BY <1>5, <1>6, <2>3, <2>4, <2>5
<1>9. CASE ebg_env_finalize_update(p)
  <2> DEFINE t == [s EXCEPT !.mem[u].in_progress = 0, !.mem[u].ustate = USTATE_INSTALLED]
             e == [s.mem[u] EXCEPT !.in_progress = 0, !.ustate = USTATE_INSTALLED]
  <2>1. Step(p, t) /\ s.pc = "open"
    BY <1>0, <1>3, <1>9 DEF ebg_env_finalize_update
  <2>2. t.pc = "open" /\ t.h = u /\ t.mem = [s.mem EXCEPT ![u] = e]
    BY <1>3, <1>4, <2>1 DEF Process
  <2>3. e.revision = s.mem[u].revision /\ e.in_progress = 0 /\ e.ustate = USTATE_INSTALLED
    BY <1>4 DEF BG_ENVDATA
  <2> HIDE DEF t, e
  <2> QED BY <1>5, <2>1, <2>2, <2>3, UStateValues
<1>10. CASE ebg_env_setglobalstate(p)
  <2> DEFINE t == [s EXCEPT !.pc = "sync", !.k = 0, !.mem[u].ustate = USTATE_OK]
             e == [s.mem[u] EXCEPT !.ustate = USTATE_OK]
  <2>1. Step(p, t)
    BY <1>0, <1>3, <1>10 DEF ebg_env_setglobalstate
  <2>2. t.pc = "sync" /\ t.h = u /\ t.mem = [s.mem EXCEPT ![u] = e]
    BY <1>3 DEF Process
  <2>3. e.revision = s.mem[u].revision /\ e.ustate = USTATE_OK
    BY <1>4 DEF BG_ENVDATA
  <2> HIDE DEF t, e
  <2> QED BY <1>5, <2>1, <2>2, <2>3, UStateValues
<1>11. CASE SyncNext(p)
  <2>1. PICK t : /\ Step(p, t)
                 /\ \/ t = [s EXCEPT !.pc = "open", !.k = 0]
                    \/ t = [s EXCEPT !.k = s.k + 1]
    BY <1>0, <1>11 DEF SyncNext
  <2>2. s.pc = "sync"
    BY <1>0, <1>11 DEF SyncNext
  <2>3. t.pc \in {"open", "sync"} /\ t.h = u /\ t.mem = s.mem
    BY <1>3, <2>1, <2>2 DEF Process
  <2> QED BY <1>5, <1>6, <1>7, <2>1, <2>2, <2>3
<1>12. CASE ebg_env_close(p)
  <2> DEFINE t == [s EXCEPT !.pc = "save", !.k = s.h]
  <2>1. Step(p, t)
    BY <1>0, <1>12 DEF ebg_env_close
  <2>2. t.pc = "save" /\ t.h = u /\ t.mem = s.mem
    BY <1>3 DEF Process
  <2> HIDE DEF t
  <2> QED BY <1>5, <1>6, <1>7, <2>1, <2>2
<1> QED BY <1>8, <1>9, <1>10, <1>11, <1>12

(* The writes: every file but the anchor may be torn, and a complete       *)
(* record of a confirmed update becomes the anchor.                        *)
LEMMA WriteProtected ==
    ASSUME SafeInv, Protected, NEW p \in Procs,
           Truncate(p) \/ WriteData(p) \/ WriteFails(p)
    PROVE  Protected'
<1>0. PICK s \in Process : s = proc[p] /\ Sane(s)
  BY DEF SafeInv, Types, TypeOK
<1>1. Types /\ TypeOK /\ Exclusive
  BY DEF SafeInv, Types
<1>2. PICK g \in Parts, u \in Parts : Anchor(g, u) /\ \A q \in Procs : Copies(proc[q], g, u)
  BY DEF Protected
<1>3. PICK t \in Process, f \in CfgFile : Step(p, t) /\ Written(s, t, f)
  BY <1>0, <1>1, WriteShape
<1>4. /\ s.pc \in WithHandle /\ s.pc # "open" /\ Busy(proc[p]) /\ s.k \in Parts
      /\ disk' = [disk EXCEPT ![s.k] = f]
  BY <1>0, <1>3 DEF Written, WithHandle, Busy, Truncate, WriteData, WriteFails
<1>5. Holding(s, g, u) /\ s.h = u
  BY <1>0, <1>2, <1>4 DEF Copies, Holding
<1>6. proc'[p] = t /\ disk'[s.k] = f
  BY <1>1, <1>3, <1>4, StepOf DEF TypeOK
<1>7. \A i \in Parts : /\ s.mem[i] \in BG_ENVDATA /\ s.mem[i].revision \in Nat
                       /\ s.mem[i].in_progress \in 0 .. 1 /\ s.mem[i].ustate \in 0 .. 3
  BY CopyFields
<1>8. u # g /\ disk[g].env.revision \in Nat
  BY <1>1, <1>2, FileFields DEF Anchor
(* A session that ends leaves only the files to look at. *)
<1>9. ASSUME NEW a \in Parts, NEW b \in Parts, Anchor(a, b)', ~Busy(t)
      PROVE  Protected'
  <2>1. t.pc = "idle" /\ ~t.initialized
    BY <1>9 DEF Busy
  <2>2. Copies(t, a, b)'
    BY <2>1, FieldTypes DEF Copies
  <2> QED BY <1>1, <1>3, <1>4, <1>9, <2>2, Protect
<1>10. /\ Truncate(p) => f = Truncated
       /\ WriteData(p) => f = Intact(s.mem[s.k]) /\ s.pc \in {"syncing", "saving"}
       /\ WriteFails(p) => ~f.intact \/ f = disk[s.k]
  <2>1. Truncate(p) => disk' = [disk EXCEPT ![s.k] = Truncated]
    BY <1>0 DEF Truncate, Overwrite
  <2>2. WriteData(p) => /\ disk' = [disk EXCEPT ![s.k] = Intact(s.mem[s.k])]
                        /\ s.pc \in {"syncing", "saving"}
    BY <1>0 DEF WriteData, Overwrite
  <2>3. WriteFails(p) =>
            \/ disk' = disk
            \/ \E x \in TornFiles(ZeroEnv, s.mem[s.k]) : disk' = [disk EXCEPT ![s.k] = x]
    BY <1>0 DEF WriteFails, Overwrite
  <2>4. ASSUME NEW x, disk' = [disk EXCEPT ![s.k] = x] PROVE f = x
    BY <1>1, <1>4, <1>6, <2>4 DEF TypeOK
  <2>5. \A x \in TornFiles(ZeroEnv, s.mem[s.k]) : ~x.intact
    BY <1>4, <1>7, TornType
  <2> QED BY <1>6, <2>1, <2>2, <2>3, <2>4, <2>5
<1>11. ~Truncated.intact
  BY DEF Truncated
<1>12. \A i \in Parts \ {s.k} : disk'[i] = disk[i]
  BY <1>1, <1>4 DEF TypeOK
<1>13. CASE s.pc \in {"save", "saving"}
  <2>1. s.k = u
    BY <1>0, <1>5, <1>13 DEF Sane
  <2>2. CASE Truncate(p)
    <3>1. Anchor(g, u)'
      BY <1>1, <1>2, <1>4, <1>8, <1>10, <1>11, <2>1, <2>2, AnchorDead DEF IsLive
    <3>2. t = [s EXCEPT !.pc = "saving", !.seen[s.k] = Truncated]
      <4>1. s.pc = "save"
        BY <1>0, <1>13, <2>2 DEF Truncate
      <4>2. Step(p, [s EXCEPT !.pc = "saving", !.seen[s.k] = Truncated])
        BY <1>0, <2>2, <4>1 DEF Truncate
      <4> QED BY <1>1, <1>6, <4>2, StepOf
    <3>3. t.pc = "saving" /\ t.h = u /\ t.mem = s.mem
      BY <1>5, <3>2 DEF Process
    <3>4. Holding(t, g, u)'
      BY <1>5, <1>8, <1>12, <1>13, <2>1, <3>3 DEF Holding, IsLive
    <3>5. Copies(t, g, u)'
      BY <3>3, <3>4 DEF Copies
    <3> QED BY <1>1, <1>3, <1>4, <3>1, <3>5, Protect
  <2>3. CASE WriteData(p) \/ WriteFails(p)
    <3>1. ~Busy(t)
      <4>1. PICK c \in Process : Step(p, bgenv_finalize(c))
        <5>1. [s EXCEPT !.seen[s.k] = f] \in Process
          BY <1>4 DEF Process
        <5>2. [s EXCEPT !.seen[s.k] = f].pc = s.pc
          BY DEF Process
        <5>3. Step(p, bgenv_finalize([s EXCEPT !.seen[s.k] = f]))
          BY <1>0, <1>6, <1>10, <1>13, <2>3, <5>2 DEF WriteData, WriteFails
        <5> QED BY <5>1, <5>3
      <4> QED BY <1>1, <1>6, <4>1, StepOf, FinalizeType
    <3>2. CASE WriteFails(p)
      <4>1. CASE ~f.intact
        BY <1>1, <1>2, <1>4, <1>8, <1>9, <2>1, <3>1, <4>1, AnchorDead DEF IsLive
      <4>2. CASE f = disk[s.k]
        <5>1. \A i \in Parts : disk'[i] = disk[i]
          BY <1>6, <1>12, <4>2
        <5>2. Anchor(g, u)'
          BY <1>2, <5>1 DEF Anchor
        <5> QED BY <1>9, <3>1, <5>2
      <4> QED BY <1>10, <3>2, <4>1, <4>2
    <3>3. CASE WriteData(p)
      <4>1. s.mem[u].revision > disk[g].env.revision
        BY <1>5 DEF Holding
      <4>2. disk' = [disk EXCEPT ![u] = Intact(s.mem[u])]
        BY <1>4, <1>10, <2>1, <3>3
      <4>3. Pending(s.mem[u]) \/ (s.mem[u].in_progress = 0 /\ s.mem[u].ustate = USTATE_OK)
        BY <1>5, <1>7, UStateValues DEF Holding, Pending
      <4>4. Anchor(g, u)' \/ Anchor(u, g)'
        BY <1>1, <1>2, <1>7, <4>1, <4>2, <4>3, AnchorWritten
      <4> QED BY <1>9, <3>1, <4>4
    <3> QED BY <2>3, <3>2, <3>3
  <2> QED BY <2>2, <2>3
<1>14. CASE s.pc \in {"sync", "syncing"}
  <2>1. s.k # u /\ (s.mem[s.k].ustate # USTATE_OK \/ s.pc = "syncing")
    BY <1>0, <1>5, <1>14 DEF Holding, Truncate, WriteData, WriteFails
  <2>2. s.mem[s.k].revision = 0 /\ ~IsLive(disk[s.k])
    BY <1>4, <1>5, <2>1 DEF Holding
  <2>3. s.k # g
    BY <1>2, <2>2 DEF Anchor, Confirmed
  <2>4. ~IsLive(f)
    <3>1. ~IsLive(Intact(s.mem[s.k]))
      BY <2>2 DEF IsLive, Intact
    <3> QED BY <1>10, <1>11, <2>2, <3>1 DEF IsLive
  <2>5. Anchor(g, u)'
    BY <1>1, <1>2, <1>4, <2>3, <2>4, AnchorDead
  <2>6. /\ t.pc \in {"open", "sync", "syncing"} /\ t.h = u
        /\ t.pc = "syncing" => t.k = s.k
        /\ t.mem[s.k].revision = s.mem[s.k].revision
        /\ \A i \in Parts \ {s.k} : t.mem[i] = s.mem[i]
    <3>1. s.mem \in [Parts -> BG_ENVDATA]
      BY DEF Process
    <3>2. CASE Truncate(p)
      <4>1. Step(p, [s EXCEPT !.pc = "syncing", !.seen[s.k] = Truncated,
                              !.mem[s.k].ustate = USTATE_OK])
        BY <1>0, <1>14, <3>2 DEF Truncate
      <4>2. t = [s EXCEPT !.pc = "syncing", !.seen[s.k] = Truncated,
                          !.mem[s.k].ustate = USTATE_OK]
        BY <1>1, <1>6, <4>1, StepOf
      <4>3. /\ t.pc = "syncing" /\ t.h = u /\ t.k = s.k
            /\ t.mem = [s.mem EXCEPT ![s.k] = [s.mem[s.k] EXCEPT !.ustate = USTATE_OK]]
        BY <1>5, <4>2 DEF Process
      <4> QED BY <1>4, <1>7, <3>1, <4>3 DEF BG_ENVDATA
    <3>3. CASE WriteData(p)
      <4> DEFINE c == [s EXCEPT !.seen[s.k] = f]
      <4>1. c \in Process /\ c.pc = s.pc /\ c.h = u /\ c.mem = s.mem
        BY <1>4, <1>5 DEF Process
      <4>2. Step(p, [c EXCEPT !.pc = "sync", !.k = s.k + 1])
        BY <1>0, <1>10, <1>14, <3>3, <4>1 DEF WriteData
      <4> HIDE DEF c
      <4>3. t = [c EXCEPT !.pc = "sync", !.k = s.k + 1]
        BY <1>1, <1>6, <4>2, StepOf
      <4>4. t.pc = "sync" /\ t.h = u /\ t.mem = s.mem
        BY <4>1, <4>3 DEF Process
      <4> QED BY <4>4
    <3>4. CASE WriteFails(p)
      <4> DEFINE c == [s EXCEPT !.seen[s.k] = f]
      <4>1. c \in Process /\ c.pc = s.pc /\ c.h = u /\ c.mem = s.mem
        BY <1>4, <1>5 DEF Process
      <4>2. Step(p, [c EXCEPT !.pc = "open", !.k = 0, !.mem[s.k].ustate = USTATE_OK])
        BY <1>0, <1>6, <1>14, <3>4, <4>1 DEF WriteFails
      <4> HIDE DEF c
      <4>3. t = [c EXCEPT !.pc = "open", !.k = 0, !.mem[s.k].ustate = USTATE_OK]
        BY <1>1, <1>6, <4>2, StepOf
      <4>4. /\ t.pc = "open" /\ t.h = u
            /\ t.mem = [s.mem EXCEPT ![s.k] = [s.mem[s.k] EXCEPT !.ustate = USTATE_OK]]
        BY <4>1, <4>3 DEF Process
      <4> QED BY <1>4, <1>7, <3>1, <4>4 DEF BG_ENVDATA
    <3> QED BY <3>2, <3>3, <3>4
  <2>7. ASSUME NEW i \in Parts \ {u},
               t.mem[i].ustate # USTATE_OK \/ (t.pc = "syncing" /\ i = t.k)
        PROVE  t.mem[i].revision = 0 /\ ~IsLive(disk'[i])
    <3>1. CASE i = s.k
      BY <1>6, <2>2, <2>4, <2>6, <3>1
    <3>2. CASE i # s.k
      BY <1>5, <1>12, <2>6, <2>7, <3>2 DEF Holding
    <3> QED BY <3>1, <3>2
  <2>8. t.mem[u] = s.mem[u] /\ disk'[g] = disk[g]
    BY <1>12, <2>1, <2>3, <2>6
  <2>9. Holding(t, g, u)'
    BY <1>5, <1>14, <2>1, <2>6, <2>7, <2>8 DEF Holding, IsLive
  <2>10. Copies(t, g, u)'
    BY <2>6, <2>9 DEF Copies
  <2> QED BY <1>1, <1>3, <1>4, <2>5, <2>10, Protect
<1> QED BY <1>4, <1>13, <1>14 DEF WithHandle

(* A reboot: the loader changes nothing but the pending record. *)
LEMMA RebootProtected ==
    ASSUME SafeInv, Protected, Reboot
    PROVE  Protected'
<1>1. TypeOK
  BY DEF SafeInv, Types
<1>2. PICK g \in Parts, u \in Parts : Anchor(g, u)
  BY DEF Protected
<1>3. PICK l \in Parts :
          /\ IsBootLatest(disk, Parts, l)
          /\ disk' = IF NeedsSave(disk[l].env)
                     THEN [disk EXCEPT ![l] = Intact(SavedEnv(disk[l].env))] ELSE disk
  BY DEF Reboot
<1>4. Anchor(g, u)'
  <2>1. CASE ~NeedsSave(disk[l].env)
    BY <1>2, <1>3, <2>1 DEF Anchor
  <2>2. CASE NeedsSave(disk[l].env)
    <3>1. disk[g].env.ustate = USTATE_OK
      BY <1>2 DEF Anchor, Confirmed
    <3>2. l = u /\ u # g /\ Newer(disk[u], disk[g])
      BY <1>1, <1>2, <1>3, <2>2, <3>1, LatestFile, UStateValues DEF NeedsSave, Anchor
    <3> DEFINE e == disk[u].env
    <3>3. e \in BG_ENVDATA /\ e.revision > disk[g].env.revision
      BY <1>1, <3>2, FileFields DEF Newer
    <3>4. disk' = [disk EXCEPT ![u] = Intact(SavedEnv(e))]
      BY <1>3, <2>2, <3>2
    <3>5. e.in_progress # 1 /\ e.ustate \in {USTATE_TESTING, USTATE_INSTALLED}
      BY <2>2, <3>2 DEF NeedsSave
    <3>6. e.in_progress = 0
      BY <3>3, <3>5 DEF BG_ENVDATA
    <3> HIDE DEF e
    <3>7. CASE e.ustate = USTATE_TESTING
      <4>1. SavedEnv(e).revision = 0
        BY <3>3, <3>5, <3>7, UStateValues DEF SavedEnv, BG_ENVDATA
      <4>2. ~IsLive(Intact(SavedEnv(e)))
        BY <4>1 DEF IsLive, Intact
      <4> QED BY <1>1, <1>2, <3>2, <3>4, <4>2, AnchorDead
    <3>8. CASE e.ustate = USTATE_INSTALLED
      <4>1. SavedEnv(e) = [e EXCEPT !.ustate = USTATE_TESTING]
        BY <3>5, <3>8, UStateValues DEF SavedEnv
      <4>2. /\ SavedEnv(e) \in BG_ENVDATA /\ SavedEnv(e).revision = e.revision
            /\ SavedEnv(e).in_progress = 0 /\ SavedEnv(e).ustate = USTATE_TESTING
        <5>1. USTATE_TESTING \in UStates
          BY UStateValues
        <5> QED BY <3>3, <3>6, <4>1, <5>1 DEF BG_ENVDATA
      <4>3. Pending(SavedEnv(e))
        BY <4>2 DEF Pending
      <4> HIDE DEF SavedEnv
      <4> QED BY <1>1, <1>2, <3>3, <3>4, <4>2, <4>3, AnchorWritten
    <3> QED BY <3>5, <3>7, <3>8
  <2> QED BY <2>1, <2>2
<1>5. \A p \in Procs : Copies(proc[p], g, u)'
  BY FieldTypes DEF Reboot, NewProcess, Copies
<1> QED BY <1>4, <1>5 DEF Protected

(* Every non-empty set of numbers has a least element. *)
LEMMA NatMin ==
    ASSUME NEW T, T \subseteq Nat, T # {}
    PROVE  \E x \in T : \A y \in T : x <= y
<1>1. \E x \in T : \A y \in T : ~(<<y, x>> \in OpToRel(<, Nat))
  BY WFMin, NatLessThanWellFounded, Zenon
<1>2. \E x \in T : \A y \in T : ~(y < x)
  BY <1>1, Zenon DEF OpToRel
<1>3. \A x, y \in T : ~(y < x) => x <= y
  OBVIOUS
<1> QED BY <1>2, <1>3, Zenon

(* A provisioned device has a newest record. *)
LEMMA InitProtected ==
    ASSUME ENV_NUM_CONFIG_PARTS > 1, Init
    PROVE  Protected
<1>1. \A i \in Parts : /\ Confirmed(disk[i])
                       /\ disk[i].env.revision \in 1 .. ENV_NUM_CONFIG_PARTS
  <2> SUFFICES ASSUME NEW i \in Parts
               PROVE  /\ Confirmed(disk[i])
                      /\ disk[i].env.revision \in 1 .. ENV_NUM_CONFIG_PARTS
    OBVIOUS
  <2>1. disk[i] \in {Intact(e) : e \in ProvisionedEnv}
    BY DEF Init
  <2>2. PICK e \in ProvisionedEnv : disk[i] = Intact(e)
    BY <2>1
  <2> QED BY <2>2, PartsAssumption DEF ProvisionedEnv, Intact, Confirmed, IsLive
<1>2. \A i, j \in Parts : i # j => disk[i].env.revision # disk[j].env.revision
  BY DEF Init
<1> DEFINE Gap(i) == ENV_NUM_CONFIG_PARTS - disk[i].env.revision
           T == {Gap(i) : i \in Parts}
<1>3. T \subseteq Nat
  BY <1>1, PartsAssumption
<1>4. T # {}
  BY ZeroTypes
<1>5. PICK x \in T : \A y \in T : x <= y
  BY <1>3, <1>4, NatMin
<1>6. PICK g \in Parts : x = Gap(g)
  BY <1>5
<1>7. \A i \in Parts : Gap(g) <= Gap(i)
  BY <1>5, <1>6
<1>8. \A i \in Parts \ {g} : disk[i].env.revision < disk[g].env.revision
  BY <1>1, <1>2, <1>7, PartsAssumption
<1>9. PICK u \in Parts : u # g
  <2>1. 0 \in Parts /\ 1 \in Parts
    BY PartsAssumption DEF Parts
  <2> QED BY <2>1
<1>10. Anchor(g, u)
  BY <1>1, <1>8, <1>9 DEF Anchor, Older
<1>11. \A p \in Procs : Copies(proc[p], g, u)
  BY FieldTypes DEF Init, NewProcess, Copies
<1> QED BY <1>10, <1>11 DEF Protected

(* SafeInv is inductive if sessions do not overlap. *)
LEMMA NextSafe ==
    ASSUME Serial, ENV_NUM_CONFIG_PARTS > 1
    PROVE  SafeInv /\ UpToDate /\ [Next]_vars => SafeInv'
<1> SUFFICES ASSUME SafeInv, UpToDate, [Next]_vars PROVE SafeInv'
  OBVIOUS
<1>1. Types' /\ Exclusive'
  BY NextFresh DEF UpToDate
<1>2. Types /\ Exclusive /\ misread \in Nat
  BY SessionAssumption DEF SafeInv, Types, TypeOK
<1> SUFFICES ASSUME misread' = 0 PROVE Protected'
  BY <1>1 DEF SafeInv
<1>3. misread = 0 /\ Protected
  <2>1. misread' = misread \/ misread' = misread + 1
    BY DEF Next, SessionStep, vars, Reboot, Begin, ReadEnv, ReadFails, ReadEnd,
           ebg_env_create_new, ebg_env_open_current, ebg_env_set,
           ebg_env_finalize_update, ebg_env_setglobalstate, SyncNext, ebg_env_close,
           Truncate, WriteData, WriteFails, bg_printenv, Exit
  <2> QED BY <1>2, <2>1 DEF SafeInv
<1>4. CASE Reboot
  BY <1>3, <1>4, RebootProtected
<1>5. CASE UNCHANGED vars
  BY <1>3, <1>5 DEF vars, Protected, Anchor, Copies, Holding
<1>6. ASSUME NEW p \in Procs, SessionStep(p) PROVE Protected'
  <2>1. CASE Begin(p) \/ ReadEnv(p) \/ ReadFails(p) \/ ReadEnd(p)
    BY <1>3, <2>1, ReadProtected
  <2>2. CASE ebg_env_create_new(p) \/ ebg_env_open_current(p)
    BY <1>3, <2>2, OpenProtected
  <2>3. CASE \/ ebg_env_set(p) \/ ebg_env_finalize_update(p)
             \/ ebg_env_setglobalstate(p) \/ SyncNext(p) \/ ebg_env_close(p)
    BY <1>3, <2>3, CallProtected
  <2>4. CASE Truncate(p) \/ WriteData(p) \/ WriteFails(p)
    BY <1>3, <2>4, WriteProtected
  <2>5. CASE bg_printenv(p) \/ Exit(p)
    <3>1. PICK t \in Process : Step(p, t) /\ Sane(t) /\ ~Busy(t)
      BY <1>2, <2>5, EndShape
    <3>2. disk' = disk
      BY <1>2, <2>5, EndShape
    <3>3. PICK g \in Parts, u \in Parts :
              Anchor(g, u) /\ \A q \in Procs : Copies(proc[q], g, u)
      BY <1>3 DEF Protected
    <3>4. proc'[p] = t /\ \A q \in Procs \ {p} : proc'[q] = proc[q]
      BY <1>2, <3>1, StepOf DEF Types
    <3>5. t.pc = "idle" /\ ~t.initialized
      BY <3>1 DEF Busy
    <3>6. Copies(proc[p], g, u)'
      BY <3>4, <3>5, FieldTypes DEF Copies
    <3>7. \A q \in Procs \ {p} : Copies(proc[q], g, u)'
      BY <3>2, <3>3, <3>4 DEF Copies, Holding
    <3>8. Anchor(g, u)'
      BY <3>2, <3>3 DEF Anchor
    <3> QED BY <3>6, <3>7, <3>8 DEF Protected
  <2> QED BY <1>6, <2>1, <2>2, <2>3, <2>4, <2>5 DEF SessionStep
<1> QED BY <1>4, <1>5, <1>6 DEF Next

(***************************************************************************)
(* If the system runs one session at a time, there is at any time, in the  *)
(* middle of any write of write_env too, a complete record on disk that    *)
(* was confirmed, although processes are killed anywhere in env_api.c and  *)
(* writes fail; as long as read_env has not failed, whose result           *)
(* bgenv_init ignores.                                                     *)
(***************************************************************************)
THEOREM FallbackKept ==
    ASSUME Serial, ENV_NUM_CONFIG_PARTS > 1
    PROVE  Spec => []ConfirmedSurvives
<1>1. Init => UpToDate /\ SafeInv
  BY InitFresh, InitProtected DEF UpToDate, SafeInv
<1>2. UpToDate /\ [Next]_vars => UpToDate'
  BY NextFresh
<1>3. SafeInv /\ UpToDate /\ [Next]_vars => SafeInv'
  BY NextSafe
<1>4. SafeInv => ConfirmedSurvives
  BY DEF SafeInv, Protected, Anchor, Confirmed, IsLive, ConfirmedSurvives
<1> QED BY <1>1, <1>2, <1>3, <1>4, PTL DEF Spec
=============================================================================

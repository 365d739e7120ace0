--------------------------- MODULE EnvScanProofs ---------------------------
(***************************************************************************)
(* The loops of EnvScan compute what EnvData says, for every number of     *)
(* config partitions and every content of the config files.                *)
(***************************************************************************)
EXTENDS EnvScan, TLAPS

(* The live slots below n, as the loader sees them. *)
LiveBelow(n) == {k \in Parts : k < n /\ ~env_invalid[k] /\ env[k].revision > 0}

(* b is the first maximum of S, or Nothing if there is none. *)
Best(S, rev, b) ==
    /\ S = {} => b = Nothing
    /\ S # {} => IsFirstMax(S, rev, b.idx) /\ b.rev = rev[b.idx]

(* The invariant of the loop that looks for the two latest revisions. *)
ScanInv(n) ==
    /\ Best(LiveBelow(n), RevOf(env), latest)
    /\ Best(LiveBelow(n) \ {latest.idx}, RevOf(env), pre_latest)

(* Those of the loops of the library. *)
LatestInv(n) ==
    Best({k \in Parts : k < n /\ envdata[k].revision > 0}, RevOf(envdata), newest)

OldestInv(n) ==
    LET S == {k \in Parts : k < n /\ envdata[k].revision < UINT32_MAX}
    IN  /\ S = {} => oldest = [rev |-> UINT32_MAX, idx |-> 0]
        /\ S # {} => IsFirstMin(S, RevOf(envdata), oldest.idx)
                     /\ oldest.rev = RevOf(envdata)[oldest.idx]

(* load_config goes on only if the partitions found fit into env[]. *)
TypeInv == TypeOK /\ (pc = "load" => numHandles <= ENV_NUM_CONFIG_PARTS)

LoopInv ==
    /\ pc = "enumerate" => i = 0 /\ env = [k \in Parts |-> ZeroEnv]
    /\ pc \in {"enumerate", "load"} => latest = Nothing /\ pre_latest = Nothing
    /\ pc = "scan" => ScanInv(i)
    /\ LoaderDone => ScanInv(ENV_NUM_CONFIG_PARTS)
    /\ pc \in {"enumerate", "load", "scan", "init"} => newest = Nothing
    /\ pc = "latest" => LatestInv(i)
    /\ pc \in {"oldest", "done"} => LatestInv(ENV_NUM_CONFIG_PARTS)
    /\ pc \notin {"oldest", "done"} => oldest = [rev |-> UINT32_MAX, idx |-> 0]
    /\ pc = "oldest" => OldestInv(i)
    /\ pc = "done" => OldestInv(ENV_NUM_CONFIG_PARTS)

-----------------------------------------------------------------------------
(* Types. *)

(* A cleared record. *)
LEMMA ZeroEnvType == ZeroEnv \in BG_ENVDATA /\ ZeroEnv.revision = 0
BY RevisionAssumption, TimeoutAssumption
   DEF ZeroEnv, BG_ENVDATA, USTATE_OK, USTATE_FAILED, UStates, Revisions,
       REVISION_FAILED

(* The start values of the searches. *)
LEMMA FoundTypes ==
    /\ Nothing \in Found
    /\ [rev |-> UINT32_MAX, idx |-> 0] \in Found
    /\ 0 \in Parts
BY RevisionAssumption, PartsAssumption DEF Nothing, Found, Revisions, Parts

(* A file that is read in part leaves a record. *)
LEMMA TornType ==
    ASSUME NEW b \in BG_ENVDATA, NEW e \in Torn(ZeroEnv, b)
    PROVE  e \in BG_ENVDATA
<1>1. ZeroEnv \in BG_ENVDATA
  BY ZeroEnvType
<1>2. /\ [ZeroEnv EXCEPT !.kernelfile = b.kernelfile] \in BG_ENVDATA
      /\ [b EXCEPT !.revision = ZeroEnv.revision] \in BG_ENVDATA
  BY <1>1 DEF BG_ENVDATA
<1> QED BY <1>1, <1>2 DEF Torn

(* The slot a loop looks at is one of the partitions. *)
LEMMA SlotType ==
    ASSUME NEW n \in 0 .. ENV_NUM_CONFIG_PARTS, n < ENV_NUM_CONFIG_PARTS
    PROVE  n \in Parts /\ n + 1 \in 0 .. ENV_NUM_CONFIG_PARTS
BY PartsAssumption DEF Parts

(* The start of load_config. *)
LEMMA InitTypes == Init => TypeInv
BY ZeroEnvType, FoundTypes, PartsAssumption
   DEF Init, TypeInv, TypeOK, Results, Phases

(* Every iteration keeps the types. *)
LEMMA NextTypes == TypeInv /\ [Next]_vars => TypeInv'
<1> SUFFICES ASSUME TypeInv, [Next]_vars PROVE TypeInv'
  OBVIOUS
<1> USE DEF TypeInv
<1>0. 0 \in 0 .. ENV_NUM_CONFIG_PARTS
  BY PartsAssumption
<1>1. CASE Enumerate
  <2>1. /\ pc' \in Phases /\ result' \in Results
        /\ pc' = "load" => ~(numHandles > ENV_NUM_CONFIG_PARTS)
    BY <1>1 DEF Enumerate, TypeOK, Phases, Results
  <2>2. pc' = "load" => numHandles <= ENV_NUM_CONFIG_PARTS
    BY <2>1, PartsAssumption DEF TypeOK
  <2> QED BY <1>1, <2>1, <2>2 DEF Enumerate, TypeOK, library
<1>2. CASE LoadNext
  <2>1. i \in Parts /\ i' \in 0 .. ENV_NUM_CONFIG_PARTS
    BY <1>2, SlotType, PartsAssumption DEF LoadNext, TypeOK, Parts
  <2>2. file[i].env \in BG_ENVDATA /\ file[i].crc \in BOOLEAN
    BY <2>1, RecordsAssumption DEF TypeOK, File
  <2>3. CASE OpenFails
    BY <1>2, <2>1, <2>3 DEF LoadNext, OpenFails, Corrupted, TypeOK, Results, library
  <2>4. CASE ReadFails
    <3>1. PICK e \in Torn(ZeroEnv, file[i].env) : env' = [env EXCEPT ![i] = e]
      BY <2>4 DEF ReadFails
    <3>2. e \in BG_ENVDATA
      BY <2>2, <3>1, TornType
    <3> QED
      BY <1>2, <2>1, <2>4, <3>1, <3>2
         DEF LoadNext, ReadFails, Corrupted, TypeOK, Results, library
  <2>5. CASE ReadFile
    <3>1. env' \in [Parts -> BG_ENVDATA] /\ env_invalid' \in [Parts -> BOOLEAN]
      BY <2>1, <2>2, <2>5 DEF ReadFile, TypeOK
    <3>2. result' \in Results
      BY <2>5 DEF ReadFile, Corrupted, Results, TypeOK
    <3> QED BY <1>2, <2>1, <3>1, <3>2 DEF LoadNext, TypeOK, library
  <2> QED BY <1>2, <2>3, <2>4, <2>5 DEF LoadNext
<1>3. CASE LoadEnd
  BY <1>0, <1>3 DEF LoadEnd, TypeOK, Phases, library, loader
<1>4. CASE ScanNext
  <2>1. i \in Parts /\ i' \in 0 .. ENV_NUM_CONFIG_PARTS
    BY <1>4, SlotType DEF ScanNext, TypeOK
  <2>2. [rev |-> env[i].revision, idx |-> i] \in Found
    BY <2>1 DEF TypeOK, BG_ENVDATA, Found
  <2>3. latest' \in Found /\ pre_latest' \in Found
    BY <1>4, <2>2 DEF ScanNext, TypeOK
  <2> QED BY <1>4, <2>1, <2>3 DEF ScanNext, TypeOK, library, loader
<1>5. CASE ScanEnd
  BY <1>0, <1>5 DEF ScanEnd, TypeOK, Phases, library, loader
<1>6. CASE InitNext
  <2>1. i \in Parts /\ i' \in 0 .. ENV_NUM_CONFIG_PARTS
    BY <1>6, SlotType DEF InitNext, TypeOK
  <2>2. file[i].env \in BG_ENVDATA
    BY <2>1, RecordsAssumption DEF TypeOK, File
  <2>3. envdata' \in [Parts -> BG_ENVDATA]
    BY <1>6, <2>1, <2>2, ZeroEnvType DEF InitNext, TypeOK
  <2> QED BY <1>6, <2>1, <2>3 DEF InitNext, TypeOK, loader
<1>7. CASE InitEnd
  BY <1>0, <1>7 DEF InitEnd, TypeOK, Phases, library, loader
<1>8. CASE bgenv_open_latest
  <2>1. CASE i < ENV_NUM_CONFIG_PARTS
    <3>1. i \in Parts /\ i + 1 \in 0 .. ENV_NUM_CONFIG_PARTS
      BY <2>1, SlotType DEF TypeOK
    <3>2. [rev |-> envdata[i].revision, idx |-> i] \in Found
      BY <3>1 DEF TypeOK, BG_ENVDATA, Found
    <3> QED BY <1>8, <2>1, <3>1, <3>2 DEF bgenv_open_latest, TypeOK, loader
  <2>2. CASE ~(i < ENV_NUM_CONFIG_PARTS)
    BY <1>0, <1>8, <2>2 DEF bgenv_open_latest, TypeOK, Phases, loader
  <2> QED BY <2>1, <2>2
<1>9. CASE bgenv_open_oldest
  <2>1. CASE i < ENV_NUM_CONFIG_PARTS
    <3>1. i \in Parts /\ i + 1 \in 0 .. ENV_NUM_CONFIG_PARTS
      BY <2>1, SlotType DEF TypeOK
    <3>2. [rev |-> envdata[i].revision, idx |-> i] \in Found
      BY <3>1 DEF TypeOK, BG_ENVDATA, Found
    <3> QED BY <1>9, <2>1, <3>1, <3>2 DEF bgenv_open_oldest, TypeOK, loader
  <2>2. CASE ~(i < ENV_NUM_CONFIG_PARTS)
    BY <1>0, <1>9, <2>2 DEF bgenv_open_oldest, TypeOK, Phases, loader
  <2> QED BY <2>1, <2>2
<1>10. CASE UNCHANGED vars
  BY <1>10 DEF vars, TypeOK, loader, library
<1> QED
  BY <1>1, <1>2, <1>3, <1>4, <1>5, <1>6, <1>7, <1>8, <1>9, <1>10 DEF Next

-----------------------------------------------------------------------------
(* One more slot in a scan. *)

(* A later revision takes the lead, and one that is not later leaves it. *)
LEMMA BestAppend ==
    ASSUME NEW S, NEW n \in Nat, NEW rev, NEW b,
           \A k \in S : k \in Nat /\ k < n /\ rev[k] \in Nat,
           rev[n] \in Nat, rev[n] > 0, b.rev \in Nat, Best(S, rev, b)
    PROVE  /\ rev[n] > b.rev => Best(S \cup {n}, rev, [rev |-> rev[n], idx |-> n])
           /\ rev[n] <= b.rev => Best(S \cup {n}, rev, b) /\ b.idx \in S
<1>1. ASSUME rev[n] > b.rev
      PROVE  Best(S \cup {n}, rev, [rev |-> rev[n], idx |-> n])
  <2>1. \A k \in S : rev[k] < rev[n]
    <3>1. CASE S = {}
      BY <3>1
    <3>2. CASE S # {}
      BY <1>1, <3>2 DEF Best, IsFirstMax
    <3> QED BY <3>1, <3>2
  <2> QED BY <2>1 DEF Best, IsFirstMax
<1>2. ASSUME rev[n] <= b.rev
      PROVE  Best(S \cup {n}, rev, b) /\ b.idx \in S
  <2>1. S # {}
    BY <1>2 DEF Best, Nothing
  <2>2. IsFirstMax(S, rev, b.idx) /\ b.rev = rev[b.idx]
    BY <2>1 DEF Best
  <2>3. IsFirstMax(S \cup {n}, rev, b.idx)
    BY <1>2, <2>2 DEF IsFirstMax
  <2> QED BY <2>2, <2>3 DEF Best, IsFirstMax
<1> QED BY <1>1, <1>2

(* The mirror image, for the oldest. *)
LEMMA LeastAppend ==
    ASSUME NEW S, NEW n \in Nat, NEW rev, NEW b,
           \A k \in S : k \in Nat /\ k < n /\ rev[k] \in Nat,
           rev[n] \in Nat, b \in Nat, b \in S, IsFirstMin(S, rev, b)
    PROVE  /\ rev[n] < rev[b] => IsFirstMin(S \cup {n}, rev, n)
           /\ rev[n] >= rev[b] => IsFirstMin(S \cup {n}, rev, b)
BY DEF IsFirstMin

(* The slots the loops look at are numbers, and so are the revisions. *)
LEMMA Numbers ==
    ASSUME TypeOK
    PROVE  /\ \A k \in Parts : /\ k \in Nat /\ k < ENV_NUM_CONFIG_PARTS
                               /\ RevOf(env)[k] = env[k].revision
                               /\ RevOf(envdata)[k] = envdata[k].revision
                               /\ env[k].revision \in Nat
                               /\ envdata[k].revision \in Nat
                               /\ envdata[k].revision <= UINT32_MAX
           /\ latest.rev \in Nat /\ pre_latest.rev \in Nat
           /\ newest.rev \in Nat /\ oldest.rev \in Nat
           /\ i \in Nat
<1>1. \A k \in Parts : k \in Nat /\ k < ENV_NUM_CONFIG_PARTS
  BY PartsAssumption DEF Parts
<1>2. \A k \in Parts : /\ env[k].revision \in Nat /\ envdata[k].revision \in Nat
                       /\ envdata[k].revision <= UINT32_MAX
  BY RevisionAssumption DEF TypeOK, BG_ENVDATA, Revisions
<1>3. \A k \in Parts : /\ RevOf(env)[k] = env[k].revision
                       /\ RevOf(envdata)[k] = envdata[k].revision
  BY DEF TypeOK, RevOf
<1>4. /\ latest.rev \in Nat /\ pre_latest.rev \in Nat
      /\ newest.rev \in Nat /\ oldest.rev \in Nat /\ i \in Nat
  BY RevisionAssumption, PartsAssumption DEF TypeOK, Found, Revisions
<1> QED BY <1>1, <1>2, <1>3, <1>4

(* One iteration of the loader's scan. *)
LEMMA ScanStep ==
    ASSUME TypeOK, ScanNext, ScanInv(i)
    PROVE  ScanInv(i)'
<1> DEFINE S == LiveBelow(i)
           r == RevOf(env)
           this == [rev |-> env[i].revision, idx |-> i]
<1>0. /\ i \in Parts /\ i' = i + 1 /\ env' = env /\ env_invalid' = env_invalid
      /\ r' = r
  BY SlotType DEF ScanNext, TypeOK, loader
<1>1. /\ \A k \in S : k \in Nat /\ k < i /\ r[k] \in Nat
      /\ r[i] \in Nat /\ r[i] = env[i].revision /\ i \in Nat
      /\ latest.rev \in Nat /\ pre_latest.rev \in Nat
  BY <1>0, Numbers DEF LiveBelow
<1>2. LiveBelow(i)' = IF ~env_invalid[i] /\ env[i].revision > 0
                      THEN S \cup {i} ELSE S
  BY <1>0, Numbers DEF LiveBelow
<1>3. Best(S, r, latest) /\ Best(S \ {latest.idx}, r, pre_latest)
  BY DEF ScanInv
<1>4. i \notin S
  BY <1>1
<1>5. CASE env_invalid[i] \/ env[i].revision = 0
  <2>1. UNCHANGED <<latest, pre_latest>> /\ LiveBelow(i)' = S
    BY <1>1, <1>2, <1>5 DEF ScanNext
  <2> QED BY <1>0, <1>3, <2>1 DEF ScanInv
<1>6. CASE ~env_invalid[i] /\ env[i].revision > 0
  <2>0. LiveBelow(i)' = S \cup {i} /\ r[i] > 0
    BY <1>1, <1>2, <1>6
  <2>1. CASE this.rev > latest.rev
    <3>1. latest' = this /\ pre_latest' = latest
      BY <1>6, <2>1 DEF ScanNext
    <3>2. Best(S \cup {i}, r, [rev |-> r[i], idx |-> i])
      BY <1>1, <1>3, <2>0, <2>1, BestAppend
    <3>3. this = [rev |-> r[i], idx |-> i]
      BY <1>1
    <3>4. (S \cup {i}) \ {latest'.idx} = S
      BY <1>4, <3>1
    <3> HIDE DEF r, S, this
    <3> QED BY <1>0, <1>3, <2>0, <3>1, <3>2, <3>3, <3>4 DEF ScanInv, r
  <2>2. CASE ~(this.rev > latest.rev)
    <3>1. latest' = latest
      BY <2>2 DEF ScanNext
    <3>2. r[i] <= latest.rev
      BY <1>1, <2>2
    <3>3. Best(S \cup {i}, r, latest) /\ latest.idx \in S
      BY <1>1, <1>3, <2>0, <3>2, BestAppend
    <3>4. (S \cup {i}) \ {latest.idx} = (S \ {latest.idx}) \cup {i}
      BY <1>4, <3>3
    <3>5. CASE this.rev > pre_latest.rev
      <4>1. pre_latest' = this
        BY <1>6, <2>2, <3>5 DEF ScanNext
      <4>2. Best((S \ {latest.idx}) \cup {i}, r, [rev |-> r[i], idx |-> i])
        BY <1>1, <1>3, <2>0, <3>5, BestAppend
      <4>3. this = [rev |-> r[i], idx |-> i]
        BY <1>1
      <4> HIDE DEF r, S, this
      <4> QED BY <1>0, <2>0, <3>1, <3>3, <3>4, <4>1, <4>2, <4>3 DEF ScanInv, r
    <3>6. CASE ~(this.rev > pre_latest.rev)
      <4>1. pre_latest' = pre_latest
        BY <2>2, <3>6 DEF ScanNext
      <4>2. r[i] <= pre_latest.rev
        BY <1>1, <3>6
      <4>3. Best((S \ {latest.idx}) \cup {i}, r, pre_latest)
        BY <1>1, <1>3, <2>0, <4>2, BestAppend
      <4> HIDE DEF r, S, this
      <4> QED BY <1>0, <2>0, <3>1, <3>3, <3>4, <4>1, <4>3 DEF ScanInv, r
    <3> QED BY <3>5, <3>6
  <2> QED BY <2>1, <2>2
<1> QED BY <1>0, <1>1, <1>5, <1>6

(* One iteration of bgenv_open_latest. *)
LEMMA LatestStep ==
    ASSUME TypeOK, bgenv_open_latest, i < ENV_NUM_CONFIG_PARTS, LatestInv(i)
    PROVE  LatestInv(i)'
<1> DEFINE S == {k \in Parts : k < i /\ envdata[k].revision > 0}
           r == RevOf(envdata)
<1>0. /\ i \in Parts /\ i' = i + 1 /\ envdata' = envdata /\ r' = r
      /\ newest' = IF envdata[i].revision > newest.rev
                   THEN [rev |-> envdata[i].revision, idx |-> i] ELSE newest
  BY SlotType DEF bgenv_open_latest, TypeOK
<1>1. /\ \A k \in S : k \in Nat /\ k < i /\ r[k] \in Nat
      /\ r[i] \in Nat /\ r[i] = envdata[i].revision /\ i \in Nat
      /\ newest.rev \in Nat
  BY <1>0, Numbers
<1>2. {k \in Parts : k < i' /\ envdata'[k].revision > 0}
         = IF envdata[i].revision > 0 THEN S \cup {i} ELSE S
  BY <1>0, Numbers
<1>3. Best(S, r, newest)
  BY DEF LatestInv
<1>4. CASE envdata[i].revision > 0
  <2>1. Best(S \cup {i}, r, newest')
    <3>1. /\ r[i] > newest.rev => newest' = [rev |-> r[i], idx |-> i]
          /\ ~(r[i] > newest.rev) => newest' = newest /\ r[i] <= newest.rev
          /\ r[i] > 0
      BY <1>0, <1>1, <1>4
    <3> HIDE DEF S, r
    <3>2. /\ r[i] > newest.rev => Best(S \cup {i}, r, [rev |-> r[i], idx |-> i])
          /\ r[i] <= newest.rev => Best(S \cup {i}, r, newest)
      BY <1>1, <1>3, <3>1, BestAppend
    <3> QED BY <3>1, <3>2
  <2> HIDE DEF S
  <2> QED BY <1>0, <1>2, <1>4, <2>1 DEF LatestInv
<1>5. CASE ~(envdata[i].revision > 0)
  <2>1. newest' = newest
    BY <1>0, <1>1, <1>5
  <2> HIDE DEF S
  <2> QED BY <1>0, <1>2, <1>3, <1>5, <2>1 DEF LatestInv
<1> QED BY <1>4, <1>5

(* One iteration of bgenv_open_oldest. *)
LEMMA OldestStep ==
    ASSUME TypeOK, bgenv_open_oldest, i < ENV_NUM_CONFIG_PARTS, OldestInv(i)
    PROVE  OldestInv(i)'
<1> DEFINE S == {k \in Parts : k < i /\ envdata[k].revision < UINT32_MAX}
           r == RevOf(envdata)
           T == {k \in Parts : k < i' /\ envdata'[k].revision < UINT32_MAX}
<1>0. /\ i \in Parts /\ i' = i + 1 /\ envdata' = envdata /\ r' = r
      /\ oldest' = IF envdata[i].revision < oldest.rev
                   THEN [rev |-> envdata[i].revision, idx |-> i] ELSE oldest
  BY SlotType DEF bgenv_open_oldest, TypeOK
<1>1. /\ \A k \in S : k \in Nat /\ k < i /\ r[k] \in Nat /\ r[k] < UINT32_MAX
      /\ r[i] \in Nat /\ r[i] = envdata[i].revision /\ i \in Nat
      /\ r[i] <= UINT32_MAX /\ UINT32_MAX \in Nat
  BY <1>0, Numbers, RevisionAssumption
<1>2. T = IF r[i] < UINT32_MAX THEN S \cup {i} ELSE S
  <2>1. T = {k \in Parts : k < i + 1 /\ envdata[k].revision < UINT32_MAX}
    BY <1>0
  <2>2. \A k \in Parts : k < i + 1 <=> k < i \/ k = i
    BY <1>1, Numbers
  <2> HIDE DEF T, r
  <2> QED BY <1>0, <1>1, <2>1, <2>2
<1>3. /\ S = {} => oldest = [rev |-> UINT32_MAX, idx |-> 0]
      /\ S # {} => IsFirstMin(S, r, oldest.idx) /\ oldest.rev = r[oldest.idx]
  BY DEF OldestInv
<1> SUFFICES /\ T = {} => oldest' = [rev |-> UINT32_MAX, idx |-> 0]
             /\ T # {} => IsFirstMin(T, r, oldest'.idx) /\ oldest'.rev = r[oldest'.idx]
  BY <1>0 DEF OldestInv
<1> HIDE DEF S, T, r
<1>4. CASE S = {}
  <2>1. CASE r[i] < UINT32_MAX
    <3>1. T = {i} /\ oldest'.idx = i /\ oldest'.rev = r[i]
      BY <1>0, <1>1, <1>2, <1>3, <1>4, <2>1
    <3> QED BY <1>1, <3>1 DEF IsFirstMin
  <2>2. CASE ~(r[i] < UINT32_MAX)
    BY <1>0, <1>1, <1>2, <1>3, <1>4, <2>2
  <2> QED BY <2>1, <2>2
<1>5. CASE S # {}
  <2>1. oldest.idx \in S /\ IsFirstMin(S, r, oldest.idx) /\ oldest.rev = r[oldest.idx]
    BY <1>3, <1>5 DEF IsFirstMin
  <2>2. oldest.idx \in Nat /\ oldest.rev \in Nat /\ oldest.rev < UINT32_MAX
    BY <1>1, <2>1
  <2>3. CASE r[i] < oldest.rev
    <3>1. oldest'.idx = i /\ oldest'.rev = r[i] /\ T = S \cup {i}
      BY <1>0, <1>1, <1>2, <2>2, <2>3
    <3>2. IsFirstMin(S \cup {i}, r, i)
      BY <1>1, <2>1, <2>2, <2>3, LeastAppend
    <3> QED BY <3>1, <3>2
  <2>4. CASE ~(r[i] < oldest.rev)
    <3>1. oldest' = oldest
      BY <1>0, <1>1, <2>4
    <3>2. IsFirstMin(S \cup {i}, r, oldest.idx)
      <4>1. r[i] >= r[oldest.idx]
        BY <1>1, <2>1, <2>2, <2>4
      <4> QED BY <1>1, <2>1, <2>2, <4>1, LeastAppend
    <3> QED BY <1>2, <1>5, <2>1, <3>1, <3>2
  <2> QED BY <2>3, <2>4
<1> QED BY <1>4, <1>5

-----------------------------------------------------------------------------
(* The loops. *)

(* Before the first iteration. *)
LEMMA LoopInit == Init => LoopInv
BY DEF Init, LoopInv, LoaderDone

(* Each iteration extends what its loop has covered by one slot. *)
LEMMA LoopStep ==
    ASSUME TypeInv, LoopInv, [Next]_vars
    PROVE  LoopInv'
<1>0. TypeOK
  BY DEF TypeInv
<1>1. CASE Enumerate
  <2>1. ASSUME pc' = "init" PROVE ScanInv(ENV_NUM_CONFIG_PARTS)'
    <3>1. /\ env' = [k \in Parts |-> ZeroEnv] /\ latest' = Nothing
          /\ pre_latest' = Nothing
      BY <1>1 DEF Enumerate, LoopInv
    <3>2. LiveBelow(ENV_NUM_CONFIG_PARTS)' = {}
      BY <3>1, ZeroEnvType DEF LiveBelow
    <3> QED BY <3>1, <3>2 DEF ScanInv, Best
  <2> QED BY <1>1, <2>1 DEF Enumerate, LoopInv, LoaderDone, library
<1>2. CASE LoadNext
  BY <1>2 DEF LoadNext, LoopInv, LoaderDone, library
<1>3. CASE LoadEnd
  <2>1. /\ pc = "load" /\ pc' = "scan" /\ i' = 0
        /\ latest' = Nothing /\ pre_latest' = Nothing
        /\ newest' = newest /\ oldest' = oldest
    BY <1>3 DEF LoadEnd, LoopInv, library
  <2>2. LiveBelow(i)' = {}
    BY <1>0, <2>1, Numbers DEF LiveBelow
  <2>3. ScanInv(i)'
    BY <2>1, <2>2 DEF ScanInv, Best
  <2> QED BY <2>1, <2>3 DEF LoopInv, LoaderDone
<1>4. CASE ScanNext
  <2>1. ScanInv(i)'
    BY <1>0, <1>4, ScanStep DEF LoopInv, ScanNext
  <2> QED BY <1>4, <2>1 DEF ScanNext, LoopInv, LoaderDone, library
<1>5. CASE ScanEnd
  <2>1. ScanInv(ENV_NUM_CONFIG_PARTS)'
    BY <1>5 DEF ScanEnd, LoopInv, ScanInv, LiveBelow, loader
  <2> QED BY <1>5, <2>1 DEF ScanEnd, LoopInv, LoaderDone, library
<1>6. ASSUME LoaderDone, UNCHANGED <<loader, latest, pre_latest>>
      PROVE  ScanInv(ENV_NUM_CONFIG_PARTS)'
  BY <1>6 DEF LoopInv, ScanInv, LiveBelow, loader
<1>7. CASE InitNext
  BY <1>6, <1>7 DEF InitNext, LoopInv, LoaderDone
<1>8. CASE InitEnd
  <2>1. /\ pc = "init" /\ pc' = "latest" /\ i' = 0
        /\ newest' = Nothing /\ oldest' = oldest
    BY <1>8 DEF InitEnd, LoopInv, library
  <2>2. LatestInv(i)'
    BY <1>0, <2>1, Numbers DEF LatestInv, Best
  <2> QED BY <1>6, <1>8, <2>1, <2>2 DEF InitEnd, LoopInv, LoaderDone
<1>9. CASE bgenv_open_latest
  <2>0. LoaderDone /\ UNCHANGED <<loader, latest, pre_latest>> /\ oldest' = oldest
        /\ pc = "latest" /\ envdata' = envdata
    BY <1>9 DEF bgenv_open_latest, LoaderDone
  <2>1. CASE i < ENV_NUM_CONFIG_PARTS
    <3>1. LatestInv(i)'
      BY <1>0, <1>9, <2>1, LatestStep DEF bgenv_open_latest, LoopInv
    <3>2. pc' = "latest"
      BY <1>9, <2>1 DEF bgenv_open_latest
    <3> QED BY <1>6, <2>0, <3>1, <3>2 DEF LoopInv
  <2>2. CASE ~(i < ENV_NUM_CONFIG_PARTS)
    <3>1. pc' = "oldest" /\ i' = 0 /\ newest' = newest /\ i = ENV_NUM_CONFIG_PARTS
      BY <1>0, <1>9, <2>2, PartsAssumption DEF bgenv_open_latest, TypeOK
    <3>2. LatestInv(ENV_NUM_CONFIG_PARTS)'
      BY <2>0, <3>1 DEF LoopInv, LatestInv
    <3>3. OldestInv(i)'
      <4>1. \A k \in Parts : ~(k < i')
        BY <1>0, <3>1, Numbers
      <4>2. oldest' = [rev |-> UINT32_MAX, idx |-> 0]
        BY <2>0 DEF LoopInv
      <4> QED BY <4>1, <4>2 DEF OldestInv
    <3> QED BY <1>6, <2>0, <3>1, <3>2, <3>3 DEF LoopInv
  <2> QED BY <2>1, <2>2
<1>10. CASE bgenv_open_oldest
  <2>0. /\ LoaderDone /\ UNCHANGED <<loader, latest, pre_latest>> /\ newest' = newest
        /\ pc = "oldest" /\ envdata' = envdata
    BY <1>10 DEF bgenv_open_oldest, LoaderDone
  <2>1. LatestInv(ENV_NUM_CONFIG_PARTS)'
    BY <2>0 DEF LoopInv, LatestInv
  <2>2. CASE i < ENV_NUM_CONFIG_PARTS
    <3>1. OldestInv(i)'
      BY <1>0, <1>10, <2>2, OldestStep DEF bgenv_open_oldest, LoopInv
    <3>2. pc' = "oldest"
      BY <1>10, <2>2 DEF bgenv_open_oldest
    <3> QED BY <1>6, <2>0, <2>1, <3>1, <3>2 DEF LoopInv
  <2>3. CASE ~(i < ENV_NUM_CONFIG_PARTS)
    <3>1. pc' = "done" /\ oldest' = oldest /\ i = ENV_NUM_CONFIG_PARTS
      BY <1>0, <1>10, <2>3, PartsAssumption DEF bgenv_open_oldest, TypeOK
    <3>2. OldestInv(ENV_NUM_CONFIG_PARTS)'
      BY <2>0, <3>1 DEF LoopInv, OldestInv
    <3> QED BY <1>6, <2>0, <2>1, <3>1, <3>2 DEF LoopInv
  <2> QED BY <2>2, <2>3
<1>11. CASE UNCHANGED vars
  BY <1>11 DEF vars, loader, library, LoopInv, LoaderDone, ScanInv, LiveBelow,
               LatestInv, OldestInv
<1> QED
  BY <1>1, <1>2, <1>3, <1>4, <1>5, <1>7, <1>8, <1>9, <1>10, <1>11 DEF Next

(* The loop invariants hold in every reachable state. *)
THEOREM LoopInvariance == Spec => [](TypeInv /\ LoopInv)
<1>1. Init => TypeInv /\ LoopInv
  BY InitTypes, LoopInit
<1>2. TypeInv /\ LoopInv /\ [Next]_vars => (TypeInv /\ LoopInv)'
  BY NextTypes, LoopStep
<1> QED BY <1>1, <1>2, PTL DEF Spec

(***************************************************************************)
(* For every number of config partitions and all files, the single pass of *)
(* load_config finds the latest and the second latest live record, as      *)
(* BootGuard has it.                                                       *)
(***************************************************************************)
THEOREM LoaderScan == Spec => []ScanCorrect
<1>1. TypeInv /\ LoopInv => ScanCorrect
  <2> SUFFICES ASSUME TypeOK, ScanInv(ENV_NUM_CONFIG_PARTS)
               PROVE  /\ IsBootLatest(Seen, Parts, latest.idx)
                      /\ IsBootPreLatest(Seen, Parts, latest.idx, pre_latest.idx)
    BY DEF TypeInv, LoopInv, ScanCorrect
  <2> DEFINE S == LiveBelow(ENV_NUM_CONFIG_PARTS)
  <2>1. S = Live(Seen, Parts)
    BY Numbers DEF LiveBelow, Live, Seen
  <2>2. \A k \in Parts : FileRev(Seen)[k] = RevOf(env)[k]
    BY Numbers DEF FileRev, Seen
  <2>3. IsFirst(Parts, 0)
    BY PartsAssumption DEF IsFirst, Parts
  <2>4. ASSUME NEW T \in SUBSET Parts, NEW k, IsFirstMax(T, RevOf(env), k)
        PROVE  IsFirstMax(T, FileRev(Seen), k)
    BY <2>2, <2>4 DEF IsFirstMax
  <2>5. S \subseteq Parts
    BY DEF LiveBelow
  <2>6. Best(S, RevOf(env), latest) /\ Best(S \ {latest.idx}, RevOf(env), pre_latest)
    BY DEF ScanInv
  <2> HIDE DEF S
  <2>7. IsBootLatest(Seen, Parts, latest.idx)
    BY <2>1, <2>3, <2>4, <2>5, <2>6 DEF IsBootLatest, Best, Nothing
  <2>8. IsBootPreLatest(Seen, Parts, latest.idx, pre_latest.idx)
    BY <2>1, <2>3, <2>4, <2>5, <2>6 DEF IsBootPreLatest, Best, Nothing
  <2> QED BY <2>7, <2>8
<1> QED BY <1>1, LoopInvariance, PTL

(***************************************************************************)
(* The same for the two scans of the library.                              *)
(***************************************************************************)
THEOREM LibraryScans == Spec => []LibraryScansCorrect
<1>1. TypeInv /\ LoopInv => LibraryScansCorrect
  <2> SUFFICES ASSUME TypeOK, LatestInv(ENV_NUM_CONFIG_PARTS),
                      OldestInv(ENV_NUM_CONFIG_PARTS)
               PROVE  IsLatest(envdata, newest.idx) /\ IsOldest(envdata, oldest.idx)
    BY DEF TypeInv, LoopInv, LibraryScansCorrect
  <2>0. DOMAIN envdata = Parts
    BY DEF TypeOK
  <2> DEFINE A == {k \in Parts : k < ENV_NUM_CONFIG_PARTS /\ envdata[k].revision > 0}
             B == {k \in Parts : /\ k < ENV_NUM_CONFIG_PARTS
                                 /\ envdata[k].revision < UINT32_MAX}
  <2>1. A = {k \in DOMAIN envdata : envdata[k].revision > 0}
    BY <2>0, Numbers
  <2>2. B = {k \in DOMAIN envdata : envdata[k].revision < UINT32_MAX}
    BY <2>0, Numbers
  <2>3. Best(A, RevOf(envdata), newest)
    BY DEF LatestInv
  <2>4. /\ B = {} => oldest = [rev |-> UINT32_MAX, idx |-> 0]
        /\ B # {} => IsFirstMin(B, RevOf(envdata), oldest.idx)
    BY DEF OldestInv
  <2> HIDE DEF A, B
  <2>5. IsLatest(envdata, newest.idx)
    <3>1. IF A = {} THEN newest.idx = 0 ELSE IsFirstMax(A, RevOf(envdata), newest.idx)
      BY <2>3 DEF Best, Nothing
    <3> QED BY <2>1, <3>1 DEF IsLatest
  <2>6. IsOldest(envdata, oldest.idx)
    <3>1. IF B = {} THEN oldest.idx = 0 ELSE IsFirstMin(B, RevOf(envdata), oldest.idx)
      BY <2>4
    <3> QED BY <2>2, <3>1 DEF IsOldest
  <2> QED BY <2>5, <2>6
<1> QED BY <1>1, LoopInvariance, PTL

-----------------------------------------------------------------------------
(* What load_config reports, and what loader and library agree on.         *)

(* The loader holds the files of the slots below n as they are. *)
ReadBelow(n) ==
    \A k \in Parts : k < n => env[k] = file[k].env /\ file[k].crc /\ ~env_invalid[k]

(* As long as the loader reports success, it has read all it looked at.    *)
ReportInv ==
    /\ pc = "enumerate" => i = 0 /\ result = "BG_CONFIG_ERROR"
    /\ pc = "load" /\ result = "BG_SUCCESS" =>
           numHandles = ENV_NUM_CONFIG_PARTS /\ ReadBelow(i)
    /\ pc \notin {"enumerate", "load"} /\ result = "BG_SUCCESS" =>
           ReadBelow(ENV_NUM_CONFIG_PARTS)

(* One iteration of the loop that reads the files: success is kept only if *)
(* the file was read and its CRC is right.                                 *)
LEMMA ReadStep ==
    ASSUME TypeInv, LoadNext, ReadBelow(i), result' = "BG_SUCCESS"
    PROVE  result = "BG_SUCCESS" /\ ReadBelow(i)'
<1>0. TypeOK /\ i \in Parts /\ i' = i + 1 /\ file' = file
  <2>1. i < ENV_NUM_CONFIG_PARTS
    BY PartsAssumption DEF TypeInv, TypeOK, LoadNext
  <2> QED BY <2>1, SlotType DEF TypeInv, TypeOK, LoadNext
<1>1. ReadFile /\ file[i].crc /\ result' = result
  BY DEF LoadNext, OpenFails, ReadFails, ReadFile, Corrupted
<1>2. /\ env' = [env EXCEPT ![i] = file[i].env]
      /\ env_invalid' = [env_invalid EXCEPT ![i] = FALSE]
  BY <1>1 DEF ReadFile
<1>3. \A k \in Parts : k < i + 1 <=> k < i \/ k = i
  BY <1>0, Numbers
<1>4. ASSUME NEW k \in Parts, k < i + 1
      PROVE  env'[k] = file[k].env /\ file[k].crc /\ ~env_invalid'[k]
  <2>1. CASE k = i
    BY <1>0, <1>1, <1>2, <2>1 DEF TypeOK
  <2>2. CASE k # i
    BY <1>0, <1>2, <1>3, <1>4, <2>2 DEF TypeOK, ReadBelow
  <2> QED BY <2>1, <2>2
<1> QED BY <1>0, <1>1, <1>4 DEF ReadBelow

(* Each file that cannot be read is remembered in the result of            *)
(* load_config.                                                            *)
LEMMA ReportStep ==
    ASSUME TypeInv, ReportInv, [Next]_vars
    PROVE  ReportInv'
<1>1. CASE Enumerate
  <2>1. ReadBelow(0)'
    BY Numbers DEF ReadBelow, TypeInv
  <2> QED BY <1>1, <2>1, PartsAssumption DEF Enumerate, ReportInv, ReadBelow, TypeInv, TypeOK
<1>2. CASE LoadNext
  <2>1. pc = "load" /\ pc' = "load" /\ numHandles' = numHandles
    BY <1>2 DEF LoadNext
  <2>2. ASSUME result' = "BG_SUCCESS" PROVE result = "BG_SUCCESS"
    BY <1>2, <2>2 DEF LoadNext, OpenFails, ReadFails, ReadFile, Corrupted
  <2> QED BY <1>2, <2>1, <2>2, ReadStep DEF ReportInv
<1>3. CASE LoadEnd
  <2>1. pc = "load" /\ pc' = "scan" /\ UNCHANGED <<file, loader>> /\ i >= numHandles
    BY <1>3 DEF LoadEnd
  <2>2. ASSUME result = "BG_SUCCESS" PROVE ReadBelow(ENV_NUM_CONFIG_PARTS)
    <3>1. i = ENV_NUM_CONFIG_PARTS /\ ReadBelow(i)
      BY <2>1, <2>2, PartsAssumption DEF ReportInv, TypeInv, TypeOK
    <3> QED BY <3>1
  <2> QED BY <2>1, <2>2 DEF ReportInv, ReadBelow, loader
<1>4. ASSUME UNCHANGED <<file, loader>>, pc \notin {"enumerate", "load"},
             pc' \notin {"enumerate", "load"}
      PROVE  ReportInv'
  BY <1>4 DEF ReportInv, ReadBelow, loader
<1>5. CASE ScanNext \/ ScanEnd \/ InitNext \/ InitEnd \/ bgenv_open_latest
           \/ bgenv_open_oldest
  BY <1>4, <1>5 DEF ScanNext, ScanEnd, InitNext, InitEnd, bgenv_open_latest,
                    bgenv_open_oldest
<1>6. CASE UNCHANGED vars
  BY <1>6 DEF vars, loader, ReportInv, ReadBelow
<1> QED BY <1>1, <1>2, <1>3, <1>5, <1>6 DEF Next

(***************************************************************************)
(* For every number of config partitions and all files: when load_config   *)
(* reports success, no partition was missing, none failed to open or was   *)
(* read in part, and no CRC was wrong.                                     *)
(***************************************************************************)
THEOREM Report == Spec => [](ReportInv /\ SuccessMeansComplete)
<1>1. Init => ReportInv
  BY DEF Init, ReportInv
<1>2. TypeInv /\ ReportInv /\ [Next]_vars => ReportInv'
  BY ReportStep
<1>3. TypeInv /\ ReportInv => SuccessMeansComplete
  BY Numbers DEF ReportInv, SuccessMeansComplete, LoaderDone, ReadBelow, TypeInv
<1> QED BY <1>1, <1>2, <1>3, LoopInvariance, PTL DEF Spec

(* The first maximum of a set is unique. *)
LEMMA FirstMaxUnique ==
    ASSUME NEW S, NEW r, NEW a, NEW b,
           \A k \in S : k \in Nat /\ r[k] \in Nat,
           IsFirstMax(S, r, a), IsFirstMax(S, r, b)
    PROVE  a = b
BY DEF IsFirstMax

(***************************************************************************)
(* For every number of config partitions and all files: when the loader    *)
(* reports success and the library could read every file too, both take    *)
(* the same record for the latest, if any has a revision at all.           *)
(***************************************************************************)
THEOREM Agreement == Spec => []SameLatest
<1>1. TypeInv /\ LoopInv /\ SuccessMeansComplete => SameLatest
  <2> SUFFICES ASSUME TypeOK, LoopInv, SuccessMeansComplete, pc = "done",
                      result = "BG_SUCCESS",
                      \A k \in Parts : envdata[k] = file[k].env,
                      \E k \in Parts : file[k].env.revision > 0
               PROVE  latest.idx = newest.idx
    BY DEF TypeInv, SameLatest
  <2> DEFINE S == {k \in Parts : file[k].env.revision > 0}
             r == [k \in Parts |-> file[k].env.revision]
  <2>1. \A k \in Parts : env[k] = file[k].env /\ ~env_invalid[k]
    BY DEF SuccessMeansComplete, LoaderDone
  <2>2. DOMAIN env = Parts /\ DOMAIN envdata = Parts
    BY DEF TypeOK
  <2>3. RevOf(env) = r /\ RevOf(envdata) = r
    BY <2>1, <2>2 DEF RevOf
  <2>4. LiveBelow(ENV_NUM_CONFIG_PARTS) = S
    BY <2>1, Numbers DEF LiveBelow
  <2>5. {k \in Parts : k < ENV_NUM_CONFIG_PARTS /\ envdata[k].revision > 0} = S
    BY Numbers
  <2>6. \A k \in S : k \in Nat /\ r[k] \in Nat
    BY <2>1, Numbers
  <2>7. S # {}
    OBVIOUS
  <2>8. ScanInv(ENV_NUM_CONFIG_PARTS) /\ LatestInv(ENV_NUM_CONFIG_PARTS)
    BY DEF LoopInv, LoaderDone
  <2> HIDE DEF S, r
  <2>9. IsFirstMax(S, r, latest.idx) /\ IsFirstMax(S, r, newest.idx)
    BY <2>3, <2>4, <2>5, <2>7, <2>8 DEF ScanInv, LatestInv, Best
  <2> QED BY <2>6, <2>9, FirstMaxUnique
<1> QED BY <1>1, LoopInvariance, Report, PTL
=============================================================================

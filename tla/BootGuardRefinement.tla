------------------------ MODULE BootGuardRefinement ------------------------
(***************************************************************************)
(* BootGuard implements SafeUpdate on sound media: RInv is inductive, every *)
(* step that keeps it is a step of SafeUpdate or leaves its variables as   *)
(* they are, and it implies MarkedBeforeStart and OutcomeReported.         *)
(***************************************************************************)
EXTENDS BootGuardRefines, BootGuardProofs

(***************************************************************************)
(* Part 1: what IInv says of the confirmed record and of the update.       *)
(***************************************************************************)

(* The newest confirmed record is g. *)
LEMMA FallbackIs ==
    \A g, u, i \in Parts : TypeOK /\ Anchor(disk, g, u) => (IsFallback(i) <=> i = g)
<1> SUFFICES ASSUME NEW g \in Parts, NEW u \in Parts, NEW i \in Parts,
                    TypeOK, Anchor(disk, g, u)
             PROVE  IsFallback(i) <=> i = g
  OBVIOUS
<1>1. disk \in [Parts -> CfgFile] /\ Good(disk[g])
  BY DEF TypeOK, Anchor
<1>2. \A j \in Parts : disk[j].env.revision \in Nat
  BY <1>1, FileFields
<1>3. \A j \in Parts \ {g} : Good(disk[j]) => disk[j].env.revision < disk[g].env.revision
  BY UStateValues DEF Anchor, Good, IsLive, Older, Newer, PendingEnv
<1> QED BY <1>1, <1>2, <1>3 DEF IsFallback

(* The same in the next state. *)
LEMMA FallbackIsNext ==
    (\A g, u, i \in Parts : TypeOK /\ Anchor(disk, g, u) => (IsFallback(i) <=> i = g))'
BY FallbackIs, PTL

(* Only u can be an update, and then it is newer than g. *)
LEMMA UpdateIs ==
    \A g, u, i \in Parts : TypeOK /\ Anchor(disk, g, u) /\ IsUpdate(i) =>
        i = u /\ IsLive(disk[u]) /\ Newer(disk[u], disk[g])
<1> SUFFICES ASSUME NEW g \in Parts, NEW u \in Parts, NEW i \in Parts,
                    TypeOK, Anchor(disk, g, u), IsUpdate(i)
             PROVE  i = u /\ IsLive(disk[u]) /\ Newer(disk[u], disk[g])
  OBVIOUS
<1>1. IsLive(disk[i]) /\ ~Good(disk[i])
  BY UStateValues DEF IsUpdate, Finished, IsLive, Good
<1>2. i = u
  BY <1>1 DEF Anchor, Older
<1> QED BY <1>1, <1>2 DEF Anchor, Older

(* The second latest record behind u is g. *)
LEMMA PreLatestIsAnchor ==
    ASSUME NEW files \in [Parts -> CfgFile], NEW g \in Parts, NEW u \in Parts,
           Anchor(files, g, u), NEW p \in Parts,
           IsBootPreLatest(files, Parts, u, p)
    PROVE  p = g
<1>1. g \in Live(files, Parts) \ {u}
  BY AnchorLive DEF Anchor
<1>2. /\ p \in Live(files, Parts) \ {u}
      /\ FileRev(files)[g] <= FileRev(files)[p]
  BY <1>1 DEF IsBootPreLatest, IsFirstMax
<1>3. files[g].env.revision <= files[p].env.revision
  BY <1>2 DEF FileRev
<1>4. \A j \in Parts : files[j].env.revision \in Nat
  BY FileFields
<1> QED BY <1>2, <1>3, <1>4 DEF Anchor, Older, Live, IsLive

(***************************************************************************)
(* Part 2: RInv is inductive.                                              *)
(***************************************************************************)

(* The part of RInv that IInv does not have. *)
Plan == AllButOneGood /\ Named /\ Marking /\ Chosen /\ OnTrial /\ Editing

(* load_config reads all files and decides. *)
LEMMA LoadConfigPlan ==
    ASSUME RInv, SoundMedia, LoadConfig
    PROVE  /\ Plan'
           /\ \/ mode' = "save"
              \/ mode' = "probe" /\ \A i \in Parts : ~IsUpdate(i)
<1>0. /\ TypeOK /\ disk \in [Parts -> CfgFile] /\ TrialWorks
      /\ mode = "load" /\ UNCHANGED <<disk, armed, tool>>
  BY DEF RInv, IInv, TypeOK, LoadConfig
<1>1. PICK g \in Parts, u \in Parts : Anchor(disk, g, u)
  BY DEF RInv, IInv, Core, CoreOf
<1>a. PICK l \in Parts, p \in Parts : \E cut : load_config(Parts, Loaded(Parts, cut), l, p)
  BY DEF LoadConfig, SoundMedia, CarefulOperator
<1>2. PICK cut : load_config(Parts, Loaded(Parts, cut), l, p)
  BY <1>a
<1>3. Loaded(Parts, cut) = disk
  BY <1>0 DEF Loaded
<1> DEFINE e == disk[l].env
           b == BootedPart(e, l, p)
<1>4. /\ IsBootLatest(disk, Parts, l) /\ IsBootPreLatest(disk, Parts, l, p)
      /\ bl'.latest = l /\ bl'.part = b /\ bl'.env = SavedEnv(e)
      /\ bl'.payload = disk[b].env.kernelfile
      /\ bl'.ustate = SavedEnv(e).ustate
      /\ mode' = IF NeedsSave(e) THEN "save" ELSE "probe"
  BY <1>2, <1>3 DEF load_config
<1>5. e \in BG_ENVDATA
  BY <1>0 DEF CfgFile
<1>6. tool.pc = "idle" /\ ~tool.truncated
  BY <1>0 DEF TrialWorks, RInv, Editing
<1>7. AllButOneGood' /\ OnTrial' /\ Editing'
  BY <1>0, <1>4, <1>6 DEF RInv, AllButOneGood, OnTrial, Editing
<1>8. \A i \in Parts : /\ IsFallback(i)' <=> IsFallback(i)
                       /\ IsUpdate(i)' <=> IsUpdate(i)
  BY <1>0 DEF IsFallback, IsUpdate, Finished
<1>9. IsFallback(g) /\ disk[g].intact
  BY <1>0, <1>1, FallbackIs DEF Anchor, Good
<1>10. CASE NeedsSave(e)
  <2>0. Named'
    <3>1. IsLive(disk[l])
      BY <1>0, <1>1, <1>4, LatestIs, AnchorLive DEF Anchor
    <3>2. SavedEnv(e).kernelfile = e.kernelfile
      BY <1>5 DEF SavedEnv, BG_ENVDATA
    <3> HIDE DEF e
    <3>3. disk[l].env.kernelfile \in Kernels
      BY <3>1 DEF RInv, Named
    <3> QED BY <1>0, <1>4, <3>2, <3>3 DEF RInv, Named, e
  <2>1. l = u /\ IsLive(disk[u]) /\ Newer(disk[u], disk[g])
    BY <1>0, <1>1, <1>4, <1>10, LatestIs, UStateValues DEF Anchor, Good, NeedsSave
  <2>2. e.in_progress = 0 /\ e.ustate \in {USTATE_INSTALLED, USTATE_TESTING}
    BY <1>5, <1>10 DEF NeedsSave, BG_ENVDATA
  <2>3. IsUpdate(l)
    BY <2>1, <2>2 DEF IsUpdate, Finished, IsLive
  <2>4. p = g
    BY <1>0, <1>1, <1>4, <2>1, PreLatestIsAnchor
  <2>5. CASE e.ustate = USTATE_INSTALLED
    <3>1. b = l /\ SavedEnv(e) = [e EXCEPT !.ustate = USTATE_TESTING]
      BY <2>2, <2>5, UStateValues DEF BootedPart, SavedEnv
    <3>2. SavedEnv(e).ustate = USTATE_TESTING /\ SavedEnv(e).kernelfile = e.kernelfile
      BY <1>5, <3>1 DEF BG_ENVDATA
    <3>3. Marking'
      BY <1>0, <1>4, <1>8, <1>10, <2>3, <3>1, <3>2 DEF Marking
    <3> QED BY <1>4, <1>7, <1>10, <2>0, <3>3 DEF Plan, Chosen
  <2>6. CASE e.ustate = USTATE_TESTING
    <3>1. b = g
      BY <2>4, <2>6 DEF BootedPart
    <3>2. SavedEnv(e).ustate = USTATE_FAILED /\ SavedEnv(e).revision = REVISION_FAILED
      BY <1>5, <2>2, <2>6 DEF SavedEnv, BG_ENVDATA
    <3>3. Marking'
      BY <1>0, <1>4, <1>8, <1>9, <1>10, <2>3, <3>1, <3>2 DEF Marking
    <3> QED BY <1>4, <1>7, <1>10, <2>0, <3>3 DEF Plan, Chosen
  <2> QED BY <2>2, <2>5, <2>6
<1>11. CASE ~NeedsSave(e)
  <2>1. \A i \in Parts : ~IsUpdate(i)
    <3> SUFFICES ASSUME NEW i \in Parts, IsUpdate(i) PROVE FALSE
      OBVIOUS
    <3>1. i = u /\ IsLive(disk[u]) /\ Newer(disk[u], disk[g])
      BY <1>0, <1>1, UpdateIs
    <3>2. l = u
      BY <1>0, <1>1, <1>4, <3>1, LatestIs
    <3> QED BY <1>11, <3>1, <3>2 DEF NeedsSave, IsUpdate, Finished
  <2>2. l \in {g, u} /\ (l = u => Newer(disk[u], disk[g]))
    BY <1>0, <1>1, <1>4, LatestIs DEF Anchor
  <2>3. b = g /\ SavedEnv(e).ustate = USTATE_OK
    <3>1. CASE l = g
      BY <1>1, <3>1, UStateValues DEF BootedPart, SavedEnv, Anchor, Good
    <3>2. CASE l = u
      <4>1. e.in_progress = 1 /\ e.ustate = USTATE_OK
        BY <1>11, <2>2, <3>2 DEF Newer, PendingEnv, NeedsSave
      <4>2. p = g
        BY <1>0, <1>1, <1>4, <3>2, PreLatestIsAnchor
      <4> QED BY <4>1, <4>2 DEF BootedPart, SavedEnv
    <3> QED BY <2>2, <3>1, <3>2
  <2> HIDE DEF b, e
  <2>4. Chosen'
    BY <1>0, <1>4, <1>8, <1>9, <2>1, <2>3, UStateValues DEF Chosen
  <2>5. Named'
    BY <1>0, <1>4, <1>11 DEF RInv, Named
  <2> QED BY <1>4, <1>7, <1>11, <2>1, <2>4, <2>5 DEF Plan, Marking
<1> QED BY <1>10, <1>11

(* The loader marks the update. *)
LEMMA SavePlan ==
    ASSUME RInv, SoundMedia, SaveBegin \/ SaveEnd
    PROVE  Plan'
<1>0. TypeOK /\ disk \in [Parts -> CfgFile] /\ bl \in LoaderState /\ TrialWorks
  BY DEF RInv, IInv, TypeOK
<1>1. PICK g \in Parts, u \in Parts : CoreOf(g, u)
  BY DEF RInv, IInv, Core
<1>2. /\ mode \in {"save", "saving"} /\ UNCHANGED <<bl, armed, tool>>
      /\ mode' \in {"saving", "probe"}
  BY DEF SaveBegin, SaveEnd
<1>3. Anchor(disk, g, u) /\ Saving(g, u) /\ bl.latest = u /\ g # u
  BY <1>1, <1>2 DEF CoreOf, Saving, Anchor
<1>4. tool.pc = "idle" /\ ~tool.truncated
  BY <1>0, <1>2 DEF TrialWorks, RInv, Editing
<1>5. ~Good(disk[u])
  BY <1>2, <1>3, UStateValues DEF RInv, Marking, IsUpdate, Finished, Good
<1>6. \A i \in Parts \ {u} : Good(disk[i])
  BY <1>5 DEF RInv, AllButOneGood
<1>7. PICK f : /\ disk' = [disk EXCEPT ![u] = f]
               /\ IsLive(f) => Newer(f, disk[g])
               /\ mode = "save" => mode' = "saving" /\ ~f.intact
               /\ mode = "saving" => mode' = "probe" /\ f = Intact(bl.env)
  <2>1. CASE SaveBegin
    <3>1. PICK f \in TornFiles(disk[bl.latest].env, bl.env) :
              disk' = [disk EXCEPT ![bl.latest] = f]
      BY <2>1 DEF SaveBegin
    <3>2. ~f.intact
      BY <1>0, <3>1, TornType DEF LoaderState, CfgFile
    <3> QED BY <1>3, <2>1, <3>1, <3>2 DEF SaveBegin, IsLive
  <2>2. CASE SaveEnd
    <3>1. IsLive(Intact(bl.env)) => Newer(Intact(bl.env), disk[g])
      BY <1>3 DEF IsLive, Intact, Saving, Newer, PendingEnv
    <3> QED BY <1>3, <2>2, <3>1 DEF SaveEnd
  <2> QED BY <2>1, <2>2
<1>8. disk'[u] = f /\ \A i \in Parts \ {u} : disk'[i] = disk[i]
  BY <1>0, <1>7
<1>9. Anchor(disk, g, u)' /\ TypeOK'
  BY <1>0, <1>3, <1>7, ReplaceU, LoaderTypes DEF LoaderStep
<1>10. IsFallback(g)'
  BY <1>9, FallbackIsNext
<1>11. AllButOneGood'
  BY <1>6, <1>8 DEF AllButOneGood
<1>12. OnTrial' /\ Editing' /\ Named'
  <2>1. IsLive(f) => f.env.kernelfile \in Kernels
    BY <1>2, <1>7 DEF RInv, Named, IsLive, Intact
  <2>2. Named'
    BY <1>2, <1>8, <2>1 DEF RInv, Named
  <2> QED BY <1>2, <1>4, <2>2 DEF OnTrial, Editing
<1>13. bl.part \in Parts
  BY <1>0 DEF LoaderState
<1>14. IsFallback(bl.part) => bl.part = g
  BY <1>0, <1>3, <1>13, FallbackIs
<1>15. CASE mode = "save"
  <2>1. Marking'
    BY <1>2, <1>3, <1>7, <1>8, <1>10, <1>14, <1>15 DEF RInv, Marking
  <2> QED BY <1>7, <1>11, <1>12, <1>15, <2>1 DEF Plan, Chosen
<1>16. CASE mode = "saving"
  <2>1. disk'[u].intact /\ disk'[u].env = bl.env
    BY <1>7, <1>8, <1>16 DEF Intact
  <2>2. \A i \in Parts \ {u} : ~IsUpdate(i)'
    BY <1>6, <1>8, UStateValues DEF IsUpdate, Finished, Good
  <2>3. CASE bl.env.ustate = USTATE_TESTING
    <3>1. /\ bl.part = u /\ bl.payload = bl.env.kernelfile
          /\ bl.env.in_progress = 0 /\ bl.env.revision > disk[g].env.revision
      BY <1>3, <1>16, <2>3, UStateValues DEF RInv, Marking, Saving
    <3>2. bl.env.revision > 0
      <4>1. disk[g].env.revision \in Nat /\ bl.env.revision \in Nat
        BY <1>0, FileFields DEF LoaderState, BG_ENVDATA, Revisions
      <4> QED BY <3>1, <4>1
    <3>3. Finished(u, USTATE_TESTING)'
      BY <2>1, <2>3, <3>1, <3>2 DEF Finished
    <3>4. Chosen'
      BY <1>2, <1>16, <2>1, <2>2, <2>3, <3>1, <3>3, UStateValues
         DEF RInv, Marking, Chosen, IsUpdate
    <3> QED BY <1>7, <1>11, <1>12, <1>16, <3>4 DEF Plan, Marking
  <2>4. CASE bl.env.ustate # USTATE_TESTING
    <3>1. /\ bl.env.ustate = USTATE_FAILED /\ bl.env.revision = REVISION_FAILED
          /\ bl.part = g /\ bl.payload = disk[g].env.kernelfile
          /\ bl.ustate = USTATE_FAILED
      BY <1>14, <1>16, <2>4 DEF RInv, Marking
    <3>2. ~IsUpdate(u)'
      BY <2>1, <3>1, UStateValues DEF IsUpdate, Finished
    <3>3. disk'[g] = disk[g] /\ disk[g].intact
      BY <1>3, <1>8 DEF Anchor, Good
    <3>4. Chosen'
      BY <1>2, <1>7, <1>10, <1>16, <2>1, <2>2, <3>1, <3>2, <3>3, UStateValues
         DEF Chosen
    <3> QED BY <1>7, <1>11, <1>12, <1>16, <3>4 DEF Plan, Marking
  <2> QED BY <2>3, <2>4
<1> QED BY <1>2, <1>15, <1>16

(* The rest of the loader touches neither disk nor tool. *)
LEMMA BootPlan ==
    ASSUME RInv, SoundMedia, ProbeWatchdogs \/ StartImage \/ LoadImageFails \/ ErrorExit
    PROVE  Plan'
<1>0. /\ disk' = disk /\ tool' = tool /\ mode \in {"load", "probe", "image"}
      /\ mode = "load" => mode' = "halt"
      /\ bl \in LoaderState /\ TrialWorks
  BY DEF ProbeWatchdogs, StartImage, LoadImageFails, ErrorExit, RInv, IInv, TypeOK
<1>1. mode' \notin {"save", "saving"}
  BY DEF ProbeWatchdogs, StartImage, LoadImageFails, ErrorExit
<1>2. \A i \in Parts : /\ IsFallback(i)' <=> IsFallback(i)
                       /\ IsUpdate(i)' <=> IsUpdate(i)
                       /\ \A s \in UStates : Finished(i, s)' <=> Finished(i, s)
  BY <1>0 DEF IsFallback, IsUpdate, Finished
<1>3. AllButOneGood' /\ Named'
  BY <1>0, <1>1 DEF RInv, AllButOneGood, Named
<1>4. tool.pc = "idle" /\ ~tool.truncated
  BY <1>0 DEF TrialWorks, RInv, Editing
<1>5. Editing'
  BY <1>0, <1>4 DEF Editing
<1>6. bl.part \in Parts /\ USTATE_TESTING \in UStates
  BY <1>0, UStateTypes DEF LoaderState
<1>7. mode' # "load" => bl'.part = bl.part /\ bl'.payload = bl.payload
  BY DEF ProbeWatchdogs, StartImage, LoadImageFails, ErrorExit, FreshLoader
<1>8. mode' \in {"probe", "image"} => bl' = bl
  BY DEF ProbeWatchdogs, StartImage, LoadImageFails, ErrorExit
<1>9. Chosen'
  BY <1>0, <1>2, <1>6, <1>7, <1>8 DEF RInv, Chosen
<1>10. OnTrial'
  BY <1>0, <1>2, <1>6, <1>7 DEF RInv, Chosen, OnTrial, IsUpdate
<1> QED BY <1>3, <1>5, <1>1, <1>9, <1>10 DEF Plan, Marking

(* A reset leaves an idle machine. *)
LEMMA RestartPlan ==
    ASSUME RInv, Restart
    PROVE  Plan'
<1>1. mode' = "load" /\ disk' = disk /\ tool'.pc = "idle" /\ ~tool'.truncated
  BY DEF Restart, IdleTool
<1>2. AllButOneGood' /\ Named'
  BY <1>1 DEF RInv, AllButOneGood, Named
<1> QED BY <1>1, <1>2 DEF Plan, Marking, Chosen, OnTrial, Editing

(* A call that leaves the disk alone keeps the plan if what the process    *)
(* has open afterwards is in order.                                        *)
LEMMA CallPlanFrame ==
    ASSUME RInv, mode = "os", UNCHANGED <<disk, mode, bl, armed>>, Editing'
    PROVE  Plan'
<1>1. AllButOneGood' /\ Named'
  BY DEF RInv, AllButOneGood, Named
<1>2. OnTrial'
  BY DEF RInv, OnTrial, Finished
<1> QED BY <1>1, <1>2 DEF Plan, Marking, Chosen

(* The oldest record is the one that is not confirmed, if there is one. *)
LEMMA OldestNotGood ==
    ASSUME TypeOK, AllButOneGood, NEW g \in Parts, NEW u \in Parts, Anchor(disk, g, u),
           ~(IsLive(disk[u]) /\ Newer(disk[u], disk[g])),
           disk[g].env.revision < UINT32_MAX,
           NEW o \in Parts, IsOldest(ReadAll, o)
    PROVE  \A i \in Parts \ {o} : Good(disk[i])
<1>0. disk \in [Parts -> CfgFile] /\ ReadAll \in [Parts -> BG_ENVDATA]
  BY ReadAllType DEF TypeOK
<1>1. SUFFICES ASSUME NEW i \in Parts \ {o}, ~Good(disk[i]) PROVE FALSE
  OBVIOUS
<1>2. Good(disk[o])
  BY <1>1 DEF AllButOneGood
<1>3. ~IsLive(disk[i])
  BY <1>0, <1>1, LiveIsGood DEF Anchor, Older
<1>4. ReadAll[i].revision = 0
  BY <1>0, <1>3, FileFields, UStateValues DEF IsLive, ReadAll, read_env, ZeroEnv
<1>5. ReadAll[o].revision > 0
  BY <1>2 DEF Good, ReadAll, read_env
<1>6. i \in {j \in DOMAIN ReadAll : ReadAll[j].revision < UINT32_MAX}
  BY <1>0, <1>4, RevisionAssumption
<1>7. RevOf(ReadAll)[o] <= RevOf(ReadAll)[i]
  BY <1>6 DEF IsOldest, IsFirstMin
<1>8. ReadAll[o].revision <= ReadAll[i].revision /\ ReadAll[o].revision \in Nat
  BY <1>0, <1>7 DEF RevOf, BG_ENVDATA, Revisions
<1> QED BY <1>4, <1>5, <1>8

(* Records of confirmed files are read as OK. *)
LEMMA GoodReads ==
    ASSUME NEW i \in Parts, Good(disk[i])
    PROVE  ReadAll[i].ustate = USTATE_OK /\ ReadAll[i] = disk[i].env
BY DEF Good, ReadAll, read_env

(* ebg_env_create_new. *)
LEMMA CreateNewPlan ==
    ASSUME RInv, SoundMedia, ebg_env_create_new
    PROVE  Plan'
<1>0. /\ mode = "os" /\ tool.pc = "idle" /\ UNCHANGED <<disk, mode, bl, armed>>
      /\ ~tool.truncated /\ tool \in ToolState /\ TypeOK
      /\ ReadAll \in [Parts -> BG_ENVDATA] /\ disk \in [Parts -> CfgFile]
  BY ReadAllType DEF ebg_env_create_new, RInv, IInv, TypeOK, Editing
<1>1. PICK g \in Parts, u \in Parts : Anchor(disk, g, u)
  BY DEF RInv, IInv, Core, CoreOf
<1>2. PICK l \in Parts, o \in Parts :
          /\ IsLatest(ReadAll, l)
          /\ MayUpdate(ReadAll[l])
          /\ IF ReadAll[l].in_progress # 1
             THEN /\ IsOldest(ReadAll, o)
                  /\ tool' = [tool EXCEPT !.pc = "open", !.h = o,
                                          !.mem = CloneLatest(ReadAll, l, o)]
             ELSE /\ o = l
                  /\ tool' = [tool EXCEPT !.pc = "open", !.h = l,
                                          !.mem = ReadAll]
  BY DEF ebg_env_create_new
<1>3. ReadAll[l].ustate = USTATE_OK /\ ReadAll[l].revision < UINT32_MAX
  BY <1>2 DEF MayUpdate, SoundMedia, CarefulOperator
<1>4. \A i \in Parts : IsUpdate(i)' <=> IsUpdate(i)
  BY <1>0 DEF IsUpdate, Finished
<1>5. CASE ReadAll[l].in_progress # 1
  <2>1. IsOldest(ReadAll, o)
        /\ tool' = [tool EXCEPT !.pc = "open", !.h = o,
                                !.mem = CloneLatest(ReadAll, l, o)]
    BY <1>2, <1>5
  <2>2. /\ tool'.pc = "open" /\ tool'.h = o /\ ~tool'.truncated
        /\ tool'.mem = CloneLatest(ReadAll, l, o)
    BY <1>0, <2>1 DEF ToolState
  <2>3. l = g /\ ~(IsLive(disk[u]) /\ Newer(disk[u], disk[g])) /\ ReadAll[l] = disk[l].env
    BY <1>0, <1>1, <1>2, <1>3, <1>5, LibLatestIs, UStateValues DEF Newer, PendingEnv
  <2>4. \A i \in Parts \ {o} : Good(disk[i])
    BY <1>0, <1>1, <1>3, <2>1, <2>3, OldestNotGood DEF RInv
  <2>5. /\ tool'.mem[o].in_progress = 1
        /\ \A i \in Parts \ {o} : tool'.mem[i] = ReadAll[i]
    BY <1>0, <1>3, <2>2, CloneFields
  <2>6. tool'.mem[o].kernelfile = disk[g].env.kernelfile
    <3>1. ReadAll[l] \in BG_ENVDATA
      BY <1>0
    <3> DEFINE c == [ReadAll[l] EXCEPT !.revision = NextRevision(ReadAll[l].revision),
                                       !.in_progress = 1]
    <3>2. c.kernelfile = ReadAll[l].kernelfile
      BY <3>1 DEF BG_ENVDATA
    <3>3. CloneLatest(ReadAll, l, o) = [ReadAll EXCEPT ![o] = c]
      BY DEF CloneLatest
    <3> HIDE DEF c
    <3> QED BY <1>0, <2>2, <2>3, <3>2, <3>3
  <2>7. tool'.mem[o].kernelfile \in Kernels
    BY <1>1, <2>6, SystemAssumption DEF Anchor, Good
  <2>8. ~IsUpdate(o)
    BY <1>0, <1>1, <2>3, UpdateIs
  <2>9. Editing'
    BY <1>0, <1>4, <2>2, <2>4, <2>5, <2>7, <2>8, GoodReads DEF Editing
  <2> QED BY <1>0, <2>9, CallPlanFrame
<1>6. CASE ReadAll[l].in_progress = 1
  <2>1. tool' = [tool EXCEPT !.pc = "open", !.h = l, !.mem = ReadAll]
    BY <1>2, <1>6
  <2>2. tool'.pc = "open" /\ tool'.h = l /\ ~tool'.truncated /\ tool'.mem = ReadAll
    BY <1>0, <2>1 DEF ToolState
  <2>3. l = u /\ IsLive(disk[u]) /\ ReadAll[l] = disk[l].env
    BY <1>0, <1>1, <1>2, <1>6, LibLatestIs DEF Anchor, Good
  <2>4. ~Good(disk[l]) /\ ~IsUpdate(l)
    BY <1>6, <2>3 DEF Good, IsUpdate, Finished
  <2>5. \A i \in Parts \ {l} : Good(disk[i])
    BY <2>4 DEF RInv, AllButOneGood
  <2>6. ReadAll[l].kernelfile \in Kernels
    BY <2>3 DEF RInv, Named
  <2>7. Editing'
    BY <1>0, <1>4, <1>6, <2>2, <2>4, <2>5, <2>6, GoodReads DEF Editing
  <2> QED BY <1>0, <2>7, CallPlanFrame
<1> QED BY <1>5, <1>6
(* An edit of the open record. *)
LEMMA EditPlan ==
    ASSUME RInv, mode = "os", UNCHANGED <<disk, mode, bl, armed>>, tool.pc = "open",
           NEW e, tool'.mem = [tool.mem EXCEPT ![tool.h] = e],
           tool'.h = tool.h, tool'.pc \in {"open", "save"}, tool'.truncated = tool.truncated,
           e.kernelfile \in Kernels,
           IF e.in_progress = 1 \/ e.ustate = USTATE_INSTALLED
           THEN ~IsUpdate(tool.h)
           ELSE e.kernelfile = bl.payload /\ Finished(tool.h, USTATE_TESTING)
    PROVE  Plan'
<1>1. tool.h \in Parts /\ tool.mem \in [Parts -> BG_ENVDATA]
  BY DEF RInv, IInv, TypeOK, ToolState
<1>2. tool'.mem[tool.h] = e /\ \A i \in Parts \ {tool.h} : tool'.mem[i] = tool.mem[i]
  BY <1>1
<1>3. /\ \A i \in Parts \ {tool.h} : Good(disk[i]) /\ tool.mem[i].ustate = USTATE_OK
      /\ ~tool.truncated
  BY DEF RInv, Editing
<1>4. /\ IsUpdate(tool.h)' <=> IsUpdate(tool.h)
      /\ Finished(tool.h, USTATE_TESTING)' <=> Finished(tool.h, USTATE_TESTING)
  BY DEF IsUpdate, Finished
<1>5. Editing'
  BY <1>2, <1>3, <1>4 DEF Editing
<1> QED BY <1>5, CallPlanFrame

(* The record of a trial, opened to be confirmed. *)
LEMMA TrialOpens ==
    ASSUME RInv, SoundMedia, mode = "os", NEW l \in Parts,
           IsLatest(ReadAll, l), MayConfirm(ReadAll[l], l)
    PROVE  /\ Finished(l, USTATE_TESTING) /\ ReadAll[l] = disk[l].env
           /\ disk[l].env.kernelfile = bl.payload
           /\ disk[l].env.kernelfile \in Kernels
           /\ \A i \in Parts \ {l} : Good(disk[i]) /\ ReadAll[i].ustate = USTATE_OK
<1>1. PICK g \in Parts, u \in Parts : Anchor(disk, g, u)
  BY DEF RInv, IInv, Core, CoreOf
<1>2. TypeOK
  BY DEF RInv, IInv
<1>3. ReadAll[l].ustate = USTATE_TESTING /\ ReadAll[l] = disk[l].env
  BY <1>1, <1>2, LibLatestIs DEF MayConfirm, SoundMedia, CarefulOperator
<1>4. l = u /\ IsLive(disk[u]) /\ Newer(disk[u], disk[g])
  BY <1>1, <1>2, <1>3, LibLatestIs, UStateValues DEF Anchor, Good
<1>5. Finished(l, USTATE_TESTING)
  BY <1>3, <1>4, UStateValues DEF Finished, IsLive, Newer, PendingEnv
<1>6. disk[l].env.kernelfile = bl.payload /\ disk[l].env.kernelfile \in Kernels
  BY <1>4, <1>5 DEF RInv, OnTrial, Named
<1>7. ~Good(disk[l])
  BY <1>5, UStateValues DEF Finished, Good
<1>8. \A i \in Parts \ {l} : Good(disk[i])
  BY <1>7 DEF RInv, AllButOneGood
<1> QED BY <1>3, <1>5, <1>6, <1>8, GoodReads

(* Every call of the library and every run of bg_setenv keeps the plan. *)
LEMMA CallPlan ==
    ASSUME RInv, SoundMedia, ToolCall
    PROVE  Plan'
<1>0. /\ tool \in ToolState /\ ReadAll \in [Parts -> BG_ENVDATA] /\ TypeOK
      /\ disk \in [Parts -> CfgFile] /\ tool.mem[tool.h] \in BG_ENVDATA
  BY ReadAllType DEF RInv, IInv, TypeOK, ToolState
<1>1. CASE ebg_env_create_new
  BY <1>1, CreateNewPlan
<1>2. CASE ebg_env_open_current
  <2>1. PICK l \in Parts :
            /\ IsLatest(ReadAll, l)
            /\ MayConfirm(ReadAll[l], l)
            /\ tool' = [tool EXCEPT !.pc = "open", !.h = l, !.mem = ReadAll]
    BY <1>2 DEF ebg_env_open_current
  <2>2. mode = "os" /\ ~tool.truncated /\ UNCHANGED <<disk, mode, bl, armed>>
    BY <1>2 DEF ebg_env_open_current, RInv, Editing
  <2>3. tool'.pc = "open" /\ tool'.h = l /\ tool'.mem = ReadAll /\ ~tool'.truncated
    BY <1>0, <2>1, <2>2 DEF ToolState
  <2>4. /\ Finished(l, USTATE_TESTING) /\ ReadAll[l] = disk[l].env
        /\ disk[l].env.kernelfile = bl.payload
        /\ disk[l].env.kernelfile \in Kernels
        /\ \A i \in Parts \ {l} : Good(disk[i]) /\ ReadAll[i].ustate = USTATE_OK
    BY <2>1, <2>2, TrialOpens
  <2>5. Editing'
    BY <2>2, <2>3, <2>4, UStateValues DEF Editing, Finished
  <2> QED BY <2>2, <2>5, CallPlanFrame
<1>3. ASSUME NEW k \in Kernels, ebg_env_set_kernelfile(k)
      PROVE  Plan'
  <2> DEFINE e == [tool.mem[tool.h] EXCEPT !.kernelfile = k]
  <2>1. tool.mem[tool.h].in_progress = 1 /\ tool.pc = "open"
    BY <1>3 DEF ebg_env_set_kernelfile, Editable, SoundMedia, CarefulOperator
  <2>2. e.in_progress = 1 /\ e.kernelfile \in Kernels
    BY <1>0, <2>1 DEF BG_ENVDATA
  <2>3. /\ tool'.mem = [tool.mem EXCEPT ![tool.h] = e] /\ tool'.h = tool.h
        /\ tool'.pc = tool.pc /\ tool'.truncated = tool.truncated
    BY <1>0, <1>3 DEF ebg_env_set_kernelfile, ToolState
  <2>4. ~IsUpdate(tool.h)
    BY <2>1 DEF RInv, Editing
  <2> HIDE DEF e
  <2> QED BY <1>3, <2>1, <2>2, <2>3, <2>4, EditPlan DEF ebg_env_set_kernelfile
<1>4. ASSUME NEW t \in Timeouts, ebg_env_set_timeout(t)
      PROVE  Plan'
  <2> DEFINE e == [tool.mem[tool.h] EXCEPT !.timeout = t]
  <2>1. tool.mem[tool.h].in_progress = 1 /\ tool.pc = "open"
    BY <1>4 DEF ebg_env_set_timeout, Editable, SoundMedia, CarefulOperator
  <2>2. ~IsUpdate(tool.h) /\ tool.mem[tool.h].kernelfile \in Kernels
    BY <2>1 DEF RInv, Editing
  <2>3. e.in_progress = 1 /\ e.kernelfile \in Kernels
    BY <1>0, <2>1, <2>2 DEF BG_ENVDATA
  <2>4. /\ tool'.mem = [tool.mem EXCEPT ![tool.h] = e] /\ tool'.h = tool.h
        /\ tool'.pc = tool.pc /\ tool'.truncated = tool.truncated
    BY <1>0, <1>4 DEF ebg_env_set_timeout, ToolState
  <2> HIDE DEF e
  <2> QED BY <1>4, <2>1, <2>2, <2>3, <2>4, EditPlan DEF ebg_env_set_timeout
<1>5. CASE ebg_env_finalize_update
  <2> DEFINE e == [tool.mem[tool.h] EXCEPT !.in_progress = 0,
                                           !.ustate = USTATE_INSTALLED]
  <2>1. tool.mem[tool.h].in_progress = 1 /\ tool.pc = "open"
    BY <1>5 DEF ebg_env_finalize_update, Editable, SoundMedia, CarefulOperator
  <2>2. ~IsUpdate(tool.h) /\ tool.mem[tool.h].kernelfile \in Kernels
    BY <2>1 DEF RInv, Editing
  <2>3. e.ustate = USTATE_INSTALLED /\ e.kernelfile \in Kernels
    BY <1>0, <2>2 DEF BG_ENVDATA
  <2>4. /\ tool'.mem = [tool.mem EXCEPT ![tool.h] = e] /\ tool'.h = tool.h
        /\ tool'.pc = tool.pc /\ tool'.truncated = tool.truncated
    BY <1>0, <1>5 DEF ebg_env_finalize_update, ToolState
  <2> HIDE DEF e
  <2> QED BY <1>5, <2>1, <2>2, <2>3, <2>4, EditPlan DEF ebg_env_finalize_update
<1>6. ASSUME NEW s \in UStates, ebg_env_setglobalstate(s)
      PROVE  Plan'
  <2> DEFINE e == [tool.mem[tool.h] EXCEPT !.ustate = s]
  <2>1. /\ tool.mem[tool.h].ustate = USTATE_TESTING
        /\ tool.mem[tool.h].in_progress = 0
        /\ s = USTATE_OK /\ tool.pc = "open"
    BY <1>6 DEF ebg_env_setglobalstate, SoundMedia, CarefulOperator
  <2>2. /\ tool.mem[tool.h].kernelfile = bl.payload
        /\ tool.mem[tool.h].kernelfile \in Kernels
        /\ Finished(tool.h, USTATE_TESTING)
    BY <2>1, UStateValues DEF RInv, Editing
  <2>3. /\ e.ustate = USTATE_OK /\ e.in_progress = 0
        /\ e.kernelfile = tool.mem[tool.h].kernelfile
    BY <1>0, <2>1 DEF BG_ENVDATA
  <2>4. Dirty(tool.mem, tool.h, s) = {}
    BY <2>1 DEF Dirty, RInv, Editing
  <2>5. /\ tool'.mem = [tool.mem EXCEPT ![tool.h] = e] /\ tool'.h = tool.h
        /\ tool'.pc = "open" /\ tool'.truncated = tool.truncated
    BY <1>0, <1>6, <2>4 DEF ebg_env_setglobalstate, ToolState
  <2> HIDE DEF e
  <2> QED
    BY <1>6, <2>1, <2>2, <2>3, <2>5, EditPlan, UStateValues DEF ebg_env_setglobalstate
<1>7. CASE ebg_env_close
  <2>1. /\ tool'.mem = tool.mem /\ tool'.h = tool.h /\ tool'.pc = "save"
        /\ tool'.truncated = tool.truncated /\ tool.pc = "open" /\ mode = "os"
        /\ UNCHANGED <<disk, mode, bl, armed>>
    BY <1>0, <1>7 DEF ebg_env_close, ToolState
  <2>2. Editing'
    BY <2>1 DEF RInv, Editing, IsUpdate, Finished
  <2> QED BY <2>1, <2>2, CallPlanFrame
<1>8. ASSUME NEW j \in Commands, bg_setenv_update(j)
      PROVE  Plan'
  <2>1. PICK l \in Parts, o \in Parts :
            /\ IsLatest(ReadAll, l)
            /\ MayUpdate(ReadAll[l])
            /\ Procedure => ReadAll[l].in_progress = 0
            /\ IsOldest(ReadAll, o)
            /\ RunJournal(CloneForUpdate(ReadAll, l, o), o, j)
    BY <1>8 DEF bg_setenv_update
  <2>2. /\ ReadAll[l].in_progress = 0 /\ ReadAll[l].ustate = USTATE_OK
        /\ ReadAll[l].revision < UINT32_MAX /\ j.ustate = USTATE_INSTALLED
    BY <1>8, <2>1 DEF bg_setenv_update, MayUpdate, SoundMedia, CarefulOperator
  <2>3. mode = "os" /\ ~tool.truncated /\ UNCHANGED <<disk, mode, bl, armed>>
    BY <1>8 DEF bg_setenv_update, RInv, Editing
  <2>4. PICK g \in Parts, u \in Parts : Anchor(disk, g, u)
    BY DEF RInv, IInv, Core, CoreOf
  <2>5. l = g /\ ~(IsLive(disk[u]) /\ Newer(disk[u], disk[g])) /\ ReadAll[l] = disk[l].env
    BY <1>0, <2>1, <2>2, <2>4, LibLatestIs, UStateValues DEF Newer, PendingEnv
  <2>6. \A i \in Parts \ {o} : Good(disk[i])
    BY <1>0, <2>1, <2>2, <2>4, <2>5, OldestNotGood DEF RInv
  <2>7. ~IsUpdate(o)
    BY <1>0, <2>4, <2>5, UpdateIs
  <2> DEFINE mem == CloneForUpdate(ReadAll, l, o)
             e == Edited(mem[o], j)
  <2>8. /\ mem \in [Parts -> BG_ENVDATA]
        /\ \A i \in Parts \ {o} : mem[i] = ReadAll[i]
    BY <1>0, <2>2, CloneTypes, CloneFields
  <2>9. mem[o].kernelfile \in Kernels
    <3>1. ReadAll[l] \in BG_ENVDATA
      BY <1>0
    <3> DEFINE c == [ReadAll[l] EXCEPT !.revision = NextRevision(ReadAll[l].revision)]
    <3>2. c.kernelfile = ReadAll[l].kernelfile
      BY <3>1 DEF BG_ENVDATA
    <3>3. mem = [ReadAll EXCEPT ![o] = c]
      BY DEF CloneForUpdate
    <3> HIDE DEF c, mem
    <3>4. mem[o].kernelfile = disk[g].env.kernelfile
      BY <1>0, <2>5, <3>2, <3>3
    <3> QED BY <2>4, <3>4, SystemAssumption DEF Anchor, Good
  <2>10. tool' = [tool EXCEPT
                     !.pc = IF Dirty(mem, o, j.ustate) = {} THEN "save" ELSE "sync",
                     !.mem = [mem EXCEPT ![o] = e],
                     !.h = o, !.todo = Dirty(mem, o, j.ustate), !.oneshot = TRUE]
    BY <2>1 DEF RunJournal
  <2> HIDE DEF mem
  <2>11. e.kernelfile \in Kernels /\ e.ustate = USTATE_INSTALLED
    <3>1. mem[o] \in BG_ENVDATA /\ j \in Journals
      BY <2>8, CommandAssumption
    <3>2. j.kernelfile = Keep \/ j.kernelfile \in Kernels
      BY <3>1 DEF Journals
    <3> QED BY <2>2, <2>9, <3>1, <3>2, UStateValues DEF Edited, Given, Keep, BG_ENVDATA
  <2>12. Dirty(mem, o, j.ustate) = {}
    BY <2>2, UStateValues DEF Dirty
  <2> HIDE DEF e
  <2>13. /\ tool'.pc = "save" /\ tool'.h = o /\ ~tool'.truncated
         /\ tool'.mem = [mem EXCEPT ![o] = e]
    BY <1>0, <2>3, <2>10, <2>12 DEF ToolState
  <2>14. tool'.mem[o] = e /\ \A i \in Parts \ {o} : tool'.mem[i] = ReadAll[i]
    BY <2>8, <2>13
  <2>15. Editing'
    BY <2>3, <2>6, <2>7, <2>11, <2>13, <2>14, GoodReads DEF Editing, IsUpdate, Finished
  <2> QED BY <2>3, <2>15, CallPlanFrame
<1>9. ASSUME NEW j \in Commands, bg_setenv_latest(j)
      PROVE  Plan'
  <2>1. PICK l \in Parts :
            /\ IsLatest(ReadAll, l)
            /\ MayConfirm(ReadAll[l], l)
            /\ RunJournal(ReadAll, l, j)
    BY <1>9 DEF bg_setenv_latest
  <2>2. /\ j = Confirm /\ mode = "os" /\ ~tool.truncated
        /\ UNCHANGED <<disk, mode, bl, armed>>
    BY <1>9 DEF bg_setenv_latest, SoundMedia, CarefulOperator, RInv, Editing
  <2>3. /\ Finished(l, USTATE_TESTING) /\ ReadAll[l] = disk[l].env
        /\ disk[l].env.kernelfile = bl.payload
        /\ disk[l].env.kernelfile \in Kernels
        /\ \A i \in Parts \ {l} : Good(disk[i]) /\ ReadAll[i].ustate = USTATE_OK
    BY <2>1, <2>2, TrialOpens
  <2> DEFINE e == Edited(ReadAll[l], j)
  <2>4. /\ e.in_progress = 0 /\ e.ustate = USTATE_OK
        /\ e.kernelfile = disk[l].env.kernelfile
    <3>1. ReadAll[l] \in BG_ENVDATA
      BY <1>0
    <3> QED BY <2>2, <2>3, <3>1, UStateValues
            DEF Edited, Given, Keep, Confirm, BG_ENVDATA, Finished
  <2>5. Dirty(ReadAll, l, j.ustate) = {}
    BY <2>3 DEF Dirty
  <2>6. tool' = [tool EXCEPT
                    !.pc = IF Dirty(ReadAll, l, j.ustate) = {} THEN "save" ELSE "sync",
                    !.mem = [ReadAll EXCEPT ![l] = e],
                    !.h = l, !.todo = Dirty(ReadAll, l, j.ustate), !.oneshot = TRUE]
    BY <2>1 DEF RunJournal
  <2> HIDE DEF e
  <2>7. /\ tool'.pc = "save" /\ tool'.h = l /\ ~tool'.truncated
        /\ tool'.mem = [ReadAll EXCEPT ![l] = e]
    BY <1>0, <2>2, <2>5, <2>6 DEF ToolState
  <2>8. tool'.mem[l] = e /\ \A i \in Parts \ {l} : tool'.mem[i] = ReadAll[i]
    BY <1>0, <2>7
  <2>9. Editing'
    BY <2>2, <2>3, <2>4, <2>7, <2>8, UStateValues DEF Editing, Finished
  <2> QED BY <2>2, <2>9, CallPlanFrame
<1>10. ASSUME NEW i \in Parts, NEW j \in Commands, bg_setenv_part(i, j)
       PROVE  Plan'
  BY <1>10 DEF bg_setenv_part, SoundMedia, CarefulOperator
<1> QED
  BY <1>1, <1>2, <1>3, <1>4, <1>5, <1>6, <1>7, <1>8, <1>9, <1>10 DEF ToolCall

(* What a process writes on sound media: the file of the record it has     *)
(* open, first truncated, then complete.                                   *)
LEMMA WriteIs ==
    ASSUME RInv, SoundMedia, ToolWrite
    PROVE  /\ mode = "os" /\ tool.pc = "save" /\ UNCHANGED <<mode, bl, armed>>
           /\ tool.h \in Parts /\ tool.mem[tool.h] \in BG_ENVDATA
           /\ \A i \in Parts \ {tool.h} : disk'[i] = disk[i]
           /\ \/ /\ ~tool.truncated /\ ~disk'[tool.h].intact
                 /\ tool' = [tool EXCEPT !.truncated = TRUE]
              \/ /\ tool.truncated /\ disk'[tool.h] = Intact(tool.mem[tool.h])
                 /\ tool' = IdleTool
<1>0. tool \in ToolState /\ disk \in [Parts -> CfgFile] /\ TypeOK
  BY DEF RInv, IInv, TypeOK
<1>1. PICK i \in Parts : write_env_truncate(i) \/ write_env_data(i)
  BY DEF ToolWrite, write_env_fails, SoundMedia
<1>2. Writes(i) /\ mode = "os" /\ UNCHANGED <<mode, bl, armed>>
  BY <1>1 DEF write_env_truncate, write_env_data
<1>3. tool.pc = "save" /\ i = tool.h
  BY <1>2 DEF Writes, RInv, Editing
<1>4. Record(i) = tool.mem[i] /\ tool.mem[i] \in BG_ENVDATA
  BY <1>0, <1>3 DEF Record, ToolState
<1>5. CASE write_env_truncate(i)
  <2>1. PICK f \in TornFiles(ZeroEnv, Record(i)) : disk' = [disk EXCEPT ![i] = f]
    BY <1>5 DEF write_env_truncate
  <2>2. ~f.intact
    BY <1>0, <2>1, TornType, RecordType, ZeroEnvType
  <2>3. disk'[i] = f /\ \A k \in Parts \ {i} : disk'[k] = disk[k]
    BY <1>0, <2>1
  <2> QED BY <1>2, <1>3, <1>4, <1>5, <2>2, <2>3 DEF write_env_truncate
<1>6. CASE write_env_data(i)
  <2>1. disk'[i] = Intact(tool.mem[i]) /\ \A k \in Parts \ {i} : disk'[k] = disk[k]
    BY <1>0, <1>4, <1>6 DEF write_env_data
  <2>2. tool' = IdleTool
    BY <1>3, <1>6 DEF write_env_data, AfterWrite
  <2> QED BY <1>2, <1>3, <1>4, <1>6, <2>1, <2>2 DEF write_env_data
<1> QED BY <1>1, <1>5, <1>6

(* Every write of a process keeps the plan. *)
LEMMA WritePlan ==
    ASSUME RInv, SoundMedia, ToolWrite
    PROVE  Plan'
<1>. PICK h \in Parts : h = tool.h
  BY DEF RInv, IInv, TypeOK, ToolState
<1> DEFINE w == tool.mem[h]
<1>0. /\ mode = "os" /\ tool.pc = "save" /\ UNCHANGED <<mode, bl, armed>>
      /\ h \in Parts /\ w \in BG_ENVDATA /\ tool \in ToolState
      /\ \A i \in Parts \ {h} : disk'[i] = disk[i]
      /\ \/ /\ ~tool.truncated /\ ~disk'[h].intact
            /\ tool' = [tool EXCEPT !.truncated = TRUE]
         \/ /\ tool.truncated /\ disk'[h] = Intact(w)
            /\ tool' = IdleTool
  BY WriteIs DEF RInv, IInv, TypeOK
<1>1. /\ \A i \in Parts \ {h} : Good(disk[i]) /\ tool.mem[i].ustate = USTATE_OK
      /\ w.kernelfile \in Kernels
      /\ w.in_progress = 1 \/ w.ustate = USTATE_INSTALLED \/ w.kernelfile = bl.payload
  BY <1>0 DEF RInv, Editing
<1>2. AllButOneGood'
  BY <1>0, <1>1 DEF AllButOneGood
<1>3. Named'
  BY <1>0, <1>1 DEF RInv, Named, Intact, IsLive
<1>4. OnTrial'
  <2>1. \A i \in Parts \ {h} : ~Finished(i, USTATE_TESTING)'
    BY <1>0, <1>1, UStateValues DEF Good, Finished
  <2>2. Finished(h, USTATE_TESTING)' => disk'[h].env.kernelfile = bl.payload
    BY <1>0, <1>1, UStateValues DEF Intact, Finished
  <2> QED BY <1>0, <2>1, <2>2 DEF OnTrial
<1>5. Editing'
  <2>1. CASE ~tool.truncated
    <3>1. /\ tool'.pc = "save" /\ tool'.h = h /\ tool'.mem = tool.mem
          /\ tool'.truncated /\ ~disk'[h].intact
      BY <1>0, <2>1 DEF ToolState
    <3> QED BY <1>0, <1>1, <3>1 DEF RInv, Editing, IsUpdate, Finished
  <2>2. CASE tool.truncated
    BY <1>0, <2>2 DEF Editing, IdleTool
  <2> QED BY <2>1, <2>2
<1> QED BY <1>0, <1>2, <1>3, <1>4, <1>5 DEF Plan, Marking, Chosen

(* RInv holds initially. *)
LEMMA InitPlan ==
    ASSUME SoundMedia, Init
    PROVE  RInv
<1>1. IInv
  BY InitSafe DEF SoundMedia
<1>2. \A i \in Parts : Good(disk[i]) /\ disk[i].env.kernelfile \in Kernels
  <2> SUFFICES ASSUME NEW i \in Parts
               PROVE  Good(disk[i]) /\ disk[i].env.kernelfile \in Kernels
    OBVIOUS
  <2>1. disk[i] \in {Intact(e) : e \in ProvisionedEnv}
    BY DEF Init
  <2>2. PICK e \in ProvisionedEnv : disk[i] = Intact(e)
    BY <2>1
  <2> QED BY <2>2, PartsAssumption, SystemAssumption DEF ProvisionedEnv, Intact, Good
<1> QED BY <1>1, <1>2 DEF RInv, Init, AllButOneGood, Named, Marking, Chosen, OnTrial,
                          Editing, IdleTool

(* RInv is inductive. *)
LEMMA NextPlan ==
    ASSUME SoundMedia, RInv, [Next]_vars
    PROVE  RInv'
<1>1. IInv'
  <2>1. TypeOK'
    BY NextTypes DEF RInv, IInv
  <2>2. PICK g \in Parts, u \in Parts : CoreOf(g, u)
    BY DEF RInv, IInv, Core
  <2>3. Core' /\ TrialWorks'
    BY <2>2, StepSafe DEF RInv, IInv, SoundMedia
  <2> QED BY <2>1, <2>3 DEF IInv
<1>2. Plan'
  <2>1. CASE LoaderStep
    <3>1. ~LoadNothing /\ ~SaveFails
      BY ZeroPart DEF LoadNothing, SaveFails, SoundMedia
    <3> QED BY <2>1, <3>1, LoadConfigPlan, SavePlan, BootPlan DEF LoaderStep
  <2>2. CASE WatchdogReset \/ Reboot \/ PowerCut
    BY <2>2, RestartPlan DEF WatchdogReset, Reboot, PowerCut
  <2>3. CASE ToolCall
    BY <2>3, CallPlan
  <2>4. CASE ToolWrite
    BY <2>4, WritePlan
  <2>5. CASE UNCHANGED vars
    BY <2>5 DEF vars, RInv, Plan, AllButOneGood, Named, Marking, Chosen, OnTrial,
                Editing, IsUpdate, IsFallback, Finished
  <2> QED BY <2>1, <2>2, <2>3, <2>4, <2>5 DEF Next
<1> QED BY <1>1, <1>2 DEF RInv, Plan

(***************************************************************************)
(* On sound media every reachable state satisfies RInv: at most one record *)
(* is not confirmed, what the loader is about to start is what the disk    *)
(* says, and a process has only a new update or the running trial open.    *)
(***************************************************************************)
THEOREM TrialInvariance ==
    ASSUME SoundMedia
    PROVE  Spec => []RInv
<1>1. Init => RInv
  BY InitPlan
<1>2. RInv /\ [Next]_vars => RInv'
  BY NextPlan
<1> QED BY <1>1, <1>2, PTL DEF Spec
(***************************************************************************)
(* Part 3: what RInv gives.                                                *)
(***************************************************************************)

(***************************************************************************)
(* MarkedBeforeStart for every number of partitions above one, all kernels *)
(* and commands, any outcome of the watchdog probe: load_config and        *)
(* save_current_config (env/fatvars.c) have put TESTING on disk before     *)
(* efi_main (main.c) starts a kernel nobody has confirmed.                 *)
(***************************************************************************)
THEOREM Marked ==
    ASSUME SoundMedia
    PROVE  Spec => []MarkedBeforeStart
<1>1. RInv => MarkedBeforeStart
  <2> SUFFICES ASSUME RInv, mode \in {"probe", "image", "hang"}
               PROVE  /\ disk[bl.part].intact
                      /\ disk[bl.part].env.kernelfile = bl.payload
                      /\ disk[bl.part].env.ustate \in {USTATE_OK, USTATE_TESTING}
                      /\ bl.payload \notin Works =>
                            disk[bl.part].env.ustate = USTATE_TESTING
    BY DEF MarkedBeforeStart
  <2>1. bl.part \in Parts
    BY DEF RInv, IInv, TypeOK, LoaderState
  <2>2. disk[bl.part].intact /\ disk[bl.part].env.kernelfile = bl.payload
    BY DEF RInv, Chosen
  <2>3. CASE IsUpdate(bl.part)
    BY <2>1, <2>2, <2>3 DEF RInv, Chosen, Finished
  <2>4. CASE ~IsUpdate(bl.part)
    BY <2>2, <2>4 DEF RInv, Chosen, IsFallback, Good
  <2> QED BY <2>3, <2>4
<1>2. Spec => []RInv
  BY TrialInvariance
<1> QED BY <1>1, <1>2, PTL

(* The latest record while a trial runs is the one on trial. *)
LEMMA LatestOnTrial ==
    ASSUME RInv, NEW t \in Parts, Finished(t, USTATE_TESTING)
    PROVE  /\ \A i \in Parts \ {t} : Good(disk[i])
           /\ \E l \in Parts : IsLatest(ReadAll, l)
           /\ \A l \in Parts : IsLatest(ReadAll, l) => l = t /\ ReadAll[l] = disk[l].env
<1>0. TypeOK /\ disk \in [Parts -> CfgFile]
  BY DEF RInv, IInv, TypeOK
<1>1. PICK g \in Parts, u \in Parts : Anchor(disk, g, u)
  BY DEF RInv, IInv, Core, CoreOf
<1>2. t = u /\ IsLive(disk[u]) /\ Newer(disk[u], disk[g])
  BY <1>0, <1>1, UpdateIs DEF IsUpdate
<1>3. ~Good(disk[t])
  BY UStateValues DEF Finished, Good
<1>4. \A i \in Parts \ {t} : Good(disk[i])
  BY <1>3 DEF RInv, AllButOneGood
<1>5. \A l \in Parts : IsLatest(ReadAll, l) => l = t /\ ReadAll[l] = disk[l].env
  BY <1>0, <1>1, <1>2, LibLatestIs
<1>6. IsLatest(ReadAll, t)
  <2>1. \A i \in Parts : /\ ReadAll[i] = disk[i].env
                         /\ disk[i].env.revision \in Nat
                         /\ disk[i].env.revision > 0
    BY <1>0, <1>4, FileFields DEF Finished, Good, ReadAll, read_env
  <2>2. \A i \in Parts \ {t} : disk[i].env.revision < disk[t].env.revision
    BY <1>0, <1>1, <1>2, <1>4, <2>1, FileFields, LiveIsGood DEF Newer, Good, IsLive
  <2>3. DOMAIN ReadAll = Parts /\ {j \in DOMAIN ReadAll : ReadAll[j].revision > 0} = Parts
    BY <2>1 DEF ReadAll
  <2>4. \A i \in Parts : RevOf(ReadAll)[i] = disk[i].env.revision
    BY <2>1, <2>3 DEF RevOf
  <2>5. IsFirstMax(Parts, RevOf(ReadAll), t)
    <3>1. Parts \subseteq Int
      BY DEF Parts
    <3> QED BY <2>1, <2>2, <2>4, <3>1 DEF IsFirstMax
  <2> QED BY <2>3, <2>5 DEF IsLatest
<1> QED BY <1>4, <1>5, <1>6

(***************************************************************************)
(* OutcomeReported under the same premises: when a kernel is started, the  *)
(* library's ebg_env_getglobalstate (env/env_api.c) tells it the state     *)
(* that load_config (env/fatvars.c) has decided on: a trial, or a rollback.*)
(***************************************************************************)
THEOREM Outcome ==
    ASSUME SoundMedia
    PROVE  Spec => OutcomeReported
<1>1. RInv => (mode = "image" /\ bl.ustate \in {USTATE_TESTING, USTATE_FAILED}
                  => ebg_env_getglobalstate(ReadAll) = bl.ustate)
  <2> SUFFICES ASSUME RInv, mode = "image",
                      bl.ustate \in {USTATE_TESTING, USTATE_FAILED}
               PROVE  ebg_env_getglobalstate(ReadAll) = bl.ustate
    OBVIOUS
  <2>0. bl.part \in Parts
    BY DEF RInv, IInv, TypeOK, LoaderState
  <2>1. CASE bl.ustate = USTATE_FAILED
    <3>1. PICK i \in Parts : /\ disk[i].intact
                             /\ disk[i].env.revision = REVISION_FAILED
                             /\ disk[i].env.ustate = USTATE_FAILED
      BY <2>1 DEF RInv, Chosen
    <3>2. ReadAll[i] = disk[i].env
      BY <3>1 DEF ReadAll, read_env
    <3> QED BY <2>1, <3>1, <3>2 DEF ebg_env_getglobalstate
  <2>2. CASE bl.ustate = USTATE_TESTING
    <3> DEFINE t == bl.part
               l == CHOOSE x \in Parts : IsLatest(ReadAll, x)
    <3>1. Finished(t, USTATE_TESTING)
      BY <2>2 DEF RInv, Chosen
    <3>2. /\ \A i \in Parts \ {t} : Good(disk[i])
          /\ l = t /\ ReadAll[l] = disk[l].env
      BY <2>0, <3>1, LatestOnTrial
    <3>3. \A i \in Parts : ReadAll[i].revision # REVISION_FAILED
      BY <3>1, <3>2, UStateValues DEF Finished, Good, ReadAll, read_env
    <3>4. ebg_env_getglobalstate(ReadAll) = ReadAll[l].ustate
      BY <3>3 DEF ebg_env_getglobalstate
    <3> QED BY <2>2, <3>1, <3>2, <3>4 DEF Finished
  <2> QED BY <2>1, <2>2
<1>2. Spec => []RInv
  BY TrialInvariance
<1>3. RInv /\ [Next]_vars =>
        [ mode = "image" /\ mode' = "os" /\ bl.ustate \in {USTATE_TESTING, USTATE_FAILED}
          => ebg_env_getglobalstate(ReadAll) = bl.ustate ]_vars
  BY <1>1
<1> QED BY <1>2, <1>3, PTL DEF Spec, OutcomeReported

(***************************************************************************)
(* Part 4: the refinement.                                                 *)
(***************************************************************************)

(* What SafeUpdate sees, in terms of g and u. *)
View(g, u) ==
    /\ confirmedKernel = disk[g].env.kernelfile
    /\ Rewriting =>
          candidateKernel = tool.mem[tool.h].kernelfile /\ trialState = "tried"
    /\ ~Rewriting /\ mode = "saving" /\ bl.env.ustate = USTATE_TESTING =>
          candidateKernel = bl.env.kernelfile /\ trialState = "tried"
    /\ ~Rewriting /\ mode = "saving" /\ bl.env.ustate # USTATE_TESTING =>
          candidateKernel = NoKernel /\ trialState = "none"
    /\ ~Rewriting /\ mode # "saving" /\ Finished(u, USTATE_INSTALLED) =>
          candidateKernel = disk[u].env.kernelfile /\ trialState = "pending"
    /\ ~Rewriting /\ mode \notin {"saving", "load", "save", "halt"}
       /\ Finished(u, USTATE_TESTING) =>
          candidateKernel = disk[u].env.kernelfile /\ trialState = "tried"
    /\ ~Rewriting /\ mode # "saving" /\ ~Finished(u, USTATE_INSTALLED)
       /\ (mode \in {"load", "save", "halt"} \/ ~Finished(u, USTATE_TESTING)) =>
          candidateKernel = NoKernel /\ trialState = "none"

(* Between an anchored disk and the abstract state there is no choice: the *)
(* refinement mapping is what View says.                                   *)
LEMMA Views == \A g, u \in Parts : TypeOK /\ Anchor(disk, g, u) => View(g, u)
<1> SUFFICES ASSUME NEW g \in Parts, NEW u \in Parts, TypeOK, Anchor(disk, g, u)
             PROVE  View(g, u)
  OBVIOUS
<1>1. confirmedKernel = disk[g].env.kernelfile
  <2>1. (CHOOSE i \in Parts : IsFallback(i)) = g
    BY FallbackIs
  <2> QED BY <2>1 DEF confirmedKernel
<1>2. Updates = {} => candidateKernel = NoKernel /\ trialState = "none"
  BY DEF candidateKernel, trialState
<1>3. ASSUME NEW e, Updates = {e}
      PROVE  /\ candidateKernel = e.kernelfile
             /\ trialState = IF e.ustate = USTATE_INSTALLED THEN "pending" ELSE "tried"
  <2>1. (CHOOSE x \in Updates : TRUE) = e
    BY <1>3
  <2> QED BY <1>3, <2>1 DEF candidateKernel, trialState
<1>4. ASSUME ~Rewriting, mode # "saving"
      PROVE  Updates = IF \/ Finished(u, USTATE_INSTALLED)
                          \/ /\ Finished(u, USTATE_TESTING)
                             /\ mode \notin {"load", "save", "halt"}
                       THEN {disk[u].env} ELSE {}
  <2>1. \A i \in Parts : IsUpdate(i) => i = u
    BY UpdateIs
  <2> QED BY <1>4, <2>1 DEF Updates, IsUpdate
<1>5. Rewriting =>
          candidateKernel = tool.mem[tool.h].kernelfile /\ trialState = "tried"
  <2>1. Rewriting => Updates = {tool.mem[tool.h]}
    BY DEF Updates
  <2>2. Rewriting => tool.mem[tool.h].ustate # USTATE_INSTALLED
    BY UStateValues DEF Rewriting
  <2> QED BY <1>3, <2>1, <2>2
<1>6. ~Rewriting /\ mode = "saving" =>
          Updates = IF bl.env.ustate = USTATE_TESTING THEN {bl.env} ELSE {}
  BY DEF Updates
<1> QED BY <1>1, <1>2, <1>3, <1>4, <1>5, <1>6, UStateValues DEF View, Finished

(* The same in the next state. *)
LEMMA ViewsNext == (\A g, u \in Parts : TypeOK /\ Anchor(disk, g, u) => View(g, u))'
BY Views, PTL
(* Outside a running system no process rewrites a record. *)
LEMMA NotRewriting == RInv /\ mode # "os" => ~Rewriting
BY DEF RInv, IInv, TrialWorks, Rewriting

(* The same of the next state. *)
LEMMA NotRewritingNext == (RInv /\ mode # "os" => ~Rewriting)'
BY NotRewriting, PTL

(* A step that leaves the files alone is seen through the same g and u. *)
LEMMA SameFilesView ==
    ASSUME RInv, RInv', disk' = disk, NEW g \in Parts, NEW u \in Parts,
           Anchor(disk, g, u)
    PROVE  /\ View(g, u) /\ View(g, u)'
           /\ \A s : Finished(u, s)' <=> Finished(u, s)
<1>1. Anchor(disk, g, u)'
  BY DEF Anchor
<1>2. TypeOK /\ TypeOK'
  BY DEF RInv, IInv
<1> QED BY <1>1, <1>2, Views, ViewsNext DEF Finished

(* load_config decides, and nothing has happened yet. *)
LEMMA LoadConfigMaps ==
    ASSUME RInv, RInv', SoundMedia, LoadConfig
    PROVE  UNCHANGED Abstract!vars
<1>1. PICK g \in Parts, u \in Parts : Anchor(disk, g, u)
  BY DEF RInv, IInv, Core, CoreOf
<1>2. /\ mode = "load" /\ disk' = disk
      /\ \/ mode' = "save"
         \/ mode' = "probe" /\ \A i \in Parts : ~IsUpdate(i)
  BY LoadConfigPlan DEF LoadConfig
<1>3. View(g, u) /\ View(g, u)' /\ \A s : Finished(u, s)' <=> Finished(u, s)
  BY <1>1, <1>2, SameFilesView
<1>4. ~Rewriting /\ ~Rewriting'
  BY <1>2, NotRewriting, NotRewritingNext
<1>5. confirmedKernel' = confirmedKernel
  BY <1>2, <1>3 DEF View
<1>6. candidateKernel' = candidateKernel /\ trialState' = trialState
  BY <1>2, <1>3, <1>4 DEF View, IsUpdate
<1>7. runningKernel' = runningKernel
  BY <1>2 DEF runningKernel
<1> QED BY <1>5, <1>6, <1>7 DEF Abstract!vars

(* The mark of an installed update is the beginning of its trial; that of  *)
(* a failed one changes nothing.                                           *)
LEMMA SaveMaps ==
    ASSUME RInv, RInv', SoundMedia, SaveBegin \/ SaveEnd
    PROVE  Abstract!Next \/ UNCHANGED Abstract!vars
<1>0. /\ TypeOK /\ disk \in [Parts -> CfgFile] /\ bl \in LoaderState
      /\ bl.env \in BG_ENVDATA /\ TypeOK'
  BY DEF RInv, IInv, TypeOK, LoaderState
<1>1. PICK g \in Parts, u \in Parts : CoreOf(g, u)
  BY DEF RInv, IInv, Core
<1>2. mode \in {"save", "saving"} /\ mode' \in {"saving", "probe"} /\ bl' = bl
  BY DEF SaveBegin, SaveEnd
<1>3. Anchor(disk, g, u) /\ Saving(g, u) /\ bl.latest = u /\ g # u
  BY <1>1, <1>2 DEF CoreOf, Saving, Anchor
<1>4. ~Rewriting /\ ~Rewriting'
  BY <1>2, NotRewriting, NotRewritingNext
<1>5. runningKernel = NoKernel /\ runningKernel' = NoKernel
  BY <1>2 DEF runningKernel
<1>6. View(g, u)
  BY <1>0, <1>3, Views
<1>7. CASE SaveBegin
  <2>1. PICK f \in TornFiles(disk[bl.latest].env, bl.env) :
            disk' = [disk EXCEPT ![bl.latest] = f]
    BY <1>7 DEF SaveBegin
  <2>2. ~f.intact
    BY <1>0, <2>1, TornType DEF LoaderState, CfgFile
  <2>3. Anchor(disk, g, u)' /\ disk'[g] = disk[g]
    BY <1>0, <1>3, <2>1, <2>2, ReplaceU DEF IsLive
  <2>4. View(g, u)'
    BY <1>0, <2>3, ViewsNext
  <2>5. confirmedKernel' = confirmedKernel
    BY <1>6, <2>3, <2>4 DEF View
  <2>6. mode = "save" /\ mode' = "saving"
    BY <1>7 DEF SaveBegin
  <2>7. IsUpdate(u) /\ bl.env = SavedEnv(disk[u].env) /\ disk[u].env \in BG_ENVDATA
    BY <1>0, <1>3, <2>6, FileFields DEF RInv, Marking
  <2>8. CASE Finished(u, USTATE_INSTALLED)
    <3>1. bl.env = [disk[u].env EXCEPT !.ustate = USTATE_TESTING]
      BY <2>7, <2>8, UStateValues DEF SavedEnv, Finished
    <3>2. bl.env.ustate = USTATE_TESTING /\ bl.env.kernelfile = disk[u].env.kernelfile
      BY <2>7, <3>1 DEF BG_ENVDATA
    <3>3. /\ trialState = "pending" /\ trialState' = "tried"
          /\ candidateKernel' = candidateKernel
      BY <1>2, <1>4, <1>6, <2>4, <2>6, <2>8, <3>2 DEF View
    <3>4. Abstract!Try
      BY <1>5, <2>5, <3>3 DEF Abstract!Try
    <3> QED BY <3>4 DEF Abstract!Next
  <2>9. CASE Finished(u, USTATE_TESTING)
    <3>1. bl.env.ustate = USTATE_FAILED /\ ~Finished(u, USTATE_INSTALLED)
      BY <2>7, <2>9, UStateValues DEF SavedEnv, Finished, BG_ENVDATA
    <3>2. UNCHANGED <<candidateKernel, trialState>>
      BY <1>2, <1>4, <1>6, <2>4, <2>6, <3>1, UStateValues DEF View
    <3> QED BY <1>5, <2>5, <3>2 DEF Abstract!vars
  <2> QED BY <2>7, <2>8, <2>9 DEF IsUpdate
<1>8. CASE SaveEnd
  <2>1. mode = "saving" /\ mode' = "probe" /\ disk' = [disk EXCEPT ![u] = Intact(bl.env)]
    BY <1>3, <1>8 DEF SaveEnd
  <2>2. IsLive(Intact(bl.env)) => Newer(Intact(bl.env), disk[g])
    BY <1>3 DEF IsLive, Intact, Saving, Newer, PendingEnv
  <2>3. Anchor(disk, g, u)' /\ disk'[g] = disk[g]
    BY <1>0, <1>3, <2>1, <2>2, ReplaceU
  <2>4. View(g, u)'
    BY <1>0, <2>3, ViewsNext
  <2>5. confirmedKernel' = confirmedKernel
    BY <1>6, <2>3, <2>4 DEF View
  <2>6. disk'[u].intact /\ disk'[u].env = bl.env
    BY <1>0, <2>1 DEF Intact
  <2>7. CASE bl.env.ustate = USTATE_TESTING
    <3>1. bl.env.revision > disk[g].env.revision /\ bl.env.in_progress = 0
      BY <1>3, <2>7, UStateValues DEF Saving
    <3>2. bl.env.revision > 0
      <4>1. disk[g].env.revision \in Nat /\ bl.env.revision \in Nat
        BY <1>0, FileFields DEF BG_ENVDATA, Revisions
      <4> QED BY <3>1, <4>1
    <3>3. Finished(u, USTATE_TESTING)'
      BY <2>6, <2>7, <3>1, <3>2 DEF Finished
    <3>4. UNCHANGED <<candidateKernel, trialState>>
      BY <1>4, <1>6, <2>1, <2>4, <2>6, <2>7, <3>3 DEF View
    <3> QED BY <1>5, <2>5, <3>4 DEF Abstract!vars
  <2>8. CASE bl.env.ustate # USTATE_TESTING
    <3>1. bl.env.ustate = USTATE_FAILED
      BY <1>3, <2>8 DEF Saving
    <3>2. ~Finished(u, USTATE_TESTING)' /\ ~Finished(u, USTATE_INSTALLED)'
      BY <2>6, <3>1, UStateValues DEF Finished
    <3>3. UNCHANGED <<candidateKernel, trialState>>
      BY <1>4, <1>6, <2>1, <2>4, <2>8, <3>2 DEF View
    <3> QED BY <1>5, <2>5, <3>3 DEF Abstract!vars
  <2> QED BY <2>7, <2>8
<1> QED BY <1>7, <1>8

(* A loader that gives up ends the trial that was under way. *)
LEMMA HaltMaps ==
    ASSUME RInv, RInv', disk' = disk, mode \in {"load", "probe", "image"}, mode' = "halt"
    PROVE  Abstract!Next
<1>1. PICK g \in Parts, u \in Parts : Anchor(disk, g, u)
  BY DEF RInv, IInv, Core, CoreOf
<1>2. View(g, u) /\ View(g, u)' /\ \A s : Finished(u, s)' <=> Finished(u, s)
  BY <1>1, SameFilesView
<1>3. ~Rewriting /\ ~Rewriting'
  BY NotRewriting, NotRewritingNext
<1>4. /\ confirmedKernel' = confirmedKernel
      /\ runningKernel = NoKernel /\ runningKernel' = NoKernel
  BY <1>2 DEF View, runningKernel
<1>5. IF trialState = "tried" THEN candidateKernel' = NoKernel /\ trialState' = "none"
      ELSE UNCHANGED <<candidateKernel, trialState>>
  <2>1. CASE Finished(u, USTATE_INSTALLED)
    BY <1>2, <1>3, <2>1 DEF View
  <2>2. CASE ~Finished(u, USTATE_INSTALLED)
    <3>1. candidateKernel' = NoKernel /\ trialState' = "none"
      BY <1>2, <1>3, <2>2 DEF View
    <3>2. trialState = "tried" \/ (trialState = "none" /\ candidateKernel = NoKernel)
      BY <1>2, <1>3, <2>2 DEF View
    <3> QED BY <3>1, <3>2
  <2> QED BY <2>1, <2>2
<1>6. Abstract!Reset
  BY <1>4, <1>5 DEF Abstract!Reset
<1> QED BY <1>6 DEF Abstract!Next

(* A boot starts the update on trial, or the confirmed kernel. *)
LEMMA BootMaps ==
    ASSUME RInv, RInv', SoundMedia, mode' # "halt",
           ProbeWatchdogs \/ StartImage \/ LoadImageFails
    PROVE  Abstract!Next \/ UNCHANGED Abstract!vars
<1>1. PICK g \in Parts, u \in Parts : Anchor(disk, g, u)
  BY DEF RInv, IInv, Core, CoreOf
<1>2. disk' = disk /\ tool' = tool /\ mode \in {"probe", "image"}
  BY DEF ProbeWatchdogs, StartImage, LoadImageFails
<1>3. View(g, u) /\ View(g, u)' /\ \A s : Finished(u, s)' <=> Finished(u, s)
  BY <1>1, <1>2, SameFilesView
<1>4. ~Rewriting /\ ~Rewriting'
  BY <1>2, NotRewriting DEF Rewriting
<1>5. confirmedKernel' = confirmedKernel
  BY <1>2, <1>3 DEF View
<1>6. runningKernel = NoKernel
  BY <1>2 DEF runningKernel
<1>7. ~Finished(u, USTATE_INSTALLED)
  BY <1>2, UStateValues DEF RInv, Chosen, IsUpdate, Finished
<1>8. mode' \notin {"load", "save", "saving", "halt"} => UNCHANGED <<candidateKernel, trialState>>
  BY <1>2, <1>3, <1>4, <1>7 DEF View
<1>9. CASE ProbeWatchdogs
  BY <1>5, <1>8, <1>9 DEF ProbeWatchdogs, runningKernel, Abstract!vars
<1>10. CASE StartImage
  <2>1. mode = "image" /\ mode' \in {"os", "hang"} /\ runningKernel' = bl.payload
    BY <1>10 DEF StartImage, runningKernel, FreshLoader
  <2>2. bl.part \in Parts /\ TypeOK
    BY DEF RInv, IInv, TypeOK, LoaderState
  <2>3. trialState # "pending"
        /\ bl.payload = IF trialState = "tried" THEN candidateKernel ELSE confirmedKernel
    <3>1. CASE Finished(u, USTATE_TESTING)
      <4>1. bl.payload = disk[u].env.kernelfile
        BY <1>2, <3>1 DEF RInv, Chosen, IsUpdate
      <4> QED BY <1>2, <1>3, <1>4, <3>1, <4>1 DEF View
    <3>2. CASE ~Finished(u, USTATE_TESTING)
      <4>1. ~IsUpdate(bl.part)
        BY <1>1, <1>7, <2>2, <3>2, UpdateIs DEF IsUpdate
      <4>2. bl.part = g /\ bl.payload = disk[g].env.kernelfile
        BY <1>1, <1>2, <2>2, <4>1, FallbackIs DEF RInv, Chosen
      <4> QED BY <1>2, <1>3, <1>4, <1>7, <3>2, <4>2 DEF View
    <3> QED BY <3>1, <3>2
  <2>4. Abstract!Start
    BY <1>5, <1>6, <1>8, <2>1, <2>3 DEF Abstract!Start
  <2> QED BY <2>4 DEF Abstract!Next
<1>11. CASE LoadImageFails
  <2>1. mode' = "load" /\ runningKernel' = NoKernel
    BY <1>11 DEF LoadImageFails, runningKernel
  <2>2. candidateKernel' = NoKernel /\ trialState' = "none"
    BY <1>3, <1>4, <1>7, <2>1 DEF View
  <2>3. trialState = "tried" \/ (trialState = "none" /\ candidateKernel = NoKernel)
    BY <1>2, <1>3, <1>4, <1>7 DEF View
  <2>4. Abstract!Reset
    BY <1>5, <2>1, <2>2, <2>3 DEF Abstract!Reset
  <2> QED BY <2>4 DEF Abstract!Next
<1> QED BY <1>9, <1>10, <1>11

(* Whatever resets the machine ends the trial that was under way. *)
LEMMA RestartMaps ==
    ASSUME RInv, RInv', Restart
    PROVE  Abstract!Next
<1>1. PICK g \in Parts, u \in Parts : CoreOf(g, u) /\ Anchor(disk, g, u)
  BY DEF RInv, IInv, Core, CoreOf
<1>2. disk' = disk /\ mode' = "load"
  BY DEF Restart
<1>3. View(g, u) /\ View(g, u)' /\ \A s : Finished(u, s)' <=> Finished(u, s)
  BY <1>1, <1>2, SameFilesView
<1>4. ~Rewriting'
  BY <1>2, NotRewritingNext
<1>5. confirmedKernel' = confirmedKernel /\ runningKernel' = NoKernel
  BY <1>2, <1>3 DEF View, runningKernel
<1>6. ~(Finished(u, USTATE_INSTALLED) /\ Finished(u, USTATE_TESTING))
  BY UStateValues DEF Finished
<1>7. Rewriting => ~Finished(u, USTATE_INSTALLED)
  <2>1. Rewriting => tool.h = u /\ ~disk[tool.h].intact
    BY <1>1 DEF Rewriting, CoreOf, Session, RInv, Editing
  <2> QED BY <2>1 DEF Finished
<1>8. mode = "saving" => ~Finished(u, USTATE_INSTALLED)
  <2>1. mode = "saving" => bl.latest = u /\ ~disk[bl.latest].intact
    BY <1>1 DEF CoreOf, Saving, RInv, Marking
  <2> QED BY <2>1 DEF Finished
<1>9. IF trialState = "tried" THEN candidateKernel' = NoKernel /\ trialState' = "none"
      ELSE UNCHANGED <<candidateKernel, trialState>>
  <2>1. CASE Finished(u, USTATE_INSTALLED)
    BY <1>2, <1>3, <1>4, <1>7, <1>8, <2>1 DEF View
  <2>2. CASE ~Finished(u, USTATE_INSTALLED)
    <3>1. candidateKernel' = NoKernel /\ trialState' = "none"
      BY <1>2, <1>3, <1>4, <2>2 DEF View
    <3>2. trialState = "tried" \/ (trialState = "none" /\ candidateKernel = NoKernel)
      BY <1>3, <2>2 DEF View
    <3> QED BY <3>1, <3>2
  <2> QED BY <2>1, <2>2
<1>10. Abstract!Reset
  BY <1>5, <1>9 DEF Abstract!Reset
<1> QED BY <1>10 DEF Abstract!Next

(* No call of the library changes anything before it writes. *)
LEMMA CallMaps ==
    ASSUME RInv, RInv', ToolCall
    PROVE  UNCHANGED Abstract!vars
<1>1. PICK g \in Parts, u \in Parts : Anchor(disk, g, u)
  BY DEF RInv, IInv, Core, CoreOf
<1>2. tool \in ToolState
  BY DEF RInv, IInv, TypeOK
<1>3. /\ mode = "os" /\ UNCHANGED <<disk, mode, bl>>
      /\ tool.pc \in {"idle", "open"} /\ tool'.truncated = tool.truncated
  <2>1. CASE ebg_env_create_new \/ ebg_env_open_current
    BY <1>2, <2>1 DEF ebg_env_create_new, ebg_env_open_current, ToolState
  <2>2. CASE \/ \E k \in Kernels : ebg_env_set_kernelfile(k)
             \/ \E t \in Timeouts : ebg_env_set_timeout(t)
             \/ ebg_env_finalize_update
    BY <1>2, <2>2 DEF ebg_env_set_kernelfile, ebg_env_set_timeout,
                      ebg_env_finalize_update, ToolState
  <2>3. CASE (\E s \in UStates : ebg_env_setglobalstate(s)) \/ ebg_env_close
    BY <1>2, <2>3 DEF ebg_env_setglobalstate, ebg_env_close, ToolState
  <2>4. CASE \/ \E j \in Commands : bg_setenv_update(j) \/ bg_setenv_latest(j)
             \/ \E i \in Parts, j \in Commands : bg_setenv_part(i, j)
    <3>1. \A mem, h, j : RunJournal(mem, h, j) => tool'.truncated = tool.truncated
      BY <1>2 DEF RunJournal, ToolState
    <3> QED BY <2>4, <3>1 DEF bg_setenv_update, bg_setenv_latest, bg_setenv_part
  <2> QED BY <2>1, <2>2, <2>3, <2>4 DEF ToolCall
<1>4. ~tool.truncated
  BY <1>3 DEF RInv, Editing
<1>5. ~Rewriting /\ ~Rewriting'
  BY <1>3, <1>4 DEF Rewriting
<1>6. View(g, u) /\ View(g, u)' /\ \A s : Finished(u, s)' <=> Finished(u, s)
  BY <1>1, <1>3, SameFilesView
<1>7. UNCHANGED <<confirmedKernel, candidateKernel, trialState>>
  BY <1>3, <1>5, <1>6 DEF View
<1>8. runningKernel' = runningKernel
  BY <1>3 DEF runningKernel
<1> QED BY <1>7, <1>8 DEF Abstract!vars

(* A write of a process installs the update, confirms the running one, or  *)
(* changes nothing; to truncate a file never changes anything.             *)
LEMMA WriteMaps ==
    ASSUME RInv, RInv', SoundMedia, ToolWrite
    PROVE  Abstract!Next \/ UNCHANGED Abstract!vars
<1>0. /\ TypeOK /\ TypeOK' /\ disk \in [Parts -> CfgFile] /\ tool \in ToolState
  BY DEF RInv, IInv, TypeOK
<1>1. PICK g \in Parts, u \in Parts : CoreOf(g, u)
  BY DEF RInv, IInv, Core
<1>2. /\ mode = "os" /\ tool.pc = "save" /\ UNCHANGED <<mode, bl, armed>>
      /\ tool.h \in Parts /\ tool.mem[tool.h] \in BG_ENVDATA
      /\ \A i \in Parts \ {tool.h} : disk'[i] = disk[i]
      /\ \/ /\ ~tool.truncated /\ ~disk'[tool.h].intact
            /\ tool' = [tool EXCEPT !.truncated = TRUE]
         \/ /\ tool.truncated /\ disk'[tool.h] = Intact(tool.mem[tool.h])
            /\ tool' = IdleTool
  BY WriteIs
<1>3. Anchor(disk, g, u) /\ Session(g, u) /\ tool.h = u /\ g # u /\ Good(disk[g])
  BY <1>1, <1>2 DEF CoreOf, Session, Anchor
<1> DEFINE w == tool.mem[u]
<1>4. /\ w \in BG_ENVDATA /\ w.kernelfile \in Kernels
      /\ OpenEnv(w) /\ w.revision > disk[g].env.revision
      /\ IF w.in_progress = 1 \/ w.ustate = USTATE_INSTALLED
         THEN ~IsUpdate(u)
         ELSE w.kernelfile = bl.payload /\ (tool.truncated \/ Finished(u, USTATE_TESTING))
  BY <1>2, <1>3 DEF Session, RInv, Editing
<1>5. View(g, u)
  BY <1>0, <1>3, Views
<1>6. /\ runningKernel = bl.payload /\ runningKernel' = bl.payload
      /\ bl.payload \in Works
  BY <1>2 DEF runningKernel, RInv, IInv, TrialWorks
<1>7. disk'[g] = disk[g]
  BY <1>2, <1>3
<1>8. CASE ~tool.truncated
  <2>1. ~disk'[u].intact /\ tool' = [tool EXCEPT !.truncated = TRUE]
    BY <1>2, <1>3, <1>8
  <2>2. tool'.mem = tool.mem /\ tool'.h = u /\ tool'.pc = "save" /\ tool'.truncated
    BY <1>0, <1>2, <1>3, <2>1 DEF ToolState
  <2>3. Anchor(disk, g, u)'
    BY <1>2, <1>3, <2>1 DEF Anchor, IsLive
  <2>4. View(g, u)'
    BY <1>0, <2>3, ViewsNext
  <2>5. ~Rewriting /\ (Rewriting' <=> w.in_progress = 0 /\ w.ustate \in {USTATE_OK, USTATE_TESTING})
    BY <1>2, <1>8, <2>2 DEF Rewriting
  <2>6. confirmedKernel' = confirmedKernel
    BY <1>5, <1>7, <2>4 DEF View
  <2>7. ~Finished(u, USTATE_INSTALLED)' /\ ~Finished(u, USTATE_TESTING)'
    BY <2>1 DEF Finished
  <2>8. CASE w.in_progress = 1 \/ w.ustate = USTATE_INSTALLED
    <3>1. ~Rewriting' /\ ~IsUpdate(u)
      BY <1>4, <2>5, <2>8, UStateValues
    <3>2. UNCHANGED <<candidateKernel, trialState>>
      BY <1>2, <1>5, <2>4, <2>5, <2>7, <3>1 DEF View, IsUpdate
    <3> QED BY <1>6, <2>6, <3>2 DEF Abstract!vars
  <2>9. CASE ~(w.in_progress = 1 \/ w.ustate = USTATE_INSTALLED)
    <3>1. Rewriting' /\ Finished(u, USTATE_TESTING) /\ w.kernelfile = bl.payload
      BY <1>4, <1>8, <2>5, <2>9 DEF OpenEnv
    <3>2. disk[u].env.kernelfile = w.kernelfile
      BY <1>2, <3>1 DEF RInv, OnTrial
    <3>3. UNCHANGED <<candidateKernel, trialState>>
      BY <1>2, <1>5, <2>2, <2>4, <2>5, <3>1, <3>2 DEF View
    <3> QED BY <1>6, <2>6, <3>3 DEF Abstract!vars
  <2> QED BY <2>8, <2>9
<1>9. CASE tool.truncated
  <2>1. /\ disk'[u] = Intact(w) /\ tool' = IdleTool
        /\ \A i \in Parts \ {u} : disk'[i] = disk[i]
    BY <1>2, <1>3, <1>9
  <2>2. ~Rewriting' /\ disk'[u].intact /\ disk'[u].env = w
    BY <2>1 DEF Rewriting, IdleTool, Intact
  <2>3. ~IsUpdate(u)
    BY <1>2, <1>3, <1>9 DEF RInv, Editing, IsUpdate, Finished
  <2>4. Rewriting <=> w.in_progress = 0 /\ w.ustate \in {USTATE_OK, USTATE_TESTING}
    BY <1>2, <1>3, <1>9 DEF Rewriting
  <2>5. w.revision > 0
    <3>1. disk[g].env.revision \in Nat /\ w.revision \in Nat
      BY <1>0, <1>4, FileFields DEF BG_ENVDATA, Revisions
    <3> QED BY <1>4, <3>1
  <2>6. CASE PendingEnv(w)
    <3>1. Newer(disk'[u], disk[g])
      BY <1>4, <2>2, <2>6 DEF Newer
    <3>2. Anchor(disk, g, u)'
      BY <1>3, <1>7, <2>1, <3>1 DEF Anchor
    <3>3. View(g, u)'
      BY <1>0, <3>2, ViewsNext
    <3>4. confirmedKernel' = confirmedKernel
      BY <1>5, <1>7, <3>3 DEF View
    <3>5. \A s : Finished(u, s)' <=> w.in_progress = 0 /\ w.ustate = s
      BY <2>2, <2>5 DEF Finished
    <3>6. CASE w.in_progress = 1
      <4>1. UNCHANGED <<candidateKernel, trialState>>
        BY <1>2, <1>5, <2>2, <2>3, <2>4, <3>3, <3>5, <3>6 DEF View, IsUpdate
      <4> QED BY <1>6, <3>4, <4>1 DEF Abstract!vars
    <3>7. CASE w.in_progress = 0 /\ w.ustate = USTATE_INSTALLED
      <4>1. trialState = "none"
        BY <1>2, <1>5, <2>3, <2>4, <3>7, UStateValues DEF View, IsUpdate
      <4>2. candidateKernel' = w.kernelfile /\ trialState' = "pending"
        BY <1>2, <2>2, <3>3, <3>5, <3>7 DEF View
      <4>3. Abstract!Install(w.kernelfile)
        BY <1>6, <3>4, <4>1, <4>2 DEF Abstract!Install
      <4> QED BY <1>4, <4>3 DEF Abstract!Next
    <3>8. CASE w.in_progress = 0 /\ w.ustate = USTATE_TESTING
      <4>1. UNCHANGED <<candidateKernel, trialState>>
        BY <1>2, <1>3, <1>5, <2>2, <2>4, <3>3, <3>5, <3>8, UStateValues DEF View
      <4> QED BY <1>6, <3>4, <4>1 DEF Abstract!vars
    <3> QED BY <2>6, <3>6, <3>7, <3>8 DEF PendingEnv
  <2>7. CASE ~PendingEnv(w)
    <3>1. w.in_progress = 0 /\ w.ustate = USTATE_OK /\ w.kernelfile \in Works
      BY <1>4, <2>7 DEF OpenEnv, PendingEnv
    <3>2. \A k \in Parts : disk[k].env.revision \in Nat
      BY <1>0, FileFields
    <3>3. w.revision \in Nat
      BY <1>4, RevisionAssumption DEF BG_ENVDATA, Revisions
    <3>4. Good(disk'[u])
      BY <2>2, <2>5, <3>1 DEF Good
    <3>5. \A k \in Parts \ {u} : IsLive(disk'[k]) => Older(disk'[k], disk'[u])
      BY <1>3, <1>4, <2>1, <2>2, <3>2, <3>3 DEF Anchor, Older
    <3>6. Anchor(disk, u, g)'
      BY <1>3, <3>4, <3>5 DEF Anchor
    <3>7. View(u, g)'
      BY <1>0, <3>6, ViewsNext
    <3>8. Rewriting /\ bl.payload = w.kernelfile
      BY <1>4, <2>4, <3>1, UStateValues
    <3>9. trialState = "tried" /\ candidateKernel = w.kernelfile
      BY <1>3, <1>5, <3>8 DEF View
    <3>10. ~Finished(g, USTATE_INSTALLED)' /\ ~Finished(g, USTATE_TESTING)'
      BY <1>3, <1>7, UStateValues DEF Good, Finished
    <3>11. /\ confirmedKernel' = w.kernelfile
           /\ candidateKernel' = NoKernel /\ trialState' = "none"
      BY <1>2, <2>2, <3>7, <3>10 DEF View
    <3>12. Abstract!Confirm
      BY <1>6, <3>8, <3>9, <3>11 DEF Abstract!Confirm
    <3> QED BY <3>12 DEF Abstract!Next
  <2> QED BY <2>6, <2>7
<1> QED BY <1>8, <1>9

(* Every step of BootGuard is one of SafeUpdate, or changes nothing it     *)
(* knows of.                                                               *)
LEMMA StepMaps ==
    ASSUME SoundMedia, RInv, RInv', [Next]_vars
    PROVE  [Abstract!Next]_(Abstract!vars)
<1>1. CASE LoaderStep
  <2>1. ~LoadNothing /\ ~SaveFails
    BY ZeroPart DEF LoadNothing, SaveFails, SoundMedia
  <2>2. CASE ErrorExit \/ ProbeWatchdogs \/ StartImage \/ LoadImageFails
    <3>1. disk' = disk /\ mode \in {"load", "probe", "image"}
      BY <2>2 DEF ErrorExit, ProbeWatchdogs, StartImage, LoadImageFails
    <3>2. ErrorExit => mode' = "halt"
      BY DEF ErrorExit
    <3> QED BY <2>2, <3>1, <3>2, HaltMaps, BootMaps
  <2> QED BY <1>1, <2>1, <2>2, LoadConfigMaps, SaveMaps DEF LoaderStep
<1>2. CASE WatchdogReset \/ Reboot \/ PowerCut
  BY <1>2, RestartMaps DEF WatchdogReset, Reboot, PowerCut
<1>3. CASE ToolCall
  BY <1>3, CallMaps
<1>4. CASE ToolWrite
  BY <1>4, WriteMaps
<1>5. CASE UNCHANGED vars
  BY <1>5 DEF vars, Abstract!vars, confirmedKernel, candidateKernel, trialState,
              runningKernel, Updates, Rewriting, Finished, IsFallback, Good
<1> QED BY <1>1, <1>2, <1>3, <1>4, <1>5 DEF Next

(* A provisioned device has a confirmed kernel and no update. *)
LEMMA InitMaps ==
    ASSUME SoundMedia, Init
    PROVE  Abstract!Init
<1>1. RInv
  BY InitPlan
<1>2. PICK g \in Parts, u \in Parts : Anchor(disk, g, u)
  BY <1>1 DEF RInv, IInv, Core, CoreOf
<1>3. View(g, u)
  BY <1>1, <1>2, Views DEF RInv, IInv
<1>4. mode = "load" /\ ~Rewriting
  BY DEF Init, Rewriting, IdleTool
<1>5. disk[u] \in {Intact(e) : e \in ProvisionedEnv}
  BY DEF Init
<1>6. ~Finished(u, USTATE_INSTALLED)
  BY <1>5, UStateValues DEF Finished, Intact, ProvisionedEnv
<1> QED BY <1>2, <1>3, <1>4, <1>6
        DEF Abstract!Init, View, runningKernel, Anchor, Good

(***************************************************************************)
(* BootGuard implements SafeUpdate: the loader, the library and bg_setenv  *)
(* together keep the promise of an update that is tried in one single boot *)
(* and falls back to the confirmed kernel, wherever power fails.           *)
(***************************************************************************)
THEOREM Refinement ==
    ASSUME SoundMedia
    PROVE  Spec => KeepsPromise
<1>1. Init => Abstract!Init
  BY InitMaps
<1>2. RInv /\ RInv' /\ [Next]_vars => [Abstract!Next]_(Abstract!vars)
  BY StepMaps
<1>3. Spec => []RInv
  BY TrialInvariance
<1> QED BY <1>1, <1>2, <1>3, PTL DEF Spec, KeepsPromise, Abstract!Spec
=============================================================================

-------------------------- MODULE BootMediaProofs --------------------------
(***************************************************************************)
(* The search for config files on every machine: how the loader orders the *)
(* volumes of the boot medium before the others and what that gives for    *)
(* recovery mode and for kernels named by label; that the library leaves   *)
(* the mounts of the system as it found them; and that it finds just the   *)
(* config partitions its reading of the partition tables can show it,      *)
(* hence the loader's.                                                     *)
(***************************************************************************)
EXTENDS BootMedia, SequenceTheorems, FiniteSetTheorems, WellFoundedInduction, TLAPS

(***************************************************************************)
(* Part 1: the invariants.                                                 *)
(***************************************************************************)

Within == machine \in Machines /\ faults \in 0 .. MaxFaults

(* No I/O error has happened yet. *)
Sound == faults = MaxFaults

Injective(s) == \A a, b \in DOMAIN s : s[a] = s[b] => a = b
Has(s, p)    == \E a \in DOMAIN s : s[a] = p

(* The firmware's handles are the file systems, each of them once. *)
HandlesInv ==
    pc # "os" => /\ handles \in Seq(FileSystems(machine))
                 /\ Injective(handles)
                 /\ \A p \in FileSystems(machine) : Has(handles, p)

(* The volumes of the boot medium are the first bootCount ones. *)
Sorted ==
    /\ volumes \in Seq(FileSystems(machine))
    /\ Injective(volumes)
    /\ bootCount \in 0 .. Len(volumes)
    /\ \A v \in DOMAIN volumes : IsOnBootMedium(volumes[v]) <=> v <= bootCount

(* While the volumes are collected: they come from the handles seen so     *)
(* far, and unless one was skipped all of those are among them.            *)
Collecting ==
    pc = "get_volumes" =>
        /\ index <= Len(handles) + 1
        /\ \A v \in DOMAIN volumes : \E k \in 1 .. index - 1 : volumes[v] = handles[k]
        /\ Sound => \A k \in 1 .. index - 1 : Has(volumes, handles[k])
        /\ config_volumes = <<>> /\ bootOnly = FALSE

Collected ==
    pc \in {"enumerate", "load"} /\ Sound =>
        \A p \in FileSystems(machine) : Has(volumes, p)

(* The config files are all of the boot medium or none is. *)
Unmixed ==
    /\ config_volumes \in Seq(machine.cfg)
    /\ Injective(config_volumes)
    /\ bootOnly \in BOOLEAN
    /\ \A c \in DOMAIN config_volumes : IsOnBootMedium(config_volumes[c]) <=> bootOnly

Enumerating ==
    pc = "enumerate" =>
        /\ index <= Len(volumes) + 1
        /\ \A c \in DOMAIN config_volumes :
               \E k \in 1 .. index - 1 : config_volumes[c] = volumes[k]
        /\ Sound /\ ~bootOnly =>
               \A k \in 1 .. index - 1 :
                   volumes[k] \in machine.cfg => ~IsOnBootMedium(volumes[k])

Enumerated ==
    pc = "load" /\ Sound /\ ~bootOnly =>
        \A p \in machine.cfg : ~IsOnBootMedium(p)

(* The loader has stopped for a reason. *)
Halted ==
    pc = "halt" /\ Sound /\ ~Unpartitioned(Disk(machine.boot)) =>
        CfgOnBoot = {} \/ Cardinality(CfgOnBoot) > ENV_NUM_CONFIG_PARTS

(* The kernel is taken from the first volume that matches, if one does. *)
Chosen ==
    pc = "start" =>
        /\ path \in Paths
        /\ path.label # <<>> =>
               \/ /\ \A u \in DOMAIN volumes : ~Matches(path, volumes[u])
                  /\ payload = [part |-> machine.boot, stripped |-> FALSE]
               \/ \E v \in DOMAIN volumes :
                      /\ Matches(path, volumes[v])
                      /\ \A u \in DOMAIN volumes : Matches(path, volumes[u]) => v <= u
                      /\ payload = [part |-> volumes[v], stripped |-> TRUE]

LoaderInv ==
    /\ pc \in LoaderPhases /\ index \in Nat \ {0}
    /\ HandlesInv /\ Sorted /\ Collecting /\ Collected
    /\ Unmixed /\ Enumerating /\ Enumerated /\ Halted /\ Chosen

(***************************************************************************)
(* The mounts: those of the system are there, the one the library has made *)
(* is another one, and without I/O errors there are no others.             *)
(***************************************************************************)
Mounted ==
    /\ IsFiniteSet(mounts) /\ SystemMounts \subseteq mounts
    /\ do_unmount \in BOOLEAN
    /\ do_unmount => mountpoint # NoMount /\ mountpoint \in mounts \ SystemMounts
    /\ Sound => mounts = SystemMounts \cup (IF do_unmount THEN {mountpoint} ELSE {})

(* A mount point is held only while a partition is looked at. *)
Held ==
    mountpoint # NoMount =>
        \/ AtPartition /\ ThisEntry.fat
        \/ phase = "read" /\ part <= ENV_NUM_CONFIG_PARTS

MountInv == phase \in LibPhases /\ part \in Nat \ {0} /\ Mounted /\ Held

BInv == Within /\ LoaderInv /\ MountInv

-----------------------------------------------------------------------------
(***************************************************************************)
(* Part 2: the library and the mounts.                                     *)
(***************************************************************************)

(* I/O errors are only ever used up. *)
LEMMA FaultMoves ==
    ASSUME Within, machine' = machine, Fault \/ NoFault
    PROVE  Within' /\ (Sound' => Sound) /\ (Fault => ~Sound')
BY FaultsAssumption DEF Within, Sound, Fault, NoFault

(* The file systems of a machine and the mounts it starts with. *)
LEMMA SystemMountsFinite ==
    ASSUME Within
    PROVE  IsFiniteSet(SystemMounts)
<1>1. IsFiniteSet(machine.mounted)
  BY MachinesAssumption DEF Within
<1> DEFINE f == [p \in machine.mounted |-> <<p, 0>>]
<1>2. f \in Surjection(machine.mounted, SystemMounts)
  BY DEF Surjection, SystemMounts
<1> QED BY <1>1, <1>2, FS_Surjection

(* A temporary directory is none of the mount points of the system. *)
LEMMA TemporaryMount ==
    ASSUME Mounted, NEW p
    PROVE  LET m == <<p, 1 + Cardinality(MountsOf(p))>>
           IN  m \notin SystemMounts /\ m # NoMount
<1>1. MountsOf(p) \in SUBSET mounts
  BY DEF MountsOf
<1>2. Cardinality(MountsOf(p)) \in Nat
  BY <1>1, FS_Subset, FS_CardinalityType DEF Mounted
<1>3. 1 + Cardinality(MountsOf(p)) # 0
  BY <1>2
<1>4. \A m \in SystemMounts : m[2] = 0
  BY DEF SystemMounts
<1> QED BY <1>3, <1>4 DEF NoMount

(* mount_partition adds a mount of the library's own. *)
LEMMA Mounting ==
    ASSUME Within, Mounted, machine' = machine, Fault \/ NoFault, ~do_unmount,
           NEW p, mount_partition(p)
    PROVE  Mounted' /\ mountpoint' # NoMount
<1> DEFINE m == <<p, 1 + Cardinality(MountsOf(p))>>
<1>1. /\ mountpoint' = m /\ mounts' = mounts \cup {m} /\ do_unmount' = TRUE
      /\ SystemMounts' = SystemMounts /\ NoMount' = NoMount
  BY DEF mount_partition, SystemMounts, NoMount
<1>2. m \notin SystemMounts /\ m # NoMount
  BY TemporaryMount
<1>3. Sound' => mounts = SystemMounts
  BY FaultMoves DEF Mounted
<1>4. IsFiniteSet(mounts \cup {m})
  BY FS_AddElement DEF Mounted
<1> HIDE DEF m
<1> QED BY <1>1, <1>2, <1>3, <1>4 DEF Mounted

(* The mount is taken away, or stays after an error. *)
LEMMA Unmounting ==
    ASSUME Within, Mounted, machine' = machine, Fault \/ NoFault,
           mountpoint' = NoMount, do_unmount' = FALSE,
           \/ mounts' = IF do_unmount THEN mounts \ {mountpoint} ELSE mounts
           \/ mounts' = mounts /\ Fault
    PROVE  Mounted'
<1>1. SystemMounts' = SystemMounts
  BY DEF SystemMounts
<1>2. IsFiniteSet(mounts \ {mountpoint})
  BY FS_RemoveElement DEF Mounted
<1>3. IsFiniteSet(mounts') /\ SystemMounts \subseteq mounts'
  BY <1>2 DEF Mounted
<1>4. ASSUME Sound' PROVE mounts' = SystemMounts
  <2>1. Sound /\ mounts' = IF do_unmount THEN mounts \ {mountpoint} ELSE mounts
    BY <1>4, FaultMoves
  <2> QED BY <2>1 DEF Mounted
<1> QED BY <1>1, <1>3, <1>4 DEF Mounted

(* Where no mount is made or taken away. *)
LEMMA MountsKept ==
    ASSUME Within, Mounted, machine' = machine, Fault \/ NoFault,
           UNCHANGED <<mounts, do_unmount>>,
           mountpoint' = mountpoint \/ ~do_unmount
    PROVE  Mounted'
BY FaultMoves DEF Mounted, SystemMounts, NoMount

(***************************************************************************)
(* Every step of the library keeps its invariant.                          *)
(***************************************************************************)
LEMMA LibStep ==
    ASSUME Within, MountInv, LibNext
    PROVE  Within' /\ MountInv'
<1>0. /\ Mounted /\ Held /\ phase \in LibPhases /\ part \in Nat \ {0} /\ part + 1 \in Nat \ {0}
      /\ 1 \in Nat \ {0}
  BY DEF MountInv
<1>a. mountpoint = NoMount => ~do_unmount
  BY <1>0 DEF Mounted
<1>p. {"idle", "probe", "walk", "read"} = LibPhases
  BY DEF LibPhases
<1>1. CASE bgenv_init
  <2>1. machine' = machine /\ UNCHANGED <<mounts, mountpoint, do_unmount, part>> /\ phase' = "probe"
    BY <1>1 DEF bgenv_init
  <2>2. Fault \/ NoFault
    BY <1>1 DEF bgenv_init, get_rootdev_from_efi
  <2>3. mountpoint' = NoMount'
    BY <1>0, <1>1, <2>1 DEF bgenv_init, Held, AtPartition, NoMount
  <2> QED BY <1>0, <1>p, <2>1, <2>2, <2>3, FaultMoves, MountsKept DEF MountInv, Held
<1>2. CASE AddDevice \/ SkipDevice
  <2>1. /\ machine' = machine /\ UNCHANGED <<mounts, mountpoint, do_unmount, part, phase>>
        /\ phase = "probe"
    BY <1>2 DEF AddDevice, SkipDevice
  <2>2. Fault \/ NoFault
    BY <1>2 DEF AddDevice, SkipDevice
  <2>3. mountpoint' = NoMount'
    BY <1>0, <2>1 DEF Held, AtPartition, NoMount
  <2> QED BY <1>0, <1>p, <2>1, <2>2, <2>3, FaultMoves, MountsKept DEF MountInv, Held
<1>3. CASE ProbeEnd
  <2>1. /\ machine' = machine /\ UNCHANGED <<mounts, mountpoint, do_unmount>> /\ NoFault
        /\ part' = 1 /\ phase' = "walk" /\ phase = "probe"
    BY <1>3 DEF ProbeEnd, machineVars, NoFault
  <2>2. mountpoint' = NoMount'
    BY <1>0, <2>1 DEF Held, AtPartition, NoMount
  <2> QED BY <1>0, <1>p, <2>1, <2>2, FaultMoves, MountsKept DEF MountInv, Held
<1>4. CASE SkipPartition
  <2>1. /\ machine' = machine /\ UNCHANGED <<mounts, mountpoint, do_unmount, phase>> /\ NoFault
        /\ part' = part + 1 /\ AtPartition /\ ~ThisEntry.fat
    BY <1>4 DEF SkipPartition, machineVars, NoFault
  <2>2. mountpoint' = NoMount'
    BY <1>0, <2>1 DEF Held, AtPartition, NoMount
  <2> QED BY <1>0, <1>p, <2>1, <2>2, FaultMoves, MountsKept DEF MountInv, Held
<1>5. CASE ProbeMount
  <2>1. /\ machine' = machine /\ UNCHANGED <<phase, part, first_device, dev>>
        /\ AtPartition /\ ThisEntry.fat /\ mountpoint = NoMount
    BY <1>5 DEF ProbeMount
  <2>2. Fault \/ NoFault
    BY <1>5 DEF ProbeMount
  <2>3. Mounted'
    <3>1. CASE UNCHANGED <<mounts, do_unmount>>
      BY <1>0, <1>a, <2>1, <2>2, <3>1, MountsKept
    <3>2. CASE mount_partition(ThisPartition)
      BY <1>0, <1>a, <2>1, <2>2, <3>2, Mounting
    <3> QED BY <1>5, <3>1, <3>2 DEF ProbeMount
  <2>4. (AtPartition /\ ThisEntry.fat)'
    BY <2>1 DEF AtPartition, ThisEntry
  <2> QED BY <1>0, <2>1, <2>2, <2>3, <2>4, FaultMoves DEF MountInv, Held
<1>6. CASE ProbeMountFails
  <2>1. /\ machine' = machine /\ UNCHANGED <<mounts, mountpoint, do_unmount, phase>> /\ Fault
        /\ part' = part + 1 /\ mountpoint = NoMount
    BY <1>6 DEF ProbeMountFails
  <2>2. mountpoint' = NoMount'
    BY <2>1 DEF NoMount
  <2> QED BY <1>0, <2>1, <2>2, FaultMoves, MountsKept DEF MountInv, Held
<1>7. CASE NotFound
  <2>1. machine' = machine /\ phase' = phase /\ part' = part + 1 /\ AtPartition
    BY <1>7 DEF NotFound
  <2>2. /\ Fault \/ NoFault
        /\ mountpoint' = NoMount /\ do_unmount' = FALSE
        /\ \/ mounts' = IF do_unmount THEN mounts \ {mountpoint} ELSE mounts
           \/ mounts' = mounts /\ Fault
    BY <1>7 DEF NotFound, unmount_partition
  <2>3. mountpoint' = NoMount'
    BY <2>2 DEF NoMount
  <2> QED BY <1>0, <2>1, <2>2, <2>3, FaultMoves, Unmounting DEF MountInv, Held
<1>8. CASE FoundConfig
  <2>1. /\ machine' = machine /\ phase' \in {phase, "idle"} /\ part' \in {part, part + 1}
    BY <1>8 DEF FoundConfig
  <2>2. /\ Fault \/ NoFault
        /\ mountpoint' = NoMount /\ do_unmount' = FALSE
        /\ \/ mounts' = IF do_unmount THEN mounts \ {mountpoint} ELSE mounts
           \/ mounts' = mounts /\ Fault
    BY <1>8 DEF FoundConfig, unmount_partition
  <2>3. mountpoint' = NoMount'
    BY <2>2 DEF NoMount
  <2> QED BY <1>0, <1>p, <2>1, <2>2, <2>3, FaultMoves, Unmounting DEF MountInv, Held
<1>9. CASE NextDevice \/ SearchEnd
  <2>1. /\ machine' = machine /\ UNCHANGED <<mounts, mountpoint, do_unmount>> /\ NoFault
        /\ part' = 1 /\ phase = "walk" /\ phase' \in {"walk", "idle", "read"} /\ ~AtPartition
    BY <1>9 DEF NextDevice, SearchEnd, machineVars, NoFault
  <2>2. mountpoint' = NoMount'
    BY <1>0, <2>1 DEF Held, NoMount
  <2> QED BY <1>0, <1>p, <2>1, <2>2, FaultMoves, MountsKept DEF MountInv, Held
<1>10. CASE ReadMount
  <2>1. /\ machine' = machine /\ phase' = phase /\ phase = "read" /\ mountpoint = NoMount
        /\ part <= ENV_NUM_CONFIG_PARTS
    BY <1>10 DEF ReadMount
  <2>2. CASE NoFault /\ mount_partition(config_parts[part].part) /\ UNCHANGED part
    <3>1. Mounted'
      BY <1>0, <1>a, <2>1, <2>2, Mounting
    <3> QED BY <1>0, <2>1, <2>2, <3>1, FaultMoves DEF MountInv, Held
  <2>3. CASE Fault /\ part' = part + 1 /\ UNCHANGED <<mounts, mountpoint, do_unmount>>
    <3>1. mountpoint' = NoMount'
      BY <2>1, <2>3 DEF NoMount
    <3> QED BY <1>0, <2>1, <2>3, <3>1, FaultMoves, MountsKept DEF MountInv, Held
  <2> QED BY <1>10, <2>2, <2>3 DEF ReadMount
<1>11. CASE ReadEnv
  <2>1. machine' = machine /\ phase' = phase /\ part' = part + 1
    BY <1>11 DEF ReadEnv
  <2>2. /\ Fault \/ NoFault
        /\ mountpoint' = NoMount /\ do_unmount' = FALSE
        /\ \/ mounts' = IF do_unmount THEN mounts \ {mountpoint} ELSE mounts
           \/ mounts' = mounts /\ Fault
    BY <1>11 DEF ReadEnv, unmount_partition
  <2>3. mountpoint' = NoMount'
    BY <2>2 DEF NoMount
  <2> QED BY <1>0, <2>1, <2>2, <2>3, FaultMoves, Unmounting DEF MountInv, Held
<1>12. CASE InitEnd
  <2>1. /\ machine' = machine /\ UNCHANGED <<mounts, mountpoint, do_unmount>> /\ NoFault
        /\ part' = 1 /\ phase' = "idle" /\ phase = "read" /\ part > ENV_NUM_CONFIG_PARTS
    BY <1>12 DEF InitEnd, machineVars, NoFault
  <2>2. ~(part <= ENV_NUM_CONFIG_PARTS)
    BY <1>0, <2>1, NumPartsAssumption
  <2>3. mountpoint' = NoMount'
    BY <1>0, <2>1, <2>2 DEF Held, AtPartition, NoMount
  <2> QED BY <1>0, <1>p, <2>1, <2>3, FaultMoves, MountsKept DEF MountInv, Held
<1>13. CASE bgenv_finalize
  <2>1. /\ machine' = machine /\ UNCHANGED <<mounts, mountpoint, do_unmount, phase, part>>
        /\ NoFault /\ phase = "idle"
    BY <1>13 DEF bgenv_finalize, machineVars, NoFault
  <2>2. mountpoint' = NoMount'
    BY <1>0, <2>1 DEF Held, AtPartition, NoMount
  <2> QED BY <1>0, <2>1, <2>2, FaultMoves, MountsKept DEF MountInv, Held
<1> QED
  BY <1>1, <1>2, <1>3, <1>4, <1>5, <1>6, <1>7, <1>8, <1>9, <1>10, <1>11, <1>12, <1>13
     DEF LibNext

-----------------------------------------------------------------------------
(***************************************************************************)
(* Part 3: sequences, file systems and the boot medium.                    *)
(***************************************************************************)

(* t is s with e as its new i-th element. *)
With(s, i, e, t) ==
    /\ i \in 1 .. Len(s) + 1
    /\ Len(t) = Len(s) + 1
    /\ \A k \in 1 .. Len(s) + 1 :
           t[k] = IF k < i THEN s[k] ELSE IF k = i THEN e ELSE s[k - 1]

(* InsertAt puts e in front of the i-th element and keeps all others in    *)
(* order.                                                                  *)
LEMMA Inserted ==
    ASSUME NEW S, NEW s \in Seq(S), NEW i \in 1 .. Len(s) + 1, NEW e \in S
    PROVE  InsertAt(s, i, e) \in Seq(S) /\ With(s, i, e, InsertAt(s, i, e))
<1> DEFINE a == SubSeq(s, 1, i - 1)
           b == SubSeq(s, i, Len(s))
<1>0. i \in Nat /\ Len(s) \in Nat
  BY LenProperties
<1>1. /\ a \in Seq(S) /\ Len(a) = i - 1
      /\ \A k \in 1 .. i - 1 : a[k] = s[k]
  OBVIOUS
<1>2. /\ b \in Seq(S) /\ Len(b) = Len(s) - i + 1
      /\ \A k \in 1 .. Len(s) - i + 1 : b[k] = s[i + k - 1]
  OBVIOUS
<1>b. \A k \in i + 1 .. Len(s) + 1 : b[k - i] = s[k - 1]
  <2> HIDE DEF b
  <2> TAKE k \in i + 1 .. Len(s) + 1
  <2>1. k - i \in 1 .. Len(s) - i + 1 /\ i + (k - i) - 1 = k - 1
    BY <1>0
  <2> QED BY <1>2, <2>1
<1> DEFINE c == a \o <<e>>
<1> HIDE DEF a, b
<1>3. /\ c \in Seq(S) /\ Len(c) = i
      /\ \A k \in 1 .. i : c[k] = IF k < i THEN a[k] ELSE e
  BY <1>1
<1>4. InsertAt(s, i, e) = c \o b
  BY DEF InsertAt, a, b, c
<1> HIDE DEF c
<1>5. /\ c \o b \in Seq(S) /\ Len(c \o b) = Len(s) + 1
      /\ \A k \in 1 .. Len(s) + 1 : (c \o b)[k] = IF k <= i THEN c[k] ELSE b[k - i]
  <2>1. Len(c) + Len(b) = Len(s) + 1
    BY <1>0, <1>2, <1>3
  <2> QED BY <1>2, <1>3, <2>1, ConcatProperties
<1>6. ASSUME NEW k \in 1 .. Len(s) + 1
      PROVE  (c \o b)[k] = IF k < i THEN s[k] ELSE IF k = i THEN e ELSE s[k - 1]
  <2>1. CASE k <= i
    BY <1>0, <1>1, <1>3, <1>5, <2>1
  <2>2. CASE k > i
    <3>1. k \in i + 1 .. Len(s) + 1 /\ ~(k <= i) /\ ~(k < i) /\ k # i
      BY <1>0, <2>2
    <3>2. (c \o b)[k] = b[k - i]
      BY <1>5, <3>1
    <3>3. b[k - i] = s[k - 1]
      BY <1>b, <3>1
    <3> QED BY <3>1, <3>2, <3>3
  <2>3. k <= i \/ k > i
    BY <1>0
  <2> QED BY <2>1, <2>2, <2>3
<1> QED BY <1>4, <1>5, <1>6 DEF With

(* The medium path is the device path but for its last node. *)
LEMMA MediumPaths ==
    ASSUME NEW a, NEW b, NEW c
    PROVE  /\ GetMediumPath(<<a, b>>) = <<a>>
           /\ GetMediumPath(<<a, b, c>>) = <<a, b>>
<1> DEFINE S == {a, b, c}
           s == <<a, b>>
           t == <<a, b, c>>
<1>1. Len(s) = 2 /\ Len(t) = 3
  OBVIOUS
<1>2. SubSeq(s, 1, 1) \in Seq(S) /\ Len(SubSeq(s, 1, 1)) = 1 /\ SubSeq(s, 1, 1)[1] = a
  OBVIOUS
<1>3. /\ SubSeq(t, 1, 2) \in Seq(S) /\ Len(SubSeq(t, 1, 2)) = 2
      /\ SubSeq(t, 1, 2)[1] = a /\ SubSeq(t, 1, 2)[2] = b
  OBVIOUS
<1>4. <<a>> \in Seq(S) /\ Len(<<a>>) = 1 /\ <<a>>[1] = a
  OBVIOUS
<1>5. s \in Seq(S) /\ s[1] = a /\ s[2] = b
  OBVIOUS
<1> HIDE DEF S, s, t
<1>6. SubSeq(s, 1, 1) = <<a>>
  <2>1. \A i \in 1 .. 1 : SubSeq(s, 1, 1)[i] = <<a>>[i]
    BY <1>2, <1>4
  <2> QED BY <1>2, <1>4, <2>1, SeqEqual
<1>7. SubSeq(t, 1, 2) = s
  <2>1. \A i \in 1 .. 2 : SubSeq(t, 1, 2)[i] = s[i]
    BY <1>3, <1>5
  <2> QED BY <1>1, <1>3, <1>5, <2>1, SeqEqual
<1>8. /\ GetMediumPath(s) = SubSeq(s, 1, 1)
      /\ GetMediumPath(t) = SubSeq(t, 1, 2)
  BY <1>1 DEF GetMediumPath, Front
<1> QED BY <1>6, <1>7, <1>8 DEF s, t

(* The file systems of a partitioned disk are numbered from 1. *)
LEMMA PartitionNumbers ==
    ASSUME NEW t \in Tables, t.mbr # <<>>
    PROVE  \A n \in FatNumbers(t) : n # 0
<1>1. /\ \A n \in DOMAIN t.mbr : n \in Nat \ {0}
      /\ \A n \in DOMAIN t.gpt : n \in Nat \ {0}
      /\ \A n \in DOMAIN t.logical : n \in Nat \ {0}
  BY DEF Tables
<1>2. \A n \in FatIn(t.logical) : n + 4 # 0
  BY <1>1 DEF FatIn
<1> QED BY <1>1, <1>2 DEF FatNumbers, FatIn

(* Each is a pair of a disk and a number. *)
LEMMA FileSystemParts ==
    ASSUME Within, NEW p \in FileSystems(machine)
    PROVE  /\ Disk(p) \in DOMAIN machine.disks
           /\ Table(Disk(p)) \in Tables
           /\ p[2] \in FatNumbers(Table(Disk(p)))
<1>1. PICK d \in DOMAIN machine.disks : p \in FatOn(d, machine.disks[d])
  BY DEF FileSystems
<1>2. PICK n \in FatNumbers(machine.disks[d]) : p = <<d, n>>
  BY <1>1 DEF FatOn
<1>3. Disk(p) = d /\ p[2] = n
  BY <1>2 DEF Disk
<1> QED BY <1>1, <1>2, <1>3, MachinesAssumption DEF Within, Table

(***************************************************************************)
(* IsOnBootMedium compares the paths of the media: if the boot disk is     *)
(* partitioned, it finds the file systems of that disk.                    *)
(***************************************************************************)
LEMMA BootMedium ==
    ASSUME Within, ~Unpartitioned(Disk(machine.boot)), NEW p \in FileSystems(machine)
    PROVE  IsOnBootMedium(p) <=> OnBootDisk(p)
<1>1. machine.boot \in FileSystems(machine)
  BY MachinesAssumption DEF Within
<1>2. machine.boot[2] # 0
  BY <1>1, FileSystemParts, PartitionNumbers DEF Unpartitioned
<1>3. GetMediumPath(DevicePath(machine.boot)) = <<"pci", Disk(machine.boot)>>
  BY <1>2, MediumPaths DEF DevicePath
<1>4. CASE p[2] = 0
  <2>1. GetMediumPath(DevicePath(p)) = <<"pci">>
    BY <1>4, MediumPaths DEF DevicePath
  <2>2. ~OnBootDisk(p)
    BY <1>4, FileSystemParts, PartitionNumbers DEF Unpartitioned, OnBootDisk
  <2> QED BY <1>3, <2>1, <2>2 DEF IsOnBootMedium
<1>5. CASE p[2] # 0
  <2>1. GetMediumPath(DevicePath(p)) = <<"pci", Disk(p)>>
    BY <1>5, MediumPaths DEF DevicePath
  <2> QED BY <1>3, <2>1 DEF IsOnBootMedium, OnBootDisk
<1> QED BY <1>4, <1>5

(***************************************************************************)
(* The handles the firmware gives: every file system occurs among them.    *)
(***************************************************************************)
LEMMA Handles ==
    ASSUME NEW S, IsFiniteSet(S), NEW h \in SetToSeqs(S)
    PROVE  h \in Seq(S) /\ Injective(h) /\ \A p \in S : Has(h, p)
<1> DEFINE n == Cardinality(S)
<1>1. n \in Nat
  BY FS_CardinalityType
<1>2. h \in [1 .. n -> S] /\ \A i, j \in 1 .. n : i # j => h[i] # h[j]
  BY DEF SetToSeqs
<1> HIDE DEF n
<1>3. h \in Seq(S) /\ DOMAIN h = 1 .. n
  BY <1>1, <1>2
<1>4. Injective(h)
  BY <1>2, <1>3 DEF Injective
<1>5. ASSUME NEW p \in S, ~Has(h, p) PROVE FALSE
  <2>1. IsFiniteSet(S \ {p}) /\ Cardinality(S \ {p}) = n - 1
    BY FS_RemoveElement DEF n
  <2>2. IsFiniteSet(1 .. n) /\ Cardinality(1 .. n) = n
    BY <1>1, FS_Interval
  <2>3. h \in [1 .. n -> S \ {p}]
    BY <1>2, <1>3, <1>5 DEF Has
  <2>4. n - 1 < n
    BY <1>1
  <2>5. \E x, y \in 1 .. n : x # y /\ h[x] = h[y]
    BY <2>1, <2>2, <2>3, <2>4, FS_PigeonHole
  <2> QED BY <1>2, <2>5
<1> QED BY <1>3, <1>4, <1>5

(* A sequence without repetitions and one more element in it. *)
LEMMA OneMore ==
    ASSUME NEW S, NEW s \in Seq(S), Injective(s), NEW e \in S, ~Has(s, e),
           NEW i, NEW t \in Seq(S), With(s, i, e, t)
    PROVE  /\ Injective(t) /\ Has(t, e) /\ \A p : Has(s, p) => Has(t, p)
           /\ \A k \in DOMAIN t : t[k] = e \/ Has(s, t[k])
<1> USE DEF With
<1>0. /\ Len(s) \in Nat /\ DOMAIN s = 1 .. Len(s) /\ DOMAIN t = 1 .. Len(s) + 1
      /\ i \in Nat /\ i \in 1 .. Len(s) + 1
  BY LenProperties
<1>1. \A k \in 1 .. Len(s) + 1 : /\ k < i => k \in 1 .. Len(s)
                                 /\ k > i => k - 1 \in 1 .. Len(s)
                                 /\ k < i \/ k = i \/ k > i
  BY <1>0
<1>2. Injective(t)
  <2> SUFFICES ASSUME NEW a \in 1 .. Len(s) + 1, NEW b \in 1 .. Len(s) + 1, t[a] = t[b]
               PROVE  a = b
    BY <1>0, Zenon DEF Injective
  <2>0. ASSUME NEW k \in 1 .. Len(s) + 1, k # i PROVE t[k] # e
    <3>1. CASE k < i
      BY <1>0, <1>1, <3>1 DEF Has
    <3>2. CASE k > i
      <4>1. t[k] = s[k - 1] /\ k - 1 \in DOMAIN s
        BY <1>0, <1>1, <3>2
      <4> QED BY <4>1 DEF Has
    <3> QED BY <1>1, <2>0, <3>1, <3>2
  <2>1. /\ a = i => b = i
        /\ b = i => a = i
    <3>1. t[i] = e
      BY <1>0
    <3> QED BY <2>0, <3>1
  <2>2. CASE a # i /\ b # i
    <3> DEFINE x == IF a < i THEN a ELSE a - 1
               y == IF b < i THEN b ELSE b - 1
    <3>1. x \in 1 .. Len(s) /\ y \in 1 .. Len(s) /\ t[a] = s[x] /\ t[b] = s[y]
      BY <1>0, <1>1, <2>2
    <3>2. x = y
      <4> HIDE DEF x, y
      <4> QED BY <1>0, <3>1 DEF Injective
    <3> QED BY <1>0, <2>2, <3>2
  <2> QED BY <2>1, <2>2
<1>3. Has(t, e)
  BY <1>0 DEF Has
<1>4. ASSUME NEW p, Has(s, p) PROVE Has(t, p)
  <2>1. PICK a \in 1 .. Len(s) : s[a] = p
    BY <1>0, <1>4 DEF Has
  <2>2. CASE a < i
    <3>1. a \in 1 .. Len(s) + 1 /\ t[a] = s[a]
      BY <1>0, <2>2
    <3> QED BY <1>0, <2>1, <3>1 DEF Has
  <2>3. CASE ~(a < i)
    <3>1. a + 1 \in 1 .. Len(s) + 1 /\ ~(a + 1 < i) /\ a + 1 # i /\ (a + 1) - 1 = a
      BY <1>0, <2>3
    <3>2. t[a + 1] = s[a]
      BY <3>1
    <3> QED BY <1>0, <2>1, <3>1, <3>2 DEF Has
  <2> QED BY <2>2, <2>3
<1>5. ASSUME NEW k \in 1 .. Len(s) + 1 PROVE t[k] = e \/ Has(s, t[k])
  <2>1. CASE k < i
    BY <1>0, <1>1, <2>1 DEF Has
  <2>2. CASE k = i
    BY <2>2
  <2>3. CASE k > i
    <3>1. t[k] = s[k - 1] /\ k - 1 \in DOMAIN s
      BY <1>0, <1>1, <2>3
    <3> QED BY <3>1 DEF Has
  <2> QED BY <1>1, <2>1, <2>2, <2>3
<1> QED BY <1>0, <1>2, <1>3, <1>4, <1>5

(* The same for an element at the end. *)
LEMMA Appended ==
    ASSUME NEW S, NEW s \in Seq(S), NEW e \in S
    PROVE  Append(s, e) \in Seq(S) /\ With(s, Len(s) + 1, e, Append(s, e))
<1>1. Len(s) \in Nat
  BY LenProperties
<1>2. /\ Append(s, e) \in Seq(S) /\ Len(Append(s, e)) = Len(s) + 1
      /\ \A k \in 1 .. Len(s) : Append(s, e)[k] = s[k]
      /\ Append(s, e)[Len(s) + 1] = e
  OBVIOUS
<1> QED BY <1>1, <1>2 DEF With

-----------------------------------------------------------------------------
(***************************************************************************)
(* Part 4: the loader.                                                     *)
(***************************************************************************)

(* The steps that leave the volumes and the config files found alone. *)
LEMMA VolumesKept ==
    ASSUME LoaderInv, machine' = machine, pc # "os",
           UNCHANGED <<handles, volumes, bootCount, config_volumes, bootOnly>>
    PROVE  HandlesInv' /\ Sorted' /\ Unmixed'
BY DEF LoaderInv, HandlesInv, Sorted, Unmixed, Injective, Has, IsOnBootMedium

(* get_volumes cannot list the handles: the loader stops. *)
LEMMA StepGetVolumesFails ==
    ASSUME Within, LoaderInv, GetVolumesFails
    PROVE  LoaderInv'
<1>1. /\ machine' = machine /\ pc = "get_volumes" /\ pc' = "halt" /\ Fault
      /\ UNCHANGED <<handles, volumes, bootCount, config_volumes, bootOnly, index>>
  BY DEF GetVolumesFails
<1>2. ~Sound'
  BY <1>1, FaultMoves
<1>3. HandlesInv' /\ Sorted' /\ Unmixed'
  BY <1>1, VolumesKept
<1> QED
  BY <1>1, <1>2, <1>3 DEF LoaderInv, LoaderPhases, Collecting, Collected, Enumerating,
                          Enumerated, Halted, Chosen

(* A handle whose volume does not open is left out. *)
LEMMA StepSkipHandle ==
    ASSUME Within, LoaderInv, SkipHandle
    PROVE  LoaderInv'
<1>1. /\ machine' = machine /\ pc = "get_volumes" /\ pc' = pc /\ Fault
      /\ UNCHANGED <<handles, volumes, bootCount, config_volumes, bootOnly>>
      /\ index' = index + 1 /\ index <= Len(handles)
  BY DEF SkipHandle
<1>2. ~Sound'
  BY <1>1, FaultMoves
<1>3. HandlesInv' /\ Sorted' /\ Unmixed'
  BY <1>1, VolumesKept
<1>4. index \in Nat \ {0} /\ Len(handles) \in Nat
  BY <1>1, LenProperties DEF LoaderInv, HandlesInv
<1>5. Collecting'
  <2>1. Collecting
    BY DEF LoaderInv
  <2>2. index + 1 <= Len(handles) + 1 /\ 1 .. index - 1 \subseteq 1 .. (index + 1) - 1
    BY <1>1, <1>4
  <2> QED BY <1>1, <1>2, <2>1, <2>2 DEF Collecting
<1> QED
  BY <1>1, <1>2, <1>3, <1>4, <1>5 DEF LoaderInv, Collected, Enumerating, Enumerated,
                                      Halted, Chosen

(* The volume that is added is not yet among the others. *)
LEMMA NewVolume ==
    ASSUME Within, LoaderInv, pc = "get_volumes", index <= Len(handles)
    PROVE  handles[index] \in FileSystems(machine) /\ ~Has(volumes, handles[index])
<1>1. /\ handles \in Seq(FileSystems(machine)) /\ Injective(handles) /\ Collecting
      /\ index \in Nat \ {0}
  BY DEF LoaderInv, HandlesInv
<1>2. Len(handles) \in Nat /\ DOMAIN handles = 1 .. Len(handles) /\ index \in 1 .. Len(handles)
  BY <1>1, LenProperties
<1>3. ASSUME Has(volumes, handles[index]) PROVE FALSE
  <2>1. PICK v \in DOMAIN volumes : volumes[v] = handles[index]
    BY <1>3 DEF Has
  <2>2. PICK k \in 1 .. index - 1 : volumes[v] = handles[k]
    BY <1>1, <2>1 DEF Collecting
  <2>3. k \in 1 .. Len(handles) /\ k # index
    BY <1>1, <1>2
  <2> QED BY <1>1, <1>2, <2>1, <2>2, <2>3 DEF Injective
<1> QED BY <1>1, <1>2, <1>3

(***************************************************************************)
(* A volume of the boot medium is put behind the bootCount ones that are   *)
(* there, any other at the end: the order is kept.                         *)
(***************************************************************************)
LEMMA AddSorted ==
    ASSUME Within, LoaderInv, AddVolume
    PROVE  /\ Sorted' /\ Has(volumes', handles[index])
           /\ \A p : Has(volumes, p) => Has(volumes', p)
           /\ \A v \in DOMAIN volumes' :
                  volumes'[v] = handles[index] \/ Has(volumes, volumes'[v])
<1> DEFINE h == handles[index]
           F == FileSystems(machine)
<1>1. h \in F /\ ~Has(volumes, h)
  BY NewVolume DEF AddVolume
<1>2. /\ machine' = machine
      /\ volumes \in Seq(F) /\ Injective(volumes) /\ bootCount \in 0 .. Len(volumes)
      /\ \A v \in DOMAIN volumes : IsOnBootMedium(volumes[v]) <=> v <= bootCount
  BY DEF LoaderInv, Sorted, AddVolume, machineVars
<1>3. /\ Len(volumes) \in Nat /\ DOMAIN volumes = 1 .. Len(volumes) /\ bootCount \in Nat
      /\ bootCount <= Len(volumes)
  BY <1>2, LenProperties
<1> HIDE DEF h, F
<1>4. ASSUME NEW i, NEW t \in Seq(F), With(volumes, i, h, t),
             IF IsOnBootMedium(h) THEN i = bootCount + 1 ELSE i = Len(volumes) + 1,
             NEW b, b = IF IsOnBootMedium(h) THEN bootCount + 1 ELSE bootCount
      PROVE  /\ Injective(t) /\ Has(t, h) /\ \A p : Has(volumes, p) => Has(t, p)
             /\ \A v \in DOMAIN t : t[v] = h \/ Has(volumes, t[v])
             /\ b \in 0 .. Len(t)
             /\ \A v \in DOMAIN t : IsOnBootMedium(t[v]) <=> v <= b
  <2>1. /\ Injective(t) /\ Has(t, h) /\ \A p : Has(volumes, p) => Has(t, p)
        /\ \A v \in DOMAIN t : t[v] = h \/ Has(volumes, t[v])
    BY <1>1, <1>2, <1>4, OneMore
  <2>a. /\ i \in 1 .. Len(volumes) + 1 /\ i \in Nat /\ Len(t) = Len(volumes) + 1
        /\ \A k \in 1 .. Len(volumes) + 1 :
               t[k] = IF k < i THEN volumes[k] ELSE IF k = i THEN h ELSE volumes[k - 1]
    BY <1>3, <1>4 DEF With
  <2>2. b \in 0 .. Len(t)
    BY <1>3, <1>4, <2>a
  <2>3. ASSUME NEW v \in 1 .. Len(volumes) + 1
        PROVE  IsOnBootMedium(t[v]) <=> v <= b
    <3>1. v < i \/ v = i \/ v > i
      BY <1>3, <2>a
    <3>2. CASE v < i
      <4>1. t[v] = volumes[v] /\ v \in DOMAIN volumes
        BY <1>3, <1>4, <2>a, <3>2
      <4>2. v <= b <=> v <= bootCount
        BY <1>3, <1>4, <2>a, <3>2
      <4> QED BY <1>2, <4>1, <4>2
    <3>3. CASE v = i
      <4>1. t[v] = h
        BY <1>3, <1>4, <2>a, <3>3
      <4>2. v <= b <=> IsOnBootMedium(h)
        BY <1>3, <1>4, <2>a, <3>3
      <4> QED BY <4>1, <4>2
    <3>4. CASE v > i
      <4>1. t[v] = volumes[v - 1] /\ v - 1 \in DOMAIN volumes
        BY <1>3, <1>4, <2>a, <3>4
      <4>2. v <= b <=> v - 1 <= bootCount
        BY <1>3, <1>4, <2>a, <3>4
      <4> QED BY <1>2, <4>1, <4>2
    <3> QED BY <3>1, <3>2, <3>3, <3>4
  <2>4. DOMAIN t = 1 .. Len(volumes) + 1
    BY <1>4, <2>a, LenProperties
  <2> QED BY <2>1, <2>2, <2>3, <2>4
<1>5. /\ volumes' \in Seq(F)
      /\ Injective(volumes') /\ Has(volumes', h) /\ \A p : Has(volumes, p) => Has(volumes', p)
      /\ \A v \in DOMAIN volumes' : volumes'[v] = h \/ Has(volumes, volumes'[v])
      /\ bootCount' \in 0 .. Len(volumes')
      /\ \A v \in DOMAIN volumes' : IsOnBootMedium(volumes'[v]) <=> v <= bootCount'
  <2>1. CASE IsOnBootMedium(h)
    <3>1. volumes' = InsertAt(volumes, bootCount + 1, h) /\ bootCount' = bootCount + 1
      BY <2>1 DEF AddVolume, h
    <3>2. bootCount + 1 \in 1 .. Len(volumes) + 1
      BY <1>3
    <3>3. volumes' \in Seq(F) /\ With(volumes, bootCount + 1, h, volumes')
      BY <1>1, <1>2, <3>1, <3>2, Inserted
    <3> QED BY <1>4, <2>1, <3>1, <3>2, <3>3
  <2>2. CASE ~IsOnBootMedium(h)
    <3>1. volumes' = Append(volumes, h) /\ bootCount' = bootCount
      BY <2>2 DEF AddVolume, h
    <3>2. volumes' \in Seq(F) /\ With(volumes, Len(volumes) + 1, h, volumes')
      BY <1>1, <1>2, <3>1, Appended
    <3> QED BY <1>4, <2>2, <3>1, <3>2
  <2> QED BY <2>1, <2>2
<1> QED BY <1>2, <1>5 DEF Sorted, IsOnBootMedium, h, F

(* A volume of the boot medium goes to the front, another one to the end:  *)
(* the list stays sorted.                                                  *)
LEMMA StepAddVolume ==
    ASSUME Within, LoaderInv, AddVolume
    PROVE  LoaderInv'
<1>1. /\ machine' = machine /\ pc = "get_volumes" /\ pc' = pc /\ faults' = faults
      /\ UNCHANGED <<handles, config_volumes, bootOnly>>
      /\ index' = index + 1 /\ index <= Len(handles)
  BY DEF AddVolume, machineVars
<1>2. /\ Sorted' /\ Has(volumes', handles[index])
      /\ \A p : Has(volumes, p) => Has(volumes', p)
      /\ \A v \in DOMAIN volumes' :
             volumes'[v] = handles[index] \/ Has(volumes, volumes'[v])
  BY AddSorted
<1>3. HandlesInv' /\ Unmixed'
  BY <1>1 DEF LoaderInv, HandlesInv, Unmixed, Injective, Has, IsOnBootMedium
<1>4. index \in Nat \ {0} /\ Len(handles) \in Nat /\ Collecting
  BY <1>1, LenProperties DEF LoaderInv, HandlesInv
<1>5. index + 1 <= Len(handles) + 1 /\ 1 .. (index + 1) - 1 = (1 .. index - 1) \cup {index}
  BY <1>1, <1>4
<1>6. \A v \in DOMAIN volumes' : \E k \in 1 .. (index + 1) - 1 : volumes'[v] = handles[k]
  <2> SUFFICES ASSUME NEW v \in DOMAIN volumes'
               PROVE  \E k \in 1 .. (index + 1) - 1 : volumes'[v] = handles[k]
    OBVIOUS
  <2>1. volumes'[v] = handles[index] \/ Has(volumes, volumes'[v])
    BY <1>2
  <2>2. ASSUME Has(volumes, volumes'[v]) PROVE \E k \in 1 .. index - 1 : volumes'[v] = handles[k]
    BY <1>1, <1>4, <2>2 DEF Collecting, Has
  <2> QED BY <1>5, <2>1, <2>2
<1>7. Sound' => \A k \in 1 .. (index + 1) - 1 : Has(volumes', handles[k])
  BY <1>1, <1>2, <1>4, <1>5 DEF Collecting, Sound
<1>8. Collecting'
  BY <1>1, <1>4, <1>5, <1>6, <1>7 DEF Collecting, Has
<1> QED
  BY <1>1, <1>2, <1>3, <1>4, <1>8 DEF LoaderInv, Collected, Enumerating, Enumerated,
                                      Halted, Chosen

(* All handles are seen: the volumes are the file systems. *)
LEMMA StepGetVolumesEnd ==
    ASSUME Within, LoaderInv, GetVolumesEnd
    PROVE  LoaderInv'
<1>1. /\ machine' = machine /\ pc = "get_volumes" /\ pc' = "enumerate" /\ faults' = faults
      /\ UNCHANGED <<handles, volumes, bootCount, config_volumes, bootOnly>>
      /\ index' = 1 /\ index > Len(handles)
  BY DEF GetVolumesEnd, machineVars
<1>2. HandlesInv' /\ Sorted' /\ Unmixed'
  BY <1>1, VolumesKept
<1>3. /\ index \in Nat \ {0} /\ Len(handles) \in Nat /\ Collecting
      /\ \A p \in FileSystems(machine) : Has(handles, p)
      /\ DOMAIN handles = 1 .. Len(handles) /\ Len(volumes) \in Nat
  BY <1>1, LenProperties DEF LoaderInv, HandlesInv, Sorted
<1>4. DOMAIN handles = 1 .. index - 1
  BY <1>1, <1>3 DEF Collecting
<1>5. Collected'
  <2>1. Sound => \A p \in FileSystems(machine) : Has(volumes, p)
    BY <1>1, <1>3, <1>4 DEF Has, Collecting
  <2> QED BY <1>1, <2>1 DEF Collected, Sound, Has
<1>6. Enumerating'
  <2>1. config_volumes' = <<>> /\ 1 .. 1 - 1 = {}
    BY <1>1, <1>3 DEF Collecting
  <2> QED BY <1>1, <1>3, <2>1 DEF Enumerating
<1> QED
  BY <1>1, <1>2, <1>5, <1>6 DEF LoaderInv, LoaderPhases, Collecting, Enumerated, Halted, Chosen

(* The volume that is looked at. *)
LEMMA ThisVolume ==
    ASSUME LoaderInv, pc = "enumerate", index <= Len(volumes)
    PROVE  /\ index \in DOMAIN volumes /\ index \in Nat \ {0} /\ Len(volumes) \in Nat
           /\ volumes \in Seq(FileSystems(machine))
           /\ DOMAIN volumes = 1 .. Len(volumes)
           /\ index + 1 <= Len(volumes) + 1
           /\ 1 .. (index + 1) - 1 = (1 .. index - 1) \cup {index}
<1>1. /\ index \in Nat \ {0} /\ volumes \in Seq(FileSystems(machine))
      /\ Len(volumes) \in Nat /\ DOMAIN volumes = 1 .. Len(volumes)
  BY LenProperties DEF LoaderInv, Sorted
<1> QED BY <1>1

(* A volume without a config file leaves the list as it is. *)
LEMMA StepNoCfgFile ==
    ASSUME Within, LoaderInv, NoCfgFile
    PROVE  LoaderInv'
<1>1. /\ machine' = machine /\ pc = "enumerate" /\ pc' = pc /\ (Fault \/ NoFault)
      /\ UNCHANGED <<handles, volumes, bootCount, config_volumes, bootOnly>>
      /\ index' = index + 1 /\ index <= Len(volumes)
      /\ volumes[index] \in machine.cfg => Fault
  BY DEF NoCfgFile
<1>2. (Sound' => Sound) /\ (Fault => ~Sound')
  BY <1>1, FaultMoves
<1>3. HandlesInv' /\ Sorted' /\ Unmixed'
  BY <1>1, VolumesKept
<1>4. /\ index \in Nat \ {0} /\ index + 1 <= Len(volumes) + 1
      /\ 1 .. (index + 1) - 1 = (1 .. index - 1) \cup {index}
  BY <1>1, ThisVolume
<1>5. Collected'
  BY <1>1, <1>2 DEF LoaderInv, Collected, Has
<1>6. Enumerating'
  <2>1. Enumerating
    BY DEF LoaderInv
  <2> QED BY <1>1, <1>2, <1>4, <2>1 DEF Enumerating, IsOnBootMedium
<1> QED
  BY <1>1, <1>3, <1>4, <1>5, <1>6 DEF LoaderInv, Collecting, Enumerated, Halted, Chosen

(***************************************************************************)
(* A config file: when the first one of the boot medium is met, no file of *)
(* another medium was taken yet, because the volumes are sorted.           *)
(***************************************************************************)
LEMMA StepCfgFile ==
    ASSUME Within, LoaderInv, CfgFile
    PROVE  LoaderInv'
<1> DEFINE v == volumes[index]
<1>1. /\ machine' = machine /\ pc = "enumerate" /\ pc' = pc /\ faults' = faults
      /\ UNCHANGED <<handles, volumes, bootCount>>
      /\ index' = index + 1 /\ index <= Len(volumes)
      /\ v \in machine.cfg
      /\ bootOnly' = (bootOnly \/ IsOnBootMedium(v))
      /\ config_volumes' = IF ~bootOnly' \/ IsOnBootMedium(v)
                           THEN Append(config_volumes, v) ELSE config_volumes
  BY DEF CfgFile, machineVars
<1>2. /\ index \in DOMAIN volumes /\ index \in Nat \ {0} /\ index + 1 <= Len(volumes) + 1
      /\ DOMAIN volumes = 1 .. Len(volumes) /\ Len(volumes) \in Nat
      /\ 1 .. (index + 1) - 1 = (1 .. index - 1) \cup {index}
  BY <1>1, ThisVolume
<1>3. /\ config_volumes \in Seq(machine.cfg) /\ Injective(config_volumes)
      /\ bootOnly \in BOOLEAN
      /\ \A c \in DOMAIN config_volumes : IsOnBootMedium(config_volumes[c]) <=> bootOnly
      /\ \A c \in DOMAIN config_volumes :
             \E k \in 1 .. index - 1 : config_volumes[c] = volumes[k]
      /\ Injective(volumes) /\ bootCount \in 0 .. Len(volumes)
      /\ \A k \in DOMAIN volumes : IsOnBootMedium(volumes[k]) <=> k <= bootCount
  BY <1>1 DEF LoaderInv, Unmixed, Enumerating, Sorted
<1>4. HandlesInv' /\ Sorted'
  BY <1>1 DEF LoaderInv, HandlesInv, Sorted, Injective, Has, IsOnBootMedium
<1>5. ~Has(config_volumes, v)
  <2> SUFFICES ASSUME NEW c \in DOMAIN config_volumes, config_volumes[c] = v PROVE FALSE
    BY DEF Has
  <2>1. PICK k \in 1 .. index - 1 : config_volumes[c] = volumes[k]
    BY <1>3
  <2>2. k \in DOMAIN volumes /\ k # index
    BY <1>2
  <2> QED BY <1>2, <1>3, <2>1, <2>2 DEF Injective
<1>6. IsOnBootMedium(v) /\ ~bootOnly => DOMAIN config_volumes = {}
  <2> SUFFICES ASSUME IsOnBootMedium(v), ~bootOnly, NEW c \in DOMAIN config_volumes PROVE FALSE
    OBVIOUS
  <2>1. PICK k \in 1 .. index - 1 : config_volumes[c] = volumes[k]
    BY <1>3
  <2>2. k \in DOMAIN volumes /\ index <= bootCount
    BY <1>2, <1>3
  <2>3. k <= bootCount
    BY <1>2, <1>3, <2>2
  <2>4. IsOnBootMedium(config_volumes[c])
    BY <1>3, <2>1, <2>2, <2>3
  <2> QED BY <1>3, <2>4
<1>7. /\ Unmixed'
      /\ \A c \in DOMAIN config_volumes' :
             config_volumes'[c] = v \/ Has(config_volumes, config_volumes'[c])
  <2>1. CASE ~bootOnly' \/ IsOnBootMedium(v)
    <3> DEFINE t == Append(config_volumes, v)
    <3>1. config_volumes' = t /\ v \in machine.cfg
      BY <1>1, <2>1
    <3> HIDE DEF v
    <3>2. t \in Seq(machine.cfg) /\ With(config_volumes, Len(config_volumes) + 1, v, t)
      BY <1>3, <3>1, Appended
    <3> HIDE DEF t
    <3>3. /\ Injective(t)
          /\ \A k \in DOMAIN t : t[k] = v \/ Has(config_volumes, t[k])
      BY <1>3, <1>5, <3>1, <3>2, OneMore
    <3>4. \A k \in DOMAIN t : IsOnBootMedium(t[k]) <=> bootOnly'
      <4> SUFFICES ASSUME NEW k \in DOMAIN t PROVE IsOnBootMedium(t[k]) <=> bootOnly'
        OBVIOUS
      <4>1. CASE t[k] = v
        BY <1>1, <2>1, <4>1
      <4>2. CASE Has(config_volumes, t[k])
        <5>1. PICK c \in DOMAIN config_volumes : config_volumes[c] = t[k]
          BY <4>2 DEF Has
        <5>2. IsOnBootMedium(t[k]) <=> bootOnly
          BY <1>3, <5>1
        <5> QED BY <1>1, <1>6, <5>1, <5>2
      <4> QED BY <3>3, <4>1, <4>2
    <3> QED BY <1>1, <1>3, <3>1, <3>2, <3>3, <3>4 DEF Unmixed, IsOnBootMedium
  <2>2. CASE ~(~bootOnly' \/ IsOnBootMedium(v))
    <3>1. config_volumes' = config_volumes /\ bootOnly' = bootOnly
      BY <1>1, <1>3, <2>2
    <3> QED BY <1>1, <1>3, <3>1 DEF Unmixed, Has, IsOnBootMedium
  <2> QED BY <2>1, <2>2
<1>8. Collected'
  BY <1>1 DEF LoaderInv, Collected, Sound, Has
<1>9. Enumerating'
  <2>1. \A c \in DOMAIN config_volumes' :
            \E k \in 1 .. (index + 1) - 1 : config_volumes'[c] = volumes[k]
    BY <1>2, <1>3, <1>7 DEF Has
  <2>2. Sound /\ ~bootOnly' => \A k \in 1 .. (index + 1) - 1 :
                                  volumes[k] \in machine.cfg => ~IsOnBootMedium(volumes[k])
    BY <1>1, <1>2 DEF LoaderInv, Enumerating
  <2> HIDE DEF v
  <2> QED BY <1>1, <1>2, <2>1, <2>2 DEF Enumerating, Sound, IsOnBootMedium
<1> QED
  BY <1>1, <1>2, <1>4, <1>7, <1>8, <1>9 DEF LoaderInv, Collecting, Enumerated, Halted, Chosen

(* All volumes are seen: the list is complete for the boot medium, or for  *)
(* all media.                                                              *)
LEMMA StepEnumerateEnd ==
    ASSUME Within, LoaderInv, EnumerateEnd
    PROVE  LoaderInv'
<1>1. /\ machine' = machine /\ pc = "enumerate" /\ pc' = "load" /\ faults' = faults
      /\ UNCHANGED <<handles, volumes, bootCount, config_volumes, bootOnly, index>>
      /\ index > Len(volumes)
  BY DEF EnumerateEnd, machineVars
<1>2. HandlesInv' /\ Sorted' /\ Unmixed'
  BY <1>1, VolumesKept
<1>3. /\ index \in Nat \ {0} /\ Len(volumes) \in Nat /\ DOMAIN volumes = 1 .. Len(volumes)
      /\ Enumerating /\ Collected
  BY LenProperties DEF LoaderInv, Sorted
<1>4. DOMAIN volumes = 1 .. index - 1
  BY <1>1, <1>3 DEF Enumerating
<1>5. machine.cfg \subseteq FileSystems(machine)
  BY MachinesAssumption DEF Within
<1>6. Sound /\ ~bootOnly => \A p \in machine.cfg : ~IsOnBootMedium(p)
  BY <1>1, <1>3, <1>4, <1>5 DEF Enumerating, Collected, Has
<1>7. Enumerated' /\ Collected'
  BY <1>1, <1>3, <1>6 DEF Enumerated, Collected, Sound, Has, IsOnBootMedium
<1> QED
  BY <1>1, <1>2, <1>3, <1>7 DEF LoaderInv, LoaderPhases, Collecting, Enumerating, Halted, Chosen

(***************************************************************************)
(* Too many config files: they are all of the boot medium, on which there  *)
(* are then too many; or that has none, if no I/O error hid one.           *)
(***************************************************************************)
LEMMA TooMany ==
    ASSUME Within, LoaderInv, pc = "load", Sound, ~Unpartitioned(Disk(machine.boot)),
           Len(config_volumes) > ENV_NUM_CONFIG_PARTS
    PROVE  CfgOnBoot = {} \/ Cardinality(CfgOnBoot) > ENV_NUM_CONFIG_PARTS
<1>1. /\ machine.cfg \subseteq FileSystems(machine) /\ IsFiniteSet(FileSystems(machine))
  BY MachinesAssumption DEF Within
<1>2. CfgOnBoot = {p \in machine.cfg : OnBootDisk(p)}
  BY DEF CfgOnBoot, CfgOn, OnBootDisk
<1>3. \A p \in machine.cfg : IsOnBootMedium(p) <=> OnBootDisk(p)
  BY <1>1, BootMedium
<1>4. CASE ~bootOnly
  <2>1. \A p \in machine.cfg : ~IsOnBootMedium(p)
    BY <1>4 DEF LoaderInv, Enumerated
  <2> QED BY <1>2, <1>3, <2>1
<1>5. CASE bootOnly
  <2> DEFINE n == Len(config_volumes)
  <2>1. /\ config_volumes \in Seq(machine.cfg) /\ Injective(config_volumes)
        /\ \A c \in DOMAIN config_volumes : IsOnBootMedium(config_volumes[c])
    BY <1>5 DEF LoaderInv, Unmixed
  <2>2. n \in Nat /\ DOMAIN config_volumes = 1 .. n
        /\ config_volumes \in [1 .. n -> machine.cfg]
    BY <2>1, LenProperties
  <2>3. \A c \in 1 .. n : config_volumes[c] \in CfgOnBoot
    BY <1>2, <1>3, <2>1, <2>2
  <2>4. config_volumes \in [1 .. n -> CfgOnBoot]
    BY <2>2, <2>3
  <2>5. IsFiniteSet(CfgOnBoot) /\ Cardinality(CfgOnBoot) \in Nat
    <3>1. CfgOnBoot \in SUBSET FileSystems(machine)
      BY <1>1, <1>2
    <3> QED BY <1>1, <3>1, FS_Subset, FS_CardinalityType
  <2>6. IsFiniteSet(1 .. n) /\ Cardinality(1 .. n) = n
    BY <2>2, FS_Interval
  <2>7. ~(Cardinality(CfgOnBoot) < n)
    <3> SUFFICES ASSUME Cardinality(CfgOnBoot) < Cardinality(1 .. n) PROVE FALSE
      BY <2>6
    <3>1. \E x, y \in 1 .. n : x # y /\ config_volumes[x] = config_volumes[y]
      <4> HIDE DEF n
      <4> QED BY <2>4, <2>5, <2>6, FS_PigeonHole
    <3> QED BY <2>1, <2>2, <3>1 DEF Injective
  <2> QED BY <2>2, <2>5, <2>7, NumPartsAssumption
<1> QED BY <1>4, <1>5

(* load_config refuses more config files than it has room for. *)
LEMMA StepLoadConfig ==
    ASSUME Within, LoaderInv, LoadConfig
    PROVE  LoaderInv'
<1>1. /\ machine' = machine /\ pc = "load" /\ pc' \in {"halt", "path"} /\ faults' = faults
      /\ UNCHANGED <<handles, volumes, bootCount, config_volumes, bootOnly, index>>
      /\ pc' = "halt" => Len(config_volumes) > ENV_NUM_CONFIG_PARTS
  BY DEF LoadConfig, machineVars
<1>2. HandlesInv' /\ Sorted' /\ Unmixed'
  BY <1>1, VolumesKept
<1>3. Halted'
  <2> SUFFICES ASSUME pc' = "halt", Sound, ~Unpartitioned(Disk(machine.boot))
               PROVE  CfgOnBoot = {} \/ Cardinality(CfgOnBoot) > ENV_NUM_CONFIG_PARTS
    BY <1>1 DEF Halted, Sound, Unpartitioned, Table, CfgOnBoot, CfgOn
  <2> QED BY <1>1, TooMany
<1> QED
  BY <1>1, <1>2, <1>3 DEF LoaderInv, LoaderPhases, Collecting, Collected, Enumerating,
                          Enumerated, Chosen

(* Every non-empty set of numbers has a least element. *)
LEMMA LeastNumber ==
    ASSUME NEW T, T \subseteq Nat, T # {}
    PROVE  Min(T) \in T /\ \A y \in T : Min(T) <= y
<1>1. \E x \in T : \A y \in T : ~(<<y, x>> \in OpToRel(<, Nat))
  BY WFMin, NatLessThanWellFounded, Zenon
<1>2. \E x \in T : \A y \in T : ~(y < x)
  BY <1>1, Zenon DEF OpToRel
<1>3. \A x, y \in T : ~(y < x) => x <= y
  OBVIOUS
<1>4. \E x \in T : \A y \in T : x <= y
  BY <1>2, <1>3, Zenon
<1> QED BY <1>4, Zenon DEF Min

(* FileDevicePathFromConfig takes the first volume whose label matches. *)
LEMMA StepFileDevicePath ==
    ASSUME Within, LoaderInv, FileDevicePathFromConfig
    PROVE  LoaderInv'
<1>1. /\ machine' = machine /\ pc = "path" /\ pc' = "start" /\ faults' = faults
      /\ UNCHANGED <<handles, volumes, bootCount, config_volumes, bootOnly, index>>
  BY DEF FileDevicePathFromConfig, machineVars
<1>2. PICK f \in Paths : path' = f /\ payload' = Lookup(f)
  BY DEF FileDevicePathFromConfig
<1>3. HandlesInv' /\ Sorted' /\ Unmixed'
  BY <1>1, VolumesKept
<1>4. Chosen'
  <2> DEFINE M == {v \in DOMAIN volumes : Matches(f, volumes[v])}
  <2> SUFFICES ASSUME f.label # <<>>
               PROVE  \/ /\ \A u \in DOMAIN volumes : ~Matches(f, volumes[u])
                         /\ payload' = [part |-> machine.boot, stripped |-> FALSE]
                      \/ \E v \in DOMAIN volumes :
                             /\ Matches(f, volumes[v])
                             /\ \A u \in DOMAIN volumes : Matches(f, volumes[u]) => v <= u
                             /\ payload' = [part |-> volumes[v], stripped |-> TRUE]
    BY <1>1, <1>2 DEF Chosen, Matches, LabelOf
  <2>1. payload' = IF M = {} THEN [part |-> machine.boot, stripped |-> FALSE]
                   ELSE [part |-> volumes[Min(M)], stripped |-> TRUE]
    BY <1>2 DEF Lookup
  <2>2. M \subseteq Nat
    BY LenProperties DEF LoaderInv, Sorted
  <2>3. CASE M = {}
    BY <2>1, <2>3
  <2>4. CASE M # {}
    <3>1. Min(M) \in M /\ \A y \in M : Min(M) <= y
      BY <2>2, <2>4, LeastNumber
    <3> DEFINE v == Min(M)
    <3>2. v \in DOMAIN volumes /\ Matches(f, volumes[v])
      BY <3>1
    <3>3. \A u \in DOMAIN volumes : Matches(f, volumes[u]) => v <= u
      BY <3>1
    <3>4. payload' = [part |-> volumes[v], stripped |-> TRUE]
      BY <2>1, <2>4
    <3> HIDE DEF v
    <3> QED BY <3>2, <3>3, <3>4
  <2> QED BY <2>3, <2>4
<1> QED
  BY <1>1, <1>3, <1>4 DEF LoaderInv, LoaderPhases, Collecting, Collected, Enumerating,
                          Enumerated, Halted

(* The kernel starts and the volumes are released. *)
LEMMA StepStartKernel ==
    ASSUME Within, LoaderInv, StartKernel
    PROVE  LoaderInv'
<1>1. /\ machine' = machine /\ pc = "start" /\ pc' = "os" /\ index' = 1
      /\ volumes' = <<>> /\ bootCount' = 0 /\ UNCHANGED <<config_volumes, bootOnly>>
  BY DEF StartKernel
<1>2. Unmixed'
  BY <1>1 DEF LoaderInv, Unmixed, Injective, IsOnBootMedium
<1>3. Sorted'
  <2>1. <<>> \in Seq(FileSystems(machine)) /\ Len(<<>>) = 0 /\ DOMAIN <<>> = {}
    OBVIOUS
  <2> QED BY <1>1, <2>1 DEF Sorted, Injective
<1> QED
  BY <1>1, <1>2, <1>3 DEF LoaderInv, LoaderPhases, HandlesInv, Collecting, Collected,
                          Enumerating, Enumerated, Halted, Chosen

(***************************************************************************)
(* Every step of the loader keeps its invariant.                           *)
(***************************************************************************)
LEMMA LoaderStep ==
    ASSUME Within, LoaderInv, LoaderNext
    PROVE  Within' /\ LoaderInv' /\ machine' = machine /\ (Fault \/ NoFault)
<1>1. machine' = machine /\ (Fault \/ NoFault)
  BY DEF LoaderNext, GetVolumesFails, SkipHandle, AddVolume, GetVolumesEnd, NoCfgFile, CfgFile,
         EnumerateEnd, LoadConfig, FileDevicePathFromConfig, StartKernel, machineVars, NoFault
<1>2. LoaderInv'
  BY StepGetVolumesFails, StepSkipHandle, StepAddVolume, StepGetVolumesEnd, StepNoCfgFile,
     StepCfgFile, StepEnumerateEnd, StepLoadConfig, StepFileDevicePath, StepStartKernel
     DEF LoaderNext
<1> QED BY <1>1, <1>2, FaultMoves

(* What the library does after the start of the kernel does not touch the  *)
(* loader's.                                                               *)
LEMMA LoaderRests ==
    ASSUME LoaderInv, machine' = machine, UNCHANGED loaderVars, pc = "os" \/ faults' = faults
    PROVE  LoaderInv'
<1>1. /\ UNCHANGED <<handles, pc, index, volumes, bootCount, config_volumes, bootOnly>>
      /\ UNCHANGED <<path, payload>>
  BY DEF loaderVars
<1>2. CASE pc = "os"
  BY <1>1, <1>2 DEF LoaderInv, HandlesInv, Sorted, Unmixed, Injective, IsOnBootMedium,
                    Collecting, Collected, Enumerating, Enumerated, Halted, Chosen
<1>3. CASE pc # "os" /\ faults' = faults
  <2>1. HandlesInv' /\ Sorted' /\ Unmixed'
    BY <1>1, <1>3, VolumesKept
  <2>2. Collecting' /\ Collected' /\ Enumerating' /\ Enumerated'
    BY <1>1, <1>3 DEF LoaderInv, Collecting, Collected, Enumerating, Enumerated, Sound, Has,
                      IsOnBootMedium
  <2>3. Halted' /\ Chosen'
    BY <1>1, <1>3 DEF LoaderInv, Halted, Chosen, Sound, Unpartitioned, Table, CfgOnBoot, CfgOn,
                      Matches, LabelOf
  <2> QED BY <1>1, <2>1, <2>2, <2>3 DEF LoaderInv
<1> QED BY <1>2, <1>3

(* And the library does nothing before that. *)
LEMMA LibRests ==
    ASSUME Within, MountInv, machine' = machine, Fault \/ NoFault, UNCHANGED libVars
    PROVE  MountInv'
<1>1. UNCHANGED <<phase, part, mounts, mountpoint, do_unmount, first_device, dev>>
  BY DEF libVars
<1>2. Mounted'
  BY <1>1, MountsKept DEF MountInv
<1> QED BY <1>1, <1>2 DEF MountInv, Held, AtPartition, ThisEntry, NoMount

-----------------------------------------------------------------------------
(***************************************************************************)
(* Part 5: the theorems about loader and mounts.                           *)
(***************************************************************************)

(* A machine at power-on. *)
LEMMA InvInit == Init => BInv
<1> SUFFICES ASSUME Init PROVE BInv
  OBVIOUS
<1>1. Within
  BY FaultsAssumption DEF Init, Within
<1>2. LoaderInv
  <2>1. handles \in SetToSeqs(FileSystems(machine)) /\ IsFiniteSet(FileSystems(machine))
    BY <1>1, MachinesAssumption DEF Init, LoaderInit, Within
  <2>2. HandlesInv
    BY <2>1, Handles DEF HandlesInv
  <2>3. /\ pc = "get_volumes" /\ index = 1 /\ volumes = <<>> /\ bootCount = 0
        /\ config_volumes = <<>> /\ bootOnly = FALSE
    BY DEF Init, LoaderInit
  <2>4. /\ volumes \in Seq(FileSystems(machine)) /\ Len(volumes) = 0
        /\ config_volumes \in Seq(machine.cfg) /\ Len(config_volumes) = 0
    BY <2>3, EmptySeq
  <2>5. Sorted /\ Unmixed
    <3>1. /\ volumes \in Seq(FileSystems(machine)) /\ config_volumes \in Seq(machine.cfg)
          /\ DOMAIN volumes = {} /\ DOMAIN config_volumes = {}
          /\ bootCount \in 0 .. Len(volumes) /\ bootOnly \in BOOLEAN
      <4>1. DOMAIN volumes = 1 .. 0 /\ DOMAIN config_volumes = 1 .. 0
        BY <2>4, LenProperties
      <4>2. 1 .. 0 = {} /\ bootCount \in 0 .. Len(volumes)
        BY <2>3, <2>4
      <4>3. bootOnly \in BOOLEAN
        BY <2>3, Zenon
      <4> QED BY <2>4, <4>1, <4>2, <4>3
    <3> QED BY <3>1, Zenon DEF Sorted, Unmixed, Injective
  <2>6. Collecting
    <3>1. Len(handles) \in Nat /\ 1 .. 1 - 1 = {}
      BY <2>2, <2>3, LenProperties DEF HandlesInv
    <3> QED BY <2>3, <2>4, <3>1 DEF Collecting
  <2> QED BY <2>2, <2>3, <2>5, <2>6 DEF LoaderInv, LoaderPhases, Collected, Enumerating,
                                        Enumerated, Halted, Chosen
<1>3. MountInv
  <2>1. /\ phase = "idle" /\ part = 1 /\ mounts = SystemMounts /\ mountpoint = NoMount
        /\ do_unmount = FALSE
    BY DEF Init, LibInit
  <2>2. Mounted /\ Held
    BY <1>1, <2>1, SystemMountsFinite, Zenon DEF Mounted, Held
  <2> QED BY <2>1, <2>2 DEF MountInv, LibPhases
<1> QED BY <1>1, <1>2, <1>3 DEF BInv

(* The steps of the loader keep its invariant and touch no mount; those of *)
(* the library the reverse.                                                *)
LEMMA InvStep ==
    ASSUME BInv, [Next]_vars
    PROVE  BInv'
<1>0. Within /\ LoaderInv /\ MountInv
  BY DEF BInv
<1>1. CASE LoaderNext /\ UNCHANGED libVars
  BY <1>0, <1>1, LoaderStep, LibRests DEF BInv
<1>2. CASE pc = "os" /\ LibNext /\ UNCHANGED loaderVars
  <2>1. Within' /\ MountInv'
    BY <1>0, <1>2, LibStep
  <2>2. machine' = machine
    BY <1>2 DEF LibNext, bgenv_init, AddDevice, SkipDevice, ProbeEnd, SkipPartition, ProbeMount,
                ProbeMountFails, NotFound, FoundConfig, NextDevice, SearchEnd, ReadMount,
                ReadEnv, InitEnd, bgenv_finalize, machineVars
  <2> QED BY <1>0, <1>2, <2>1, <2>2, LoaderRests DEF BInv
<1>3. CASE UNCHANGED vars
  <2>1. machine' = machine /\ NoFault /\ faults' = faults /\ UNCHANGED <<loaderVars, libVars>>
    BY <1>3 DEF vars, machineVars, NoFault
  <2> QED BY <1>0, <2>1, FaultMoves, LoaderRests, LibRests DEF BInv
<1> QED BY <1>1, <1>2, <1>3 DEF Next

(* The invariants of loader and library hold on every machine. *)
THEOREM MediaInvariance == Spec => []BInv
BY InvInit, InvStep, PTL DEF Spec

(***************************************************************************)
(* On every machine and with any number of I/O errors, the library never   *)
(* takes away a mount of the system, and without errors it leaves none of  *)
(* its own behind.                                                         *)
(***************************************************************************)
THEOREM Mounts == Spec => []MountsRestored
<1>1. BInv => MountsRestored
  <2> SUFFICES ASSUME BInv PROVE MountsRestored
    OBVIOUS
  <2>1. Mounted /\ Held
    BY DEF BInv, MountInv
  <2>2. phase = "idle" => ~do_unmount
    BY <2>1 DEF Mounted, Held, AtPartition
  <2> QED BY <2>1, <2>2 DEF MountsRestored, Mounted, Sound
<1> QED BY <1>1, MediaInvariance, PTL

(***************************************************************************)
(* On every machine booted from a partitioned medium, and for every order  *)
(* in which the firmware gives its handles: config files of the boot       *)
(* medium are never mixed with others, and those of others never keep the  *)
(* loader from booting with them.                                          *)
(***************************************************************************)
THEOREM Recovery == Spec => []RecoveryMode
<1>1. BInv => RecoveryMode
  <2> SUFFICES ASSUME BInv, ~Unpartitioned(Disk(machine.boot))
               PROVE  /\ \A p, q \in ToSet(config_volumes) : OnBootDisk(p) => OnBootDisk(q)
                      /\ pc = "halt" /\ faults = MaxFaults =>
                             \/ CfgOnBoot = {}
                             \/ Cardinality(CfgOnBoot) > ENV_NUM_CONFIG_PARTS
    BY DEF RecoveryMode
  <2>1. Within /\ Unmixed /\ Halted
    BY DEF BInv, LoaderInv
  <2>2. machine.cfg \subseteq FileSystems(machine)
    BY <2>1, MachinesAssumption DEF Within
  <2>3. \A p \in ToSet(config_volumes) : p \in machine.cfg /\ (IsOnBootMedium(p) <=> bootOnly)
    BY <2>1 DEF Unmixed, ToSet
  <2>4. \A p \in ToSet(config_volumes) : OnBootDisk(p) <=> bootOnly
    BY <2>1, <2>2, <2>3, BootMedium
  <2> QED BY <2>1, <2>4 DEF Halted, Sound
<1> QED BY <1>1, MediaInvariance, PTL

(***************************************************************************)
(* On every machine, a kernel named by label comes from a volume with just *)
(* that label if there is one, and from the boot medium if that has one,   *)
(* provided that no other label begins with it.                            *)
(***************************************************************************)
THEOREM LabelledKernel == Spec => []KernelByLabel
<1>1. BInv => KernelByLabel
  <2> DEFINE Name(p) == LabelOf(path.mode, p)
             Exact == {p \in ToSet(volumes) : Name(p) = path.label}
             Longer == {p \in ToSet(volumes) : /\ Name(p) # NoLabel /\ Name(p) # path.label
                                               /\ IsPrefix(path.label, Name(p))}
  <2> SUFFICES ASSUME BInv, pc = "start", path.label # <<>>, Longer = {}
               PROVE  IF Exact = {} THEN payload = [part |-> machine.boot, stripped |-> FALSE]
                      ELSE /\ payload.stripped /\ payload.part \in Exact
                           /\ (\E p \in Exact : OnBootDisk(p)) /\ ~Unpartitioned(Disk(machine.boot))
                                  => OnBootDisk(payload.part)
    BY DEF KernelByLabel
  <2>1. Within /\ Sorted /\ Chosen
    BY DEF BInv, LoaderInv
  <2>2. \A u \in DOMAIN volumes : volumes[u] \in ToSet(volumes)
    BY DEF ToSet
  <2>3. \A u \in DOMAIN volumes : Matches(path, volumes[u]) <=> Name(volumes[u]) = path.label
    <3>1. path.label # NoLabel /\ IsPrefix(path.label, path.label)
      <4>1. path.label \in Labels
        BY <2>1 DEF Chosen, Paths
      <4>2. path.label \in Seq(STRING) /\ path.label # NoLabel
        BY <4>1, LabelsAssumption
      <4>3. Len(path.label) \in Nat
        BY <4>2, LenProperties
      <4> QED BY <4>2, <4>3 DEF IsPrefix
    <3> QED BY <2>2, <3>1 DEF Matches
  <2>4. \A p : p \in Exact <=> \E u \in DOMAIN volumes : volumes[u] = p /\ Matches(path, p)
    BY <2>3 DEF ToSet
  <2> HIDE DEF Exact, Longer, Name
  <2>5. CASE /\ \A u \in DOMAIN volumes : ~Matches(path, volumes[u])
             /\ payload = [part |-> machine.boot, stripped |-> FALSE]
    BY <2>4, <2>5
  <2>6. ASSUME NEW v \in DOMAIN volumes, Matches(path, volumes[v]),
               \A u \in DOMAIN volumes : Matches(path, volumes[u]) => v <= u,
               payload = [part |-> volumes[v], stripped |-> TRUE]
        PROVE  /\ payload.stripped /\ payload.part \in Exact
               /\ (\E p \in Exact : OnBootDisk(p)) /\ ~Unpartitioned(Disk(machine.boot))
                      => OnBootDisk(payload.part)
    <3>1. payload.stripped /\ payload.part = volumes[v] /\ volumes[v] \in Exact
      BY <2>4, <2>6
    <3>2. ASSUME NEW p \in Exact, OnBootDisk(p), ~Unpartitioned(Disk(machine.boot))
          PROVE  OnBootDisk(volumes[v])
      <4>1. PICK u \in DOMAIN volumes : volumes[u] = p /\ Matches(path, p)
        BY <2>4
      <4>2. v <= u
        BY <2>6, <4>1
      <4>3. /\ volumes[u] \in FileSystems(machine) /\ volumes[v] \in FileSystems(machine)
            /\ u \in Nat /\ v \in Nat /\ bootCount \in Nat
        BY <2>1, LenProperties DEF Sorted
      <4>4. u <= bootCount
        BY <2>1, <3>2, <4>1, <4>3, BootMedium DEF Sorted
      <4>5. v <= bootCount
        BY <4>2, <4>3, <4>4
      <4> QED BY <2>1, <3>2, <4>3, <4>5, BootMedium DEF Sorted
    <3> QED BY <3>1, <3>2
  <2> QED BY <2>1, <2>5, <2>6 DEF Chosen
<1> QED BY <1>1, MediaInvariance, PTL

-----------------------------------------------------------------------------
(***************************************************************************)
(* Part 6: the invariant of the search.                                    *)
(***************************************************************************)

(* Entry j of the list of the i-th device. *)
Item(i, j) == first_device[i].part_list[j]
Part(i, j) == <<first_device[i].disk, Item(i, j).num>>

(* The entries of the lists at which a config file is found. *)
Positions == {h \in Nat \X Nat : h[1] \in DOMAIN first_device
                                 /\ h[2] \in DOMAIN first_device[h[1]].part_list}
Hits == {h \in Positions : Item(h[1], h[2]).fat /\ Part(h[1], h[2]) \in machine.cfg}

(* Those that the search has passed. *)
Passed(h) == h[1] < dev \/ (h[1] = dev /\ h[2] < part)
Walked    == {h \in Hits : Passed(h)}

(* More config files than the search allows, wherever they come from. *)
Overfull ==
    \E W \in SUBSET Hits : IsFiniteSet(W) /\ Cardinality(W) > ENV_NUM_CONFIG_PARTS

(* Lists of partitions with different numbers. *)
Entries    == [num : Nat, fat : BOOLEAN]
Distinct(s) == \A j, k \in DOMAIN s : s[j].num = s[k].num => j = k

SearchShape ==
    /\ first_device \in Seq([disk : DOMAIN machine.disks, part_list : Seq(Entries)])
    /\ dev \in Nat \ {0}
    /\ config_parts \in Seq([part : machine.cfg, not_mounted : BOOLEAN])
    /\ Len(config_parts) <= ENV_NUM_CONFIG_PARTS
    /\ fresh \in BOOLEAN
    /\ phase # "idle" => ret = "none"

(* The disk that the search is limited to. *)
RootDisk ==
    /\ LoaderDevicePartUUID \in {machine.earlier, machine.boot}
    /\ \/ rootdev = NoDisk
       \/ rootdev = Disk(machine.boot)
       \/ machine.earlier # NoPartition /\ rootdev = Disk(machine.earlier)

Searching == phase \in {"probe", "walk"}

(* A list that was empty at first has each disk searched once, and without *)
(* errors all of them, each with the partitions that are visible.          *)
Shown(i) ==
    \A p \in CfgOn(first_device[i].disk) :
        (\E j \in DOMAIN first_device[i].part_list : Item(i, j).fat /\ Part(i, j) = p)
            <=> p \in Reachable(first_device[i].disk)

Probed ==
    Searching /\ fresh =>
        /\ \A i \in DOMAIN first_device :
              /\ first_device[i].disk \in Scope \ todo
              /\ Distinct(first_device[i].part_list)
              /\ Sound => Shown(i)
        /\ \A i, k \in DOMAIN first_device :
              first_device[i].disk = first_device[k].disk => i = k
        /\ Sound => \A d \in Scope \ todo :
              Unpartitioned(d) \/ \E i \in DOMAIN first_device : first_device[i].disk = d

(* What is left over makes the next search fail. *)
LeftOver ==
    /\ Searching => todo \subseteq Scope
    /\ phase = "walk" => todo = {}
    /\ phase = "read" => first_device = <<>> /\ Len(config_parts) = ENV_NUM_CONFIG_PARTS
    /\ phase = "probe" => config_parts = <<>>
    /\ Sound /\ phase = "idle" /\ first_device # <<>> => Overfull
    /\ Sound /\ Searching /\ ~fresh => Overfull

(* The config partitions found are those passed. *)
Counted ==
    phase = "walk" /\ Sound => IsFiniteSet(Walked) /\ Cardinality(Walked) = Len(config_parts)

DistinctParts ==
    \A k, l \in DOMAIN config_parts : config_parts[k].part = config_parts[l].part => k = l

Gathered ==
    phase = "walk" /\ fresh =>
        /\ DistinctParts
        /\ \A k \in DOMAIN config_parts : \E h \in Walked : config_parts[k].part = Part(h[1], h[2])
        /\ Sound => \A h \in Walked : \E k \in DOMAIN config_parts :
                        config_parts[k].part = Part(h[1], h[2])

(* What a search has returned. *)
Success ==
    phase = "read" \/ ret = "true" =>
        /\ Len(config_parts) = ENV_NUM_CONFIG_PARTS
        /\ fresh => DistinctParts /\ FoundParts \subseteq CfgInScope
        /\ fresh /\ Sound => FoundParts = InScope
        /\ ~fresh => ~Sound

Failure ==
    ret = "false" /\ fresh /\ Sound => Cardinality(InScope) # ENV_NUM_CONFIG_PARTS

SInv ==
    /\ SearchShape /\ RootDisk /\ Probed /\ LeftOver /\ Counted /\ Gathered
    /\ Success /\ Failure

-----------------------------------------------------------------------------
(***************************************************************************)
(* Part 7: what the library reads from a partition table.                  *)
(***************************************************************************)

(* The list of entries in use before the first unused one. *)
LEMMA LeadingEntries ==
    ASSUME NEW e \in Seq(EntryTypes)
    PROVE  /\ Leading(e) \in Seq(EntryTypes) /\ Len(Leading(e)) \in Nat
           /\ Len(e) \in Nat /\ Len(Leading(e)) <= Len(e)
           /\ DOMAIN Leading(e) = 1 .. Len(Leading(e)) /\ DOMAIN e = 1 .. Len(e)
           /\ \A n \in 1 .. Len(Leading(e)) : Leading(e)[n] = e[n] /\ e[n] # "none"
           /\ Len(Leading(e)) < Len(e) => e[Len(Leading(e)) + 1] = "none"
<1>1. Len(e) \in Nat /\ DOMAIN e = 1 .. Len(e)
  OBVIOUS
<1>2. CASE ~Contains(e, "none")
  <2>1. Leading(e) = e
    BY <1>2 DEF Leading
  <2>2. \A n \in 1 .. Len(e) : e[n] # "none"
    BY <1>2 DEF Contains
  <2> QED BY <1>1, <2>1, <2>2
<1>3. CASE Contains(e, "none")
  <2> DEFINE I == {i \in 1 .. Len(e) : e[i] = "none"}
             k == Min(I)
  <2>1. I \subseteq Nat /\ I # {}
    BY <1>1, <1>3 DEF Contains
  <2>2. k \in I /\ \A y \in I : k <= y
    BY <2>1, LeastNumber
  <2>3. Leading(e) = SubSeq(e, 1, k - 1)
    BY <1>3, <2>1 DEF Leading, SelectInSeq
  <2> HIDE DEF k
  <2>4. k \in 1 .. Len(e) /\ e[k] = "none" /\ \A n \in 1 .. k - 1 : e[n] # "none"
    BY <1>1, <2>2
  <2> HIDE DEF I
  <2>5. /\ Len(SubSeq(e, 1, k - 1)) = k - 1 /\ SubSeq(e, 1, k - 1) \in Seq(EntryTypes)
        /\ DOMAIN SubSeq(e, 1, k - 1) = 1 .. k - 1
        /\ \A n \in 1 .. k - 1 : SubSeq(e, 1, k - 1)[n] = e[n]
    BY <1>1, <2>4
  <2> QED BY <1>1, <2>3, <2>4, <2>5
<1> QED BY <1>2, <1>3

(* A list of partitions whose different numbers are in A; those in F are   *)
(* FAT file systems.                                                       *)
Fats(s, n) == \E j \in DOMAIN s : s[j].num = n /\ s[j].fat
ListOf(s, A, F) ==
    /\ s \in Seq(Entries) /\ Distinct(s)
    /\ \A j \in DOMAIN s : s[j].num \in A
    /\ \A n \in Nat : Fats(s, n) <=> n \in F

(* The list of nothing, and a list of one. *)
LEMMA NoEntries ==
    ListOf(<<>>, {}, {})
BY DEF ListOf, Distinct, Fats

(* A list with one entry. *)
LEMMA OneEntry ==
    ASSUME NEW n \in Nat, NEW type
    PROVE  /\ type = "fat" => ListOf(<<Entry(n, type)>>, {n}, {n})
           /\ type # "fat" => ListOf(<<Entry(n, type)>>, {n}, {})
<1> DEFINE s == <<Entry(n, type)>>
<1>1. /\ Entry(n, type).num = n /\ (Entry(n, type).fat <=> type = "fat")
      /\ Entry(n, type) \in Entries
  BY DEF Entry, Entries
<1>2. s \in Seq(Entries) /\ Len(s) = 1 /\ DOMAIN s = {1} /\ s[1] = Entry(n, type)
  BY <1>1
<1> HIDE DEF s
<1>3. Distinct(s)
  BY <1>2 DEF Distinct
<1>4. \A m \in Nat : Fats(s, m) <=> m = n /\ type = "fat"
  BY <1>1, <1>2 DEF Fats
<1> QED BY <1>1, <1>2, <1>3, <1>4 DEF ListOf, s

(* Two lists without a number in common. *)
LEMMA JoinedLists ==
    ASSUME NEW s, NEW t, NEW A, NEW B, NEW F, NEW G,
           ListOf(s, A, F), ListOf(t, B, G), A \cap B = {}
    PROVE  ListOf(s \o t, A \cup B, F \cup G)
<1>1. /\ s \in Seq(Entries) /\ t \in Seq(Entries)
      /\ Len(s) \in Nat /\ Len(t) \in Nat /\ DOMAIN s = 1 .. Len(s) /\ DOMAIN t = 1 .. Len(t)
  BY DEF ListOf
<1> DEFINE u == s \o t
<1>2. u \in Seq(Entries) /\ Len(u) = Len(s) + Len(t) /\ DOMAIN u = 1 .. Len(s) + Len(t)
  BY <1>1
<1>3. \A j \in DOMAIN s : j \in DOMAIN u /\ u[j] = s[j]
  BY <1>1
<1>4. \A j \in DOMAIN t : Len(s) + j \in DOMAIN u /\ u[Len(s) + j] = t[j]
  BY <1>1
<1>5. \A j \in DOMAIN u : j \in DOMAIN s \/ \E k \in DOMAIN t : j = Len(s) + k
  <2> SUFFICES ASSUME NEW j \in DOMAIN u, j \notin DOMAIN s
               PROVE  \E k \in DOMAIN t : j = Len(s) + k
    OBVIOUS
  <2>1. j - Len(s) \in DOMAIN t /\ j = Len(s) + (j - Len(s))
    BY <1>1, <1>2
  <2> QED BY <2>1
<1> HIDE DEF u
<1>6. \A j \in DOMAIN s : s[j].num \in A
  BY DEF ListOf
<1>7. \A j \in DOMAIN t : t[j].num \in B
  BY DEF ListOf
<1>8. \A j \in DOMAIN u : u[j].num \in A \cup B
  BY <1>3, <1>4, <1>5, <1>6, <1>7
<1>9. Distinct(u)
  <2> SUFFICES ASSUME NEW j \in DOMAIN u, NEW k \in DOMAIN u, u[j].num = u[k].num
               PROVE  j = k
    BY DEF Distinct
  <2>1. CASE j \in DOMAIN s /\ k \in DOMAIN s
    BY <1>3, <2>1 DEF ListOf, Distinct
  <2>2. ASSUME NEW a \in DOMAIN t, NEW b \in DOMAIN t, j = Len(s) + a, k = Len(s) + b
        PROVE  j = k
    <3>1. t[a].num = t[b].num
      BY <1>4, <2>2
    <3> QED BY <2>2, <3>1 DEF ListOf, Distinct
  <2>3. ASSUME NEW a \in DOMAIN s, NEW b \in DOMAIN t PROVE s[a].num # t[b].num
    BY <1>6, <1>7
  <2> QED BY <1>3, <1>4, <1>5, <2>1, <2>2, <2>3
<1>10. ASSUME NEW n \in Nat PROVE Fats(u, n) <=> n \in F \cup G
  <2>1. (Fats(s, n) <=> n \in F) /\ (Fats(t, n) <=> n \in G)
    BY DEF ListOf
  <2>2. Fats(u, n) <=> Fats(s, n) \/ Fats(t, n)
    BY <1>3, <1>4, <1>5 DEF Fats
  <2> QED BY <2>1, <2>2
<1> QED BY <1>2, <1>8, <1>9, <1>10 DEF ListOf, u

(* Numbers from n + 1 on, in order. *)
LEMMA NumberedList ==
    ASSUME NEW e \in Seq(EntryTypes), NEW m \in Nat, NEW k \in Nat, k <= Len(e)
    PROVE  ListOf([n \in 1 .. k |-> Entry(n + m, e[n])], m + 1 .. m + k,
                  {n \in m + 1 .. m + k : e[n - m] = "fat"})
<1> DEFINE s == [n \in 1 .. k |-> Entry(n + m, e[n])]
<1>1. \A n \in 1 .. k : /\ s[n].num = n + m /\ (s[n].fat <=> e[n] = "fat")
                        /\ s[n] \in Entries
  <2> SUFFICES ASSUME NEW n \in 1 .. k
               PROVE  s[n].num = n + m /\ (s[n].fat <=> e[n] = "fat") /\ s[n] \in Entries
    OBVIOUS
  <2>1. s[n] = Entry(n + m, e[n]) /\ n + m \in Nat
    OBVIOUS
  <2>2. ASSUME NEW i \in Nat, NEW t
        PROVE  Entry(i, t).num = i /\ (Entry(i, t).fat <=> t = "fat") /\ Entry(i, t) \in Entries
    BY DEF Entry, Entries
  <2> HIDE DEF s
  <2> QED BY <2>1, <2>2
<1>2. s \in Seq(Entries) /\ DOMAIN s = 1 .. k
  BY <1>1
<1> HIDE DEF s
<1>3. Distinct(s)
  BY <1>1, <1>2 DEF Distinct
<1>4. ASSUME NEW n \in Nat
      PROVE  Fats(s, n) <=> n \in {i \in m + 1 .. m + k : e[i - m] = "fat"}
  <2>1. ASSUME Fats(s, n) PROVE n \in {i \in m + 1 .. m + k : e[i - m] = "fat"}
    <3>1. PICK j \in 1 .. k : s[j].num = n /\ s[j].fat
      BY <1>2, <2>1 DEF Fats
    <3>2. n = j + m /\ e[j] = "fat" /\ n - m = j /\ n \in m + 1 .. m + k
      BY <1>1, <3>1
    <3> QED BY <3>2
  <2>2. ASSUME n \in m + 1 .. m + k, e[n - m] = "fat" PROVE Fats(s, n)
    <3>1. n - m \in 1 .. k /\ (n - m) + m = n
      BY <2>2
    <3>2. s[n - m].num = n /\ s[n - m].fat
      BY <1>1, <2>2, <3>1
    <3> QED BY <1>2, <3>1, <3>2 DEF Fats
  <2> QED BY <2>1, <2>2
<1>5. \A j \in DOMAIN s : s[j].num \in m + 1 .. m + k
  BY <1>1, <1>2
<1> QED BY <1>2, <1>3, <1>4, <1>5 DEF ListOf, s

(* read_GPT_entries lists the entries before the first unused one. *)
LEMMA GptList ==
    ASSUME NEW e \in Seq(EntryTypes)
    PROVE  LET L == Len(Leading(e)) IN
           ListOf(read_GPT_entries(e, 0, "sound"), 1 .. L, {n \in 1 .. L : e[n] = "fat"})
<1> DEFINE L == Len(Leading(e))
           s == [n \in 1 .. L |-> Entry(n + 0, e[n])]
<1>1. L \in Nat /\ L <= Len(e) /\ DOMAIN Leading(e) = 1 .. L
  BY LeadingEntries
<1>2. read_GPT_entries(e, 0, "sound") = [n \in 1 .. L |-> Entry(n, e[n])]
  BY <1>1 DEF read_GPT_entries
<1>3. [n \in 1 .. L |-> Entry(n, e[n])] = s
  <2>1. \A n \in 1 .. L : n + 0 = n
    OBVIOUS
  <2> QED BY <2>1
<1>4. ListOf(s, 0 + 1 .. 0 + L, {n \in 0 + 1 .. 0 + L : e[n - 0] = "fat"})
  BY <1>1, NumberedList
<1> HIDE DEF L, s
<1>5. 0 + 1 .. 0 + L = 1 .. L /\ \A n \in 1 .. L : n - 0 = n
  BY <1>1
<1>6. {n \in 0 + 1 .. 0 + L : e[n - 0] = "fat"} = {n \in 1 .. L : e[n] = "fat"}
  BY <1>5
<1>7. ListOf(s, 1 .. L, {n \in 1 .. L : e[n] = "fat"})
  BY <1>4, <1>5, <1>6
<1> QED BY <1>2, <1>3, <1>7 DEF L

(* What is left of the list when reading it fails. *)
LEMMA GptListCut ==
    ASSUME NEW e \in Seq(EntryTypes), NEW bad \in 1 .. Len(Leading(e)),
           NEW how \in {"cut", "on", "lost"}
    PROVE  /\ read_GPT_entries(e, bad, how) \in Seq(Entries)
           /\ Distinct(read_GPT_entries(e, bad, how))
<1> DEFINE all == [n \in DOMAIN Leading(e) |-> Entry(n, e[n])]
<1>1. /\ Len(Leading(e)) \in Nat /\ DOMAIN Leading(e) = 1 .. Len(Leading(e))
      /\ all = read_GPT_entries(e, 0, "sound")
  BY LeadingEntries DEF read_GPT_entries
<1>2. DOMAIN all = 1 .. Len(Leading(e))
  BY <1>1
<1>9. all \in Seq(Entries) /\ Distinct(all)
  BY <1>1, GptList DEF ListOf
<1>3. CASE how = "cut"
  <2>1. read_GPT_entries(e, bad, how) = SubSeq(all, 1, bad - 1)
    BY <1>3 DEF read_GPT_entries
  <2> HIDE DEF all
  <2>2. Len(all) = Len(Leading(e)) /\ bad - 1 \in Nat /\ bad - 1 <= Len(all)
    BY <1>1, <1>2, <1>9
  <2> DEFINE t == SubSeq(all, 1, bad - 1)
  <2>3. t \in Seq(Entries) /\ DOMAIN t = 1 .. bad - 1 /\ \A n \in 1 .. bad - 1 : t[n] = all[n]
    BY <1>9, <2>2
  <2>4. 1 .. bad - 1 \subseteq DOMAIN all
    BY <1>1, <1>2
  <2> HIDE DEF t
  <2>5. Distinct(t)
    BY <1>9, <2>3, <2>4 DEF Distinct
  <2> QED BY <2>1, <2>3, <2>5 DEF t
<1>4. CASE how = "on" /\ bad = 1
  <2>1. read_GPT_entries(e, bad, how) = Tail(all)
    BY <1>4 DEF read_GPT_entries
  <2> HIDE DEF all
  <2>2. Len(all) = Len(Leading(e)) /\ Len(all) \in Nat /\ Len(all) >= 1
    BY <1>1, <1>2, <1>9
  <2> DEFINE t == Tail(all)
  <2>3. t \in Seq(Entries) /\ Len(t) = Len(all) - 1 /\ DOMAIN t = 1 .. Len(all) - 1
        /\ \A n \in 1 .. Len(all) - 1 : t[n] = all[n + 1]
    BY <1>9, <2>2
  <2>4. \A n \in 1 .. Len(all) - 1 : n + 1 \in DOMAIN all
    BY <1>1, <1>2, <2>2
  <2> HIDE DEF t
  <2>5. Distinct(t)
    <3> SUFFICES ASSUME NEW j \in DOMAIN t, NEW k \in DOMAIN t, t[j].num = t[k].num
                 PROVE  j = k
      BY DEF Distinct
    <3>1. /\ j \in 1 .. Len(all) - 1 /\ k \in 1 .. Len(all) - 1
          /\ j + 1 \in DOMAIN all /\ k + 1 \in DOMAIN all
      BY <2>3, <2>4
    <3>2. all[j + 1].num = all[k + 1].num
      BY <2>3, <3>1
    <3>3. j + 1 = k + 1
      BY <1>9, <3>1, <3>2 DEF Distinct
    <3> QED BY <2>2, <3>1, <3>3
  <2> QED BY <2>1, <2>3, <2>5 DEF t
<1>5. CASE how = "lost" \/ (how = "on" /\ bad # 1)
  <2>1. read_GPT_entries(e, bad, how) = <<>>
    BY <1>5 DEF read_GPT_entries
  <2> QED BY <2>1 DEF Distinct
<1> QED BY <1>3, <1>4, <1>5

(* The number of logical volumes that scanLogicalVolumes lists. *)
Chain(e, bad) == IF bad = 0 THEN Len(Leading(e)) ELSE bad - 1

(* Their numbers begin with 5. *)
LEMMA LogicalList ==
    ASSUME NEW e \in Seq(EntryTypes), NEW bad \in 0 .. Len(Leading(e))
    PROVE  /\ Chain(e, bad) \in Nat /\ Chain(e, bad) <= Len(Leading(e))
           /\ ListOf(scanLogicalVolumes(e, bad), 5 .. 4 + Chain(e, bad),
                     {n \in 5 .. 4 + Chain(e, bad) : e[n - 4] = "fat"})
<1> DEFINE c == Leading(e)
           k == Chain(e, bad)
<1>1. /\ c \in Seq(EntryTypes) /\ Len(c) \in Nat /\ Len(c) <= Len(e)
      /\ \A n \in 1 .. Len(c) : c[n] = e[n]
  BY LeadingEntries
<1>2. k \in Nat /\ k <= Len(c)
  BY <1>1 DEF Chain
<1>3. scanLogicalVolumes(e, bad) = [n \in 1 .. k |-> Entry(n + 4, c[n])]
  BY DEF scanLogicalVolumes, Chain
<1> HIDE DEF c, k
<1>4. ListOf([n \in 1 .. k |-> Entry(n + 4, c[n])], 4 + 1 .. 4 + k,
             {n \in 4 + 1 .. 4 + k : c[n - 4] = "fat"})
  BY <1>1, <1>2, NumberedList
<1>5. \A n \in 5 .. 4 + k : c[n - 4] = e[n - 4]
  BY <1>1, <1>2
<1>6. {n \in 4 + 1 .. 4 + k : c[n - 4] = "fat"} = {n \in 5 .. 4 + k : e[n - 4] = "fat"}
  BY <1>2, <1>5
<1>7. 4 + 1 .. 4 + k = 5 .. 4 + k
  OBVIOUS
<1> QED BY <1>2, <1>3, <1>4, <1>6, <1>7 DEF c, k

(* The numbers of the logical volumes listed and those with a file system. *)
LogicalNumbers(d, bad) == 5 .. 4 + Chain(Table(d).logical, bad)
LogicalFats(d, bad) == {n \in LogicalNumbers(d, bad) : Table(d).logical[n - 4] = "fat"}

(* The numbers an MBR entry stands for. *)
NumbersOf(d, n, bad) ==
    {n} \cup IF Table(d).mbr[n] = "extended" THEN LogicalNumbers(d, bad) ELSE {}
FatsOf(d, n, bad) ==
    IF Table(d).mbr[n] = "fat" THEN {n}
    ELSE IF Table(d).mbr[n] = "extended" THEN LogicalFats(d, bad) ELSE {}

(* A partition table and its parts. *)
LEMMA TableParts ==
    ASSUME Within, NEW d \in DOMAIN machine.disks
    PROVE  /\ Table(d).gpt \in Seq(EntryTypes) /\ Table(d).logical \in Seq(EntryTypes)
           /\ ~Unpartitioned(d) => Len(Table(d).mbr) = 4 /\ DOMAIN Table(d).mbr = 1 .. 4
           /\ Table(d).mbr \in Seq(EntryTypes \cup {"gpt", "extended"})
           /\ \A i, j \in DOMAIN Table(d).mbr :
                 Table(d).mbr[i] = "extended" /\ Table(d).mbr[j] = "extended" => i = j
           /\ Table(d).logical # <<>> => Contains(Table(d).mbr, "extended") /\ ~IsGPT(d)
<1>1. Table(d) \in Tables
  BY MachinesAssumption DEF Within, Table
<1> DEFINE t == Table(d)
<1>2. /\ t.gpt \in Seq(EntryTypes) /\ t.logical \in Seq(EntryTypes)
      /\ t.mbr \in Seq(EntryTypes \cup {"gpt", "extended"})
      /\ t.mbr # <<>> => Len(t.mbr) = 4
      /\ \A i, j \in DOMAIN t.mbr : t.mbr[i] = "extended" /\ t.mbr[j] = "extended" => i = j
      /\ t.logical # <<>> => Contains(t.mbr, "extended") /\ ~Contains(t.mbr, "gpt")
  BY <1>1 DEF Tables
<1>3. DOMAIN t.mbr = 1 .. Len(t.mbr)
  BY <1>2
<1> QED BY <1>2, <1>3 DEF Unpartitioned, IsGPT

(* A list is also one of more numbers. *)
LEMMA MoreNumbers ==
    ASSUME NEW s, NEW A, NEW B, NEW F, ListOf(s, A, F), A \subseteq B
    PROVE  ListOf(s, B, F)
BY DEF ListOf

(* What an MBR entry adds to the list. *)
LEMMA MbrEntryList ==
    ASSUME Within, NEW d \in DOMAIN machine.disks, ~Unpartitioned(d),
           NEW n \in 1 .. 4, NEW bad \in 0 .. Len(Leading(Table(d).logical))
    PROVE  ListOf(MbrEntry(d, n, bad), NumbersOf(d, n, bad), FatsOf(d, n, bad))
<1>0. n \in Nat /\ "extended" # "fat"
  OBVIOUS
<1>1. CASE Table(d).mbr[n] = "none"
  <2>1. MbrEntry(d, n, bad) = <<>> /\ FatsOf(d, n, bad) = {}
    BY <1>1 DEF MbrEntry, FatsOf
  <2> QED BY <2>1, NoEntries, MoreNumbers
<1>2. CASE Table(d).mbr[n] = "extended"
  <2> DEFINE s == <<Entry(n, "extended")>>
             t == scanLogicalVolumes(Table(d).logical, bad)
  <2>1. MbrEntry(d, n, bad) = s \o t
    BY <1>2 DEF MbrEntry
  <2>2. ListOf(s, {n}, {})
    BY <1>0, OneEntry
  <2>3. ListOf(t, LogicalNumbers(d, bad), LogicalFats(d, bad))
    <3>1. Table(d).logical \in Seq(EntryTypes)
      BY TableParts
    <3> QED BY <3>1, LogicalList DEF LogicalNumbers, LogicalFats
  <2>4. {n} \cap LogicalNumbers(d, bad) = {}
    <3>1. Chain(Table(d).logical, bad) \in Nat
      BY TableParts, LogicalList
    <3> QED BY <3>1 DEF LogicalNumbers
  <2> HIDE DEF s, t
  <2>5. ListOf(s \o t, {n} \cup LogicalNumbers(d, bad), {} \cup LogicalFats(d, bad))
    BY <2>2, <2>3, <2>4, JoinedLists
  <2>6. {} \cup LogicalFats(d, bad) = LogicalFats(d, bad)
    OBVIOUS
  <2> QED BY <1>2, <2>1, <2>5, <2>6 DEF NumbersOf, FatsOf
<1>3. CASE Table(d).mbr[n] \notin {"none", "extended"}
  <2>1. MbrEntry(d, n, bad) = <<Entry(n, Table(d).mbr[n])>>
    BY <1>3 DEF MbrEntry
  <2>2. /\ NumbersOf(d, n, bad) = {n}
        /\ Table(d).mbr[n] = "fat" => FatsOf(d, n, bad) = {n}
        /\ Table(d).mbr[n] # "fat" => FatsOf(d, n, bad) = {}
    BY <1>3 DEF NumbersOf, FatsOf
  <2> QED BY <1>0, <2>1, <2>2, OneEntry
<1> QED BY <1>1, <1>2, <1>3

(* No two MBR entries stand for the same number. *)
LEMMA MbrNumbers ==
    ASSUME Within, NEW d \in DOMAIN machine.disks, ~Unpartitioned(d),
           NEW n \in 1 .. 4, NEW m \in 1 .. 4, n # m,
           NEW bad \in 0 .. Len(Leading(Table(d).logical))
    PROVE  NumbersOf(d, n, bad) \cap NumbersOf(d, m, bad) = {}
<1>1. Chain(Table(d).logical, bad) \in Nat
  BY TableParts, LogicalList
<1>2. ~(Table(d).mbr[n] = "extended" /\ Table(d).mbr[m] = "extended")
  BY TableParts
<1>3. \A i \in LogicalNumbers(d, bad) : i \notin 1 .. 4
  BY <1>1 DEF LogicalNumbers
<1> QED BY <1>2, <1>3 DEF NumbersOf

(* The list of the MBR entries up to one of them. *)
MbrFats(d, last, bad) == UNION {FatsOf(d, n, bad) : n \in {i \in 1 .. 4 : i <= last}}

(* It has no number twice, and these file systems. *)
LEMMA MbrList ==
    ASSUME Within, NEW d \in DOMAIN machine.disks, ~Unpartitioned(d), NEW last \in Nat,
           NEW bad \in 0 .. Len(Leading(Table(d).logical))
    PROVE  \E A : ListOf(MbrEntries(d, last, bad), A, MbrFats(d, last, bad))
<1> DEFINE Listed(n) == IF n <= last THEN MbrEntry(d, n, bad) ELSE <<>>
           F(n) == IF n <= last THEN FatsOf(d, n, bad) ELSE {}
           A(n) == NumbersOf(d, n, bad)
<1>1. MbrEntries(d, last, bad) = (Listed(1) \o Listed(2)) \o (Listed(3) \o Listed(4))
  BY DEF MbrEntries
<1>2. ASSUME NEW n \in 1 .. 4 PROVE ListOf(Listed(n), A(n), F(n))
  <2>1. CASE n <= last
    BY <2>1, MbrEntryList
  <2>2. CASE ~(n <= last)
    BY <2>2, NoEntries, MoreNumbers
  <2> QED BY <2>1, <2>2
<1>3. MbrFats(d, last, bad) = (F(1) \cup F(2)) \cup (F(3) \cup F(4))
  <2>1. {i \in 1 .. 4 : i <= last} = {i \in {1, 2, 3, 4} : i <= last}
    OBVIOUS
  <2> QED BY <2>1 DEF MbrFats
<1>4. /\ A(1) \cap A(2) = {} /\ A(3) \cap A(4) = {}
      /\ A(1) \cap A(3) = {} /\ A(1) \cap A(4) = {}
      /\ A(2) \cap A(3) = {} /\ A(2) \cap A(4) = {}
  BY MbrNumbers
<1>5. /\ ListOf(Listed(1), A(1), F(1)) /\ ListOf(Listed(2), A(2), F(2))
      /\ ListOf(Listed(3), A(3), F(3)) /\ ListOf(Listed(4), A(4), F(4))
  BY <1>2
<1> HIDE DEF Listed, A, F
<1>6. ListOf(Listed(1) \o Listed(2), A(1) \cup A(2), F(1) \cup F(2))
  BY <1>4, <1>5, JoinedLists
<1>7. ListOf(Listed(3) \o Listed(4), A(3) \cup A(4), F(3) \cup F(4))
  BY <1>4, <1>5, JoinedLists
<1>8. (A(1) \cup A(2)) \cap (A(3) \cup A(4)) = {}
  BY <1>4
<1>9. ListOf((Listed(1) \o Listed(2)) \o (Listed(3) \o Listed(4)),
             (A(1) \cup A(2)) \cup (A(3) \cup A(4)), (F(1) \cup F(2)) \cup (F(3) \cup F(4)))
  BY <1>6, <1>7, <1>8, JoinedLists
<1> QED BY <1>1, <1>3, <1>9, Zenon

(* An entry in use is listed if no unused one is before it. *)
LEMMA LeadingIndex ==
    ASSUME NEW e \in Seq(EntryTypes), NEW k \in 1 .. Len(e), e[k] # "none"
    PROVE  k <= Len(Leading(e)) <=> \A j \in 1 .. k - 1 : e[j] # "none"
<1> DEFINE L == Len(Leading(e))
<1>1. /\ L \in Nat /\ Len(e) \in Nat /\ L <= Len(e)
      /\ \A n \in 1 .. L : e[n] # "none"
      /\ L < Len(e) => e[L + 1] = "none"
  BY LeadingEntries
<1> HIDE DEF L
<1>2. ASSUME k <= L, NEW j \in 1 .. k - 1 PROVE e[j] # "none"
  BY <1>1, <1>2
<1>3. ASSUME ~(k <= L) PROVE \E j \in 1 .. k - 1 : e[j] = "none"
  <2>1. L + 1 <= k /\ L < Len(e)
    BY <1>1, <1>3
  <2>2. L + 1 # k
    BY <1>1, <2>1
  <2>3. L + 1 \in 1 .. k - 1
    BY <1>1, <2>1, <2>2
  <2> QED BY <1>1, <2>1, <2>3
<1> QED BY <1>2, <1>3 DEF L

(* The position of the entry in the MBR that stands for the GPT. *)
GptAt(d) == SelectInSeq(Table(d).mbr, LAMBDA t : t = "gpt")

(* It is the first of them. *)
LEMMA GptPosition ==
    ASSUME Within, NEW d \in DOMAIN machine.disks, IsGPT(d)
    PROVE  /\ ~Unpartitioned(d) /\ GptAt(d) \in 1 .. 4 /\ Table(d).mbr[GptAt(d)] = "gpt"
           /\ \A k \in 1 .. 4 : Table(d).mbr[k] = "gpt" => GptAt(d) <= k
<1> DEFINE mbr == Table(d).mbr
           I == {i \in 1 .. Len(mbr) : mbr[i] = "gpt"}
<1>1. I # {} /\ mbr \in Seq(EntryTypes \cup {"gpt", "extended"})
  BY TableParts DEF IsGPT, Contains
<1>2. ~Unpartitioned(d)
  <2>1. Len(mbr) # 0
    BY <1>1
  <2> QED BY <2>1 DEF Unpartitioned
<1>3. Len(mbr) = 4
  BY <1>2, TableParts
<1>4. I \subseteq Nat
  BY <1>3
<1>5. Min(I) \in I /\ \A y \in I : Min(I) <= y
  BY <1>1, <1>4, LeastNumber
<1>6. GptAt(d) = Min(I)
  BY <1>1 DEF GptAt, SelectInSeq
<1> QED BY <1>2, <1>3, <1>5, <1>6

(* What check_partition_table returns. *)
LEMMA GptTable ==
    ASSUME Within, NEW d \in DOMAIN machine.disks, IsGPT(d), NEW bad, NEW how
    PROVE  /\ read_GPT_entries(Table(d).gpt, bad, how) = <<>> /\ how \in {"sound", "cut"} =>
                  check_partition_table(d, bad, how) = MbrEntries(d, GptAt(d) - 1, 0)
           /\ ~(read_GPT_entries(Table(d).gpt, bad, how) = <<>> /\ how \in {"sound", "cut"}) =>
                  check_partition_table(d, bad, how) = read_GPT_entries(Table(d).gpt, bad, how)
BY DEF check_partition_table, GptAt

(* The lists are in order, also after an I/O error. *)
LEMMA TableFault ==
    ASSUME Within, NEW d \in DOMAIN machine.disks, ~Unpartitioned(d), NEW bad \in BadEntries(d)
    PROVE  /\ check_partition_table(d, bad[1], bad[2]) \in Seq(Entries)
           /\ Distinct(check_partition_table(d, bad[1], bad[2]))
<1>0. /\ Table(d).gpt \in Seq(EntryTypes) /\ Table(d).logical \in Seq(EntryTypes)
      /\ 0 \in 0 .. Len(Leading(Table(d).logical))
  BY TableParts, LeadingEntries
<1>1. CASE IsGPT(d)
  <2> DEFINE e == Table(d).gpt
  <2>1. bad[1] \in DOMAIN Leading(e) /\ bad[2] \in {"cut", "on", "lost"}
    BY <1>1 DEF BadEntries, FatListed
  <2>2. bad[1] \in 1 .. Len(Leading(e))
    BY <1>0, <2>1, LeadingEntries
  <2>3. /\ read_GPT_entries(e, bad[1], bad[2]) \in Seq(Entries)
        /\ Distinct(read_GPT_entries(e, bad[1], bad[2]))
    BY <1>0, <2>1, <2>2, GptListCut
  <2>4. GptAt(d) - 1 \in Nat
    BY <1>1, GptPosition
  <2>5. MbrEntries(d, GptAt(d) - 1, 0) \in Seq(Entries) /\ Distinct(MbrEntries(d, GptAt(d) - 1, 0))
    BY <1>0, <2>4, MbrList DEF ListOf
  <2> QED BY <1>1, <2>3, <2>5, GptTable
<1>2. CASE ~IsGPT(d)
  <2>1. bad[1] \in DOMAIN Leading(Table(d).logical)
    BY <1>2 DEF BadEntries
  <2>2. bad[1] \in 0 .. Len(Leading(Table(d).logical))
    BY <1>0, <2>1, LeadingEntries
  <2>3. MbrEntries(d, 4, bad[1]) \in Seq(Entries) /\ Distinct(MbrEntries(d, 4, bad[1]))
    BY <2>2, MbrList DEF ListOf
  <2> QED BY <1>2, <2>3 DEF check_partition_table
<1> QED BY <1>1, <1>2

(* The MBR entries of a disk without GPT: file systems of a listed type    *)
(* are found unless an unused logical volume hides them.                   *)
LEMMA MbrVisible ==
    ASSUME Within, NEW d \in DOMAIN machine.disks, ~Unpartitioned(d), ~IsGPT(d),
           NEW n \in FatNumbers(Table(d))
    PROVE  n \in MbrFats(d, 4, 0) <=> Visible(d, n)
<1> DEFINE e == Table(d).logical
           mbr == Table(d).mbr
           L == Len(Leading(e))
<1>1. /\ e \in Seq(EntryTypes) /\ DOMAIN mbr = 1 .. 4 /\ Len(mbr) = 4
      /\ e # <<>> => Contains(mbr, "extended")
  BY TableParts
<1>2. L \in Nat /\ Len(e) \in Nat /\ L <= Len(e) /\ DOMAIN e = 1 .. Len(e)
  BY <1>1, LeadingEntries
<1>3. n \in FatIn(mbr) \/ \E k \in FatIn(e) : n = k + 4
  BY DEF FatNumbers, IsGPT, Unpartitioned
<1>4. Visible(d, n) <=> /\ n \in FatListed(mbr) \/ \E k \in FatListed(e) : n = k + 4
                        /\ \A k \in 1 .. n - 5 : e[k] # "none"
  BY DEF Visible
<1>5. LogicalFats(d, 0) = {i \in 5 .. 4 + L : e[i - 4] = "fat"}
  BY DEF LogicalFats, LogicalNumbers, Chain
<1>6. n \in MbrFats(d, 4, 0) <=> \E i \in 1 .. 4 : n \in FatsOf(d, i, 0)
  BY DEF MbrFats
<1>7. CASE n \in FatIn(mbr)
  <2>1. n \in 1 .. 4
    BY <1>1, <1>7 DEF FatIn
  <2>2. 1 .. n - 5 = {} /\ n \notin LogicalFats(d, 0)
    BY <1>2, <1>5, <2>1
  <2>3. \A i \in 1 .. 4 : n \in FatsOf(d, i, 0) <=> n = i /\ mbr[i] = "fat"
    BY <2>2 DEF FatsOf
  <2>4. ~\E k \in FatListed(e) : n = k + 4
    BY <1>2, <2>1 DEF FatListed
  <2>5. n \in FatListed(mbr) <=> mbr[n] = "fat"
    BY <1>1, <2>1 DEF FatListed
  <2> QED BY <1>4, <1>6, <2>1, <2>2, <2>3, <2>4, <2>5
<1>8. ASSUME NEW k \in FatIn(e), n = k + 4 PROVE n \in MbrFats(d, 4, 0) <=> Visible(d, n)
  <2>0. k \in 1 .. Len(e) /\ e[k] \in {"fat", "unlisted"}
    BY <1>2, <1>8 DEF FatIn
  <2>1. k \in 1 .. Len(e) /\ e[k] # "none" /\ n \notin 1 .. 4 /\ n - 5 = k - 1 /\ n - 4 = k
    BY <1>2, <1>8, <2>0
  <2>2. e # <<>>
    BY <1>2, <2>1
  <2>3. PICK i \in 1 .. 4 : mbr[i] = "extended"
    BY <1>1, <2>2 DEF Contains
  <2>4. FatsOf(d, i, 0) = LogicalFats(d, 0)
    BY <2>3 DEF FatsOf
  <2>5. \A j \in 1 .. 4 : n \in FatsOf(d, j, 0) => n \in LogicalFats(d, 0)
    BY <2>1 DEF FatsOf
  <2>6. n \in MbrFats(d, 4, 0) <=> n \in LogicalFats(d, 0)
    BY <1>6, <2>4, <2>5
  <2>7. n \in LogicalFats(d, 0) <=> k <= L /\ e[k] = "fat"
    BY <1>2, <1>5, <1>8, <2>1
  <2>8. k <= L <=> \A j \in 1 .. k - 1 : e[j] # "none"
    BY <1>1, <2>1, LeadingIndex
  <2>9. (n \in FatListed(mbr) \/ \E j \in FatListed(e) : n = j + 4) <=> e[k] = "fat"
    <3>1. n \notin FatListed(mbr)
      BY <1>1, <2>1 DEF FatListed
    <3>2. \A j \in 1 .. Len(e) : n = j + 4 <=> j = k
      BY <1>2, <1>8, <2>1
    <3> QED BY <1>2, <2>1, <3>1, <3>2 DEF FatListed
  <2> QED BY <1>4, <2>1, <2>6, <2>7, <2>8, <2>9
<1> QED BY <1>3, <1>7, <1>8

(* The same for a GPT. *)
LEMMA GptVisible ==
    ASSUME Within, NEW d \in DOMAIN machine.disks, IsGPT(d), NEW n \in FatNumbers(Table(d))
    PROVE  Fats(check_partition_table(d, 0, "sound"), n) <=> Visible(d, n)
<1> DEFINE e == Table(d).gpt
           mbr == Table(d).mbr
           L == Len(Leading(e))
           s == read_GPT_entries(e, 0, "sound")
<1>1. /\ e \in Seq(EntryTypes) /\ Len(mbr) = 4 /\ DOMAIN mbr = 1 .. 4 /\ Table(d).logical = <<>>
      /\ ~Unpartitioned(d)
  BY TableParts, GptPosition
<1>2. L \in Nat /\ Len(e) \in Nat /\ L <= Len(e) /\ DOMAIN e = 1 .. Len(e)
      /\ (L < Len(e) => e[L + 1] = "none") /\ \A k \in 1 .. L : e[k] # "none"
  BY <1>1, LeadingEntries
<1>3. n \in 1 .. Len(e) /\ e[n] # "none" /\ n \in Nat
  <2>1. n \in FatIn(e)
    BY <1>1 DEF FatNumbers, IsGPT, Unpartitioned
  <2>2. n \in 1 .. Len(e) /\ e[n] # "none"
    BY <1>2, <2>1 DEF FatIn
  <2> QED BY <2>2
<1>4. ListOf(s, 1 .. L, {k \in 1 .. L : e[k] = "fat"})
  BY <1>1, GptList
<1>5. e[1] = "none" <=> L = 0
  BY <1>2, <1>3
<1> HIDE DEF L
<1>6. CASE L # 0
  <2>1. s # <<>>
    <3>1. s = [k \in DOMAIN Leading(e) |-> Entry(k, e[k])]
      BY DEF read_GPT_entries
    <3>2. 1 \in DOMAIN s
      BY <1>1, <1>2, <1>6, <3>1, LeadingEntries DEF L
    <3> HIDE DEF s
    <3> QED BY <3>2
  <2>2. check_partition_table(d, 0, "sound") = s
    BY <2>1, GptTable
  <2>3. Fats(s, n) <=> n <= L /\ e[n] = "fat"
    BY <1>3, <1>4 DEF ListOf
  <2>4. n <= L <=> \A j \in 1 .. n - 1 : e[j] # "none"
    BY <1>1, <1>3, LeadingIndex DEF L
  <2>5. Visible(d, n) <=> e[n] = "fat" /\ \A k \in 1 .. n - 1 : e[k] # "none"
    BY <1>2, <1>3, <1>5, <1>6 DEF Visible, FatListed
  <2> QED BY <2>2, <2>3, <2>4, <2>5
<1>7. CASE L = 0
  <2>1. s = <<>>
    <3>1. \A j \in DOMAIN s : s[j].num \in 1 .. L
      BY <1>4 DEF ListOf
    <3>2. 1 .. L = {}
      BY <1>7
    <3>3. DOMAIN s = {} /\ s \in Seq(Entries)
      BY <1>4, <3>1, <3>2 DEF ListOf
    <3> HIDE DEF s
    <3> QED BY <3>3
  <2>2. check_partition_table(d, 0, "sound") = MbrEntries(d, GptAt(d) - 1, 0)
    BY <2>1, GptTable
  <2>3. /\ GptAt(d) \in 1 .. 4 /\ mbr[GptAt(d)] = "gpt"
        /\ \A k \in 1 .. 4 : mbr[k] = "gpt" => GptAt(d) <= k
    BY GptPosition
  <2>4. Len(Leading(Table(d).logical)) = 0
    <3>1. <<>> \in Seq(EntryTypes) /\ Len(<<>>) = 0
      OBVIOUS
    <3>2. Len(Leading(<<>>)) \in Nat /\ Len(Leading(<<>>)) <= Len(<<>>)
      BY <3>1, LeadingEntries
    <3> QED BY <1>1, <3>1, <3>2
  <2>5. GptAt(d) - 1 \in Nat /\ 0 \in 0 .. Len(Leading(Table(d).logical))
    BY <2>3, <2>4
  <2>6. PICK A : ListOf(MbrEntries(d, GptAt(d) - 1, 0), A, MbrFats(d, GptAt(d) - 1, 0))
    BY <1>1, <2>5, MbrList
  <2>7. Fats(MbrEntries(d, GptAt(d) - 1, 0), n) <=> n \in MbrFats(d, GptAt(d) - 1, 0)
    BY <1>3, <2>6 DEF ListOf
  <2>8. LogicalFats(d, 0) = {}
    BY <2>4 DEF LogicalFats, LogicalNumbers, Chain
  <2>9. \A i \in 1 .. 4 : n \in FatsOf(d, i, 0) <=> n = i /\ mbr[i] = "fat"
    BY <2>8 DEF FatsOf
  <2>10. n \in MbrFats(d, GptAt(d) - 1, 0)
             <=> \E i \in 1 .. 4 : i <= GptAt(d) - 1 /\ n \in FatsOf(d, i, 0)
    BY DEF MbrFats
  <2>11. n \in MbrFats(d, GptAt(d) - 1, 0) <=> n \in 1 .. 4 /\ n < GptAt(d) /\ mbr[n] = "fat"
    BY <1>3, <2>3, <2>9, <2>10
  <2>12. Visible(d, n) <=> n \in FatListed(mbr) /\ \A k \in 1 .. n : mbr[k] # "gpt"
    BY <1>5, <1>7 DEF Visible
  <2>13. n \in FatListed(mbr) <=> n \in 1 .. 4 /\ mbr[n] = "fat"
    BY <1>1 DEF FatListed
  <2>14. n \in 1 .. 4 => (n < GptAt(d) <=> \A k \in 1 .. n : mbr[k] # "gpt")
    BY <2>3
  <2> QED BY <2>2, <2>7, <2>11, <2>12, <2>13, <2>14
<1> QED BY <1>6, <1>7

(* A config partition is a disk and the number of a FAT file system. *)
LEMMA CfgParts ==
    ASSUME Within, NEW p \in machine.cfg
    PROVE  /\ Disk(p) \in DOMAIN machine.disks /\ p = <<Disk(p), p[2]>> /\ p[2] \in Nat
           /\ p[2] \in FatNumbers(Table(Disk(p)))
           /\ p[2] = 0 <=> Unpartitioned(Disk(p))
<1>1. p \in FileSystems(machine)
  BY MachinesAssumption DEF Within
<1>2. PICK d \in DOMAIN machine.disks : p \in FatOn(d, machine.disks[d])
  BY <1>1 DEF FileSystems
<1>3. PICK n \in FatNumbers(machine.disks[d]) : p = <<d, n>>
  BY <1>2 DEF FatOn
<1>4. Disk(p) = d /\ p[2] = n /\ p = <<Disk(p), p[2]>> /\ n \in FatNumbers(Table(d))
  BY <1>3 DEF Disk, Table
<1>5. CASE Unpartitioned(d)
  BY <1>2, <1>4, <1>5 DEF Unpartitioned, FatNumbers
<1>6. CASE ~Unpartitioned(d)
  <2>1. Table(d) \in Tables
    BY <1>2, MachinesAssumption DEF Within, Table
  <2>2. n # 0
    BY <1>4, <1>6, <2>1, PartitionNumbers DEF Unpartitioned
  <2>3. /\ \A i \in DOMAIN Table(d).mbr : i \in Nat
        /\ \A i \in DOMAIN Table(d).gpt : i \in Nat
        /\ \A i \in DOMAIN Table(d).logical : i \in Nat
    BY <2>1 DEF Tables
  <2>4. \A i \in FatIn(Table(d).logical) : i + 4 \in Nat
    BY <2>3 DEF FatIn
  <2>5. n \in Nat
    BY <1>4, <1>6, <2>3, <2>4 DEF FatNumbers, FatIn, Unpartitioned
  <2> QED BY <1>2, <1>4, <1>6, <2>2, <2>5
<1> QED BY <1>5, <1>6

(***************************************************************************)
(* Without I/O errors, check_partition_table lists the config partitions   *)
(* that are visible, and no partition twice.                               *)
(***************************************************************************)
LEMMA TableSound ==
    ASSUME Within, NEW d \in DOMAIN machine.disks, ~Unpartitioned(d)
    PROVE  LET s == check_partition_table(d, 0, "sound") IN
           /\ s \in Seq(Entries) /\ Distinct(s)
           /\ \A p \in CfgOn(d) : Fats(s, p[2]) <=> p \in Reachable(d)
<1> DEFINE s == check_partition_table(d, 0, "sound")
<1>0. /\ Table(d).gpt \in Seq(EntryTypes) /\ Table(d).logical \in Seq(EntryTypes)
      /\ 0 \in 0 .. Len(Leading(Table(d).logical))
  BY TableParts, LeadingEntries
<1>1. s \in Seq(Entries) /\ Distinct(s)
  <2>1. CASE IsGPT(d)
    <3>1. GptAt(d) - 1 \in Nat
      BY <2>1, GptPosition
    <3>2. /\ MbrEntries(d, GptAt(d) - 1, 0) \in Seq(Entries)
          /\ Distinct(MbrEntries(d, GptAt(d) - 1, 0))
      BY <1>0, <3>1, MbrList DEF ListOf
    <3>3. /\ read_GPT_entries(Table(d).gpt, 0, "sound") \in Seq(Entries)
          /\ Distinct(read_GPT_entries(Table(d).gpt, 0, "sound"))
      BY <1>0, GptList DEF ListOf
    <3> QED BY <2>1, <3>2, <3>3, GptTable
  <2>2. CASE ~IsGPT(d)
    <3>1. s = MbrEntries(d, 4, 0)
      BY <2>2 DEF check_partition_table
    <3>2. PICK A : ListOf(MbrEntries(d, 4, 0), A, MbrFats(d, 4, 0))
      BY <1>0, MbrList
    <3> QED BY <3>1, <3>2 DEF ListOf
  <2> QED BY <2>1, <2>2
<1>2. ASSUME NEW p \in CfgOn(d) PROVE Fats(s, p[2]) <=> p \in Reachable(d)
  <2>1. p \in machine.cfg /\ Disk(p) = d
    BY DEF CfgOn
  <2>2. p[2] \in FatNumbers(Table(d)) /\ p[2] \in Nat /\ p[2] # 0
    BY <2>1, CfgParts
  <2>3. p \in Reachable(d) <=> Visible(d, p[2])
    BY <2>2 DEF Reachable
  <2>4. CASE IsGPT(d)
    BY <2>2, <2>3, <2>4, GptVisible
  <2>5. CASE ~IsGPT(d)
    <3>1. s = MbrEntries(d, 4, 0)
      BY <2>5 DEF check_partition_table
    <3>2. PICK A : ListOf(MbrEntries(d, 4, 0), A, MbrFats(d, 4, 0))
      BY <1>0, MbrList
    <3>3. Fats(s, p[2]) <=> p[2] \in MbrFats(d, 4, 0)
      BY <2>2, <3>1, <3>2 DEF ListOf
    <3> QED BY <2>2, <2>3, <2>5, <3>3, MbrVisible
  <2> QED BY <2>4, <2>5
<1> QED BY <1>1, <1>2

-----------------------------------------------------------------------------
(***************************************************************************)
(* Part 8: the search.                                                     *)
(***************************************************************************)

(* Positions are pairs of numbers. *)
LEMMA PairsOfNumbers ==
    ASSUME NEW h \in Positions
    PROVE  /\ h[1] \in Nat /\ h[2] \in Nat /\ h = <<h[1], h[2]>>
           /\ h[1] \in DOMAIN first_device /\ h[2] \in DOMAIN first_device[h[1]].part_list
BY DEF Positions

(* What SearchShape says of the list of devices. *)
LEMMA ListShape ==
    ASSUME SearchShape
    PROVE  /\ Len(first_device) \in Nat /\ DOMAIN first_device = 1 .. Len(first_device)
           /\ \A i \in DOMAIN first_device :
                 /\ first_device[i].disk \in DOMAIN machine.disks
                 /\ first_device[i].part_list \in Seq(Entries)
                 /\ Len(first_device[i].part_list) \in Nat
                 /\ DOMAIN first_device[i].part_list = 1 .. Len(first_device[i].part_list)
           /\ Len(config_parts) \in Nat /\ DOMAIN config_parts = 1 .. Len(config_parts)
           /\ \A k \in DOMAIN config_parts : config_parts[k].part \in machine.cfg
<1> DEFINE D == [disk : DOMAIN machine.disks, part_list : Seq(Entries)]
           C == [part : machine.cfg, not_mounted : BOOLEAN]
<1>1. first_device \in Seq(D) /\ config_parts \in Seq(C)
  BY DEF SearchShape
<1> HIDE DEF D, C
<1>2. /\ Len(first_device) \in Nat /\ DOMAIN first_device = 1 .. Len(first_device)
      /\ Len(config_parts) \in Nat /\ DOMAIN config_parts = 1 .. Len(config_parts)
  BY <1>1, LenProperties
<1>3. \A i \in DOMAIN first_device : first_device[i] \in D
  BY <1>1, <1>2, ElementOfSeq
<1>6. \A k \in DOMAIN config_parts : config_parts[k] \in C
  BY <1>1, <1>2, ElementOfSeq
<1>4. \A k \in DOMAIN config_parts : config_parts[k].part \in machine.cfg
  BY <1>6 DEF C
<1>5. \A i \in DOMAIN first_device :
         /\ first_device[i].disk \in DOMAIN machine.disks
         /\ first_device[i].part_list \in Seq(Entries)
  BY <1>3 DEF D
<1> QED BY <1>2, <1>4, <1>5

(* The position the search is at. *)
LEMMA HerePosition ==
    ASSUME SearchShape, part \in Nat \ {0}, AtPartition
    PROVE  /\ <<dev, part>> \in Positions /\ <<dev, part>> \notin Walked
           /\ ThisEntry = Item(dev, part) /\ ThisPartition = Part(dev, part)
           /\ <<dev, part>> \in Hits <=> ThisEntry.fat /\ ThisPartition \in machine.cfg
<1>1. /\ dev \in Nat /\ part \in Nat
      /\ dev \in DOMAIN first_device /\ part \in DOMAIN first_device[dev].part_list
  BY DEF SearchShape, AtPartition
<1>2. <<dev, part>> \in Positions
  BY <1>1 DEF Positions
<1>3. ~Passed(<<dev, part>>)
  BY <1>1 DEF Passed
<1> QED BY <1>2, <1>3 DEF Hits, Walked, ThisEntry, ThisPartition, Item, Part

(* In a list that began empty no partition is at two positions. *)
LEMMA OncePerPartition ==
    ASSUME SearchShape, Probed, Searching, fresh, NEW h \in Positions, NEW g \in Positions,
           Part(h[1], h[2]) = Part(g[1], g[2])
    PROVE  h = g
<1>1. /\ h = <<h[1], h[2]>> /\ g = <<g[1], g[2]>>
      /\ h[1] \in DOMAIN first_device /\ h[2] \in DOMAIN first_device[h[1]].part_list
      /\ g[1] \in DOMAIN first_device /\ g[2] \in DOMAIN first_device[g[1]].part_list
  BY PairsOfNumbers
<1>2. /\ first_device[h[1]].disk = first_device[g[1]].disk
      /\ Item(h[1], h[2]).num = Item(g[1], g[2]).num
  BY DEF Part
<1>3. h[1] = g[1]
  BY <1>1, <1>2 DEF Probed
<1>4. Distinct(first_device[h[1]].part_list)
  BY <1>1 DEF Probed
<1>5. h[2] = g[2]
  BY <1>1, <1>2, <1>3, <1>4 DEF Distinct, Item
<1> QED BY <1>1, <1>3, <1>5

(* Hits on the disks searched are config partitions in scope, and without  *)
(* errors visible ones.                                                    *)
LEMMA HitParts ==
    ASSUME SearchShape, Probed, Searching, fresh, NEW h \in Hits
    PROVE  /\ Part(h[1], h[2]) \in CfgInScope
           /\ Sound => Part(h[1], h[2]) \in InScope
<1>1. /\ h[1] \in DOMAIN first_device /\ h[2] \in DOMAIN first_device[h[1]].part_list
      /\ Part(h[1], h[2]) \in machine.cfg /\ Item(h[1], h[2]).fat
  BY PairsOfNumbers DEF Hits
<1> DEFINE p == Part(h[1], h[2])
           d == first_device[h[1]].disk
<1>2. Disk(p) = d
  BY DEF Part, Disk
<1>3. d \in Scope /\ (Sound => Shown(h[1]))
  BY <1>1 DEF Probed
<1>4. p \in CfgInScope /\ p \in CfgOn(d)
  BY <1>1, <1>2, <1>3 DEF CfgInScope, CfgOn
<1>5. Sound => p \in Reachable(d)
  BY <1>1, <1>3, <1>4 DEF Shown
<1> QED BY <1>2, <1>4, <1>5 DEF InScope

(* Without errors every visible config partition in scope is hit. *)
LEMMA AllHit ==
    ASSUME Within, SearchShape, Probed, Searching, fresh, Sound, todo = {}, NEW p \in InScope
    PROVE  \E h \in Hits : Part(h[1], h[2]) = p
<1>1. p \in machine.cfg /\ Disk(p) \in Scope /\ p \in Reachable(Disk(p))
  BY DEF InScope, CfgInScope
<1>2. ~Unpartitioned(Disk(p)) /\ p \in CfgOn(Disk(p))
  BY <1>1, CfgParts DEF Reachable
<1>3. PICK i \in DOMAIN first_device : first_device[i].disk = Disk(p)
  BY <1>1, <1>2 DEF Probed
<1>4. Shown(i)
  BY <1>3 DEF Probed
<1>5. PICK j \in DOMAIN first_device[i].part_list : Item(i, j).fat /\ Part(i, j) = p
  BY <1>1, <1>2, <1>3, <1>4 DEF Shown
<1>6. i \in Nat /\ j \in Nat
  BY <1>3, <1>5, ListShape
<1>7. <<i, j>> \in Hits
  BY <1>1, <1>3, <1>5, <1>6 DEF Hits, Positions
<1> QED BY <1>5, <1>7

(* The visible config partitions are finitely many. *)
LEMMA ScopeFinite ==
    ASSUME Within
    PROVE  IsFiniteSet(InScope) /\ IsFiniteSet(CfgInScope) /\ InScope \subseteq CfgInScope
           /\ IsFiniteSet(machine.cfg)
<1>1. IsFiniteSet(FileSystems(machine)) /\ machine.cfg \subseteq FileSystems(machine)
  BY MachinesAssumption DEF Within
<1>2. IsFiniteSet(machine.cfg)
  BY <1>1, FS_Subset
<1>3. CfgInScope \subseteq machine.cfg /\ InScope \subseteq CfgInScope
  BY DEF CfgInScope, InScope
<1>4. IsFiniteSet(CfgInScope)
  BY <1>2, <1>3, FS_Subset
<1> QED BY <1>2, <1>3, <1>4, FS_Subset

(* Different config partitions are counted by the length of the list. *)
LEMMA FoundNumber ==
    ASSUME SearchShape, DistinctParts
    PROVE  IsFiniteSet(FoundParts) /\ Cardinality(FoundParts) = Len(config_parts)
<1> DEFINE n == Len(config_parts)
           f == [k \in 1 .. n |-> config_parts[k].part]
<1>1. n \in Nat /\ DOMAIN config_parts = 1 .. n
  BY ListShape
<1>2. FoundParts = {config_parts[k].part : k \in 1 .. n}
  BY <1>1 DEF FoundParts
<1> HIDE DEF n
<1>3. f \in Bijection(1 .. n, FoundParts)
  <2>1. f \in [1 .. n -> FoundParts] /\ \A t \in FoundParts : \E k \in 1 .. n : f[k] = t
    BY <1>2
  <2>2. \A k, l \in 1 .. n : f[k] = f[l] => k = l
    BY <1>1 DEF DistinctParts
  <2> HIDE DEF f
  <2> QED BY <2>1, <2>2 DEF Bijection, Injection, IsInjective, Surjection
<1>4. IsFiniteSet(1 .. n) /\ Cardinality(1 .. n) = n
  BY <1>1, FS_Interval
<1> QED BY <1>3, <1>4, FS_Bijection DEF n, ExistsBijection

(* What depends on the machine and the scope of the search only. *)
LEMMA SameScope ==
    ASSUME machine' = machine, rootdev' = rootdev
    PROVE  /\ Scope' = Scope /\ CfgInScope' = CfgInScope /\ InScope' = InScope
           /\ \A d : Reachable(d)' = Reachable(d) /\ CfgOn(d)' = CfgOn(d)
           /\ \A d : Unpartitioned(d)' <=> Unpartitioned(d)
<1>1. Scope' = Scope
  BY DEF Scope
<1>2. CfgInScope' = CfgInScope
  BY <1>1 DEF CfgInScope
<1>3. \A d : CfgOn(d)' = CfgOn(d) /\ Table(d)' = Table(d)
  BY DEF CfgOn, Table
<1>4. \A d : (IsGPT(d)' <=> IsGPT(d)) /\ (Unpartitioned(d)' <=> Unpartitioned(d))
  BY <1>3 DEF IsGPT, Unpartitioned
<1>5. \A d, n : Visible(d, n)' <=> Visible(d, n)
  BY <1>3, <1>4 DEF Visible
<1>6. \A d : Reachable(d)' = Reachable(d)
  BY <1>3, <1>5 DEF Reachable
<1>7. InScope' = InScope
  BY <1>2, <1>6 DEF InScope
<1> QED BY <1>1, <1>2, <1>3, <1>4, <1>6, <1>7

(* What depends on the machine and the list of devices. *)
LEMMA SameLists ==
    ASSUME machine' = machine, first_device' = first_device
    PROVE  /\ Positions' = Positions /\ Hits' = Hits /\ (Overfull' <=> Overfull)
           /\ \A i, j : Part(i, j)' = Part(i, j) /\ Item(i, j)' = Item(i, j)
<1>1. \A i, j : Part(i, j)' = Part(i, j) /\ Item(i, j)' = Item(i, j)
  BY DEF Part, Item
<1>2. Positions' = Positions
  BY DEF Positions
<1>3. Hits' = Hits
  BY <1>1, <1>2 DEF Hits
<1> QED BY <1>1, <1>2, <1>3 DEF Overfull

(* Probed and LeftOver speak of the list of devices, ... *)
LEMMA ListKept ==
    ASSUME Probed, machine' = machine, first_device' = first_device, rootdev' = rootdev,
           fresh' = fresh, todo' = todo, Searching' => Searching, Sound' => Sound
    PROVE  Probed'
<1> SUFFICES ASSUME Searching', fresh' PROVE
        /\ \A i \in DOMAIN first_device :
              /\ first_device[i].disk \in Scope \ todo
              /\ Distinct(first_device[i].part_list)
              /\ Sound' => Shown(i)'
        /\ \A i, k \in DOMAIN first_device :
              first_device[i].disk = first_device[k].disk => i = k
        /\ Sound' => \A d \in Scope \ todo :
              Unpartitioned(d) \/ \E i \in DOMAIN first_device : first_device[i].disk = d
  BY SameScope DEF Probed
<1>1. \A i : Shown(i)' <=> Shown(i)
  BY SameScope, SameLists DEF Shown
<1> QED BY <1>1 DEF Probed

(* ... Success and Failure of what is returned. *)
LEMMA ResultKept ==
    ASSUME Success, Failure, machine' = machine, rootdev' = rootdev, fresh' = fresh,
           config_parts' = config_parts, Sound' => Sound, ret' = ret,
           phase' = "read" => phase = "read"
    PROVE  Success' /\ Failure'
<1>1. FoundParts' = FoundParts /\ (DistinctParts' <=> DistinctParts)
  BY DEF FoundParts, DistinctParts
<1> QED BY <1>1, SameScope DEF Success, Failure

(* Steps that leave the search alone. *)
LEMMA SearchKept ==
    ASSUME SInv, machine' = machine, Sound' => Sound,
           UNCHANGED <<phase, rootdev, todo, first_device, config_parts, ret, fresh, dev>>,
           phase = "walk" => part' = part,
           LoaderDevicePartUUID' \in {machine.earlier, machine.boot}
    PROVE  SInv'
<1>1. SearchShape' /\ RootDisk'
  BY DEF SInv, SearchShape, RootDisk
<1>2. Probed'
  BY ListKept DEF SInv, Searching
<1>3. Success' /\ Failure'
  BY ResultKept DEF SInv
<1>4. LeftOver'
  BY SameLists, SameScope DEF SInv, LeftOver, Searching
<1>5. phase = "walk" => Walked' = Walked
  BY SameLists DEF Walked, Passed
<1>6. Counted'
  BY <1>5 DEF SInv, Counted
<1>7. Gathered'
  BY <1>5, SameLists DEF SInv, Gathered, DistinctParts
<1> QED BY <1>1, <1>2, <1>3, <1>4, <1>6, <1>7 DEF SInv

(* bgenv_init *)
LEMMA StepInit ==
    ASSUME Within, SInv, bgenv_init, Sound' => Sound
    PROVE  SInv'
<1>1. /\ machine' = machine /\ LoaderDevicePartUUID' = LoaderDevicePartUUID
      /\ phase = "idle" /\ phase' = "probe" /\ config_parts' = <<>> /\ ret' = "none"
      /\ first_device' = first_device /\ dev' = dev /\ fresh' = (first_device = <<>>)
  BY DEF bgenv_init
<1>2. todo' = Scope'
  BY <1>1 DEF bgenv_init, Scope
<1>3. SearchShape'
  <2>1. <<>> \in Seq([part : machine.cfg, not_mounted : BOOLEAN]) /\ Len(<<>>) = 0
    OBVIOUS
  <2>2. fresh' \in BOOLEAN
    BY <1>1
  <2>3. Len(config_parts') <= ENV_NUM_CONFIG_PARTS
    BY <1>1, <2>1, NumPartsAssumption
  <2>4. /\ first_device' \in Seq([disk : DOMAIN machine'.disks, part_list : Seq(Entries)])
        /\ dev' \in Nat \ {0}
    BY <1>1 DEF SInv, SearchShape
  <2>5. config_parts' \in Seq([part : machine'.cfg, not_mounted : BOOLEAN])
    BY <1>1, <2>1
  <2> QED BY <1>1, <2>2, <2>3, <2>4, <2>5 DEF SearchShape, Entries
<1>4. RootDisk'
  <2>1. rootdev' = NoDisk
        \/ (LoaderDevicePartUUID # NoPartition /\ rootdev' = Disk(LoaderDevicePartUUID))
    BY DEF bgenv_init, get_rootdev_from_efi
  <2> QED BY <1>1, <2>1 DEF SInv, RootDisk
<1>5. Probed'
  <2>1. ASSUME fresh' PROVE first_device' = <<>> /\ DOMAIN first_device' = {}
    <3>1. first_device' = <<>>
      BY <1>1, <2>1, Zenon
    <3> QED BY <3>1
  <2> QED BY <1>2, <2>1 DEF Probed
<1>6. LeftOver'
  <2>1. Sound' /\ ~fresh' => Overfull'
    BY <1>1, SameLists DEF SInv, LeftOver
  <2> QED BY <1>1, <1>2, <2>1 DEF LeftOver
<1>7. Counted' /\ Gathered' /\ Success' /\ Failure'
  BY <1>1 DEF Counted, Gathered, Success, Failure
<1> QED BY <1>3, <1>4, <1>5, <1>6, <1>7 DEF SInv

(* The disks searched are disks of the machine. *)
LEMMA ScopeDisks ==
    ASSUME Within, RootDisk
    PROVE  Scope \subseteq DOMAIN machine.disks
<1>1. Disk(machine.boot) \in DOMAIN machine.disks
  BY MachinesAssumption, FileSystemParts DEF Within
<1>2. machine.earlier # NoPartition => Disk(machine.earlier) \in DOMAIN machine.disks
  BY MachinesAssumption DEF Within, Disk
<1> QED BY <1>1, <1>2 DEF RootDisk, Scope

(* The list of devices with one more. *)
LEMMA LongerList ==
    ASSUME SearchShape, machine' = machine, NEW d \in DOMAIN machine.disks,
           NEW s \in Seq(Entries),
           first_device' = Append(first_device, [disk |-> d, part_list |-> s])
    PROVE  LET n == Len(first_device) IN
           /\ n \in Nat /\ DOMAIN first_device = 1 .. n /\ DOMAIN first_device' = 1 .. n + 1
           /\ first_device' \in Seq([disk : DOMAIN machine.disks, part_list : Seq(Entries)])
           /\ \A i \in 1 .. n : first_device'[i] = first_device[i]
           /\ first_device'[n + 1].disk = d /\ first_device'[n + 1].part_list = s
           /\ \A i \in 1 .. n : \A j : Part(i, j)' = Part(i, j) /\ Item(i, j)' = Item(i, j)
           /\ Hits \subseteq Hits'
<1> DEFINE n == Len(first_device)
           D == [disk : DOMAIN machine.disks, part_list : Seq(Entries)]
           t == [disk |-> d, part_list |-> s]
<1>1. first_device \in Seq(D) /\ t \in D /\ t.disk = d /\ t.part_list = s
  BY DEF SearchShape
<1> HIDE DEF D, t
<1>2. first_device' = Append(first_device, t)
  BY DEF t
<1>3. /\ n \in Nat /\ DOMAIN first_device = 1 .. n /\ DOMAIN first_device' = 1 .. n + 1
      /\ first_device' \in Seq(D) /\ first_device'[n + 1] = t
      /\ \A i \in 1 .. n : first_device'[i] = first_device[i]
  BY <1>1, <1>2
<1>4. \A i \in 1 .. n : \A j : Part(i, j)' = Part(i, j) /\ Item(i, j)' = Item(i, j)
  BY <1>3 DEF Part, Item
<1>5. Hits \subseteq Hits'
  <2> SUFFICES ASSUME NEW h \in Hits PROVE h \in Hits'
    OBVIOUS
  <2>1. /\ h \in Nat \X Nat /\ h[1] \in 1 .. n /\ h[2] \in DOMAIN first_device[h[1]].part_list
        /\ Item(h[1], h[2]).fat /\ Part(h[1], h[2]) \in machine.cfg
    BY <1>3 DEF Hits, Positions
  <2>2. h[1] \in DOMAIN first_device' /\ h[2] \in DOMAIN first_device'[h[1]].part_list
    BY <1>3, <2>1
  <2>3. Item(h[1], h[2])' = Item(h[1], h[2]) /\ Part(h[1], h[2])' = Part(h[1], h[2])
    BY <1>4, <2>1
  <2>4. Item(h[1], h[2])'.fat /\ Part(h[1], h[2])' \in machine'.cfg
    BY <2>1, <2>3
  <2> QED BY <2>1, <2>2, <2>4 DEF Hits, Positions, Item, Part
<1> QED BY <1>1, <1>3, <1>4, <1>5 DEF D

(* AddDevice *)
LEMMA StepAddDevice ==
    ASSUME Within, SInv, AddDevice, Sound' => Sound
    PROVE  SInv'
<1>1. /\ machine' = machine /\ LoaderDevicePartUUID' = LoaderDevicePartUUID
      /\ phase = "probe" /\ phase' = "probe" /\ rootdev' = rootdev /\ dev' = dev
      /\ config_parts' = config_parts /\ ret' = ret /\ fresh' = fresh
  BY DEF AddDevice
<1>2. PICK d \in todo :
         /\ todo' = todo \ {d} /\ ~Unpartitioned(d)
         /\ \/ /\ NoFault
               /\ first_device' = Append(first_device,
                      [disk |-> d, part_list |-> check_partition_table(d, 0, "sound")])
            \/ /\ Fault
               /\ \E bad \in BadEntries(d) :
                     first_device' = Append(first_device,
                         [disk |-> d, part_list |-> check_partition_table(d, bad[1], bad[2])])
  BY DEF AddDevice
<1>3. d \in Scope /\ d \in DOMAIN machine.disks /\ todo \subseteq Scope
  BY <1>1, ScopeDisks DEF SInv, LeftOver, Searching
<1>4. PICK s \in Seq(Entries) :
         /\ first_device' = Append(first_device, [disk |-> d, part_list |-> s])
         /\ Distinct(s)
         /\ Sound' => \A p \in CfgOn(d) : Fats(s, p[2]) <=> p \in Reachable(d)
  <2>1. CASE first_device' = Append(first_device,
                 [disk |-> d, part_list |-> check_partition_table(d, 0, "sound")])
    BY <1>2, <1>3, <2>1, TableSound
  <2>2. ASSUME Fault, NEW bad \in BadEntries(d),
               first_device' = Append(first_device,
                   [disk |-> d, part_list |-> check_partition_table(d, bad[1], bad[2])])
        PROVE  \E s \in Seq(Entries) :
                  /\ first_device' = Append(first_device, [disk |-> d, part_list |-> s])
                  /\ Distinct(s) /\ ~Sound'
    <3>1. ~Sound'
      BY <1>1, <2>2, FaultMoves
    <3> QED BY <1>2, <1>3, <2>2, <3>1, TableFault
  <2> QED BY <1>2, <2>1, <2>2
<1>11. PICK n \in Nat : n = Len(first_device)
  BY ListShape DEF SInv
<1>5. /\ n \in Nat /\ DOMAIN first_device = 1 .. n /\ DOMAIN first_device' = 1 .. n + 1
      /\ first_device' \in Seq([disk : DOMAIN machine.disks, part_list : Seq(Entries)])
      /\ \A i \in 1 .. n : first_device'[i] = first_device[i]
      /\ first_device'[n + 1].disk = d /\ first_device'[n + 1].part_list = s
      /\ \A i \in 1 .. n : \A j : Part(i, j)' = Part(i, j) /\ Item(i, j)' = Item(i, j)
      /\ Hits \subseteq Hits'
  BY <1>1, <1>3, <1>4, <1>11, LongerList DEF SInv
<1>6. SearchShape' /\ RootDisk'
  BY <1>1, <1>5 DEF SInv, SearchShape, RootDisk, Entries
<1>7. Probed'
  <2> SUFFICES ASSUME fresh'
               PROVE  /\ \A i \in DOMAIN first_device' :
                            /\ first_device'[i].disk \in Scope' \ todo'
                            /\ Distinct(first_device'[i].part_list)
                            /\ Sound' => Shown(i)'
                      /\ \A i, k \in DOMAIN first_device' :
                            first_device'[i].disk = first_device'[k].disk => i = k
                      /\ Sound' => \A e \in Scope' \ todo' :
                            \/ Unpartitioned(e)'
                            \/ \E i \in DOMAIN first_device' : first_device'[i].disk = e
    BY DEF Probed, Distinct
  <2>1. /\ \A i \in DOMAIN first_device :
              /\ first_device[i].disk \in Scope \ todo
              /\ Distinct(first_device[i].part_list)
              /\ Sound => Shown(i)
        /\ \A i, k \in DOMAIN first_device :
              first_device[i].disk = first_device[k].disk => i = k
        /\ Sound => \A e \in Scope \ todo :
              Unpartitioned(e) \/ \E i \in DOMAIN first_device : first_device[i].disk = e
    BY <1>1 DEF SInv, Probed, Searching
  <2>2. Scope' = Scope /\ \A e : Unpartitioned(e)' <=> Unpartitioned(e)
    BY <1>1, SameScope
  <2>3. \A e : CfgOn(e)' = CfgOn(e) /\ Reachable(e)' = Reachable(e)
    BY <1>1, SameScope
  <2>4. ASSUME NEW i \in 1 .. n, Shown(i) PROVE Shown(i)'
    <3>1. first_device'[i] = first_device[i]
      BY <1>5
    <3>2. \A j : Part(i, j)' = Part(i, j) /\ Item(i, j)' = Item(i, j)
      BY <1>5
    <3> QED BY <2>3, <2>4, <3>1, <3>2 DEF Shown
  <2>5. Sound' => Shown(n + 1)'
    <3> SUFFICES ASSUME Sound', NEW p \in CfgOn(d)
                 PROVE  (\E j \in DOMAIN s : Item(n + 1, j)'.fat /\ Part(n + 1, j)' = p)
                            <=> p \in Reachable(d)
      BY <1>5, <2>3 DEF Shown
    <3>1. \A j : Item(n + 1, j)' = s[j] /\ Part(n + 1, j)' = <<d, s[j].num>>
      BY <1>5 DEF Item, Part
    <3>2. p = <<d, p[2]>>
      BY CfgParts DEF CfgOn
    <3>3. \A j : <<d, s[j].num>> = p <=> s[j].num = p[2]
      BY <3>2
    <3>4. Fats(s, p[2]) <=> p \in Reachable(d)
      BY <1>4
    <3>5. Fats(s, p[2]) <=> \E j \in DOMAIN s : s[j].fat /\ <<d, s[j].num>> = p
      BY <3>3, Zenon DEF Fats
    <3>6. (\E j \in DOMAIN s : Item(n + 1, j)'.fat /\ Part(n + 1, j)' = p)
              <=> \E j \in DOMAIN s : s[j].fat /\ <<d, s[j].num>> = p
      BY <3>1
    <3> QED BY <3>4, <3>5, <3>6
  <2>6. \A i \in 1 .. n + 1 : i \in 1 .. n \/ i = n + 1
    BY <1>5
  <2>7. \A i \in DOMAIN first_device' :
           /\ first_device'[i].disk \in Scope' \ todo'
           /\ Distinct(first_device'[i].part_list)
           /\ Sound' => Shown(i)'
    <3> SUFFICES ASSUME NEW i \in 1 .. n + 1
                 PROVE  /\ first_device'[i].disk \in Scope \ todo'
                        /\ Distinct(first_device'[i].part_list)
                        /\ Sound' => Shown(i)'
      BY <1>5, <2>2
    <3>1. CASE i \in 1 .. n
      BY <1>2, <1>5, <2>1, <2>4, <3>1
    <3>2. CASE i = n + 1
      BY <1>2, <1>3, <1>4, <1>5, <2>5, <3>2
    <3> QED BY <2>6, <3>1, <3>2
  <2>8. \A i, k \in DOMAIN first_device' : first_device'[i].disk = first_device'[k].disk => i = k
    <3>1. \A i \in 1 .. n : first_device'[i] = first_device[i] /\ first_device[i].disk # d
      BY <1>5, <2>1
    <3> SUFFICES ASSUME NEW i \in 1 .. n + 1, NEW k \in 1 .. n + 1,
                        first_device'[i].disk = first_device'[k].disk
                 PROVE  i = k
      BY <1>5
    <3>2. CASE i \in 1 .. n /\ k \in 1 .. n
      <4>1. i \in DOMAIN first_device /\ k \in DOMAIN first_device
        BY <1>5, <3>2
      <4>2. first_device[i].disk = first_device[k].disk
        BY <3>1, <3>2
      <4> QED BY <2>1, <4>1, <4>2
    <3>3. CASE i = n + 1 \/ k = n + 1
      BY <1>5, <2>6, <3>1, <3>3
    <3> QED BY <2>6, <3>2, <3>3
  <2>9. Sound' => \A e \in Scope' \ todo' :
            Unpartitioned(e)' \/ \E i \in DOMAIN first_device' : first_device'[i].disk = e
    <3> SUFFICES ASSUME Sound', NEW e \in Scope, e \notin todo', ~Unpartitioned(e)
                 PROVE  \E i \in 1 .. n + 1 : first_device'[i].disk = e
      BY <1>5, <2>2
    <3>1. CASE e = d
      BY <1>5, <3>1
    <3>2. CASE e # d
      <4>1. PICK i \in 1 .. n : first_device[i].disk = e
        BY <1>2, <1>5, <2>1, <3>2
      <4>2. i \in 1 .. n + 1 /\ first_device'[i].disk = e
        BY <1>5, <4>1
      <4> QED BY <4>2
    <3> QED BY <3>1, <3>2
  <2> QED BY <2>7, <2>8, <2>9
<1>8. LeftOver'
  <2>1. Overfull => Overfull'
    BY <1>5 DEF Overfull
  <2>2. todo' \subseteq Scope'
    BY <1>1, <1>2, <1>3, SameScope
  <2> QED BY <1>1, <2>1, <2>2 DEF SInv, LeftOver, Searching
<1>9. Counted' /\ Gathered'
  BY <1>1 DEF Counted, Gathered
<1>10. Success' /\ Failure'
  BY <1>1, ResultKept DEF SInv
<1> QED BY <1>6, <1>7, <1>8, <1>9, <1>10 DEF SInv

(* SkipDevice *)
LEMMA StepSkipDevice ==
    ASSUME Within, SInv, SkipDevice, Sound' => Sound
    PROVE  SInv'
<1>1. /\ machine' = machine /\ LoaderDevicePartUUID' = LoaderDevicePartUUID
      /\ phase = "probe" /\ phase' = "probe" /\ rootdev' = rootdev /\ dev' = dev
      /\ config_parts' = config_parts /\ ret' = ret /\ fresh' = fresh
      /\ first_device' = first_device
  BY DEF SkipDevice
<1>2. PICK d \in todo : todo' = todo \ {d} /\ (IF Unpartitioned(d) THEN NoFault ELSE Fault)
  BY DEF SkipDevice
<1>3. Sound' => Unpartitioned(d)
  BY <1>1, <1>2, FaultMoves
<1>4. SearchShape' /\ RootDisk'
  BY <1>1 DEF SInv, SearchShape, RootDisk
<1>5. Probed'
  <2> SUFFICES ASSUME fresh PROVE
        /\ \A i \in DOMAIN first_device :
              /\ first_device[i].disk \in Scope \ todo'
              /\ Distinct(first_device[i].part_list)
              /\ Sound' => Shown(i)'
        /\ \A i, k \in DOMAIN first_device :
              first_device[i].disk = first_device[k].disk => i = k
        /\ Sound' => \A e \in Scope \ todo' :
              Unpartitioned(e) \/ \E i \in DOMAIN first_device : first_device[i].disk = e
    BY <1>1, SameScope DEF Probed
  <2>1. \A i : Shown(i)' <=> Shown(i)
    BY <1>1, SameScope, SameLists DEF Shown
  <2>2. Searching
    BY <1>1 DEF Searching
  <2> QED BY <1>1, <1>2, <1>3, <2>1, <2>2 DEF SInv, Probed
<1>6. LeftOver'
  BY <1>1, <1>2, SameScope, SameLists DEF SInv, LeftOver, Searching
<1>7. Counted' /\ Gathered'
  BY <1>1 DEF Counted, Gathered
<1>8. Success' /\ Failure'
  BY <1>1, ResultKept DEF SInv
<1> QED BY <1>4, <1>5, <1>6, <1>7, <1>8 DEF SInv

(* ProbeEnd: nothing is passed yet. *)
LEMMA StepProbeEnd ==
    ASSUME Within, SInv, ProbeEnd, Sound' => Sound
    PROVE  SInv'
<1>1. /\ machine' = machine /\ LoaderDevicePartUUID' = LoaderDevicePartUUID
      /\ phase = "probe" /\ phase' = "walk" /\ rootdev' = rootdev /\ dev' = 1 /\ part' = 1
      /\ config_parts' = config_parts /\ ret' = ret /\ fresh' = fresh
      /\ first_device' = first_device /\ todo = {} /\ todo' = todo
  BY DEF ProbeEnd, machineVars
<1>2. SearchShape' /\ RootDisk'
  BY <1>1 DEF SInv, SearchShape, RootDisk
<1>3. Probed'
  BY <1>1, ListKept DEF SInv, Searching
<1>4. LeftOver'
  BY <1>1, SameScope, SameLists DEF SInv, LeftOver, Searching
<1>5. Walked' = {}
  <2> SUFFICES ASSUME NEW h \in Walked' PROVE FALSE
    OBVIOUS
  <2>1. h \in Hits /\ Passed(h)'
    BY <1>1, SameLists DEF Walked
  <2>2. h[1] \in DOMAIN first_device /\ h[2] \in DOMAIN first_device[h[1]].part_list
    BY <2>1, PairsOfNumbers DEF Hits
  <2>3. h[1] \in Nat /\ h[2] \in Nat /\ h[1] >= 1 /\ h[2] >= 1
    BY <2>2, ListShape DEF SInv
  <2> QED BY <1>1, <2>1, <2>3 DEF Passed
<1>6. config_parts' = <<>> /\ Len(config_parts') = 0 /\ DOMAIN config_parts' = {}
  BY <1>1 DEF SInv, LeftOver
<1>7. Counted' /\ Gathered'
  <2>1. IsFiniteSet({}) /\ Cardinality({}) = 0
    BY FS_EmptySet
  <2> QED BY <1>5, <1>6, <2>1 DEF Counted, Gathered, DistinctParts
<1>8. Success' /\ Failure'
  BY <1>1, ResultKept DEF SInv
<1> QED BY <1>2, <1>3, <1>4, <1>7, <1>8 DEF SInv

(* The search goes on to the next entry of the list. *)
LEMMA NextEntry ==
    ASSUME SearchShape, part \in Nat \ {0}, AtPartition, machine' = machine,
           first_device' = first_device, dev' = dev, part' = part + 1
    PROVE  Walked' = Walked \cup ({<<dev, part>>} \cap Hits)
<1>1. Hits' = Hits
  BY SameLists
<1>2. ASSUME NEW h \in Hits
      PROVE  Passed(h)' <=> Passed(h) \/ h = <<dev, part>>
  <2>1. h = <<h[1], h[2]>> /\ h[1] \in Nat /\ h[2] \in Nat
    BY PairsOfNumbers DEF Hits
  <2>2. dev \in Nat /\ part \in Nat
    BY DEF SearchShape
  <2>3. h = <<dev, part>> <=> h[1] = dev /\ h[2] = part
    BY <2>1
  <2> QED BY <2>1, <2>2, <2>3 DEF Passed
<1> QED BY <1>1, <1>2 DEF Walked

(* All entries of a device whose list ends here are passed. *)
LEMMA ListEnds ==
    ASSUME SearchShape, part \in Nat \ {0}, phase = "walk", ~AtPartition,
           NEW h \in Hits, h[1] <= dev
    PROVE  Passed(h)
<1>1. /\ h[1] \in Nat /\ h[2] \in Nat
      /\ h[1] \in DOMAIN first_device /\ h[2] \in DOMAIN first_device[h[1]].part_list
  BY PairsOfNumbers DEF Hits
<1>2. dev \in Nat
  BY DEF SearchShape
<1>3. CASE h[1] = dev
  <2>1. part \notin DOMAIN first_device[dev].part_list
    BY <1>1, <1>3 DEF AtPartition
  <2>2. PICK l \in Nat : DOMAIN first_device[dev].part_list = 1 .. l
    BY <1>1, <1>3, ListShape
  <2>3. h[2] < part
    BY <1>1, <1>3, <2>1, <2>2
  <2> QED BY <1>3, <2>3 DEF Passed
<1> QED BY <1>1, <1>2, <1>3 DEF Passed

(***************************************************************************)
(* Steps of the iteration over the partitions that find no config file.    *)
(***************************************************************************)
LEMMA WalkedOn ==
    ASSUME SInv, phase = "walk",
           UNCHANGED <<machine, LoaderDevicePartUUID, phase, rootdev, todo, first_device,
                       config_parts, ret, fresh>>,
           dev' \in Nat \ {0}, Walked \subseteq Walked', Sound' => Sound,
           Sound' => Walked' = Walked
    PROVE  SInv'
<1>1. SearchShape' /\ RootDisk'
  BY DEF SInv, SearchShape, RootDisk
<1>2. Probed'
  BY ListKept DEF SInv, Searching
<1>3. Success' /\ Failure'
  BY ResultKept DEF SInv
<1>4. LeftOver'
  BY SameLists, SameScope DEF SInv, LeftOver, Searching
<1>5. Counted'
  BY DEF SInv, Counted
<1>6. Gathered'
  BY SameLists DEF SInv, Gathered, DistinctParts
<1> QED BY <1>1, <1>2, <1>3, <1>4, <1>5, <1>6 DEF SInv

(* A partition that is none of those looked for, or only seems so. *)
LEMMA StepPassBy ==
    ASSUME Within, SInv, part \in Nat \ {0}, Sound' => Sound,
           SkipPartition \/ ProbeMountFails \/ NotFound
    PROVE  SInv'
<1>1. /\ UNCHANGED <<machine, LoaderDevicePartUUID, phase, rootdev, todo, first_device,
                     config_parts, ret, fresh>>
      /\ dev' = dev /\ part' = part + 1 /\ AtPartition /\ phase = "walk"
  BY DEF SkipPartition, ProbeMountFails, NotFound, machineVars, AtPartition
<1>2. SearchShape
  BY DEF SInv
<1>3. \/ ~ThisEntry.fat \/ ThisPartition \notin machine.cfg \/ Fault
  BY DEF SkipPartition, ProbeMountFails, NotFound
<1>4. Sound' => <<dev, part>> \notin Hits
  BY <1>1, <1>2, <1>3, HerePosition, FaultMoves
<1>5. Walked' = Walked \cup ({<<dev, part>>} \cap Hits)
  BY <1>1, <1>2, NextEntry
<1>6. Sound' => Walked' = Walked
  BY <1>4, <1>5
<1>7. dev' \in Nat \ {0}
  BY <1>1, <1>2 DEF SearchShape
<1> QED BY <1>1, <1>5, <1>6, <1>7, WalkedOn

(* NextDevice *)
LEMMA StepNextDevice ==
    ASSUME Within, SInv, part \in Nat \ {0}, NextDevice, Sound' => Sound
    PROVE  SInv'
<1>1. /\ UNCHANGED <<machine, LoaderDevicePartUUID, phase, rootdev, todo, first_device,
                     config_parts, ret, fresh>>
      /\ dev' = dev + 1 /\ part' = 1 /\ ~AtPartition /\ phase = "walk"
  BY DEF NextDevice, machineVars
<1>2. SearchShape /\ dev \in Nat \ {0} /\ dev' \in Nat \ {0}
  BY <1>1 DEF SInv, SearchShape
<1>3. Hits' = Hits
  BY <1>1, SameLists
<1>4. ASSUME NEW h \in Hits PROVE Passed(h)' <=> Passed(h)
  <2>1. /\ h[1] \in Nat /\ h[2] \in Nat
        /\ h[1] \in DOMAIN first_device /\ h[2] \in DOMAIN first_device[h[1]].part_list
    BY PairsOfNumbers DEF Hits
  <2>2. h[2] >= 1
    BY <1>2, <2>1, ListShape
  <2>3. Passed(h)' <=> h[1] <= dev
    BY <1>1, <1>2, <2>1, <2>2 DEF Passed
  <2>4. h[1] <= dev => Passed(h)
    BY <1>1, <1>2, ListEnds
  <2>5. Passed(h) => h[1] <= dev
    BY <1>2, <2>1 DEF Passed
  <2> QED BY <2>3, <2>4, <2>5
<1>5. Walked' = Walked
  BY <1>3, <1>4 DEF Walked
<1> QED BY <1>1, <1>2, <1>5, WalkedOn

(* The partitions found are in scope, and none of them is where the search *)
(* is now.                                                                 *)
LEMMA FoundSoFar ==
    ASSUME SInv, phase = "walk", fresh
    PROVE  /\ FoundParts \subseteq CfgInScope
           /\ Sound => FoundParts \subseteq InScope
           /\ \A k \in DOMAIN config_parts : \A h \in Positions \ Walked :
                 config_parts[k].part # Part(h[1], h[2])
<1>1. SearchShape /\ Probed /\ Searching /\ Walked \subseteq Hits /\ Hits \subseteq Positions
  BY DEF SInv, Searching, Walked, Hits
<1>2. \A k \in DOMAIN config_parts : \E h \in Walked : config_parts[k].part = Part(h[1], h[2])
  BY DEF SInv, Gathered
<1>3. \A k \in DOMAIN config_parts :
         config_parts[k].part \in CfgInScope /\ (Sound => config_parts[k].part \in InScope)
  BY <1>1, <1>2, HitParts
<1>4. ASSUME NEW k \in DOMAIN config_parts, NEW h \in Positions \ Walked
      PROVE  config_parts[k].part # Part(h[1], h[2])
  <2>1. PICK g \in Walked : config_parts[k].part = Part(g[1], g[2])
    BY <1>2
  <2>2. g \in Positions /\ h \in Positions /\ g # h
    BY <1>1, <2>1
  <2> QED BY <1>1, <2>1, <2>2, OncePerPartition
<1> QED BY <1>3, <1>4 DEF FoundParts

(* FoundConfig, with room for one more ... *)
LEMMA StepFound ==
    ASSUME Within, SInv, MountInv, FoundConfig, Sound' => Sound,
           Len(config_parts) < ENV_NUM_CONFIG_PARTS
    PROVE  SInv'
<1>1. /\ UNCHANGED <<machine, LoaderDevicePartUUID, phase, rootdev, todo, first_device,
                     ret, fresh>>
      /\ dev' = dev /\ part' = part + 1 /\ AtPartition /\ phase = "walk"
      /\ config_parts' = Append(config_parts, [part |-> ThisPartition, not_mounted |-> do_unmount])
      /\ ThisPartition \in machine.cfg /\ mountpoint # NoMount
  BY DEF FoundConfig, AtPartition
<1>2. SearchShape /\ part \in Nat \ {0} /\ do_unmount \in BOOLEAN /\ ThisEntry.fat
  BY <1>1 DEF SInv, MountInv, Mounted, Held
<1> DEFINE x == <<dev, part>>
<1>3. /\ x \in Hits /\ x \notin Walked /\ x \in Positions
      /\ ThisPartition = Part(x[1], x[2])
  BY <1>1, <1>2, HerePosition
<1>4. Walked' = Walked \cup {x} /\ Hits' = Hits
  BY <1>1, <1>2, <1>3, NextEntry, SameLists
<1> DEFINE C == [part : machine.cfg, not_mounted : BOOLEAN]
           c == [part |-> ThisPartition, not_mounted |-> do_unmount]
<1>5. config_parts \in Seq(C) /\ c \in C /\ c.part = ThisPartition
  BY <1>1, <1>2 DEF SearchShape
<1> HIDE DEF C, c
<1>6. PICK n \in Nat : n = Len(config_parts) /\ DOMAIN config_parts = 1 .. n
  BY <1>2, ListShape
<1>7. /\ config_parts' \in Seq(C) /\ Len(config_parts') = n + 1
      /\ DOMAIN config_parts' = 1 .. n + 1 /\ config_parts'[n + 1] = c
      /\ \A k \in 1 .. n : config_parts'[k] = config_parts[k]
  <2>1. config_parts' = Append(config_parts, c)
    BY <1>1 DEF c
  <2> QED BY <1>5, <1>6, <2>1
<1>8. \A k \in 1 .. n + 1 : k \in 1 .. n \/ k = n + 1
  BY <1>6
<1>9. SearchShape'
  <2>1. n + 1 <= ENV_NUM_CONFIG_PARTS
    BY <1>6, NumPartsAssumption
  <2>2. config_parts' \in Seq([part : machine'.cfg, not_mounted : BOOLEAN])
    BY <1>1, <1>7 DEF C
  <2>3. Len(config_parts') <= ENV_NUM_CONFIG_PARTS
    BY <1>7, <2>1
  <2>4. /\ first_device' \in Seq([disk : DOMAIN machine'.disks, part_list : Seq(Entries)])
        /\ dev' \in Nat \ {0} /\ fresh' \in BOOLEAN /\ (phase' # "idle" => ret' = "none")
    BY <1>1, <1>2 DEF SearchShape
  <2> QED BY <2>2, <2>3, <2>4 DEF SearchShape, Entries
<1>10. RootDisk'
  BY <1>1 DEF SInv, RootDisk
<1>11. Probed'
  BY <1>1, ListKept DEF SInv, Searching
<1>12. LeftOver'
  BY <1>1, SameLists, SameScope DEF SInv, LeftOver, Searching
<1>13. Counted'
  <2> SUFFICES ASSUME Sound'
               PROVE  IsFiniteSet(Walked') /\ Cardinality(Walked') = Len(config_parts')
    BY DEF Counted
  <2>1. IsFiniteSet(Walked) /\ Cardinality(Walked) = n
    BY <1>1, <1>6 DEF SInv, Counted
  <2>2. IsFiniteSet(Walked \cup {x}) /\ Cardinality(Walked \cup {x}) = n + 1
    BY <1>3, <2>1, FS_AddElement
  <2> QED BY <1>4, <1>7, <2>2
<1>14. Gathered'
  <2> SUFFICES ASSUME fresh
               PROVE  /\ DistinctParts'
                      /\ \A k \in DOMAIN config_parts' : \E h \in Walked' :
                            config_parts'[k].part = Part(h[1], h[2])
                      /\ Sound' => \A h \in Walked' : \E k \in DOMAIN config_parts' :
                            config_parts'[k].part = Part(h[1], h[2])
    BY <1>1, SameLists DEF Gathered
  <2>1. /\ DistinctParts
        /\ \A k \in 1 .. n : \E h \in Walked : config_parts[k].part = Part(h[1], h[2])
        /\ Sound => \A h \in Walked : \E k \in 1 .. n : config_parts[k].part = Part(h[1], h[2])
    BY <1>1, <1>6 DEF SInv, Gathered
  <2>2. \A k \in 1 .. n : config_parts[k].part # c.part
    BY <1>1, <1>3, <1>5, <1>6, FoundSoFar
  <2>3. DistinctParts'
    BY <1>6, <1>7, <1>8, <2>1, <2>2 DEF DistinctParts
  <2>4. \A k \in DOMAIN config_parts' : \E h \in Walked' :
            config_parts'[k].part = Part(h[1], h[2])
    <3> SUFFICES ASSUME NEW k \in 1 .. n + 1
                 PROVE  \E h \in Walked \cup {x} : config_parts'[k].part = Part(h[1], h[2])
      BY <1>4, <1>7
    <3>1. CASE k \in 1 .. n
      BY <1>7, <2>1, <3>1
    <3>2. CASE k = n + 1
      BY <1>3, <1>5, <1>7, <3>2
    <3> QED BY <1>8, <3>1, <3>2
  <2>5. ASSUME Sound', NEW h \in Walked'
        PROVE  \E k \in 1 .. n + 1 : config_parts'[k].part = Part(h[1], h[2])
    <3>1. CASE h \in Walked
      <4>1. PICK k \in 1 .. n : config_parts[k].part = Part(h[1], h[2])
        BY <2>1, <2>5, <3>1
      <4>2. k \in 1 .. n + 1
        BY <4>1
      <4> QED BY <1>7, <4>1, <4>2
    <3>2. CASE h = x
      <4>1. n + 1 \in 1 .. n + 1
        BY <1>6
      <4> QED BY <1>3, <1>5, <1>7, <3>2, <4>1
    <3> QED BY <1>4, <2>5, <3>1, <3>2
  <2> QED BY <1>7, <2>3, <2>4, <2>5
<1>15. Success' /\ Failure'
  <2>1. ret' = "none" /\ phase' = "walk"
    BY <1>1, <1>2 DEF SearchShape
  <2> QED BY <2>1 DEF Success, Failure
<1> QED BY <1>9, <1>10, <1>11, <1>12, <1>13, <1>14, <1>15 DEF SInv

(* ... and with one too many. *)
LEMMA StepOneTooMany ==
    ASSUME Within, SInv, MountInv, FoundConfig, Sound' => Sound,
           ~(Len(config_parts) < ENV_NUM_CONFIG_PARTS)
    PROVE  SInv'
<1>1. /\ UNCHANGED <<machine, LoaderDevicePartUUID, rootdev, todo, first_device, fresh,
                     config_parts, dev, part>>
      /\ AtPartition /\ phase = "walk" /\ phase' = "idle" /\ ret' = "false"
      /\ ThisPartition \in machine.cfg /\ mountpoint # NoMount
  BY DEF FoundConfig, AtPartition
<1>2. SearchShape /\ part \in Nat \ {0} /\ ThisEntry.fat
  BY <1>1 DEF SInv, MountInv, Held
<1> DEFINE x == <<dev, part>>
<1>3. /\ x \in Hits /\ x \notin Walked /\ x \in Positions
      /\ ThisPartition = Part(x[1], x[2])
  BY <1>1, <1>2, HerePosition
<1>4. Len(config_parts) = ENV_NUM_CONFIG_PARTS /\ ENV_NUM_CONFIG_PARTS \in Nat
  BY <1>2, ListShape, NumPartsAssumption DEF SearchShape
<1>5. SearchShape' /\ RootDisk'
  BY <1>1 DEF SInv, SearchShape, RootDisk
<1>6. Probed' /\ Counted' /\ Gathered' /\ Success'
  BY <1>1 DEF Probed, Searching, Counted, Gathered, Success
<1>7. LeftOver'
  <2> SUFFICES ASSUME Sound' PROVE Overfull
    BY <1>1, SameLists DEF LeftOver, Searching
  <2>1. IsFiniteSet(Walked) /\ Cardinality(Walked) = ENV_NUM_CONFIG_PARTS
    BY <1>1, <1>4 DEF SInv, Counted
  <2>2. /\ IsFiniteSet(Walked \cup {x})
        /\ Cardinality(Walked \cup {x}) = ENV_NUM_CONFIG_PARTS + 1
    BY <1>3, <2>1, FS_AddElement
  <2>3. Walked \cup {x} \in SUBSET Hits
    BY <1>3 DEF Walked
  <2>4. Cardinality(Walked \cup {x}) > ENV_NUM_CONFIG_PARTS
    BY <1>4, <2>2
  <2> QED BY <2>2, <2>3, <2>4 DEF Overfull
<1>8. Failure'
  <2> SUFFICES ASSUME fresh, Sound PROVE Cardinality(InScope) # ENV_NUM_CONFIG_PARTS
    BY <1>1, SameScope DEF Failure
  <2> DEFINE F == FoundParts \cup {ThisPartition}
  <2>1. DistinctParts
    BY <1>1 DEF SInv, Gathered
  <2>2. IsFiniteSet(FoundParts) /\ Cardinality(FoundParts) = ENV_NUM_CONFIG_PARTS
    BY <1>2, <1>4, <2>1, FoundNumber
  <2>3. FoundParts \subseteq InScope /\ ThisPartition \notin FoundParts
    BY <1>1, <1>3, FoundSoFar DEF FoundParts
  <2>4. ThisPartition \in InScope
    BY <1>1, <1>3, HitParts DEF SInv, Searching
  <2>5. IsFiniteSet(F) /\ Cardinality(F) = ENV_NUM_CONFIG_PARTS + 1
    BY <2>2, <2>3, FS_AddElement
  <2>6. F \in SUBSET InScope /\ IsFiniteSet(InScope)
    BY <2>3, <2>4, ScopeFinite
  <2>7. Cardinality(F) <= Cardinality(InScope) /\ Cardinality(InScope) \in Nat
    BY <2>6, FS_Subset, FS_CardinalityType
  <2> QED BY <1>4, <2>5, <2>7
<1> QED BY <1>5, <1>6, <1>7, <1>8 DEF SInv

(* SearchEnd: everything is passed. *)
LEMMA StepSearchEnd ==
    ASSUME Within, SInv, part \in Nat \ {0}, SearchEnd, Sound' => Sound
    PROVE  SInv'
<1>1. /\ UNCHANGED <<machine, LoaderDevicePartUUID, rootdev, todo, fresh, config_parts>>
      /\ ~AtPartition /\ phase = "walk" /\ first_device' = <<>> /\ dev' = 1
      /\ dev >= Len(first_device)
      /\ Len(config_parts) < ENV_NUM_CONFIG_PARTS => phase' = "idle" /\ ret' = "false"
      /\ ~(Len(config_parts) < ENV_NUM_CONFIG_PARTS) => phase' = "read" /\ ret' = ret
  BY DEF SearchEnd, machineVars
<1>2. SearchShape /\ Probed /\ Searching
  BY <1>1 DEF SInv, Searching
<1>3. Walked = Hits
  <2> SUFFICES ASSUME NEW h \in Hits PROVE Passed(h)
    BY DEF Walked
  <2>1. h[1] <= dev
    BY <1>1, <1>2, PairsOfNumbers, ListShape DEF Hits, SearchShape
  <2> QED BY <1>1, <1>2, <2>1, ListEnds
<1>4. ASSUME fresh
      PROVE  /\ DistinctParts /\ FoundParts \subseteq CfgInScope
             /\ Sound => FoundParts = InScope
             /\ IsFiniteSet(FoundParts) /\ Cardinality(FoundParts) = Len(config_parts)
  <2>1. DistinctParts /\ FoundParts \subseteq CfgInScope /\ (Sound => FoundParts \subseteq InScope)
    BY <1>1, <1>4, FoundSoFar DEF SInv, Gathered
  <2>2. ASSUME Sound, NEW p \in InScope PROVE p \in FoundParts
    <3>1. PICK h \in Hits : Part(h[1], h[2]) = p
      BY <1>1, <1>2, <1>4, <2>2, AllHit DEF SInv, LeftOver
    <3>2. \E k \in DOMAIN config_parts : config_parts[k].part = Part(h[1], h[2])
      BY <1>1, <1>3, <1>4, <2>2 DEF SInv, Gathered
    <3> QED BY <3>1, <3>2 DEF FoundParts
  <2>3. IsFiniteSet(FoundParts) /\ Cardinality(FoundParts) = Len(config_parts)
    BY <1>2, <2>1, FoundNumber
  <2> QED BY <2>1, <2>2, <2>3
<1>5. ASSUME Sound, ~fresh PROVE Len(config_parts) > ENV_NUM_CONFIG_PARTS
  <2>1. PICK W \in SUBSET Hits : IsFiniteSet(W) /\ Cardinality(W) > ENV_NUM_CONFIG_PARTS
    BY <1>2, <1>5 DEF SInv, LeftOver, Overfull
  <2>2. IsFiniteSet(Hits) /\ Cardinality(Hits) = Len(config_parts)
    BY <1>1, <1>3, <1>5 DEF SInv, Counted
  <2>3. Cardinality(W) <= Len(config_parts) /\ Cardinality(W) \in Nat
    BY <2>1, <2>2, FS_Subset, FS_CardinalityType
  <2> QED BY <1>2, <2>1, <2>3, ListShape, NumPartsAssumption
<1>6. Len(config_parts) \in Nat /\ Len(config_parts) <= ENV_NUM_CONFIG_PARTS
  BY <1>2, ListShape DEF SearchShape
<1>7. SearchShape'
  <2>1. <<>> \in Seq([disk : DOMAIN machine.disks, part_list : Seq(Entries)])
    OBVIOUS
  <2>2. first_device' \in Seq([disk : DOMAIN machine'.disks, part_list : Seq(Entries)])
    BY <1>1, <2>1
  <2>3. /\ config_parts' \in Seq([part : machine'.cfg, not_mounted : BOOLEAN])
        /\ Len(config_parts') <= ENV_NUM_CONFIG_PARTS /\ fresh' \in BOOLEAN
        /\ dev' \in Nat \ {0} /\ (phase' # "idle" => ret' = "none")
    BY <1>1, <1>2 DEF SearchShape
  <2> QED BY <2>2, <2>3 DEF SearchShape, Entries
<1>8. RootDisk'
  BY <1>1 DEF SInv, RootDisk
<1>9. phase' \in {"idle", "read"}
  BY <1>1
<1>10. Probed' /\ Counted' /\ Gathered'
  BY <1>9 DEF Probed, Searching, Counted, Gathered
<1>11. LeftOver'
  BY <1>1, <1>6, <1>9, NumPartsAssumption DEF LeftOver, Searching
<1>12. FoundParts' = FoundParts /\ (DistinctParts' <=> DistinctParts)
  BY <1>1 DEF FoundParts, DistinctParts
<1>13. CfgInScope' = CfgInScope /\ InScope' = InScope
  BY <1>1, SameScope
<1>14. ret = "none"
  BY <1>1, <1>2 DEF SearchShape
<1>15. Success'
  <2> SUFFICES ASSUME phase' = "read" \/ ret' = "true"
               PROVE  /\ Len(config_parts) = ENV_NUM_CONFIG_PARTS
                      /\ fresh => DistinctParts /\ FoundParts \subseteq CfgInScope
                      /\ fresh /\ Sound' => FoundParts = InScope
                      /\ ~fresh => ~Sound'
    BY <1>1, <1>12, <1>13 DEF Success
  <2>1. Len(config_parts) = ENV_NUM_CONFIG_PARTS
    BY <1>1, <1>6, <1>14, NumPartsAssumption
  <2>2. ~fresh => ~Sound'
    BY <1>5, <1>6, <2>1
  <2> QED BY <1>4, <2>1, <2>2
<1>16. Failure'
  <2> SUFFICES ASSUME ret' = "false", fresh, Sound
               PROVE  Cardinality(InScope) # ENV_NUM_CONFIG_PARTS
    BY <1>1, <1>13 DEF Failure
  <2> QED BY <1>1, <1>4, <1>6, <1>14, NumPartsAssumption
<1> QED BY <1>7, <1>8, <1>10, <1>11, <1>15, <1>16 DEF SInv

(* InitEnd: the config files are read, and the search is over. *)
LEMMA StepInitEnd ==
    ASSUME SInv, InitEnd, Sound' => Sound
    PROVE  SInv'
<1>1. /\ UNCHANGED <<machine, LoaderDevicePartUUID, rootdev, todo, first_device, dev, fresh,
                     config_parts>>
      /\ phase = "read" /\ phase' = "idle" /\ ret' = "true"
  BY DEF InitEnd, machineVars
<1>2. SearchShape' /\ RootDisk'
  BY <1>1 DEF SInv, SearchShape, RootDisk
<1>3. Probed' /\ Counted' /\ Gathered' /\ Failure'
  BY <1>1 DEF Probed, Searching, Counted, Gathered, Failure
<1>4. LeftOver'
  BY <1>1 DEF SInv, LeftOver, Searching
<1>5. FoundParts' = FoundParts /\ (DistinctParts' <=> DistinctParts)
  BY <1>1 DEF FoundParts, DistinctParts
<1>6. Success'
  BY <1>1, <1>5, SameScope DEF SInv, Success
<1> QED BY <1>2, <1>3, <1>4, <1>6 DEF SInv

(* bgenv_finalize keeps the list of devices. *)
LEMMA StepFinalize ==
    ASSUME SInv, bgenv_finalize, Sound' => Sound
    PROVE  SInv'
<1>1. /\ UNCHANGED <<machine, LoaderDevicePartUUID, rootdev, todo, first_device, dev, fresh,
                     phase>>
      /\ phase = "idle" /\ ret' = "none" /\ config_parts' = <<>>
  BY DEF bgenv_finalize, machineVars
<1>2. SearchShape'
  <2>1. <<>> \in Seq([part : machine.cfg, not_mounted : BOOLEAN]) /\ Len(<<>>) = 0
    OBVIOUS
  <2>2. /\ config_parts' \in Seq([part : machine'.cfg, not_mounted : BOOLEAN])
        /\ Len(config_parts') <= ENV_NUM_CONFIG_PARTS
    BY <1>1, <2>1, NumPartsAssumption
  <2>3. /\ first_device' \in Seq([disk : DOMAIN machine'.disks, part_list : Seq(Entries)])
        /\ dev' \in Nat \ {0} /\ fresh' \in BOOLEAN
    BY <1>1 DEF SInv, SearchShape
  <2> QED BY <1>1, <2>2, <2>3 DEF SearchShape, Entries
<1>3. RootDisk'
  BY <1>1 DEF SInv, RootDisk
<1>4. Probed' /\ Counted' /\ Gathered' /\ Success' /\ Failure'
  BY <1>1 DEF Probed, Searching, Counted, Gathered, Success, Failure
<1>5. LeftOver'
  BY <1>1, SameLists DEF SInv, LeftOver, Searching
<1> QED BY <1>2, <1>3, <1>4, <1>5 DEF SInv

(***************************************************************************)
(* Every step of the library keeps the invariant of the search.            *)
(***************************************************************************)
LEMMA SearchStep ==
    ASSUME Within, MountInv, SInv, LibNext
    PROVE  SInv'
<1>1. machine' = machine /\ (Fault \/ NoFault)
  BY DEF LibNext, bgenv_init, get_rootdev_from_efi, AddDevice, SkipDevice, ProbeEnd,
         SkipPartition, ProbeMount, ProbeMountFails, NotFound, FoundConfig, NextDevice,
         SearchEnd, ReadMount, ReadEnv, InitEnd, bgenv_finalize, unmount_partition,
         machineVars, NoFault
<1>2. (Sound' => Sound) /\ part \in Nat \ {0}
  BY <1>1, FaultMoves DEF MountInv
<1>3. CASE bgenv_init \/ AddDevice \/ SkipDevice \/ ProbeEnd
  BY <1>2, <1>3, StepInit, StepAddDevice, StepSkipDevice, StepProbeEnd
<1>4. CASE SkipPartition \/ ProbeMountFails \/ NotFound \/ NextDevice \/ SearchEnd
  BY <1>2, <1>4, StepPassBy, StepNextDevice, StepSearchEnd
<1>5. CASE FoundConfig
  BY <1>2, <1>5, StepFound, StepOneTooMany
<1>6. CASE ProbeMount \/ ReadMount \/ ReadEnv
  <2>1. /\ UNCHANGED <<phase, rootdev, todo, first_device, config_parts, ret, fresh, dev>>
        /\ phase = "walk" => part' = part
        /\ LoaderDevicePartUUID' = LoaderDevicePartUUID
    BY <1>6 DEF ProbeMount, ReadMount, ReadEnv, AtPartition
  <2>2. LoaderDevicePartUUID' \in {machine.earlier, machine.boot}
    BY <2>1 DEF SInv, RootDisk
  <2> QED BY <1>1, <1>2, <2>1, <2>2, SearchKept
<1>7. CASE InitEnd \/ bgenv_finalize
  BY <1>2, <1>7, StepInitEnd, StepFinalize
<1> QED BY <1>3, <1>4, <1>5, <1>6, <1>7 DEF LibNext

(* The loader does not touch the search; it may set the variable. *)
LEMMA SearchRests ==
    ASSUME Within, SInv, machine' = machine, Fault \/ NoFault, UNCHANGED libVars,
           LoaderDevicePartUUID' \in {LoaderDevicePartUUID, machine.boot}
    PROVE  SInv'
<1>1. /\ UNCHANGED <<phase, rootdev, todo, first_device, config_parts, ret, fresh, dev>>
      /\ part' = part
  BY DEF libVars
<1>2. Sound' => Sound
  BY FaultMoves
<1>3. LoaderDevicePartUUID' \in {machine.earlier, machine.boot}
  BY DEF SInv, RootDisk
<1> QED BY <1>1, <1>2, <1>3, SearchKept

(* A machine at power-on. *)
LEMMA SearchInit == Init => SInv
<1> SUFFICES ASSUME Init PROVE SInv
  OBVIOUS
<1>1. /\ phase = "idle" /\ rootdev = NoDisk /\ todo = {} /\ first_device = <<>> /\ dev = 1
      /\ config_parts = <<>> /\ ret = "none" /\ fresh = TRUE
      /\ LoaderDevicePartUUID = machine.earlier
  BY DEF Init, LibInit
<1>2. SearchShape
  <2>1. /\ <<>> \in Seq([disk : DOMAIN machine.disks, part_list : Seq(Entries)])
        /\ <<>> \in Seq([part : machine.cfg, not_mounted : BOOLEAN]) /\ Len(<<>>) = 0
    OBVIOUS
  <2>2. fresh \in BOOLEAN
    BY <1>1, Zenon
  <2>3. Len(config_parts) <= ENV_NUM_CONFIG_PARTS
    BY <1>1, <2>1, NumPartsAssumption
  <2>4. /\ first_device \in Seq([disk : DOMAIN machine.disks, part_list : Seq(Entries)])
        /\ config_parts \in Seq([part : machine.cfg, not_mounted : BOOLEAN])
        /\ dev \in Nat \ {0}
    BY <1>1, <2>1
  <2> QED BY <1>1, <2>2, <2>3, <2>4 DEF SearchShape
<1>3. RootDisk
  BY <1>1 DEF RootDisk
<1>4. Probed /\ LeftOver /\ Counted /\ Gathered /\ Success /\ Failure
  BY <1>1 DEF Probed, LeftOver, Searching, Counted, Gathered, Success, Failure
<1> QED BY <1>2, <1>3, <1>4 DEF SInv

(* Loader and library together. *)
LEMMA SearchNext ==
    ASSUME BInv, SInv, [Next]_vars
    PROVE  SInv'
<1>0. Within /\ LoaderInv /\ MountInv
  BY DEF BInv
<1>1. CASE LoaderNext /\ UNCHANGED libVars
  <2>1. machine' = machine /\ (Fault \/ NoFault)
    BY <1>0, <1>1, LoaderStep
  <2>2. CASE LoaderDevicePartUUID' = LoaderDevicePartUUID
    BY <1>0, <1>1, <2>1, <2>2, SearchRests
  <2>3. CASE StartKernel
    <3>1. LoaderDevicePartUUID' \in {LoaderDevicePartUUID, machine.boot}
      BY <2>3 DEF StartKernel, disk_get_part_uuid
    <3> QED BY <1>0, <1>1, <2>1, <3>1, SearchRests
  <2> QED
    BY <1>1, <2>2, <2>3 DEF LoaderNext, GetVolumesFails, SkipHandle, AddVolume, GetVolumesEnd,
                            NoCfgFile, CfgFile, EnumerateEnd, LoadConfig,
                            FileDevicePathFromConfig, machineVars
<1>2. CASE pc = "os" /\ LibNext /\ UNCHANGED loaderVars
  BY <1>0, <1>2, SearchStep
<1>3. CASE UNCHANGED vars
  <2>1. machine' = machine /\ NoFault /\ UNCHANGED libVars
        /\ LoaderDevicePartUUID' = LoaderDevicePartUUID
    BY <1>3 DEF vars, machineVars, NoFault
  <2> QED BY <1>0, <2>1, SearchRests
<1> QED BY <1>1, <1>2, <1>3 DEF Next

-----------------------------------------------------------------------------
(***************************************************************************)
(* Part 9: the theorems about the search.                                  *)
(***************************************************************************)

(* The invariant of the search holds on every machine. *)
THEOREM SearchInvariance == Spec => []SInv
<1>1. SInv /\ BInv /\ [Next]_vars => SInv'
  BY SearchNext
<1> QED BY <1>1, SearchInit, MediaInvariance, PTL DEF Spec

(***************************************************************************)
(* On every machine, for every order of its block devices and with any     *)
(* number of searches: what SearchExact says of them.                      *)
(***************************************************************************)
THEOREM ExactSearch == Spec => []SearchExact
<1>1. BInv /\ SInv => SearchExact
  <2> SUFFICES ASSUME BInv, SInv PROVE SearchExact
    OBVIOUS
  <2>1. SearchShape /\ Success /\ Failure
    BY DEF SInv
  <2>2. ASSUME ret = "true", fresh
        PROVE  /\ Cardinality(FoundParts) = ENV_NUM_CONFIG_PARTS
               /\ FoundParts \subseteq CfgInScope
               /\ Sound => FoundParts = InScope
    BY <2>1, <2>2, FoundNumber DEF Success
  <2>3. ret = "false" /\ fresh /\ Sound => Cardinality(InScope) # ENV_NUM_CONFIG_PARTS
    BY <2>1 DEF Failure
  <2>4. ret = "true" /\ ~fresh => ~Sound
    BY <2>1 DEF Success
  <2> QED BY <2>2, <2>3, <2>4 DEF SearchExact, Sound
<1> QED BY <1>1, MediaInvariance, SearchInvariance, PTL

(***************************************************************************)
(* On every machine, library and loader work on the same config files,     *)
(* under the conditions of SameFiles.                                      *)
(***************************************************************************)
THEOREM LibraryAgrees == Spec => []SameFiles
<1>1. BInv /\ SInv => SameFiles
  <2> SUFFICES ASSUME BInv, SInv, ret = "true", fresh, machine.earlier = NoPartition,
                      Cardinality(CfgOnBoot) = ENV_NUM_CONFIG_PARTS,
                      Reachable(Disk(machine.boot)) = CfgOnBoot,
                      rootdev # NoDisk \/ Sound
               PROVE  FoundParts = CfgOnBoot
    BY DEF SameFiles, Sound
  <2>1. Within /\ SearchShape /\ RootDisk /\ Success
    BY DEF BInv, SInv
  <2>2. /\ IsFiniteSet(FoundParts) /\ Cardinality(FoundParts) = ENV_NUM_CONFIG_PARTS
        /\ FoundParts \subseteq CfgInScope /\ (Sound => FoundParts = InScope)
    BY <2>1, FoundNumber DEF Success
  <2>3. IsFiniteSet(CfgOnBoot)
    <3>1. CfgOnBoot \subseteq machine.cfg /\ IsFiniteSet(machine.cfg)
      BY <2>1, ScopeFinite DEF CfgOnBoot, CfgOn
    <3> QED BY <3>1, FS_Subset
  <2>4. CASE rootdev # NoDisk
    <3>1. rootdev = Disk(machine.boot)
      BY <2>1, <2>4 DEF RootDisk
    <3>2. FoundParts \in SUBSET CfgOnBoot
      BY <2>2, <2>4, <3>1 DEF CfgInScope, Scope, CfgOnBoot, CfgOn
    <3> QED BY <2>2, <2>3, <3>2, FS_Subset
  <2>5. CASE rootdev = NoDisk
    <3>1. FoundParts = InScope
      BY <2>2, <2>5
    <3>2. ASSUME NEW p \in CfgOnBoot PROVE p \in InScope
      <4>1. p \in machine.cfg /\ Disk(p) = Disk(machine.boot)
        BY DEF CfgOnBoot, CfgOn
      <4>2. Disk(p) \in Scope
        BY <2>1, <2>5, <4>1, CfgParts DEF Scope
      <4> QED BY <4>1, <4>2 DEF InScope, CfgInScope
    <3>3. CfgOnBoot \in SUBSET FoundParts
      BY <3>1, <3>2
    <3> QED BY <2>2, <3>3, FS_Subset
  <2> QED BY <2>4, <2>5
<1> QED BY <1>1, MediaInvariance, SearchInvariance, PTL
=============================================================================

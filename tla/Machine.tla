------------------------------ MODULE Machine ------------------------------
(***************************************************************************)
(* The machine on which config files are looked for: its disks, their      *)
(* partition tables and what is on the partitions.  The boot loader sees   *)
(* it through the firmware (Volumes), the environment library through      *)
(* /sys/block and its own reading of the partition tables (ConfigSearch).  *)
(* Both only read it.  What they share besides is the EFI variable         *)
(* LoaderDevicePartUUID.                                                   *)
(*                                                                         *)
(* `earlier' is what an earlier boot stage has set the variable to,       *)
(* `mounted' are the partitions the running system has mounted.            *)
(* A partition is a pair of disk and number; number 0 is the whole disk,   *)
(* which holds a file system when the disk is not partitioned.             *)
(***************************************************************************)
EXTENDS Integers, Sequences, FiniteSets, SequencesExt

CONSTANTS
    ENV_NUM_CONFIG_PARTS,   \* number of config partitions
    Machines,               \* the machines looked at
    NoPartition,            \* no partition, no variable
    NoLabel,                \* the label of a volume that has none
    MaxFaults               \* bound on the I/O errors of a behaviour

ASSUME NumPartsAssumption == ENV_NUM_CONFIG_PARTS \in Nat \ {0}
ASSUME FaultsAssumption == MaxFaults \in Nat

VARIABLES
    machine,                \* one of Machines; never changes
    LoaderDevicePartUUID,   \* the partition the EFI variable names
    faults                  \* how many more I/O errors there may be

machineVars == <<machine, LoaderDevicePartUUID, faults>>

(* One more operation fails; or none does. *)
Fault   == faults > 0 /\ faults' = faults - 1
NoFault == UNCHANGED faults

-----------------------------------------------------------------------------
(***************************************************************************)
(* A disk: the four entries of its MBR, the entries of its GPT if one of   *)
(* the former says "gpt", and the chain of logical volumes if one says     *)
(* "extended" (at most one does, and none beside a GPT).  An entry is      *)
(* "fat", "unlisted" (a FAT file system under a partition type that the    *)
(* library does not list), "other" or "none" (unused); an MBR with no used *)
(* entry is none.                                                          *)
(***************************************************************************)
EntryTypes == {"fat", "unlisted", "other", "none"}
Tables ==
    {t \in [mbr : Seq(EntryTypes \cup {"gpt", "extended"}), gpt : Seq(EntryTypes),
            logical : Seq(EntryTypes)] :
        /\ t.mbr # <<>> => Len(t.mbr) = 4 /\ \E i \in 1 .. 4 : t.mbr[i] # "none"
        /\ \A i, j \in DOMAIN t.mbr : t.mbr[i] = "extended" /\ t.mbr[j] = "extended" => i = j
        /\ t.logical # <<>> => Contains(t.mbr, "extended") /\ ~Contains(t.mbr, "gpt")}

FatIn(entries) == {n \in DOMAIN entries : entries[n] \in {"fat", "unlisted"}}

(* The numbers of the FAT file systems of a disk with this table: the      *)
(* firmware looks at what is on a partition.                               *)
FatNumbers(t) ==
    IF t.mbr = <<>> THEN {0}
    ELSE IF Contains(t.mbr, "gpt") THEN FatIn(t.gpt)
    ELSE FatIn(t.mbr) \cup {n + 4 : n \in FatIn(t.logical)}

(* The FAT file systems of a disk, and of a machine. *)
FatOn(d, t)    == {<<d, n>> : n \in FatNumbers(t)}
FileSystems(m) == UNION {FatOn(d, m.disks[d]) : d \in DOMAIN m.disks}

(* The loader was started from a file system, config files are on such,    *)
(* and an earlier stage was started from one of the disks.                 *)
ASSUME MachinesAssumption ==
    \A m \in Machines :
        /\ \A d \in DOMAIN m.disks : m.disks[d] \in Tables
        /\ m.boot \in FileSystems(m) /\ m.cfg \subseteq FileSystems(m)
        /\ IsFiniteSet(FileSystems(m)) /\ IsFiniteSet(m.mounted)
        /\ m.earlier # NoPartition => m.earlier[1] \in DOMAIN m.disks

Disk(p)  == p[1]
Table(d) == machine.disks[d]
IsGPT(d) == Contains(Table(d).mbr, "gpt")
Unpartitioned(d) == Table(d).mbr = <<>>

OnBootDisk(p) == Disk(p) = Disk(machine.boot)

CfgOn(d)    == {p \in machine.cfg : Disk(p) = d}
CfgOnBoot   == CfgOn(Disk(machine.boot))
=============================================================================

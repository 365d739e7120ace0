------------------------------ MODULE Volumes ------------------------------
(***************************************************************************)
(* The volumes of the boot loader (utils.c) and its search for config      *)
(* files on them (env/syspart.c), loop by loop, up to the point where      *)
(* efi_main knows from which partition to load the kernel, and what it     *)
(* leaves behind for the library (loader_interface.c).  Reading and        *)
(* choosing among the config files is EnvScan and BootGuard.               *)
(***************************************************************************)
EXTENDS Machine

CONSTANTS
    Labels,        \* labels, as sequences of characters
    NoPath         \* no kernel looked up yet

ASSUME LabelsAssumption == Labels \subseteq Seq(STRING) /\ NoLabel \notin Labels

(* A kernel file name: with no label, or as L:label:name or C:label:name.  *)
Paths == [mode : {"L", "C"}, label : Labels] \cup [mode : {"none"}, label : {<<>>}]

VARIABLES
    handles,         \* file system handles, in the order of the firmware
    pc, index,       \* which loop runs, and its counter
    volumes,         \* the partitions opened, those of the boot medium first
    bootCount,
    config_volumes,  \* partitions with a config file, as load_config uses them
    bootOnly,        \* use_envs_on_bootmedium_only
    path,            \* the kernel file name looked up
    payload          \* where the kernel is taken from

loaderVars == <<handles, pc, index, volumes, bootCount, config_volumes,
                bootOnly, path, payload>>

LoaderPhases == {"get_volumes", "enumerate", "load", "path", "start", "halt", "os"}

Payload == [part : FileSystems(machine),
            stripped : BOOLEAN]   \* is the label cut off the file name?

LoaderTypeOK ==
    /\ pc \in LoaderPhases
    /\ index \in 1 .. Len(handles) + 1
    /\ bootCount \in 0 .. Len(volumes)
    /\ ToSet(volumes) \subseteq ToSet(handles)
    /\ ToSet(config_volumes) \subseteq machine.cfg
    /\ bootOnly \in BOOLEAN
    /\ path \in Paths \cup {NoPath}
    /\ path # NoPath => payload \in Payload

(* The firmware gives all FAT file systems, in an order of its own. *)
LoaderInit ==
    /\ handles \in SetToSeqs(FileSystems(machine))
    /\ pc = "get_volumes" /\ index = 1
    /\ volumes = <<>> /\ bootCount = 0
    /\ config_volumes = <<>> /\ bootOnly = FALSE
    /\ path = NoPath
    /\ payload = [part |-> machine.boot, stripped |-> FALSE]

-----------------------------------------------------------------------------
(* A device path is the sequence of its nodes; all disks are attached to   *)
(* one controller.                                                         *)
DevicePath(p) == IF p[2] = 0 THEN <<"pci", Disk(p)>> ELSE <<"pci", Disk(p), p[2]>>

(* All but the last node, as there is a separator before that. *)
GetMediumPath(dp) == IF Len(dp) > 1 THEN Front(dp) ELSE dp

IsOnBootMedium(p) == GetMediumPath(DevicePath(p)) = GetMediumPath(DevicePath(machine.boot))

(* The firmware does not give its handles: efi_main ends. *)
GetVolumesFails ==
    /\ pc = "get_volumes" /\ index = 1
    /\ Fault
    /\ pc' = "halt"
    /\ UNCHANGED <<machine, LoaderDevicePartUUID, handles, index, volumes, bootCount,
                   config_volumes, bootOnly, path, payload>>

(* One iteration of get_volumes: a handle without file system, one that    *)
(* does not open and one without device path are skipped.                  *)
SkipHandle ==
    /\ pc = "get_volumes" /\ index <= Len(handles)
    /\ Fault
    /\ index' = index + 1
    /\ UNCHANGED <<machine, LoaderDevicePartUUID, handles, pc, volumes, bootCount,
                   config_volumes, bootOnly, path, payload>>

(* Fault: the volumes stay in the order of the firmware. *)
AddVolume_unsorted ==
    /\ pc = "get_volumes" /\ index <= Len(handles)
    /\ volumes' = Append(volumes, handles[index])
    /\ bootCount' = IF IsOnBootMedium(handles[index]) THEN bootCount + 1 ELSE bootCount
    /\ index' = index + 1
    /\ UNCHANGED <<machineVars, handles, pc, config_volumes, bootOnly, path, payload>>

(* A volume of the boot medium is moved in front of those of other media. *)
AddVolume ==
    /\ pc = "get_volumes" /\ index <= Len(handles)
    /\ IF IsOnBootMedium(handles[index])
       THEN /\ volumes' = InsertAt(volumes, bootCount + 1, handles[index])
            /\ bootCount' = bootCount + 1
       ELSE /\ volumes' = Append(volumes, handles[index])
            /\ UNCHANGED bootCount
    /\ index' = index + 1
    /\ UNCHANGED <<machineVars, handles, pc, config_volumes, bootOnly, path, payload>>

GetVolumesEnd ==
    /\ pc = "get_volumes" /\ index > Len(handles)
    /\ pc' = "enumerate" /\ index' = 1
    /\ UNCHANGED <<machineVars, handles, volumes, bootCount, config_volumes,
                   bootOnly, path, payload>>

-----------------------------------------------------------------------------
(* One iteration of enumerate_cfg_parts: no config file on the volume, or  *)
(* it does not open.                                                       *)
NoCfgFile ==
    /\ pc = "enumerate" /\ index <= Len(volumes)
    /\ IF volumes[index] \in machine.cfg THEN Fault ELSE NoFault
    /\ index' = index + 1
    /\ UNCHANGED <<machine, LoaderDevicePartUUID, handles, pc, volumes, bootCount,
                   config_volumes, bootOnly, path, payload>>

(* Once a config file of the boot medium was seen, those of other media    *)
(* are ignored.                                                            *)
CfgFile ==
    /\ pc = "enumerate" /\ index <= Len(volumes)
    /\ LET v == volumes[index] IN
       /\ v \in machine.cfg
       /\ bootOnly' = (bootOnly \/ IsOnBootMedium(v))
       /\ config_volumes' = IF ~bootOnly' \/ IsOnBootMedium(v)
                            THEN Append(config_volumes, v) ELSE config_volumes
    /\ index' = index + 1
    /\ UNCHANGED <<machineVars, handles, pc, volumes, bootCount, path, payload>>

EnumerateEnd ==
    /\ pc = "enumerate" /\ index > Len(volumes)
    /\ pc' = "load"
    /\ UNCHANGED <<machineVars, handles, index, volumes, bootCount, config_volumes,
                   bootOnly, path, payload>>

(* load_config: too many config files are fatal. *)
LoadConfig ==
    /\ pc = "load"
    /\ pc' = IF Len(config_volumes) > ENV_NUM_CONFIG_PARTS THEN "halt" ELSE "path"
    /\ UNCHANGED <<machineVars, handles, index, volumes, bootCount, config_volumes,
                   bootOnly, path, payload>>

-----------------------------------------------------------------------------
LabelOf(mode, p) == IF p \in DOMAIN machine.label[mode] THEN machine.label[mode][p] ELSE NoLabel

(* StrnCmp over as many characters as the label in the path has: a volume  *)
(* whose label goes on after them matches too.                             *)
Matches(f, p) == LabelOf(f.mode, p) # NoLabel /\ IsPrefix(f.label, LabelOf(f.mode, p))

(* Fault: the last volume that matches is taken. *)
Lookup_last(f) ==
    LET M == IF f.label = <<>> THEN {} ELSE {v \in DOMAIN volumes : Matches(f, volumes[v])}
    IN  IF M = {} THEN [part |-> machine.boot, stripped |-> FALSE]
        ELSE [part |-> volumes[Max(M)], stripped |-> TRUE]

(* The first volume that matches; without one the partition of the loader, *)
(* with the whole name.                                                    *)
Lookup(f) ==
    LET M == IF f.label = <<>> THEN {} ELSE {v \in DOMAIN volumes : Matches(f, volumes[v])}
    IN  IF M = {} THEN [part |-> machine.boot, stripped |-> FALSE]
        ELSE [part |-> volumes[Min(M)], stripped |-> TRUE]

FileDevicePathFromConfig ==
    /\ pc = "path"
    /\ \E f \in Paths : path' = f /\ payload' = Lookup(f)
    /\ pc' = "start"
    /\ UNCHANGED <<machineVars, handles, index, volumes, bootCount, config_volumes, bootOnly>>

(* Only a partition of a GPT has a UUID. *)
disk_get_part_uuid(p) == IF IsGPT(Disk(p)) THEN p ELSE NoPartition

(* Fault: the partition of the kernel is named. *)
StartKernel_payload ==
    /\ pc = "start"
    /\ LET uuid == disk_get_part_uuid(payload.part) IN
       LoaderDevicePartUUID' = IF uuid # NoPartition /\ LoaderDevicePartUUID = NoPartition
                               THEN uuid ELSE LoaderDevicePartUUID
    /\ pc' = "os"
    /\ handles' = <<>> /\ index' = 1 /\ volumes' = <<>> /\ bootCount' = 0
    /\ path' = NoPath /\ payload' = [part |-> machine.boot, stripped |-> FALSE]
    /\ UNCHANGED <<machine, faults, config_volumes, bootOnly>>

(* The volumes are closed, the variable is set unless an earlier stage has *)
(* done so or the boot partition has no UUID, and the kernel is started,   *)
(* also if the variable could not be set.  Of the loader's memory only     *)
(* config_volumes is kept, for comparison.                                 *)
StartKernel ==
    /\ pc = "start"
    /\ \/ /\ LET uuid == disk_get_part_uuid(machine.boot) IN
             LoaderDevicePartUUID' = IF uuid # NoPartition /\ LoaderDevicePartUUID = NoPartition
                                     THEN uuid ELSE LoaderDevicePartUUID
          /\ NoFault
       \/ UNCHANGED LoaderDevicePartUUID /\ Fault
    /\ pc' = "os"
    /\ handles' = <<>> /\ index' = 1 /\ volumes' = <<>> /\ bootCount' = 0
    /\ path' = NoPath /\ payload' = [part |-> machine.boot, stripped |-> FALSE]
    /\ UNCHANGED <<machine, config_volumes, bootOnly>>

LoaderNext ==
    \/ GetVolumesFails \/ SkipHandle \/ AddVolume \/ GetVolumesEnd
    \/ NoCfgFile \/ CfgFile \/ EnumerateEnd \/ LoadConfig
    \/ FileDevicePathFromConfig \/ StartKernel

-----------------------------------------------------------------------------
(***************************************************************************)
(* Recovery mode: booted from a partitioned medium, the loader never mixes *)
(* config files of the boot medium with those of others; and without I/O   *)
(* errors it stops for too many files only when there are too many on the  *)
(* boot medium, or none on it: files of other media never keep it from     *)
(* booting with those of the boot medium.                                  *)
(***************************************************************************)
RecoveryMode ==
    ~Unpartitioned(Disk(machine.boot)) =>
        /\ \A p, q \in ToSet(config_volumes) : OnBootDisk(p) => OnBootDisk(q)
        /\ pc = "halt" /\ faults = MaxFaults =>
               \/ CfgOnBoot = {}
               \/ Cardinality(CfgOnBoot) > ENV_NUM_CONFIG_PARTS

(***************************************************************************)
(* A kernel that is given with a label is taken from a volume with just    *)
(* that label, if there is one, and from one on the boot medium, if that   *)
(* has one; without one the partition of the loader is used and the label  *)
(* stays part of the file name.  Provided that no other label goes on      *)
(* where this one ends: the loader takes such a volume for the one named,  *)
(* even beside one with the very label, which docs/USAGE.md does not say.  *)
(***************************************************************************)
KernelByLabel ==
    pc = "start" /\ path.label # <<>> =>
        LET Exact == {p \in ToSet(volumes) : LabelOf(path.mode, p) = path.label}
            Longer == {p \in ToSet(volumes) :
                          /\ LabelOf(path.mode, p) # NoLabel
                          /\ LabelOf(path.mode, p) # path.label
                          /\ IsPrefix(path.label, LabelOf(path.mode, p))}
        IN  Longer = {} =>
                IF Exact = {} THEN payload = [part |-> machine.boot, stripped |-> FALSE]
                ELSE /\ payload.stripped /\ payload.part \in Exact
                     /\ (\E p \in Exact : OnBootDisk(p)) /\ ~Unpartitioned(Disk(machine.boot))
                            => OnBootDisk(payload.part)
=============================================================================

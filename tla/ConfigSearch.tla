---------------------------- MODULE ConfigSearch ----------------------------
(***************************************************************************)
(* The search of the environment library for config partitions             *)
(* (env/env_config_partitions.c, env/env_config_file.c,                    *)
(* env/env_disk_utils.c) over the block devices and partition tables it    *)
(* reads itself (tools/ebgpart.c), and the first reading of the config     *)
(* files (bgenv_init, read_env in env/env_api_fat.c).  One process calls   *)
(* bgenv_init and bgenv_finalize several times; the list of devices lives  *)
(* in a static variable across the calls.                                  *)
(***************************************************************************)
EXTENDS Machine

CONSTANTS
    NoDisk,
    MaxSearches     \* bound on the calls of bgenv_init

ASSUME NoDiskAssumption == \A m \in Machines : NoDisk \notin DOMAIN m.disks

VARIABLES
    phase,          \* what bgenv_init is doing
    rootdev,        \* the disk the search is limited to
    todo,           \* block devices not looked at yet
    first_device,   \* the list of devices, each with its part_list
    dev, part,      \* the device and the partition the search is at
    config_parts,   \* the config partitions found
    initialized,
    mounts,         \* the mounts of the system
    mountpoint,     \* the mount the file is looked for under
    do_unmount,     \* was it made by this call?
    ret,            \* what the last bgenv_init returned
    fresh,          \* did it start with an empty list of devices?
    searches

libVars == <<phase, rootdev, todo, first_device, dev, part, config_parts, initialized,
             mounts, mountpoint, do_unmount, ret, fresh, searches>>

NoMount   == <<>>   \* mountpoint is NULL
LibPhases == {"idle", "probe", "walk", "read"}

LibTypeOK ==
    /\ phase \in LibPhases
    /\ rootdev \in DOMAIN machine.disks \cup {NoDisk}
    /\ todo \subseteq DOMAIN machine.disks
    /\ \A i \in DOMAIN first_device : first_device[i].disk \in DOMAIN machine.disks
    /\ dev \in 1 .. Len(first_device) + 1 /\ part \in Nat \ {0}
    /\ Len(config_parts) <= ENV_NUM_CONFIG_PARTS
    /\ \A i \in DOMAIN config_parts : config_parts[i].part \in machine.cfg
    /\ initialized \in BOOLEAN /\ fresh \in BOOLEAN
    /\ mountpoint = NoMount \/ mountpoint \in mounts
    /\ do_unmount \in BOOLEAN
    /\ ret \in {"none", "true", "false"}
    /\ searches \in 0 .. MaxSearches

(* A mount: a partition, and 0 for the mount of the system or the number   *)
(* of the temporary directory.                                             *)
SystemMounts == {<<p, 0>> : p \in machine.mounted}
MountsOf(p)  == {m \in mounts : m[1] = p}

LibInit ==
    /\ phase = "idle" /\ rootdev = NoDisk /\ todo = {}
    /\ first_device = <<>> /\ dev = 1 /\ part = 1
    /\ config_parts = <<>> /\ initialized = FALSE
    /\ mounts = SystemMounts /\ mountpoint = NoMount /\ do_unmount = FALSE
    /\ ret = "none" /\ fresh = TRUE /\ searches = 0

-----------------------------------------------------------------------------
(* Partition tables.  Only some types of an MBR partition and two of a GPT *)
(* are taken for a FAT file system.                                        *)
FatListed(entries) == {n \in DOMAIN entries : entries[n] = "fat"}

Entry(num, type) == [num |-> num, fat |-> type = "fat"]

(* The entries before the first unused one. *)
Leading(entries) ==
    IF Contains(entries, "none")
    THEN SubSeq(entries, 1, SelectInSeq(entries, LAMBDA t : t = "none") - 1)
    ELSE entries

(***************************************************************************)
(* read_GPT_entries: the list ends at the first unused entry, or where     *)
(* reading the table fails: at entry `bad', if `how' is "cut".  If instead *)
(* the file system header of that entry cannot be read, the list read so   *)
(* far is dropped and the end of the list still points into it: what is    *)
(* read later, if reading goes on at all, is lost too unless the list was  *)
(* empty.                                                                  *)
(***************************************************************************)
read_GPT_entries(entries, bad, how) ==
    LET all == [n \in DOMAIN Leading(entries) |-> Entry(n, entries[n])]
    IN  CASE how = "sound" -> all
          [] how = "cut"   -> SubSeq(all, 1, bad - 1)
          [] OTHER         -> IF bad = 1 /\ how = "on" THEN Tail(all) ELSE <<>>

(* scanLogicalVolumes: the chain ends at the first unused entry, or where  *)
(* a boot record (the one numbered `bad') cannot be read.                  *)
scanLogicalVolumes(entries, bad) ==
    LET chain == Leading(entries)
    IN  [n \in 1 .. IF bad = 0 THEN Len(chain) ELSE bad - 1 |-> Entry(n + 4, chain[n])]

(* What the n-th of the four MBR entries adds to the list, and the list    *)
(* from the first entry to the one numbered `last'.                        *)
MbrEntry(d, n, bad) ==
    CASE Table(d).mbr[n] = "none" -> <<>>
      [] Table(d).mbr[n] = "extended" ->
             <<Entry(n, "extended")>> \o scanLogicalVolumes(Table(d).logical, bad)
      [] OTHER -> <<Entry(n, Table(d).mbr[n])>>

MbrEntries(d, last, bad) ==
    LET Listed(n) == IF n <= last THEN MbrEntry(d, n, bad) ELSE <<>>
    IN  (Listed(1) \o Listed(2)) \o (Listed(3) \o Listed(4))

(* check_partition_table: a GPT replaces the MBR entries met before it,    *)
(* unless it is empty.                                                     *)
check_partition_table(d, bad, how) ==
    IF ~IsGPT(d) THEN MbrEntries(d, 4, bad)
    ELSE LET gpt == read_GPT_entries(Table(d).gpt, bad, how)
         IN  IF gpt = <<>> /\ how \in {"sound", "cut"}
             THEN MbrEntries(d, SelectInSeq(Table(d).mbr, LAMBDA t : t = "gpt") - 1, 0)
             ELSE gpt

(* Where and how reading the table of d can fail: at an entry of the GPT,  *)
(* at its file system, or at an extended boot record.                      *)
BadEntries(d) ==
    IF IsGPT(d)
    THEN ((DOMAIN Leading(Table(d).gpt)) \X {"cut"})
             \cup (FatListed(Leading(Table(d).gpt)) \X {"on", "lost"})
    ELSE IF Contains(Table(d).mbr, "extended")
    THEN (DOMAIN Leading(Table(d).logical)) \X {"cut"}
    ELSE {}

-----------------------------------------------------------------------------
(* get_rootdev_from_efi: the disk of the partition in the EFI variable,    *)
(* or none if the variable is not set, cannot be read or resolved, or has  *)
(* another length than this loader gives it, which an earlier stage may    *)
(* have chosen.  The path of the disk is used untested: if it cannot be    *)
(* resolved the process ends here, which is no step.                       *)
get_rootdev_from_efi ==
    IF LoaderDevicePartUUID = NoPartition
    THEN rootdev' = NoDisk /\ NoFault
    ELSE \/ rootdev' = Disk(LoaderDevicePartUUID) /\ NoFault
         \/ rootdev' = NoDisk /\ Fault
         \/ rootdev' = NoDisk /\ LoaderDevicePartUUID = machine.earlier /\ NoFault

(* bgenv_init, probe_config_partitions up to ped_device_probe_all. *)
bgenv_init ==
    /\ phase = "idle" /\ ~initialized /\ searches < MaxSearches
    /\ \E search_all_devices \in BOOLEAN :
           IF search_all_devices THEN rootdev' = NoDisk /\ NoFault
           ELSE get_rootdev_from_efi
    /\ todo' = IF rootdev' = NoDisk THEN DOMAIN machine.disks ELSE {rootdev'}
    /\ phase' = "probe"
    /\ config_parts' = <<>>
    /\ fresh' = (first_device = <<>>)
    /\ searches' = searches + 1
    /\ ret' = "none"
    /\ UNCHANGED <<machine, LoaderDevicePartUUID, first_device, dev, part, initialized,
                   mounts, mountpoint, do_unmount>>

(* One iteration of ped_device_probe_all, in the order of readdir: the     *)
(* device is added with its partitions, or skipped.                        *)
AddDevice ==
    /\ phase = "probe"
    /\ \E d \in todo :
       /\ todo' = todo \ {d}
       /\ ~Unpartitioned(d)
       /\ \/ /\ NoFault
             /\ first_device' = Append(first_device,
                    [disk |-> d, part_list |-> check_partition_table(d, 0, "sound")])
          \/ /\ Fault
             /\ \E bad \in BadEntries(d) :
                   first_device' = Append(first_device,
                       [disk |-> d, part_list |-> check_partition_table(d, bad[1], bad[2])])
    /\ UNCHANGED <<machine, LoaderDevicePartUUID, phase, rootdev, dev, part, config_parts,
                   initialized, mounts, mountpoint, do_unmount, ret, fresh, searches>>

SkipDevice ==
    /\ phase = "probe"
    /\ \E d \in todo :
       /\ todo' = todo \ {d}
       /\ IF Unpartitioned(d) THEN NoFault ELSE Fault
    /\ UNCHANGED <<machine, LoaderDevicePartUUID, phase, rootdev, first_device, dev, part,
                   config_parts, initialized, mounts, mountpoint, do_unmount, ret, fresh, searches>>

(* The iteration over the devices starts. *)
ProbeEnd ==
    /\ phase = "probe" /\ todo = {}
    /\ phase' = "walk" /\ dev' = 1 /\ part' = 1
    /\ UNCHANGED <<machineVars, rootdev, todo, first_device, config_parts, initialized,
                   mounts, mountpoint, do_unmount, ret, fresh, searches>>

-----------------------------------------------------------------------------
AtPartition ==
    /\ phase = "walk"
    /\ dev \in DOMAIN first_device /\ part \in DOMAIN first_device[dev].part_list

ThisEntry     == first_device[dev].part_list[part]
ThisPartition == <<first_device[dev].disk, ThisEntry.num>>

(* mount_partition; and the end of a call that has mounted, in which the   *)
(* failure of umount is not reported.                                      *)
mount_partition(p) ==
    /\ mountpoint' = <<p, 1 + Cardinality(MountsOf(p))>>
    /\ mounts' = mounts \cup {mountpoint'}
    /\ do_unmount' = TRUE

(* Fault: unmounts what others have mounted. *)
unmount_partition_any ==
    /\ \/ mounts' = mounts \ {mountpoint} /\ NoFault
       \/ do_unmount /\ UNCHANGED mounts /\ Fault
    /\ mountpoint' = NoMount /\ do_unmount' = FALSE

unmount_partition ==
    /\ \/ mounts' = (IF do_unmount THEN mounts \ {mountpoint} ELSE mounts) /\ NoFault
       \/ do_unmount /\ UNCHANGED mounts /\ Fault
    /\ mountpoint' = NoMount /\ do_unmount' = FALSE

SkipPartition ==
    /\ AtPartition /\ ~ThisEntry.fat
    /\ part' = part + 1
    /\ UNCHANGED <<machineVars, phase, rootdev, todo, first_device, dev, config_parts,
                   initialized, mounts, mountpoint, do_unmount, ret, fresh, searches>>

(* probe_config_file up to the attempt to open the file: a partition that  *)
(* is not mounted yet, or of which this cannot be found out, is mounted.   *)
ProbeMount ==
    /\ AtPartition /\ ThisEntry.fat /\ mountpoint = NoMount
    /\ \/ /\ MountsOf(ThisPartition) # {} /\ NoFault
          /\ mountpoint' \in MountsOf(ThisPartition)
          /\ UNCHANGED <<mounts, do_unmount>>
       \/ /\ IF MountsOf(ThisPartition) = {} THEN NoFault ELSE Fault
          /\ mount_partition(ThisPartition)
    /\ UNCHANGED <<machine, LoaderDevicePartUUID, phase, rootdev, todo, first_device, dev,
                   part, config_parts, initialized, ret, fresh, searches>>

ProbeMountFails ==
    /\ AtPartition /\ ThisEntry.fat /\ mountpoint = NoMount
    /\ MountsOf(ThisPartition) = {} /\ Fault
    /\ part' = part + 1
    /\ UNCHANGED <<machine, LoaderDevicePartUUID, phase, rootdev, todo, first_device, dev,
                   config_parts, initialized, mounts, mountpoint, do_unmount, ret, fresh,
                   searches>>

(* The rest of it: there is no config file or it does not open, ... *)
NotFound ==
    /\ AtPartition /\ mountpoint # NoMount
    /\ \/ ThisPartition \notin machine.cfg /\ unmount_partition
       \/ /\ ThisPartition \in machine.cfg /\ Fault
          /\ mounts' = (IF do_unmount THEN mounts \ {mountpoint} ELSE mounts)
          /\ mountpoint' = NoMount /\ do_unmount' = FALSE
    /\ part' = part + 1
    /\ UNCHANGED <<machine, LoaderDevicePartUUID, phase, rootdev, todo, first_device, dev,
                   config_parts, initialized, ret, fresh, searches>>

(* ... or it is there.  One config partition too many ends the search at   *)
(* once; the list of devices stays.                                        *)
FoundConfig ==
    /\ AtPartition /\ mountpoint # NoMount
    /\ ThisPartition \in machine.cfg /\ unmount_partition
    /\ IF Len(config_parts) < ENV_NUM_CONFIG_PARTS
       THEN /\ config_parts' = Append(config_parts,
                   [part |-> ThisPartition, not_mounted |-> do_unmount])
            /\ part' = part + 1
            /\ UNCHANGED <<phase, ret>>
       ELSE phase' = "idle" /\ ret' = "false" /\ UNCHANGED <<config_parts, part>>
    /\ UNCHANGED <<machine, LoaderDevicePartUUID, rootdev, todo, first_device, dev,
                   initialized, fresh, searches>>

(* ped_device_get_next, and behind the last device the end of the search:  *)
(* the list is freed, and too few config partitions are an error.          *)
NextDevice ==
    /\ phase = "walk" /\ ~AtPartition /\ dev < Len(first_device)
    /\ dev' = dev + 1 /\ part' = 1
    /\ UNCHANGED <<machineVars, phase, rootdev, todo, first_device, config_parts,
                   initialized, mounts, mountpoint, do_unmount, ret, fresh, searches>>

(* Fault: the list of devices is kept. *)
SearchEnd_kept ==
    /\ phase = "walk" /\ ~AtPartition /\ dev >= Len(first_device)
    /\ IF Len(config_parts) < ENV_NUM_CONFIG_PARTS
       THEN phase' = "idle" /\ ret' = "false" ELSE phase' = "read" /\ UNCHANGED ret
    /\ dev' = 1 /\ part' = 1
    /\ UNCHANGED <<machineVars, rootdev, todo, first_device, config_parts, initialized,
                   mounts, mountpoint, do_unmount, fresh, searches>>

SearchEnd ==
    /\ phase = "walk" /\ ~AtPartition /\ dev >= Len(first_device)
    /\ first_device' = <<>> /\ dev' = 1 /\ part' = 1
    /\ IF Len(config_parts) < ENV_NUM_CONFIG_PARTS
       THEN phase' = "idle" /\ ret' = "false" ELSE phase' = "read" /\ UNCHANGED ret
    /\ UNCHANGED <<machineVars, rootdev, todo, config_parts, initialized, mounts,
                   mountpoint, do_unmount, fresh, searches>>

-----------------------------------------------------------------------------
(* read_env for every config partition found; `part' counts them.  Its     *)
(* result is ignored: the copy is then what an earlier reading left.  If   *)
(* the file does not open, the partition stays mounted.                    *)
ReadMount ==
    /\ phase = "read" /\ part <= ENV_NUM_CONFIG_PARTS /\ mountpoint = NoMount
    /\ config_parts[part].not_mounted
    /\ \/ NoFault /\ mount_partition(config_parts[part].part) /\ UNCHANGED part
       \/ Fault /\ part' = part + 1 /\ UNCHANGED <<mounts, mountpoint, do_unmount>>
    /\ UNCHANGED <<machine, LoaderDevicePartUUID, phase, rootdev, todo, first_device, dev,
                   config_parts, initialized, ret, fresh, searches>>

ReadEnv ==
    /\ phase = "read" /\ part <= ENV_NUM_CONFIG_PARTS
    /\ config_parts[part].not_mounted => mountpoint # NoMount
    /\ \/ unmount_partition
       \/ /\ Fault
          /\ mountpoint' = NoMount /\ do_unmount' = FALSE
          /\ UNCHANGED mounts
    /\ part' = part + 1
    /\ UNCHANGED <<machine, LoaderDevicePartUUID, phase, rootdev, todo, first_device, dev,
                   config_parts, initialized, ret, fresh, searches>>

InitEnd ==
    /\ phase = "read" /\ part > ENV_NUM_CONFIG_PARTS
    /\ initialized' = TRUE /\ ret' = "true" /\ phase' = "idle" /\ part' = 1
    /\ UNCHANGED <<machineVars, rootdev, todo, first_device, dev, config_parts, mounts,
                   mountpoint, do_unmount, fresh, searches>>

bgenv_finalize ==
    /\ phase = "idle" /\ initialized
    /\ initialized' = FALSE /\ ret' = "none" /\ config_parts' = <<>>
    /\ UNCHANGED <<machineVars, phase, rootdev, todo, first_device, dev, part, mounts,
                   mountpoint, do_unmount, fresh, searches>>

LibNext ==
    \/ bgenv_init \/ AddDevice \/ SkipDevice \/ ProbeEnd
    \/ SkipPartition \/ ProbeMount \/ ProbeMountFails \/ NotFound \/ FoundConfig
    \/ NextDevice \/ SearchEnd \/ ReadMount \/ ReadEnv \/ InitEnd \/ bgenv_finalize

-----------------------------------------------------------------------------
FoundParts == {config_parts[i].part : i \in DOMAIN config_parts}
Scope      == IF rootdev = NoDisk THEN DOMAIN machine.disks ELSE {rootdev}

(* Has the partition with number n a type that is listed, and does no      *)
(* unused entry of the table hide it?  If the first entry of a GPT is      *)
(* unused, what counts are the entries of the MBR before it.               *)
Visible(d, n) ==
    LET t == Table(d) IN
    IF ~IsGPT(d) THEN /\ n \in FatListed(t.mbr) \cup {k + 4 : k \in FatListed(t.logical)}
                      /\ \A k \in 1 .. n - 5 : t.logical[k] # "none"
    ELSE IF t.gpt[1] # "none" THEN n \in FatListed(t.gpt) /\ \A k \in 1 .. n - 1 : t.gpt[k] # "none"
    ELSE n \in FatListed(t.mbr) /\ \A k \in 1 .. n : t.mbr[k] # "gpt"

(* The config partitions of the disks searched, and those that are visible *)
(* there.                                                                  *)
CfgInScope   == {p \in machine.cfg : Disk(p) \in Scope}
Reachable(d) == {p \in CfgOn(d) : p[2] # 0 /\ Visible(d, p[2])}
InScope      == {p \in CfgInScope : p \in Reachable(Disk(p))}

(***************************************************************************)
(* A search that begins with an empty list of devices returns true only    *)
(* with ENV_NUM_CONFIG_PARTS different config partitions of its scope,     *)
(* the boot disk if the loader has named it; without I/O errors it returns *)
(* true if and only if exactly that many of them are visible, and with     *)
(* those.  One that begins with the devices a cut short search has left    *)
(* fails unless errors make their files disappear.                         *)
(***************************************************************************)
SearchExact ==
    LET sound == faults = MaxFaults IN
    /\ ret = "true" /\ fresh =>
           /\ Cardinality(FoundParts) = ENV_NUM_CONFIG_PARTS
           /\ FoundParts \subseteq CfgInScope
           /\ sound => FoundParts = InScope
    /\ ret = "false" /\ fresh /\ sound => Cardinality(InScope) # ENV_NUM_CONFIG_PARTS
    /\ ret = "true" /\ ~fresh => ~sound

(***************************************************************************)
(* The library never takes away a mount it has not made, and what it has   *)
(* mounted is mounted no more when bgenv_init returns; but for a umount    *)
(* that fails and a config file that does not open when it is read.        *)
(***************************************************************************)
MountsRestored ==
    /\ SystemMounts \subseteq mounts
    /\ phase = "idle" /\ faults = MaxFaults => mounts = SystemMounts
=============================================================================

----------------------------- MODULE BootMedia -----------------------------
(***************************************************************************)
(* Loader and library on one machine: the loader looks for config files    *)
(* with the firmware's help and starts a kernel, then a process of the     *)
(* running system looks for them with the library.                         *)
(***************************************************************************)
EXTENDS Volumes, ConfigSearch

vars == <<machineVars, loaderVars, libVars>>

(* An earlier boot stage may have set the variable. *)
Init ==
    /\ machine \in Machines
    /\ LoaderDevicePartUUID = machine.earlier
    /\ faults = MaxFaults
    /\ LoaderInit /\ LibInit

Next ==
    \/ LoaderNext /\ UNCHANGED libVars
    \/ pc = "os" /\ LibNext /\ UNCHANGED loaderVars

Spec == Init /\ [][Next]_vars

TypeOK ==
    /\ faults \in 0 .. MaxFaults
    /\ LoaderTypeOK /\ LibTypeOK

(***************************************************************************)
(* If no earlier stage has set the variable, the boot medium has just the  *)
(* config files expected, and the loader has used them, then the library   *)
(* either fails or works on the same files.  Provided that no unused entry *)
(* of the boot medium's partition table hides one of them from it, it does *)
(* not begin with left over devices, and it was told the boot disk or met  *)
(* no I/O error.                                                           *)
(***************************************************************************)
SameFiles ==
    /\ ret = "true" /\ fresh /\ machine.earlier = NoPartition
    /\ ToSet(config_volumes) = CfgOnBoot
    /\ Cardinality(CfgOnBoot) = ENV_NUM_CONFIG_PARTS
    /\ Reachable(Disk(machine.boot)) = CfgOnBoot
    /\ rootdev # NoDisk \/ faults = MaxFaults
    => FoundParts = ToSet(config_volumes)
=============================================================================

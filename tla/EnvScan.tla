------------------------------ MODULE EnvScan ------------------------------
(***************************************************************************)
(* The loops behind the choice of a config partition, iteration by         *)
(* iteration: load_config of the boot loader (env/fatvars.c) enumerates,   *)
(* reads and scans the config files; the environment library               *)
(* (env/env_api_fat.c) reads them all in bgenv_init and scans its copies   *)
(* in bgenv_open_latest and bgenv_open_oldest.  The loops run one after    *)
(* the other over the same files, in slots 0 .. ENV_NUM_CONFIG_PARTS - 1:  *)
(* slot k is the k-th config partition that was found.                     *)
(*                                                                         *)
(* BootGuard takes the outcome of the loops from EnvData; here the loops   *)
(* are shown to compute it.                                                *)
(***************************************************************************)
EXTENDS EnvData

CONSTANT Records    \* the records the config files may hold

ASSUME RecordsAssumption == Records \subseteq BG_ENVDATA

VARIABLES
    file,          \* per slot: the record, are CRC and user variables right?
    numHandles,    \* config partitions the loader has found
    pc, i,         \* which loop runs, and its counter
    env,           \* the loader's copies
    env_invalid,
    result,        \* what load_config returns
    latest,        \* latest_rev and latest_idx
    pre_latest,
    envdata,       \* the library's copies
    newest,        \* maxrev and max_idx of bgenv_open_latest
    oldest         \* minrev and min_idx of bgenv_open_oldest

loader == <<env, env_invalid, result>>
library == <<envdata, newest, oldest>>
vars == <<file, numHandles, pc, i, loader, latest, pre_latest, library>>

Found   == [rev : Revisions, idx : Parts]
File    == [env : Records, crc : BOOLEAN, uservars : BOOLEAN]
Results == {"BG_SUCCESS", "BG_CONFIG_ERROR", "BG_CONFIG_PARTIALLY_CORRUPTED"}
Phases  == {"enumerate", "load", "scan", "init", "latest", "oldest", "done"}

TypeOK ==
    /\ file \in [Parts -> File]
    /\ numHandles \in 0 .. ENV_NUM_CONFIG_PARTS + 1
    /\ pc \in Phases
    /\ i \in 0 .. ENV_NUM_CONFIG_PARTS
    /\ env \in [Parts -> BG_ENVDATA]
    /\ env_invalid \in [Parts -> BOOLEAN]
    /\ result \in Results
    /\ latest \in Found /\ pre_latest \in Found
    /\ envdata \in [Parts -> BG_ENVDATA]
    /\ newest \in Found /\ oldest \in Found

Nothing == [rev |-> 0, idx |-> 0]

Init ==
    /\ file \in [Parts -> File]
    /\ numHandles \in 0 .. ENV_NUM_CONFIG_PARTS + 1
    /\ pc = "enumerate" /\ i = 0
    /\ env = [k \in Parts |-> ZeroEnv]
    /\ env_invalid = [k \in Parts |-> FALSE]
    /\ result = "BG_CONFIG_ERROR"
    /\ latest = Nothing /\ pre_latest = Nothing
    /\ envdata = [k \in Parts |-> ZeroEnv]
    /\ newest = Nothing
    /\ oldest = [rev |-> UINT32_MAX, idx |-> 0]

-----------------------------------------------------------------------------
(* load_config, after enumerate_cfg_parts: too many partitions are fatal,  *)
(* too few are not.                                                        *)
Enumerate ==
    /\ pc = "enumerate"
    /\ IF numHandles > ENV_NUM_CONFIG_PARTS
       THEN pc' = "init" /\ UNCHANGED result
       ELSE /\ pc' = "load"
            /\ result' = IF numHandles < ENV_NUM_CONFIG_PARTS
                         THEN "BG_CONFIG_PARTIALLY_CORRUPTED" ELSE "BG_SUCCESS"
    /\ UNCHANGED <<file, numHandles, i, env, env_invalid, latest, pre_latest, library>>

Corrupted == result' = "BG_CONFIG_PARTIALLY_CORRUPTED"

(* One iteration of the loop that reads the files: a file that does not    *)
(* open leaves the zeroed record, which counts as valid.                   *)
OpenFails ==
    /\ Corrupted
    /\ UNCHANGED <<env, env_invalid>>

ReadFails ==
    /\ \E e \in Torn(ZeroEnv, file[i].env) : env' = [env EXCEPT ![i] = e]
    /\ env_invalid' = [env_invalid EXCEPT ![i] = TRUE]
    /\ Corrupted

(* Fault: a wrong CRC is noted but not reported. *)
ReadFile_silent ==
    /\ env' = [env EXCEPT ![i] = file[i].env]
    /\ env_invalid' = [env_invalid EXCEPT ![i] = ~file[i].crc]
    /\ UNCHANGED result

(* A file that does not close is reported too; its record is kept. *)
ReadFile ==
    /\ env' = [env EXCEPT ![i] = file[i].env]
    /\ env_invalid' = [env_invalid EXCEPT ![i] = ~file[i].crc]
    /\ \E closes \in BOOLEAN :
           IF file[i].crc /\ closes THEN UNCHANGED result ELSE Corrupted

LoadNext ==
    /\ pc = "load" /\ i < numHandles
    /\ OpenFails \/ ReadFails \/ ReadFile
    /\ i' = i + 1
    /\ UNCHANGED <<file, numHandles, pc, latest, pre_latest, library>>

LoadEnd ==
    /\ pc = "load" /\ i >= numHandles
    /\ pc' = "scan" /\ i' = 0
    /\ UNCHANGED <<file, numHandles, loader, latest, pre_latest, library>>

(* Faults: the former latest record is forgotten; ties go to the last. *)
ScanNext_forgetful ==
    /\ pc = "scan" /\ i < ENV_NUM_CONFIG_PARTS
    /\ LET this == [rev |-> env[i].revision, idx |-> i]
       IN  IF ~env_invalid[i] /\ this.rev > latest.rev
           THEN latest' = this /\ UNCHANGED pre_latest
           ELSE IF ~env_invalid[i] /\ this.rev > pre_latest.rev
           THEN pre_latest' = this /\ UNCHANGED latest
           ELSE UNCHANGED <<latest, pre_latest>>
    /\ i' = i + 1
    /\ UNCHANGED <<file, numHandles, pc, loader, library>>

ScanNext_last ==
    /\ pc = "scan" /\ i < ENV_NUM_CONFIG_PARTS
    /\ LET this == [rev |-> env[i].revision, idx |-> i]
       IN  IF ~env_invalid[i] /\ this.rev >= latest.rev
           THEN latest' = this /\ pre_latest' = latest
           ELSE IF ~env_invalid[i] /\ this.rev >= pre_latest.rev
           THEN pre_latest' = this /\ UNCHANGED latest
           ELSE UNCHANGED <<latest, pre_latest>>
    /\ i' = i + 1
    /\ UNCHANGED <<file, numHandles, pc, loader, library>>

(* One iteration of the loop that looks for the two latest revisions. *)
ScanNext ==
    /\ pc = "scan" /\ i < ENV_NUM_CONFIG_PARTS
    /\ LET this == [rev |-> env[i].revision, idx |-> i]
       IN  IF ~env_invalid[i] /\ this.rev > latest.rev
           THEN latest' = this /\ pre_latest' = latest
           ELSE IF ~env_invalid[i] /\ this.rev > pre_latest.rev
           THEN pre_latest' = this /\ UNCHANGED latest
           ELSE UNCHANGED <<latest, pre_latest>>
    /\ i' = i + 1
    /\ UNCHANGED <<file, numHandles, pc, loader, library>>

ScanEnd ==
    /\ pc = "scan" /\ i = ENV_NUM_CONFIG_PARTS
    /\ pc' = "init" /\ i' = 0
    /\ UNCHANGED <<file, numHandles, loader, latest, pre_latest, library>>

-----------------------------------------------------------------------------
(* bgenv_init: read_env for every partition.  A file that cannot be read   *)
(* leaves zeros, and so does a wrong CRC or a corrupt user variable area.  *)
InitNext ==
    /\ pc = "init" /\ i < ENV_NUM_CONFIG_PARTS
    /\ \E readable \in BOOLEAN :
           envdata' = [envdata EXCEPT ![i] =
               IF readable /\ file[i].crc /\ file[i].uservars
               THEN file[i].env ELSE ZeroEnv]
    /\ i' = i + 1
    /\ UNCHANGED <<file, numHandles, pc, loader, latest, pre_latest, newest, oldest>>

InitEnd ==
    /\ pc = "init" /\ i = ENV_NUM_CONFIG_PARTS
    /\ pc' = "latest" /\ i' = 0
    /\ UNCHANGED <<file, numHandles, loader, latest, pre_latest, library>>

bgenv_open_latest ==
    /\ pc = "latest"
    /\ IF i < ENV_NUM_CONFIG_PARTS
       THEN /\ newest' = IF envdata[i].revision > newest.rev
                         THEN [rev |-> envdata[i].revision, idx |-> i] ELSE newest
            /\ i' = i + 1 /\ UNCHANGED pc
       ELSE pc' = "oldest" /\ i' = 0 /\ UNCHANGED newest
    /\ UNCHANGED <<file, numHandles, loader, latest, pre_latest, envdata, oldest>>

(* Fault: ties go to the last. *)
bgenv_open_oldest_last ==
    /\ pc = "oldest"
    /\ IF i < ENV_NUM_CONFIG_PARTS
       THEN /\ oldest' = IF envdata[i].revision <= oldest.rev
                         THEN [rev |-> envdata[i].revision, idx |-> i] ELSE oldest
            /\ i' = i + 1 /\ UNCHANGED pc
       ELSE pc' = "done" /\ i' = 0 /\ UNCHANGED oldest
    /\ UNCHANGED <<file, numHandles, loader, latest, pre_latest, envdata, newest>>

bgenv_open_oldest ==
    /\ pc = "oldest"
    /\ IF i < ENV_NUM_CONFIG_PARTS
       THEN /\ oldest' = IF envdata[i].revision < oldest.rev
                         THEN [rev |-> envdata[i].revision, idx |-> i] ELSE oldest
            /\ i' = i + 1 /\ UNCHANGED pc
       ELSE pc' = "done" /\ i' = 0 /\ UNCHANGED oldest
    /\ UNCHANGED <<file, numHandles, loader, latest, pre_latest, envdata, newest>>

Next ==
    \/ Enumerate \/ LoadNext \/ LoadEnd \/ ScanNext \/ ScanEnd
    \/ InitNext \/ InitEnd \/ bgenv_open_latest \/ bgenv_open_oldest

Spec == Init /\ [][Next]_vars

-----------------------------------------------------------------------------
(* What the loader knows after its first loop, as config files. *)
Seen == [k \in Parts |-> [env |-> env[k], intact |-> ~env_invalid[k]]]

LoaderDone == pc \in {"init", "latest", "oldest", "done"}

(***************************************************************************)
(* The single pass of load_config over the revisions, which moves the      *)
(* latest down to second place when it meets a later one, ends with the    *)
(* latest and the second latest live record, ties going to the lower slot. *)
(***************************************************************************)
ScanCorrect ==
    LoaderDone => /\ IsBootLatest(Seen, Parts, latest.idx)
                  /\ IsBootPreLatest(Seen, Parts, latest.idx, pre_latest.idx)

(***************************************************************************)
(* The loops of bgenv_open_latest and bgenv_open_oldest end with the       *)
(* latest and the oldest of the records the library has read.              *)
(***************************************************************************)
LibraryScansCorrect ==
    pc = "done" => IsLatest(envdata, newest.idx) /\ IsOldest(envdata, oldest.idx)

(***************************************************************************)
(* Loader and library, which read the files with different code, agree on  *)
(* the latest record if both could read all of them and one is live;       *)
(* provided that no file has a right CRC over corrupt user variables,      *)
(* which only the library looks at.                                        *)
(***************************************************************************)
SameLatest ==
    /\ pc = "done" /\ result = "BG_SUCCESS"
    /\ \A k \in Parts : envdata[k] = file[k].env
    /\ \E k \in Parts : file[k].env.revision > 0
    => latest.idx = newest.idx

(***************************************************************************)
(* load_config reports success only if it holds every record as it is on   *)
(* its partition, with a right CRC.                                        *)
(***************************************************************************)
SuccessMeansComplete ==
    LoaderDone /\ result = "BG_SUCCESS" =>
        \A k \in Parts : env[k] = file[k].env /\ file[k].crc /\ ~env_invalid[k]
=============================================================================

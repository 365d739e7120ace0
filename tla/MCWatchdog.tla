---------------------------- MODULE MCWatchdog ----------------------------
(***************************************************************************)
(* Every device alone with all tables and stations, and pairs of devices.  *)
(* SET_REBOOT is an entry of the WDAT.                                     *)
(* The SMI is asked for on TCO V2 and V3 only.                             *)
(***************************************************************************)
EXTENDS Watchdog

MCTables == {T \in SUBSET Tables : "REBOOT" \in T => "WDAT" \in T}

Single == [dev : {<<d>> : d \in Devices}, tables : MCTables,
           station : Stations, smi : {TRUE}]

WithoutSmi == [dev : {<<"tco_v2">>, <<"tco_v3">>}, tables : MCTables,
               station : Stations, smi : {FALSE}]

Pairs == [dev : {<<d, e>> : d, e \in {"tco_v2", "tco_v6", "ilo", "other"}},
          tables : MCTables, station : {"none", "ipc2x7g"}, smi : {TRUE}]

Empty == [dev : {<< >>}, tables : {{}}, station : {"none"}, smi : {TRUE}]

MCMachines == Single \cup WithoutSmi \cup Pairs \cup Empty

(* A machine with nothing but the TCO of its chipset. *)
TcoMachines == [dev : {<<d>> : d \in TcoDevices}, tables : {{}},
                station : {"none"}, smi : BOOLEAN]
=============================================================================

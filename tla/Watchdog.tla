------------------------------ MODULE Watchdog ------------------------------
(***************************************************************************)
(* probe_watchdogs (watchdog.c): every PCI device is offered to every      *)
(* registered driver, until one accepts it and has started its timer.      *)
(* Drivers (drivers/watchdog) recognise a device by its PCI id, or the     *)
(* whole machine by its ACPI or SMBIOS tables whatever the device; they    *)
(* convert the timeout to the ticks of their hardware and program it in    *)
(* several steps, some of which can fail half way.                         *)
(***************************************************************************)
EXTENDS Integers, Sequences, FiniteSets

CONSTANTS
    Machines,   \* the machines to boot on
    Timeouts,   \* watchdog_timeout_sec of the booted environment
    WdatPeriod, \* milliseconds per tick of the WDAT timer
    WdatRange   \* number of values its counter register can hold

(* Fault: the TCO driver ahead of those for the whole machine. *)
Drivers_tco_first == <<"wdat", "amdfch", "i6300esb", "atom_quark", "ipc4x7e", "itco",
                       "w83627hf", "ipmi", "ipcbx21a", "hpwdt", "eiois200">>

(* The order in which register_watchdog gets the drivers: that in which    *)
(* Makefile.am links them.                                                 *)
Drivers == <<"wdat", "amdfch", "i6300esb", "atom_quark", "ipcbx21a", "ipc4x7e",
             "w83627hf", "ipmi", "itco", "hpwdt", "eiois200">>

DriverNames == {Drivers[n] : n \in DOMAIN Drivers}

(***************************************************************************)
(* A machine: its PCI devices in the order of the firmware, the ACPI and   *)
(* SMBIOS tables it has, the SIMATIC station it is, and whether the        *)
(* firmware has switched the TCO's SMI on.  A device stands for all ids    *)
(* its driver lists, "ipc2x7g" for the six stations with an NCT6116, and   *)
(* "lpc" for the Sunrise Point bridge of the IPC427E and IPC477E.          *)
(* "REBOOT" says that the WDAT has a SET_REBOOT entry that can be run.     *)
(***************************************************************************)
TcoDevices   == {"tco_v2", "tco_v3", "tco_v5", "tco_v6"}
IntelDevices == TcoDevices \cup {"esb", "quark", "lpc"}
Devices      == IntelDevices \cup {"fch", "ilo", "other"}
Tables       == {"WDAT", "REBOOT", "IPMI", "EIO200"}
Stations     == {"none", "ipc4x7e", "ipc2x7g", "bx21a"}

Machine == [dev : Seq(Devices), tables : SUBSET Tables,
            station : Stations, smi : BOOLEAN]

ASSUME MachineAssumption == Machines \subseteq Machine
ASSUME TicksAssumption ==
    /\ Timeouts \subseteq Nat /\ \A t \in Timeouts : t <= 65535
    /\ WdatPeriod \in Nat \ {0} /\ WdatRange \in Nat \ {0}

VARIABLES
    machine, timeout,
    drivers,    \* the list register_watchdog has built
    pc,         \* "start", "open", "probe" or "done"
    index,      \* the device
    next,       \* position of the next driver to try on it
    probed,     \* drivers whose probed_before is set
    status,     \* the variable status, at the end what is returned
    hw,         \* what each driver has done to its hardware
    seen,       \* devices whose PCI id could be read
    failed      \* drivers that found their hardware but could not start it

vars == <<machine, timeout, drivers, pc, index, next, probed, status, hw, seen, failed>>

Effects  == {"time", "reset", "start"}
Hardware == [done : SUBSET Effects, ticks : Nat]
Statuses == {"EFI_SUCCESS", "EFI_UNSUPPORTED", "EFI_DEVICE_ERROR", "EFI_ACCESS_DENIED"}

-----------------------------------------------------------------------------
(***************************************************************************)
(* The drivers.  A step of init has an effect on the hardware: it sets the *)
(* time, makes the timer reset the machine, or starts it; it may be able   *)
(* to fail.  once: the driver looks only at the first device it gets.      *)
(***************************************************************************)
Step(effects, mayFail) == [does |-> effects, mayFail |-> mayFail]

Driver(fits, once, ticks, steps) ==
    [fits |-> fits, once |-> once, ticks |-> ticks, steps |-> steps]

Clamp(n, low, high) == IF n < low THEN low ELSE IF n > high THEN high ELSE n

(* A SET_REBOOT that is missing or has an instruction the driver does not  *)
(* know is passed over, another error of it ends the driver, as does a     *)
(* zero period.  SET_COUNTDOWN masks the count.                            *)
wdat(dev) ==
    Driver("WDAT" \in machine.tables, TRUE,
           ((timeout * 1000) \div WdatPeriod) % WdatRange,
           << Step({}, TRUE), Step(IF "REBOOT" \in machine.tables THEN {"reset"} ELSE {}, TRUE),
              Step({"time"}, TRUE), Step({}, TRUE), Step({"start"}, TRUE) >>)

AMDFCH_WDT_MAX_TIMEOUT == 65535

amdfch(dev) ==
    Driver(dev = "fch", FALSE, Clamp(timeout, 1, AMDFCH_WDT_MAX_TIMEOUT),
           << Step({}, TRUE), Step({"reset"}, FALSE), Step({"time"}, FALSE),
              Step({"start"}, FALSE) >>)

(* ((timeout * 10^9) >> 15) / 30, without leaving 32 bits. *)
NanoTicks == 1017 * timeout + (485 * timeout) \div 1920

i6300esb(dev) ==
    Driver(dev = "esb", FALSE, NanoTicks,
           << Step({}, TRUE), Step({"time"}, TRUE), Step({}, TRUE),
              Step({"start", "reset"}, TRUE) >>)

(* Three bytes of the count are written. *)
atom_quark(dev) ==
    Driver(dev = "quark", FALSE, NanoTicks % 2^24,
           << Step({}, TRUE), Step({"time"}, FALSE), Step({"reset"}, FALSE),
              Step({"start"}, FALSE) >>)

(* A timeout the hardware cannot count is replaced by one minute. *)
ipcbx21a(dev) ==
    Driver(machine.station = "bx21a", FALSE,
           (IF timeout > 1024 THEN 60 ELSE timeout) - 1,
           << Step({"time"}, FALSE), Step({"start", "reset"}, FALSE) >>)

(* The scaler selects one of eight times. *)
ScalerSeconds == <<2, 4, 6, 8, 16, 32, 48, 64>>

ipc4x7e(dev) ==
    Driver(dev = "lpc" /\ machine.station = "ipc4x7e", FALSE,
           Cardinality({n \in 1 .. 7 : timeout > ScalerSeconds[n]}),
           << Step({"reset"}, FALSE), Step({"time"}, FALSE), Step({"start"}, FALSE) >>)

(* The super I/O chip is looked for on any Intel device.  The low byte of  *)
(* the timeout is the time: it starts the timer, unless it is zero.        *)
w83627hf(dev) ==
    Driver(dev \in IntelDevices /\ machine.station = "ipc2x7g", FALSE, timeout % 256,
           << Step({}, TRUE), Step({"reset"}, FALSE),
              Step(IF timeout % 256 = 0 THEN {"time"} ELSE {"time", "start"}, FALSE) >>)

(* Each command is repeated until five seconds have passed. *)
ipmi(dev) ==
    Driver("IPMI" \in machine.tables, TRUE, (timeout * 10) % 2^16,
           << Step({}, TRUE), Step({"time", "reset"}, TRUE), Step({"start"}, TRUE) >>)

(* Without SMI the reset comes with the second expiry; V5 and V6 have no   *)
(* PM base to ask.                                                         *)
Halved(dev) == dev \in {"tco_v2", "tco_v3"} /\ ~machine.smi

(* Fault: ticks and tenths of a second mixed up. *)
get_timeout_value_inverted(dev, seconds) ==
    IF dev = "tco_v3" THEN seconds ELSE (seconds * 6) \div 10

(* A tick is a second on V3 and 0.6 s otherwise. *)
get_timeout_value(dev, seconds) ==
    IF dev = "tco_v3" THEN seconds ELSE (seconds * 10) \div 6

(* Fault: HLT is cleared before the time is set. *)
itco_early(dev) ==
    LET pci == dev \in {"tco_v2", "tco_v3"}
    IN  Driver(dev \in TcoDevices, FALSE,
               get_timeout_value(dev, IF Halved(dev) THEN timeout \div 2 ELSE timeout) % 2^10,
               << Step({}, pci), Step({"start"}, FALSE), Step({"reset"}, pci),
                  Step({"time"}, FALSE) >>)

(* Clearing NO_REBOOT goes through PCI on V2 and V3, and so does the base. *)
itco(dev) ==
    LET pci == dev \in {"tco_v2", "tco_v3"}
    IN  Driver(dev \in TcoDevices, FALSE,
               get_timeout_value(dev, IF Halved(dev) THEN timeout \div 2 ELSE timeout) % 2^10,
               << Step({}, pci), Step({"time"}, FALSE), Step({"reset"}, pci),
                  Step({"start"}, FALSE) >>)

hpwdt(dev) ==
    Driver(dev = "ilo", FALSE, ((timeout * 1000) \div 128) % 2^16,
           << Step({}, TRUE), Step({"time"}, TRUE), Step({"start", "reset"}, TRUE) >>)

PMC_WDT_MAX_TIMEOUT_MS == 32767000

eiois200(dev) ==
    Driver("EIO200" \in machine.tables, TRUE,
           Clamp(timeout * 1000, 1000, PMC_WDT_MAX_TIMEOUT_MS),
           << Step({}, TRUE), Step({"time"}, TRUE), Step({"start", "reset"}, TRUE) >>)

Init_of(d, dev) ==
    CASE d = "wdat"       -> wdat(dev)
      [] d = "amdfch"     -> amdfch(dev)
      [] d = "i6300esb"   -> i6300esb(dev)
      [] d = "atom_quark" -> atom_quark(dev)
      [] d = "ipcbx21a"   -> ipcbx21a(dev)
      [] d = "ipc4x7e"    -> ipc4x7e(dev)
      [] d = "w83627hf"   -> w83627hf(dev)
      [] d = "ipmi"       -> ipmi(dev)
      [] d = "itco"       -> itco(dev)
      [] d = "hpwdt"      -> hpwdt(dev)
      [] d = "eiois200"   -> eiois200(dev)

(* The hardware of a driver after the first n steps of its init. *)
After(drv, old, n) ==
    LET done == UNION {drv.steps[k].does : k \in 1 .. n}
    IN  [done  |-> old.done \cup done,
         ticks |-> IF "time" \in done THEN drv.ticks ELSE old.ticks]

-----------------------------------------------------------------------------
Init ==
    /\ machine \in Machines
    /\ timeout \in Timeouts
    /\ drivers \in {<< >>, Drivers}
    /\ pc = "start"
    /\ index = 1 /\ next = 1
    /\ probed = {}
    /\ status = "EFI_SUCCESS"
    /\ hw = [d \in DriverNames |-> [done |-> {}, ticks |-> 0]]
    /\ seen = {} /\ failed = {}

Return(s) == pc' = "done" /\ status' = s

(* The conditions before the loop, and LocateHandleBuffer. *)
Begin ==
    /\ pc = "start"
    /\ \/ drivers = << >> /\ timeout > 0 /\ Return("EFI_UNSUPPORTED")
       \/ timeout = 0 /\ Return("EFI_SUCCESS")
       \/ drivers # << >> /\ timeout > 0
             /\ IF machine.dev = << >> THEN Return("EFI_UNSUPPORTED")
                ELSE pc' = "open" /\ UNCHANGED status
    /\ UNCHANGED <<machine, timeout, drivers, index, next, probed, hw, seen, failed>>

(* To the next device, or out of the loop with the last status. *)
NextDevice ==
    /\ pc' = IF index = Len(machine.dev) THEN "done" ELSE "open"
    /\ index' = IF index = Len(machine.dev) THEN index ELSE index + 1
    /\ next' = 1

OpenFails ==
    /\ pc = "open"
    /\ Return("EFI_ACCESS_DENIED")
    /\ UNCHANGED <<machine, timeout, drivers, index, next, probed, hw, seen, failed>>

(* Fault: the status of the read is dropped, that of OpenProtocol stays. *)
ReadFails_unnoticed ==
    /\ pc = "open"
    /\ status' = "EFI_SUCCESS"
    /\ NextDevice
    /\ UNCHANGED <<machine, timeout, drivers, probed, hw, seen, failed>>

ReadFails ==
    /\ pc = "open"
    /\ status' = "EFI_DEVICE_ERROR"
    /\ NextDevice
    /\ UNCHANGED <<machine, timeout, drivers, probed, hw, seen, failed>>

ReadId ==
    /\ pc = "open"
    /\ status' = "EFI_SUCCESS"
    /\ pc' = "probe"
    /\ seen' = seen \cup {index}
    /\ UNCHANGED <<machine, timeout, drivers, index, next, probed, hw, failed>>

(* Fault: driver stays where it is. *)
Proceed_stuck == UNCHANGED <<next, pc, index>>

(* Fault: one driver too many. *)
Proceed_past ==
    IF next <= Len(drivers)
    THEN next' = next + 1 /\ UNCHANGED <<pc, index>>
    ELSE NextDevice

(* After a driver that did not succeed: the next one, or the next device. *)
Proceed ==
    IF next < Len(drivers)
    THEN next' = next + 1 /\ UNCHANGED <<pc, index>>
    ELSE NextDevice

Applies(d) ==
    LET drv == Init_of(d, machine.dev[index])
    IN  drv.fits /\ ~(drv.once /\ d \in probed)

Mark(d) ==
    probed' = IF Init_of(d, machine.dev[index]).once THEN probed \cup {d} ELSE probed

Refuses(d) ==
    /\ ~Applies(d)
    /\ status' = "EFI_UNSUPPORTED"
    /\ Proceed
    /\ Mark(d)
    /\ UNCHANGED <<hw, failed>>

(* Fault: an error of a driver ends the probing. *)
Fails_last(d) ==
    /\ Applies(d)
    /\ LET drv == Init_of(d, machine.dev[index])
       IN  \E n \in DOMAIN drv.steps :
               /\ drv.steps[n].mayFail
               /\ hw' = [hw EXCEPT ![d] = After(drv, @, n)]
    /\ Return("EFI_DEVICE_ERROR")
    /\ failed' = failed \cup {d}
    /\ Mark(d)
    /\ UNCHANGED <<index, next>>

(* A step fails, with or without an effect of its own.  The error is that  *)
(* of the firmware, or says that the hardware is not a usable one.         *)
Fails(d) ==
    /\ Applies(d)
    /\ LET drv == Init_of(d, machine.dev[index])
       IN  \E n \in DOMAIN drv.steps : \E m \in {n - 1, n} :
               /\ drv.steps[n].mayFail
               /\ hw' = [hw EXCEPT ![d] = After(drv, @, m)]
    /\ status' \in {"EFI_DEVICE_ERROR", "EFI_UNSUPPORTED"}
    /\ failed' = failed \cup {d}
    /\ Proceed
    /\ Mark(d)

Succeeds(d) ==
    /\ Applies(d)
    /\ LET drv == Init_of(d, machine.dev[index])
       IN  hw' = [hw EXCEPT ![d] = After(drv, @, Len(drv.steps))]
    /\ Return("EFI_SUCCESS")
    /\ Mark(d)
    /\ UNCHANGED <<index, next, failed>>

Probe ==
    /\ pc = "probe"
    /\ LET d == drivers[next] IN Refuses(d) \/ Fails(d) \/ Succeeds(d)
    /\ UNCHANGED <<machine, timeout, drivers, seen>>

Next == Begin \/ OpenFails \/ ReadFails \/ ReadId \/ Probe

(* The loader runs alone: it goes on as long as there is a step to take. *)
Spec == Init /\ [][Next]_vars /\ WF_vars(Next)

(* The cursor over devices and drivers stays inside both lists. *)
TypeOK ==
    /\ pc \in {"start", "open", "probe", "done"}
    /\ index \in DOMAIN machine.dev \cup {1}
    /\ next \in 1 .. Len(Drivers)
    /\ probed \subseteq DriverNames /\ failed \subseteq DriverNames
    /\ status \in Statuses
    /\ hw \in [DriverNames -> Hardware]
    /\ seen \subseteq DOMAIN machine.dev

-----------------------------------------------------------------------------
Running(d) == "start" \in hw[d].done

(* No timer is ever started before it has its time, on no driver's path,   *)
(* failing ones included: it would expire with what the firmware left.     *)
NeverUntimed == \A d \in DriverNames : Running(d) => "time" \in hw[d].done

(***************************************************************************)
(* Makefile.am: the drivers that know the whole machine come before the    *)
(* TCO of the chipset.  The TCO is started only if each of those that      *)
(* would apply has tried and failed, on whichever devices they were tried. *)
(***************************************************************************)
PlatformFirst ==
    Running("itco") =>
        \A d \in {"wdat", "ipcbx21a", "ipmi"} :
            Init_of(d, machine.dev[index]).fits => d \in failed

(***************************************************************************)
(* Probing gives up only when every driver has failed on its own hardware: *)
(* no error on one device keeps another one from being tried, except a     *)
(* device that cannot be opened.                                           *)
(***************************************************************************)
NothingMissed ==
    pc = "done" /\ status \in {"EFI_UNSUPPORTED", "EFI_DEVICE_ERROR"} /\ drivers # << >> =>
        \A k \in seen : \A d \in DriverNames :
            Init_of(d, machine.dev[k]).fits => d \in failed

(* probe_watchdogs comes to an end whatever the drivers return: the timer  *)
(* that would end a hang here is the one that is not running yet.          *)
Ends == <>(pc = "done")

(***************************************************************************)
(* The seconds after which the hardware resets the machine, from the ticks *)
(* it was given.                                                           *)
(***************************************************************************)
Expires(d, dev, n) ==
    CASE d = "wdat"     -> (n * WdatPeriod) \div 1000
      [] d \in {"i6300esb", "atom_quark"}
                        -> (n \div 390625) * 384 + ((n % 390625) * 384) \div 390625
      [] d = "ipcbx21a" -> n + 1
      [] d = "ipc4x7e"  -> ScalerSeconds[n + 1]
      [] d = "ipmi"     -> n \div 10
      [] d = "itco"     -> LET once == IF dev = "tco_v3" THEN n * 10 ELSE n * 6
                           IN  (IF Halved(dev) THEN 2 * once ELSE once) \div 10
      [] d = "hpwdt"    -> (n * 128) \div 1000
      [] d = "eiois200" -> n \div 1000
      [] OTHER          -> n

(* The longest timeout each driver can count to.  The source gives no      *)
(* width for the counter of the 6300ESB: it is taken to hold what the      *)
(* driver writes to its 32-bit register, for any 16-bit timeout.           *)
Longest(d, dev) ==
    CASE d = "wdat"       -> ((WdatRange - 1) * WdatPeriod) \div 1000
      [] d = "atom_quark" -> 16492
      [] d = "ipcbx21a"   -> 1024
      [] d = "ipc4x7e"    -> 64
      [] d = "w83627hf"   -> 255
      [] d = "ipmi"       -> 6553
      [] d = "itco"       -> CASE dev = "tco_v3" -> IF Halved(dev) THEN 2047 ELSE 1023
                               [] OTHER          -> IF Halved(dev) THEN 1229 ELSE 614
      [] d = "hpwdt"      -> 8388
      [] d = "eiois200"   -> 32767
      [] OTHER            -> 65535

(***************************************************************************)
(* README.md: "if no working watchdog is found, the boot process           *)
(* deliberately fails".  Success for a non-zero timeout means that the     *)
(* driver that ended the probing has given its timer the time, has made it *)
(* reset the machine and has started it, whatever happened on the devices  *)
(* tried before.  There are two ways to succeed with less, and no other: a *)
(* timeout beyond the counter whose low bits are zero (the NCT6116 at 256, *)
(* 512, ... seconds is switched off), and a WDAT whose SET_REBOOT cannot   *)
(* be run.                                                                 *)
(***************************************************************************)
SuccessMeansArmed ==
    pc = "done" /\ status = "EFI_SUCCESS" /\ timeout > 0 =>
        LET d == drivers[next]
        IN  \/ hw[d].done = Effects
            \/ timeout > Longest(d, machine.dev[index]) /\ hw[d].ticks = 0
            \/ /\ d = "wdat" /\ "REBOOT" \notin machine.tables
               /\ hw[d].done = Effects \ {"reset"}

(* Rounding may cost this many seconds: halving and a tick of 0.6 s. *)
Slack == 3

HasTime(d) ==
    Expires(d, machine.dev[index], hw[d].ticks) >= timeout - Slack

(***************************************************************************)
(* A watchdog that is started gives the kernel the time the environment    *)
(* asks for, up to rounding, as long as its counter can hold it: one that  *)
(* fires early takes a good update for a failed one.                       *)
(***************************************************************************)
TimeEnough ==
    pc = "done" /\ status = "EFI_SUCCESS" /\ timeout > 0 =>
        LET d == drivers[next]
        IN  timeout <= Longest(d, machine.dev[index]) => HasTime(d)

(***************************************************************************)
(* UPDATE.md:28: "`watchdog_timeout_sec`: Number of seconds, the watchdog  *)
(* times out after".                                                       *)
(***************************************************************************)
TimeoutHonoured ==
    pc = "done" /\ status = "EFI_SUCCESS" /\ timeout > 0 => HasTime(drivers[next])
=============================================================================

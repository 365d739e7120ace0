--------------------------- MODULE WatchdogProofs ---------------------------
(***************************************************************************)
(* Proofs about probe_watchdogs for every machine, every timeout and every *)
(* WDAT timer: what success means, what giving up means, the order of      *)
(* programming a timer and the order of the drivers, and the time a        *)
(* started timer leaves.                                                   *)
(***************************************************************************)
EXTENDS Watchdog, FiniteSetTheorems, TLAPS

Found(d, k) == Init_of(d, machine.dev[k]).fits

Handled(d, k) == Found(d, k) => d \in failed

(* The drivers that look at the machine as a whole, not at the device. *)
Global == {"wdat", "ipcbx21a", "ipmi", "eiois200"}

(* What all steps of init together do. *)
Whole(drv) == UNION {drv.steps[k].does : k \in 1 .. Len(drv.steps)}

-----------------------------------------------------------------------------
(* The inductive invariant, by parts. *)

Setting ==
    /\ machine \in Machines /\ timeout \in Timeouts
    /\ drivers \in {<< >>, Drivers}

Cursor ==
    /\ pc \in {"open", "probe"} =>
           drivers = Drivers /\ timeout > 0 /\ index \in DOMAIN machine.dev
    /\ pc \in {"start", "open"} => next = 1

(* A driver that looks once and found its hardware has failed on it. *)
OnceTried ==
    pc # "done" => \A d \in probed :
        d \in Global /\ \A k \in DOMAIN machine.dev : Handled(d, k)

(* On the device under the cursor the drivers before it had their chance. *)
TriedHere ==
    pc = "probe" => \A k \in {index}, m \in 1 .. (next - 1) : Handled(Drivers[m], k)

(* On the devices behind the cursor all drivers had it. *)
TriedBefore ==
    (pc = "done" => status \in {"EFI_UNSUPPORTED", "EFI_DEVICE_ERROR"}) =>
        \A k \in seen : (pc = "probe" => k # index) =>
            \A d \in DriverNames : Handled(d, k)

(* Whoever started the TCO came after the drivers for the whole machine.   *)
PlatformTried ==
    Running("itco") =>
        /\ index \in DOMAIN machine.dev
        /\ \A d \in {"wdat", "ipcbx21a", "ipmi"}, k \in DOMAIN machine.dev : Handled(d, k)

(* The driver that ended the probing has taken all steps. *)
Armed ==
    pc = "done" /\ status = "EFI_SUCCESS" /\ timeout > 0 =>
        /\ drivers = Drivers /\ index \in DOMAIN machine.dev
        /\ Whole(Init_of(drivers[next], machine.dev[index])) \subseteq hw[drivers[next]].done
        /\ hw[drivers[next]].ticks = Init_of(drivers[next], machine.dev[index]).ticks

WInv ==
    /\ TypeOK /\ Setting /\ Cursor
    /\ OnceTried /\ TriedHere /\ TriedBefore
    /\ Armed /\ NeverUntimed /\ PlatformTried

-----------------------------------------------------------------------------
(* The eleven drivers that Makefile.am links, by name. *)
LEMMA Names ==
    /\ DriverNames = {"wdat", "amdfch", "i6300esb", "atom_quark", "ipcbx21a", "ipc4x7e",
                      "w83627hf", "ipmi", "itco", "hpwdt", "eiois200"}
    /\ Len(Drivers) = 11
    /\ \A n \in 1 .. 11 : Drivers[n] \in DriverNames
<1>1. Len(Drivers) = 11 /\ DOMAIN Drivers = 1 .. 11
  BY DEF Drivers
<1>2. DriverNames = {Drivers[n] : n \in 1 .. 11}
  BY <1>1 DEF DriverNames
<1>3. {Drivers[n] : n \in 1 .. 11} =
        {"wdat", "amdfch", "i6300esb", "atom_quark", "ipcbx21a", "ipc4x7e",
         "w83627hf", "ipmi", "itco", "hpwdt", "eiois200"}
  BY DEF Drivers
<1> QED BY <1>1, <1>2, <1>3

(***************************************************************************)
(* What the steps of all drivers have in common: one sets the time, and    *)
(* none before it starts the timer.  Full: together they set the time,     *)
(* make the timer reset the machine and start it.                          *)
(***************************************************************************)
Sound(steps) ==
    /\ Len(steps) \in Nat /\ DOMAIN steps = 1 .. Len(steps)
    /\ \A k \in 1 .. Len(steps) : steps[k].does \subseteq Effects
    /\ \E t \in 1 .. Len(steps) :
          /\ "time" \in steps[t].does
          /\ \A k \in 1 .. Len(steps) : "start" \in steps[k].does => t <= k

Full(steps) == \A x \in Effects : \E k \in 1 .. Len(steps) : x \in steps[k].does

(* The drivers that may succeed without having done all of it. *)
Partial(d, steps) ==
    \/ d = "w83627hf" /\ timeout % 256 = 0
    \/ /\ d = "wdat" /\ "REBOOT" \notin machine.tables
       /\ \A x \in Effects :
             (\E k \in 1 .. Len(steps) : x \in steps[k].does) <=> x # "reset"

(* The scaler of the IPC4x7E is one of eight. *)
LEMMA ScalerSteps ==
    LET above == {n \in 1 .. 7 : timeout > ScalerSeconds[n]}
    IN  IsFiniteSet(above) /\ Cardinality(above) \in Nat
<1> DEFINE above == {n \in 1 .. 7 : timeout > ScalerSeconds[n]}
<1>0. \A a, b \in Int : IsFiniteSet(a .. b)
  BY FS_Interval
<1>1. IsFiniteSet(1 .. 7)
  <2>1. 1 \in Int /\ 7 \in Int
    OBVIOUS
  <2> QED BY <1>0, <2>1, Zenon
<1>2. above \subseteq 1 .. 7
  OBVIOUS
<1> HIDE DEF above
<1>3. IsFiniteSet(above)
  BY <1>1, <1>2, FS_Subset
<1>4. Cardinality(above) \in Nat
  BY <1>3, FS_CardinalityType
<1> QED BY <1>3, <1>4 DEF above

(* Each of the eleven drivers is sound, and the count it computes from the *)
(* timeout is one: read off its init function.                             *)
LEMMA DriversSound ==
    ASSUME timeout \in Nat, 0 < timeout, NEW d \in DriverNames, NEW dev
    PROVE  /\ Sound(Init_of(d, dev).steps) /\ Init_of(d, dev).ticks \in Nat
           /\ Full(Init_of(d, dev).steps) \/ Partial(d, Init_of(d, dev).steps)
<1>0. \A n \in Nat : n % 2^24 \in Nat /\ n % 2^16 \in Nat /\ n % 2^10 \in Nat
  OBVIOUS
<1>1. CASE d = "wdat"
  <2> DEFINE steps == << Step({}, TRUE),
                         Step(IF "REBOOT" \in machine.tables THEN {"reset"} ELSE {}, TRUE),
                         Step({"time"}, TRUE), Step({}, TRUE), Step({"start"}, TRUE) >>
             ticks == ((timeout * 1000) \div WdatPeriod) % WdatRange
  <2>1. ticks \in Nat
    BY TicksAssumption
  <2>2. Sound(steps) /\ (Full(steps) \/ Partial(d, steps))
    BY <1>1 DEF Sound, Full, Partial, Step, Effects
  <2>3. wdat(dev).steps = steps /\ wdat(dev).ticks = ticks
    <3>1. wdat(dev).steps = steps
      BY DEF wdat, Driver
    <3>2. wdat(dev).ticks = ticks
      BY SMT DEF wdat, Driver
    <3> QED BY <3>1, <3>2
  <2>4. Init_of(d, dev) = wdat(dev)
    BY <1>1 DEF Init_of
  <2> HIDE DEF steps, ticks
  <2> QED BY <2>1, <2>2, <2>3, <2>4, Zenon
<1>2. CASE d = "amdfch"
  <2> DEFINE steps == << Step({}, TRUE), Step({"reset"}, FALSE),
                         Step({"time"}, FALSE), Step({"start"}, FALSE) >>
             ticks == Clamp(timeout, 1, AMDFCH_WDT_MAX_TIMEOUT)
  <2>1. ticks \in Nat
    BY <1>0 DEF Clamp, AMDFCH_WDT_MAX_TIMEOUT
  <2>2. Sound(steps) /\ Full(steps)
    BY DEF Sound, Full, Step, Effects
  <2>3. amdfch(dev).steps = steps /\ amdfch(dev).ticks = ticks
    <3>1. amdfch(dev).steps = steps
      BY DEF amdfch, Driver
    <3>2. amdfch(dev).ticks = ticks
      BY SMT DEF amdfch, Driver
    <3> QED BY <3>1, <3>2
  <2>4. Init_of(d, dev) = amdfch(dev)
    BY <1>2 DEF Init_of
  <2> HIDE DEF steps, ticks
  <2> QED BY <2>1, <2>2, <2>3, <2>4, Zenon
<1>3. CASE d = "i6300esb"
  <2> DEFINE steps == << Step({}, TRUE), Step({"time"}, TRUE), Step({}, TRUE),
                         Step({"start", "reset"}, TRUE) >>
             ticks == NanoTicks
  <2>1. ticks \in Nat
    BY <1>0 DEF NanoTicks
  <2>2. Sound(steps) /\ Full(steps)
    BY DEF Sound, Full, Step, Effects
  <2>3. i6300esb(dev).steps = steps /\ i6300esb(dev).ticks = ticks
    <3>1. i6300esb(dev).steps = steps
      BY DEF i6300esb, Driver
    <3>2. i6300esb(dev).ticks = ticks
      BY SMT DEF i6300esb, Driver
    <3> QED BY <3>1, <3>2
  <2>4. Init_of(d, dev) = i6300esb(dev)
    BY <1>3 DEF Init_of
  <2> HIDE DEF steps, ticks
  <2> QED BY <2>1, <2>2, <2>3, <2>4, Zenon
<1>4. CASE d = "atom_quark"
  <2> DEFINE steps == << Step({}, TRUE), Step({"time"}, FALSE),
                         Step({"reset"}, FALSE), Step({"start"}, FALSE) >>
             ticks == NanoTicks % 2^24
  <2>1. ticks \in Nat
    BY <1>0 DEF NanoTicks
  <2>2. Sound(steps) /\ Full(steps)
    BY DEF Sound, Full, Step, Effects
  <2>3. atom_quark(dev).steps = steps /\ atom_quark(dev).ticks = ticks
    <3>1. atom_quark(dev).steps = steps
      BY DEF atom_quark, Driver
    <3>2. atom_quark(dev).ticks = ticks
      BY SMT DEF atom_quark, Driver
    <3> QED BY <3>1, <3>2
  <2>4. Init_of(d, dev) = atom_quark(dev)
    BY <1>4 DEF Init_of
  <2> HIDE DEF steps, ticks
  <2> QED BY <2>1, <2>2, <2>3, <2>4, Zenon
<1>5. CASE d = "ipcbx21a"
  <2> DEFINE steps == << Step({"time"}, FALSE),
                         Step({"start", "reset"}, FALSE) >>
             ticks == (IF timeout > 1024 THEN 60 ELSE timeout) - 1
  <2>1. ticks \in Nat
    BY <1>0
  <2>2. Sound(steps) /\ Full(steps)
    BY DEF Sound, Full, Step, Effects
  <2>3. ipcbx21a(dev).steps = steps /\ ipcbx21a(dev).ticks = ticks
    <3>1. ipcbx21a(dev).steps = steps
      BY DEF ipcbx21a, Driver
    <3>2. ipcbx21a(dev).ticks = ticks
      BY SMT DEF ipcbx21a, Driver
    <3> QED BY <3>1, <3>2
  <2>4. Init_of(d, dev) = ipcbx21a(dev)
    BY <1>5 DEF Init_of
  <2> HIDE DEF steps, ticks
  <2> QED BY <2>1, <2>2, <2>3, <2>4, Zenon
<1>6. CASE d = "ipc4x7e"
  <2> DEFINE steps == << Step({"reset"}, FALSE), Step({"time"}, FALSE),
                         Step({"start"}, FALSE) >>
             ticks == Cardinality({n \in 1 .. 7 : timeout > ScalerSeconds[n]})
  <2>1. ticks \in Nat
    BY ScalerSteps
  <2>2. Sound(steps) /\ Full(steps)
    BY DEF Sound, Full, Step, Effects
  <2>3. ipc4x7e(dev).steps = steps /\ ipc4x7e(dev).ticks = ticks
    <3>1. ipc4x7e(dev).steps = steps
      BY DEF ipc4x7e, Driver
    <3>2. ipc4x7e(dev).ticks = ticks
      BY SMT DEF ipc4x7e, Driver
    <3> QED BY <3>1, <3>2
  <2>4. Init_of(d, dev) = ipc4x7e(dev)
    BY <1>6 DEF Init_of
  <2> HIDE DEF steps, ticks
  <2> QED BY <2>1, <2>2, <2>3, <2>4, Zenon
<1>7. CASE d = "w83627hf"
  <2> DEFINE last == IF timeout % 256 = 0 THEN {"time"} ELSE {"time", "start"}
             steps == << Step({}, TRUE), Step({"reset"}, FALSE), Step(last, FALSE) >>
             ticks == timeout % 256
  <2>1. ticks \in Nat
    BY <1>0
  <2>2. Sound(steps) /\ (Full(steps) \/ Partial(d, steps))
    <3>1. CASE timeout % 256 = 0
      <4>1. last = {"time"}
        BY <3>1
      <4> HIDE DEF last
      <4>2. Sound(steps)
        BY <4>1 DEF Sound, Step, Effects
      <4> QED BY <1>7, <3>1, <4>2 DEF Partial
    <3>2. CASE timeout % 256 # 0
      <4>1. last = {"time", "start"}
        BY <3>2
      <4> HIDE DEF last
      <4> QED BY <4>1 DEF Sound, Full, Step, Effects
    <3> QED BY <3>1, <3>2
  <2>3. w83627hf(dev).steps = steps /\ w83627hf(dev).ticks = ticks
    <3>1. w83627hf(dev).steps = steps
      BY DEF w83627hf, Driver
    <3>2. w83627hf(dev).ticks = ticks
      BY SMT DEF w83627hf, Driver
    <3> QED BY <3>1, <3>2
  <2>4. Init_of(d, dev) = w83627hf(dev)
    BY <1>7 DEF Init_of
  <2> HIDE DEF steps, ticks
  <2> QED BY <2>1, <2>2, <2>3, <2>4, Zenon
<1>8. CASE d = "ipmi"
  <2> DEFINE steps == << Step({}, TRUE), Step({"time", "reset"}, TRUE),
                         Step({"start"}, TRUE) >>
             ticks == (timeout * 10) % 2^16
  <2>1. ticks \in Nat
    BY <1>0
  <2>2. Sound(steps) /\ Full(steps)
    BY DEF Sound, Full, Step, Effects
  <2>3. ipmi(dev).steps = steps /\ ipmi(dev).ticks = ticks
    <3>1. ipmi(dev).steps = steps
      BY DEF ipmi, Driver
    <3>2. ipmi(dev).ticks = ticks
      BY SMT DEF ipmi, Driver
    <3> QED BY <3>1, <3>2
  <2>4. Init_of(d, dev) = ipmi(dev)
    BY <1>8 DEF Init_of
  <2> HIDE DEF steps, ticks
  <2> QED BY <2>1, <2>2, <2>3, <2>4, Zenon
<1>9. CASE d = "itco"
  <2> DEFINE steps == << Step({}, dev \in {"tco_v2", "tco_v3"}),
                         Step({"time"}, FALSE),
                         Step({"reset"}, dev \in {"tco_v2", "tco_v3"}),
                         Step({"start"}, FALSE) >>
             ticks == get_timeout_value(dev, IF Halved(dev) THEN timeout \div 2 ELSE timeout) % 2^10
  <2>1. ticks \in Nat
    BY <1>0 DEF get_timeout_value
  <2>2. Sound(steps) /\ Full(steps)
    BY DEF Sound, Full, Step, Effects
  <2>3. itco(dev).steps = steps /\ itco(dev).ticks = ticks
    <3>1. itco(dev).steps = steps
      BY DEF itco, Driver
    <3>2. itco(dev).ticks = ticks
      BY SMT DEF itco, Driver
    <3> QED BY <3>1, <3>2
  <2>4. Init_of(d, dev) = itco(dev)
    BY <1>9 DEF Init_of
  <2> HIDE DEF steps, ticks
  <2> QED BY <2>1, <2>2, <2>3, <2>4, Zenon
<1>10. CASE d = "hpwdt"
  <2> DEFINE steps == << Step({}, TRUE), Step({"time"}, TRUE),
                         Step({"start", "reset"}, TRUE) >>
             ticks == ((timeout * 1000) \div 128) % 2^16
  <2>1. ticks \in Nat
    BY <1>0
  <2>2. Sound(steps) /\ Full(steps)
    BY DEF Sound, Full, Step, Effects
  <2>3. hpwdt(dev).steps = steps /\ hpwdt(dev).ticks = ticks
    <3>1. hpwdt(dev).steps = steps
      BY DEF hpwdt, Driver
    <3>2. hpwdt(dev).ticks = ticks
      BY SMT DEF hpwdt, Driver
    <3> QED BY <3>1, <3>2
  <2>4. Init_of(d, dev) = hpwdt(dev)
    BY <1>10 DEF Init_of
  <2> HIDE DEF steps, ticks
  <2> QED BY <2>1, <2>2, <2>3, <2>4, Zenon
<1>11. CASE d = "eiois200"
  <2> DEFINE steps == << Step({}, TRUE), Step({"time"}, TRUE),
                         Step({"start", "reset"}, TRUE) >>
             ticks == Clamp(timeout * 1000, 1000, PMC_WDT_MAX_TIMEOUT_MS)
  <2>1. ticks \in Nat
    BY <1>0 DEF Clamp, PMC_WDT_MAX_TIMEOUT_MS
  <2>2. Sound(steps) /\ Full(steps)
    BY DEF Sound, Full, Step, Effects
  <2>3. eiois200(dev).steps = steps /\ eiois200(dev).ticks = ticks
    <3>1. eiois200(dev).steps = steps
      BY DEF eiois200, Driver
    <3>2. eiois200(dev).ticks = ticks
      BY SMT DEF eiois200, Driver
    <3> QED BY <3>1, <3>2
  <2>4. Init_of(d, dev) = eiois200(dev)
    BY <1>11 DEF Init_of
  <2> HIDE DEF steps, ticks
  <2> QED BY <2>1, <2>2, <2>3, <2>4, Zenon
<1> QED BY Names, <1>1, <1>2, <1>3, <1>4, <1>5, <1>6, <1>7, <1>8, <1>9, <1>10, <1>11, Zenon
(* The drivers that look at one device only, or at whatever device is      *)
(* first, are those for the machine as a whole.                            *)
LEMMA OnceGlobal ==
    ASSUME NEW d \in DriverNames, NEW dev, Init_of(d, dev).once
    PROVE  d \in Global
<1> SUFFICES ASSUME d \notin Global PROVE FALSE
  OBVIOUS
<1>1. CASE d = "amdfch"
  <2>1. amdfch(dev).once = FALSE
    BY Zenon DEF amdfch, Driver
  <2>2. Init_of(d, dev) = amdfch(dev)
    BY <1>1 DEF Init_of
  <2> QED BY <2>1, <2>2, Zenon
<1>2. CASE d = "i6300esb"
  <2>1. i6300esb(dev).once = FALSE
    BY Zenon DEF i6300esb, Driver
  <2>2. Init_of(d, dev) = i6300esb(dev)
    BY <1>2 DEF Init_of
  <2> QED BY <2>1, <2>2, Zenon
<1>3. CASE d = "atom_quark"
  <2>1. atom_quark(dev).once = FALSE
    BY Zenon DEF atom_quark, Driver
  <2>2. Init_of(d, dev) = atom_quark(dev)
    BY <1>3 DEF Init_of
  <2> QED BY <2>1, <2>2, Zenon
<1>4. CASE d = "ipc4x7e"
  <2>1. ipc4x7e(dev).once = FALSE
    BY Zenon DEF ipc4x7e, Driver
  <2>2. Init_of(d, dev) = ipc4x7e(dev)
    BY <1>4 DEF Init_of
  <2> QED BY <2>1, <2>2, Zenon
<1>5. CASE d = "w83627hf"
  <2>1. w83627hf(dev).once = FALSE
    BY Zenon DEF w83627hf, Driver
  <2>2. Init_of(d, dev) = w83627hf(dev)
    BY <1>5 DEF Init_of
  <2> QED BY <2>1, <2>2, Zenon
<1>6. CASE d = "itco"
  <2>1. itco(dev).once = FALSE
    BY Zenon DEF itco, Driver
  <2>2. Init_of(d, dev) = itco(dev)
    BY <1>6 DEF Init_of
  <2> QED BY <2>1, <2>2, Zenon
<1>7. CASE d = "hpwdt"
  <2>1. hpwdt(dev).once = FALSE
    BY Zenon DEF hpwdt, Driver
  <2>2. Init_of(d, dev) = hpwdt(dev)
    BY <1>7 DEF Init_of
  <2> QED BY <2>1, <2>2, Zenon
<1> QED BY Names, <1>1, <1>2, <1>3, <1>4, <1>5, <1>6, <1>7 DEF Global

(* For these it does not matter which device they are shown. *)
LEMMA GlobalFits ==
    ASSUME NEW d \in Global, NEW a, NEW b
    PROVE  Init_of(d, a) = Init_of(d, b)
<1>1. CASE d = "wdat"
  <2>1. wdat(a) = wdat(b)
    BY Zenon DEF wdat
  <2> QED BY <1>1, <2>1 DEF Init_of
<1>2. CASE d = "ipcbx21a"
  <2>1. ipcbx21a(a) = ipcbx21a(b)
    BY Zenon DEF ipcbx21a
  <2> QED BY <1>2, <2>1 DEF Init_of
<1>3. CASE d = "ipmi"
  <2>1. ipmi(a) = ipmi(b)
    BY Zenon DEF ipmi
  <2> QED BY <1>3, <2>1 DEF Init_of
<1>4. CASE d = "eiois200"
  <2>1. eiois200(a) = eiois200(b)
    BY Zenon DEF eiois200
  <2> QED BY <1>4, <2>1 DEF Init_of
<1> QED BY <1>1, <1>2, <1>3, <1>4 DEF Global

(* Probing changes neither the machine nor the timeout, and so no driver's *)
(* idea of them.                                                           *)
LEMMA SameDrivers ==
    ASSUME machine' = machine, timeout' = timeout, NEW d, NEW dev
    PROVE  Init_of(d, dev)' = Init_of(d, dev)
<1>0. NanoTicks' = NanoTicks
  BY DEF NanoTicks
<1>1. wdat(dev)' = wdat(dev)
  BY SMT DEF wdat
<1>2. amdfch(dev)' = amdfch(dev)
  BY Zenon DEF amdfch
<1>3. i6300esb(dev)' = i6300esb(dev)
  BY <1>0, Zenon DEF i6300esb
<1>4. atom_quark(dev)' = atom_quark(dev)
  BY <1>0, Zenon DEF atom_quark
<1>5. ipcbx21a(dev)' = ipcbx21a(dev)
  BY SMT DEF ipcbx21a
<1>6. ipc4x7e(dev)' = ipc4x7e(dev)
  BY Zenon DEF ipc4x7e
<1>7. w83627hf(dev)' = w83627hf(dev)
  BY Zenon DEF w83627hf
<1>8. ipmi(dev)' = ipmi(dev)
  BY Zenon DEF ipmi
<1>9. itco(dev)' = itco(dev)
  <2>1. Halved(dev)' = Halved(dev)
    BY DEF Halved
  <2> QED BY <2>1 DEF itco
<1>10. hpwdt(dev)' = hpwdt(dev)
  BY SMT DEF hpwdt
<1>11. eiois200(dev)' = eiois200(dev)
  BY SMT DEF eiois200
<1> QED BY <1>1, <1>2, <1>3, <1>4, <1>5, <1>6, <1>7, <1>8, <1>9, <1>10, <1>11, Zenon
        DEF Init_of

(* What a driver does to a device depends only on the machine and the      *)
(* timeout.                                                                *)
LEMMA SameOn ==
    ASSUME machine' = machine, timeout' = timeout
    PROVE  \A d, k : Init_of(d, machine.dev[k])' = Init_of(d, machine.dev[k])
<1> TAKE d, k
<1>1. PICK dev : dev = machine.dev[k]
  OBVIOUS
<1>2. machine.dev[k]' = machine.dev[k]
  OBVIOUS
<1>3. Init_of(d, dev)' = Init_of(d, dev)
  BY SameDrivers
<1>4. Init_of(d, machine.dev[k])' = Init_of(d, dev)'
  BY <1>1, <1>2
<1> QED BY <1>1, <1>2, <1>3, <1>4, Zenon

(* What a driver's init leaves behind when it stops after n steps: never   *)
(* a running timer without its time, and all of it after the last step.    *)
LEMMA AfterSound ==
    ASSUME NEW drv, Sound(drv.steps), drv.ticks \in Nat, NEW old \in Hardware,
           NEW n \in 0 .. Len(drv.steps)
    PROVE  /\ After(drv, old, n) \in Hardware
           /\ ("start" \in old.done => "time" \in old.done) =>
                  ("start" \in After(drv, old, n).done => "time" \in After(drv, old, n).done)
           /\ n = Len(drv.steps) =>
                  /\ After(drv, old, n).ticks = drv.ticks
                  /\ Whole(drv) \subseteq After(drv, old, n).done
<1>1. PICK steps : steps = drv.steps
  OBVIOUS
<1> DEFINE done == UNION {steps[k].does : k \in 1 .. n}
<1>2. done \subseteq Effects
  BY <1>1 DEF Sound
<1>3. "start" \in done => "time" \in done
  BY <1>1 DEF Sound
<1>4. n = Len(drv.steps) => "time" \in done /\ done = Whole(drv)
  BY <1>1 DEF Sound, Whole
<1>5. old.done \subseteq Effects /\ old.ticks \in Nat
  BY DEF Hardware
<1>6. After(drv, old, n) = [done  |-> old.done \cup done,
                            ticks |-> IF "time" \in done THEN drv.ticks ELSE old.ticks]
  BY <1>1, Zenon DEF After
<1> HIDE DEF done
<1>7. After(drv, old, n).done = old.done \cup done
  BY <1>6
<1>8. After(drv, old, n) \in Hardware
  BY <1>2, <1>5, <1>6 DEF Hardware
<1>9. ASSUME n = Len(drv.steps)
      PROVE  /\ After(drv, old, n).ticks = drv.ticks
             /\ Whole(drv) \subseteq After(drv, old, n).done
  BY <1>4, <1>6, <1>7, <1>9
<1> QED BY <1>3, <1>7, <1>8, <1>9

(* The same for the driver and the device under the cursor. *)
LEMMA SameHere ==
    ASSUME machine' = machine, timeout' = timeout, index' = index,
           drivers' = drivers, next' = next
    PROVE  Init_of(drivers[next], machine.dev[index])'
               = Init_of(drivers[next], machine.dev[index])
<1>1. PICK dev, d : dev = machine.dev[index] /\ d = drivers[next]
  OBVIOUS
<1>2. machine.dev[index]' = dev /\ drivers[next]' = d
  BY <1>1
<1>3. Init_of(d, dev)' = Init_of(d, dev)
  BY SameDrivers
<1>4. Init_of(drivers[next], machine.dev[index])' = Init_of(d, dev)'
  BY <1>2
<1> QED BY <1>1, <1>3, <1>4, Zenon

(* So what it has found stays found, and can only become handled. *)
LEMMA SameFound ==
    ASSUME machine' = machine, timeout' = timeout
    PROVE  \A d, k : Handled(d, k)' <=> (Found(d, k) => d \in failed')
<1> TAKE d, k
<1>1. Init_of(d, machine.dev[k])' = Init_of(d, machine.dev[k])
  BY SameOn
<1>2. Found(d, k)' <=> Found(d, k)
  BY <1>1, Zenon DEF Found
<1> QED BY <1>2, Zenon DEF Handled

-----------------------------------------------------------------------------
(***************************************************************************)
(* A call of a driver's init, seen from the loop.  Either the driver had   *)
(* its chance on the device and the cursor moves on, or it has armed its   *)
(* timer and probing ends.                                                 *)
(***************************************************************************)
Leaves(d, h) ==
    /\ h \in Hardware /\ ("start" \in h.done => "time" \in h.done)
    /\ hw' = [hw EXCEPT ![d] = h]

MovesOn(d) ==
    /\ failed \subseteq failed' /\ failed' \subseteq failed \cup {d}
    /\ Found(d, index) => d \in failed'
    /\ status' \in {"EFI_UNSUPPORTED", "EFI_DEVICE_ERROR"}
    /\ \E h : Leaves(d, h)
    /\ Proceed

Arms(d) ==
    /\ pc' = "done" /\ status' = "EFI_SUCCESS"
    /\ \E h : /\ Leaves(d, h)
              /\ h.ticks = Init_of(d, machine.dev[index]).ticks
              /\ Whole(Init_of(d, machine.dev[index])) \subseteq h.done
    /\ UNCHANGED <<index, next, failed>>

(* A probe moves on to the next driver or arms the timer. *)
LEMMA Probing ==
    ASSUME WInv, Probe
    PROVE  LET d == Drivers[next]
           IN  /\ d \in DriverNames /\ next \in 1 .. 11
               /\ drivers = Drivers /\ timeout \in Nat /\ timeout > 0
               /\ index \in DOMAIN machine.dev
               /\ \/ probed' = probed
                  \/ probed' = probed \cup {d} /\ d \in Global
               /\ MovesOn(d) \/ Arms(d)
<1> DEFINE d == Drivers[next]
           drv == Init_of(d, machine.dev[index])
<1>1. /\ drivers = Drivers /\ next \in 1 .. 11 /\ timeout \in Nat /\ timeout > 0
      /\ index \in DOMAIN machine.dev /\ pc = "probe"
  BY Names, TicksAssumption DEF WInv, TypeOK, Setting, Cursor, Probe
<1>2. d \in DriverNames
  BY <1>1, Names
<1>3. Sound(drv.steps) /\ drv.ticks \in Nat
  BY <1>1, <1>2, DriversSound
<1>4. hw \in [DriverNames -> Hardware] /\ hw[d] \in Hardware
  BY <1>2 DEF WInv, TypeOK
<1>5. "start" \in hw[d].done => "time" \in hw[d].done
  BY <1>2 DEF WInv, NeverUntimed, Running
<1>6. Refuses(d) \/ Fails(d) \/ Succeeds(d)
  BY <1>1 DEF Probe
<1>7. Mark(d)
  BY <1>6 DEF Refuses, Fails, Succeeds
<1>8. probed' = probed \/ (probed' = probed \cup {d} /\ d \in Global)
  BY <1>2, <1>7, OnceGlobal DEF Mark
<1>9. MovesOn(d) \/ Arms(d)
  <2>1. CASE Refuses(d)
    <3>1. Found(d, index) => d \in failed
      <4>1. ~(drv.fits /\ ~(drv.once /\ d \in probed))
        BY <2>1 DEF Refuses, Applies
      <4>2. d \in probed => Handled(d, index)
        BY <1>1 DEF WInv, OnceTried
      <4> QED BY <4>1, <4>2 DEF Handled, Found
    <3>2. hw' = [hw EXCEPT ![d] = hw[d]]
      BY <1>4, <2>1 DEF Refuses
    <3>3. Leaves(d, hw[d])
      BY <1>4, <1>5, <3>2 DEF Leaves
    <3>4. MovesOn(d)
      BY <2>1, <3>1, <3>3 DEF Refuses, MovesOn
    <3> QED BY <3>4
  <2>2. CASE Fails(d)
    <3>1. PICK n \in DOMAIN drv.steps : \E m \in {n - 1, n} :
             hw' = [hw EXCEPT ![d] = After(drv, hw[d], m)]
      BY <2>2 DEF Fails
    <3>2. PICK m \in {n - 1, n} : hw' = [hw EXCEPT ![d] = After(drv, hw[d], m)]
      BY <3>1
    <3>3. m \in 0 .. Len(drv.steps)
      <4>1. PICK steps : steps = drv.steps
        OBVIOUS
      <4>2. Len(steps) \in Nat /\ n \in 1 .. Len(steps)
        BY <1>3, <3>1, <4>1 DEF Sound
      <4>3. m \in 0 .. Len(steps)
        BY <4>2, <3>2
      <4> QED BY <4>1, <4>3
    <3> HIDE DEF drv
    <3>4. Leaves(d, After(drv, hw[d], m))
      BY <1>3, <1>4, <1>5, <3>2, <3>3, AfterSound DEF Leaves
    <3>5. MovesOn(d)
      BY <2>2, <3>4 DEF Fails, MovesOn
    <3> QED BY <3>5
  <2>3. CASE Succeeds(d)
    <3>1. hw' = [hw EXCEPT ![d] = After(drv, hw[d], Len(drv.steps))]
      BY <2>3 DEF Succeeds
    <3>2. Len(drv.steps) \in 0 .. Len(drv.steps)
      BY <1>3 DEF Sound
    <3>3. PICK h : h = After(drv, hw[d], Len(drv.steps))
      OBVIOUS
    <3>4. Leaves(d, h) /\ h.ticks = drv.ticks /\ Whole(drv) \subseteq h.done
      <4> HIDE DEF drv
      <4> QED BY <1>3, <1>4, <1>5, <3>1, <3>2, <3>3, AfterSound DEF Leaves
    <3>5. Arms(d)
      BY <2>3, <3>4, Zenon DEF Succeeds, Return, Arms
    <3> QED BY <3>5
  <2> QED BY <1>6, <2>1, <2>2, <2>3
<1> QED BY <1>1, <1>2, <1>8, <1>9

(* How the cursor moves on: to the next driver, to the first driver of the *)
(* next device, or to the end.                                             *)
LEMMA Proceeding ==
    ASSUME WInv, pc = "probe", Proceed
    PROVE  /\ index' \in DOMAIN machine.dev /\ next' \in 1 .. 11
           /\ \/ next < 11 /\ next' = next + 1 /\ pc' = "probe" /\ index' = index
              \/ next = 11 /\ next' = 1 /\ pc' \in {"open", "done"}
<1>1. /\ drivers = Drivers /\ next \in 1 .. 11 /\ index \in DOMAIN machine.dev
  BY Names DEF WInv, TypeOK, Cursor
<1>2. machine.dev \in Seq(Devices)
  BY MachineAssumption DEF WInv, Setting, Machine
<1> QED BY <1>1, <1>2, Names DEF Proceed, NextDevice

(* The invariant holds before probing starts. *)
LEMMA WInvInit ==
    ASSUME Init
    PROVE  WInv
<1>1. \A d \in DriverNames : hw[d] = [done |-> {}, ticks |-> 0]
  BY DEF Init
<1>2. hw \in [DriverNames -> Hardware]
  <2>1. [done |-> {}, ticks |-> 0] \in Hardware
    BY DEF Hardware
  <2> QED BY <2>1 DEF Init
<1>3. \A d \in DriverNames : ~Running(d)
  BY <1>1 DEF Running
<1>4. TypeOK
  BY <1>2, Names DEF Init, TypeOK, Statuses
<1>5. Setting /\ Cursor /\ OnceTried /\ TriedHere /\ TriedBefore /\ Armed
  BY DEF Init, Setting, Cursor, OnceTried, TriedHere, TriedBefore, Armed
<1>6. NeverUntimed /\ PlatformTried
  BY <1>3, Names DEF NeverUntimed, PlatformTried
<1> QED BY <1>4, <1>5, <1>6 DEF WInv

(* The parts about the hardware depend on what is programmed and who has   *)
(* failed only.                                                            *)
LEMMA HardwareKept ==
    ASSUME WInv, machine' = machine, timeout' = timeout, hw' = hw, failed' = failed,
           index' \in DOMAIN machine.dev \cup {index}
    PROVE  NeverUntimed' /\ PlatformTried'
<1>1. NeverUntimed'
  BY DEF WInv, NeverUntimed, Running
<1>2. PlatformTried'
  BY SameFound DEF WInv, PlatformTried, Running, Handled
<1> QED BY <1>1, <1>2

(* The parts about the devices behind the cursor. *)
LEMMA PastKept ==
    ASSUME WInv, machine' = machine, timeout' = timeout, failed' = failed,
           probed' = probed, pc # "done", pc # "probe"
    PROVE  /\ pc' # "probe" => TriedHere'
           /\ OnceTried'
           /\ seen' = seen => TriedBefore'
<1>1. \A d, k : Handled(d, k)' <=> Handled(d, k)
  BY SameFound DEF Handled
<1> QED BY <1>1 DEF WInv, TriedHere, OnceTried, TriedBefore

(* Begin, OpenFails, ReadFails and ReadId keep the invariant. *)
LEMMA OutsideDrivers ==
    ASSUME WInv, Begin \/ OpenFails \/ ReadFails \/ ReadId
    PROVE  WInv'
<1>1. /\ machine' = machine /\ timeout' = timeout /\ drivers' = drivers
      /\ hw' = hw /\ failed' = failed /\ probed' = probed
      /\ pc \in {"start", "open"} /\ pc # "done" /\ pc # "probe" /\ next = 1
  BY DEF WInv, Cursor, Begin, OpenFails, ReadFails, ReadId
<1>2. machine.dev \in Seq(Devices)
  BY MachineAssumption DEF WInv, Setting, Machine
<1>3. pc = "open" => index \in DOMAIN machine.dev /\ drivers = Drivers /\ timeout > 0
  BY DEF WInv, Cursor
<1>4. Setting'
  BY <1>1 DEF WInv, Setting
<1>5. CASE Begin
  <2>1. index' = index /\ next' = 1 /\ seen' = seen
    BY <1>1, <1>5 DEF Begin
  <2>2. /\ pc' \in {"open", "done"} /\ status' \in Statuses
        /\ pc' = "open" => drivers = Drivers /\ timeout > 0 /\ machine.dev # << >>
        /\ pc' = "done" /\ status' = "EFI_SUCCESS" => timeout = 0
    BY <1>5 DEF Begin, Return, WInv, Setting, TypeOK, Statuses
  <2>3. pc' = "open" => index \in DOMAIN machine.dev
    BY <1>2, <2>2 DEF WInv, TypeOK
  <2>4. TypeOK'
    BY <1>1, <2>1, <2>2 DEF WInv, TypeOK
  <2>5. Cursor'
    BY <1>1, <2>1, <2>2, <2>3 DEF Cursor
  <2>6. NeverUntimed' /\ PlatformTried'
    BY <1>1, <2>1, HardwareKept
  <2>7. TriedHere' /\ OnceTried' /\ TriedBefore'
    BY <1>1, <2>1, <2>2, PastKept
  <2>8. Armed'
    BY <1>1, <2>2 DEF Armed
  <2> QED BY <1>4, <2>4, <2>5, <2>6, <2>7, <2>8 DEF WInv
<1>6. CASE OpenFails
  <2>1. /\ index' = index /\ next' = 1 /\ seen' = seen
        /\ pc' = "done" /\ status' = "EFI_ACCESS_DENIED"
    BY <1>1, <1>6 DEF OpenFails, Return
  <2>4. TypeOK'
    BY <1>1, <2>1 DEF WInv, TypeOK, Statuses
  <2>5. Cursor' /\ Armed'
    BY <2>1 DEF Cursor, Armed
  <2>6. NeverUntimed' /\ PlatformTried'
    BY <1>1, <2>1, HardwareKept
  <2>7. TriedHere' /\ OnceTried' /\ TriedBefore'
    BY <1>1, <2>1, PastKept
  <2> QED BY <1>4, <2>4, <2>5, <2>6, <2>7 DEF WInv
<1>7. CASE ReadFails
  <2>1. /\ index' \in DOMAIN machine.dev /\ next' = 1 /\ seen' = seen
        /\ pc' \in {"open", "done"} /\ status' = "EFI_DEVICE_ERROR" /\ pc = "open"
    BY <1>1, <1>2, <1>3, <1>7 DEF ReadFails, NextDevice
  <2>4. TypeOK'
    BY <1>1, <2>1, Names DEF WInv, TypeOK, Statuses
  <2>5. Cursor' /\ Armed'
    BY <1>1, <1>3, <2>1 DEF Cursor, Armed
  <2>6. NeverUntimed' /\ PlatformTried'
    BY <1>1, <2>1, HardwareKept
  <2>7. TriedHere' /\ OnceTried' /\ TriedBefore'
    BY <1>1, <2>1, PastKept
  <2> QED BY <1>4, <2>4, <2>5, <2>6, <2>7 DEF WInv
<1>8. CASE ReadId
  <2>1. /\ index' = index /\ next' = 1 /\ seen' = seen \cup {index}
        /\ pc' = "probe" /\ status' = "EFI_SUCCESS" /\ pc = "open"
    BY <1>1, <1>8 DEF ReadId
  <2>4. TypeOK'
    BY <1>1, <1>3, <2>1, Names DEF WInv, TypeOK, Statuses
  <2>5. Cursor' /\ Armed'
    BY <1>1, <1>3, <2>1 DEF Cursor, Armed
  <2>6. NeverUntimed' /\ PlatformTried'
    BY <1>1, <2>1, HardwareKept
  <2>7. OnceTried'
    BY <1>1, PastKept
  <2>8. TriedHere'
    BY <2>1 DEF TriedHere
  <2>9. TriedBefore'
    <3>1. \A d, k : Handled(d, k)' <=> Handled(d, k)
      BY <1>1, SameFound DEF Handled
    <3>2. \A k \in seen, d \in DriverNames : Handled(d, k)
      BY <1>1 DEF WInv, TriedBefore
    <3> QED BY <2>1, <3>1, <3>2 DEF TriedBefore
  <2> QED BY <1>4, <2>4, <2>5, <2>6, <2>7, <2>8, <2>9 DEF WInv
<1> QED BY <1>5, <1>6, <1>7, <1>8

(* The TCO driver is the ninth; the drivers for the machine are before it. *)
LEMMA TcoAfterPlatform ==
    /\ \A n \in 1 .. 11 : Drivers[n] = "itco" => n = 9
    /\ \A d \in {"wdat", "ipcbx21a", "ipmi"} : \E m \in 1 .. 8 : Drivers[m] = d
<1>1. \A n \in 1 .. 11 : Drivers[n] = "itco" => n = 9
  BY DEF Drivers
<1>2. Drivers[1] = "wdat" /\ Drivers[5] = "ipcbx21a" /\ Drivers[8] = "ipmi"
  BY DEF Drivers
<1> QED BY <1>1, <1>2

(* A driver that may start the TCO's timer finds the platform's tried, and *)
(* no other driver touches that timer.                                     *)
LEMMA PlatformKept ==
    ASSUME WInv, pc = "probe", machine' = machine, timeout' = timeout,
           next \in 1 .. 11, index \in DOMAIN machine.dev, index' \in DOMAIN machine.dev,
           failed \subseteq failed', DOMAIN hw = DriverNames,
           NEW h, hw' = [hw EXCEPT ![Drivers[next]] = h]
    PROVE  PlatformTried'
<1> SUFFICES ASSUME Running("itco")'
             PROVE  PlatformTried'
  BY DEF PlatformTried
<1>1. \A d \in {"wdat", "ipcbx21a", "ipmi"}, k \in DOMAIN machine.dev : Handled(d, k)
  <2>1. CASE Drivers[next] = "itco"
    <3> SUFFICES ASSUME NEW d \in {"wdat", "ipcbx21a", "ipmi"}, NEW k \in DOMAIN machine.dev
                 PROVE  Handled(d, k)
      OBVIOUS
    <3>1. PICK m \in 1 .. 8 : Drivers[m] = d
      BY TcoAfterPlatform
    <3>2. next = 9
      BY <2>1, TcoAfterPlatform
    <3>3. Handled(d, index)
      BY <3>1, <3>2 DEF WInv, TriedHere
    <3>4. Init_of(d, machine.dev[k]) = Init_of(d, machine.dev[index])
      BY GlobalFits DEF Global
    <3> QED BY <3>3, <3>4, Zenon DEF Handled, Found
  <2>2. CASE Drivers[next] # "itco"
    <3>1. Running("itco")
      <4>1. "itco" \in DriverNames
        BY Names
      <4>2. hw'["itco"] = hw["itco"]
        BY <2>2, <4>1
      <4> QED BY <4>2 DEF Running
    <3> QED BY <3>1 DEF WInv, PlatformTried
  <2> QED BY <2>1, <2>2
<1>2. \A d \in {"wdat", "ipcbx21a", "ipmi"}, k \in DOMAIN machine.dev : Handled(d, k)'
  BY <1>1, SameFound DEF Handled
<1> QED BY <1>2 DEF PlatformTried

(* A driver's call keeps the invariant. *)
LEMMA CallKeeps ==
    ASSUME WInv, Probe
    PROVE  WInv'
<1>0. PICK d : d = Drivers[next]
  OBVIOUS
<1>1. /\ d \in DriverNames /\ next \in 1 .. 11
      /\ drivers = Drivers /\ timeout \in Nat /\ timeout > 0
      /\ index \in DOMAIN machine.dev
      /\ probed' = probed \/ (probed' = probed \cup {d} /\ d \in Global)
  BY <1>0, Probing
<1>2. /\ machine' = machine /\ timeout' = timeout /\ drivers' = drivers /\ seen' = seen
      /\ pc = "probe"
  BY DEF Probe
<1>3. Setting'
  BY <1>2 DEF WInv, Setting
<1>4. hw \in [DriverNames -> Hardware] /\ DOMAIN hw = DriverNames
  BY DEF WInv, TypeOK
<1>5. probed' \subseteq DriverNames
  BY <1>1 DEF WInv, TypeOK
<1>6. CASE MovesOn(d)
  <2>1. PICK h : Leaves(d, h)
    BY <1>6 DEF MovesOn
  <2>2. /\ failed \subseteq failed' /\ failed' \subseteq failed \cup {d}
        /\ Found(d, index) => d \in failed'
        /\ status' \in {"EFI_UNSUPPORTED", "EFI_DEVICE_ERROR"}
    BY <1>6 DEF MovesOn
  <2>3. /\ index' \in DOMAIN machine.dev /\ next' \in 1 .. 11
        /\ \/ next < 11 /\ next' = next + 1 /\ pc' = "probe" /\ index' = index
           \/ next = 11 /\ next' = 1 /\ pc' \in {"open", "done"}
    BY <1>2, <1>6, Proceeding DEF MovesOn
  <2>4. \A e, k : Handled(e, k)' <=> (Found(e, k) => e \in failed')
    BY <1>2, SameFound
  <2>5. \A e, k : Handled(e, k) => Handled(e, k)'
    <3> SUFFICES ASSUME NEW e, NEW k, Handled(e, k)
                 PROVE  Handled(e, k)'
      OBVIOUS
    <3>1. Found(e, k) => e \in failed
      BY Zenon DEF Handled
    <3> QED BY <2>2, <2>4, <3>1
  <2>6. \A k \in {index} : Handled(d, k)'
    BY <2>2, <2>4
  <2>7. TypeOK'
    <3>1. hw' \in [DriverNames -> Hardware]
      BY <1>1, <1>4, <2>1 DEF Leaves
    <3> QED BY <1>1, <1>2, <1>5, <2>2, <2>3, <3>1, Names DEF WInv, TypeOK, Statuses
  <2>8. Cursor'
    BY <1>1, <1>2, <2>3 DEF Cursor
  <2>9. OnceTried'
    <3> SUFFICES ASSUME NEW e \in probed' PROVE
                        e \in Global /\ \A k \in DOMAIN machine.dev : Handled(e, k)'
      BY <1>2 DEF OnceTried
    <3>1. CASE e \in probed
      BY <1>2, <2>5, <3>1 DEF WInv, OnceTried
    <3>2. CASE e = d /\ d \in Global
      <4>1. \A k \in DOMAIN machine.dev : Found(d, k) => Found(d, index)
        <5> TAKE k \in DOMAIN machine.dev
        <5>1. Init_of(d, machine.dev[k]) = Init_of(d, machine.dev[index])
          BY <3>2, GlobalFits
        <5> QED BY <5>1, Zenon DEF Found
      <4> QED BY <2>2, <2>4, <3>2, <4>1
    <3> QED BY <1>1, <3>1, <3>2
  <2>10. TriedHere'
    <3> SUFFICES ASSUME pc' = "probe", NEW k \in {index'}, NEW m \in 1 .. (next' - 1)
                 PROVE  Handled(Drivers[m], k)'
      BY DEF TriedHere
    <3>1. k = index /\ m \in 1 .. next
      BY <1>1, <2>3
    <3>2. CASE m = next
      <4>1. Drivers[m] = d
        BY <1>0, <3>2
      <4> QED BY <2>6, <3>1, <4>1, Zenon
    <3>3. CASE m # next
      <4>1. Handled(Drivers[m], k)
        BY <1>1, <1>2, <3>1, <3>3 DEF WInv, TriedHere
      <4> QED BY <2>5, <4>1
    <3> QED BY <3>2, <3>3
  <2>11. TriedBefore'
    <3> SUFFICES ASSUME NEW k \in seen, pc' = "probe" => k # index', NEW e \in DriverNames
                 PROVE  Handled(e, k)'
      BY <1>2 DEF TriedBefore
    <3>1. CASE k # index
      BY <1>2, <2>5, <3>1 DEF WInv, TriedBefore
    <3>2. CASE k = index
      <4>1. next = 11
        BY <2>3, <3>2
      <4>2. PICK m \in 1 .. 11 : e = Drivers[m]
        BY Names DEF DriverNames, Drivers
      <4>3. CASE m = 11
        <5>1. e = d
          BY <1>0, <4>1, <4>2, <4>3
        <5> QED BY <2>6, <3>2, <5>1, Zenon
      <4>4. CASE m # 11
        <5>1. Handled(Drivers[m], k)
          BY <1>2, <3>2, <4>1, <4>4 DEF WInv, TriedHere
        <5> QED BY <2>5, <4>2, <5>1
      <4> QED BY <4>3, <4>4
    <3> QED BY <3>1, <3>2
  <2>12. Armed'
    BY <2>2 DEF Armed
  <2>13. NeverUntimed'
    BY <1>1, <1>4, <2>1 DEF WInv, NeverUntimed, Running, Leaves
  <2>14. PlatformTried'
    <3>1. hw' = [hw EXCEPT ![Drivers[next]] = h]
      BY <1>0, <2>1 DEF Leaves
    <3> QED BY <1>1, <1>2, <1>4, <2>2, <2>3, <3>1, PlatformKept
  <2> QED BY <1>3, <2>7, <2>8, <2>9, <2>10, <2>11, <2>12, <2>13, <2>14 DEF WInv
<1>7. CASE Arms(d)
  <2>0. PICK h : /\ Leaves(d, h)
                 /\ h.ticks = Init_of(d, machine.dev[index]).ticks
                 /\ Whole(Init_of(d, machine.dev[index])) \subseteq h.done
    BY <1>7 DEF Arms
  <2>1. /\ pc' = "done" /\ status' = "EFI_SUCCESS" /\ hw' = [hw EXCEPT ![d] = h]
        /\ index' = index /\ next' = next /\ failed' = failed
    BY <1>7, <2>0 DEF Arms, Leaves
  <2>2. PICK drv : drv = Init_of(d, machine.dev[index])
    OBVIOUS
  <2>3. Init_of(drivers[next], machine.dev[index])' = drv
    BY <1>0, <1>1, <1>2, <2>1, <2>2, SameHere
  <2>4. h \in Hardware /\ ("start" \in h.done => "time" \in h.done)
    BY <2>0 DEF Leaves
  <2>5. /\ (Init_of(drivers[next], machine.dev[index]).ticks)' = drv.ticks
        /\ Whole(Init_of(drivers[next], machine.dev[index]))' = Whole(drv)
    BY <2>3, Zenon DEF Whole
  <2>6. Armed'
    <3>1. (drivers[next])' = d
      BY <1>0, <1>1, <1>2, <2>1
    <3>2. hw'[d] = h
      BY <1>1, <1>4, <2>1
    <3> QED BY <1>1, <1>2, <2>0, <2>1, <2>2, <2>5, <3>1, <3>2 DEF Armed
  <2>7. TypeOK'
    <3>1. hw' \in [DriverNames -> Hardware]
      BY <1>1, <1>4, <2>1, <2>4
    <3> QED BY <1>1, <1>2, <1>5, <2>1, <3>1, Names DEF WInv, TypeOK, Statuses
  <2>8. Cursor' /\ OnceTried' /\ TriedHere' /\ TriedBefore'
    BY <2>1 DEF Cursor, OnceTried, TriedHere, TriedBefore
  <2>9. NeverUntimed'
    BY <1>1, <1>4, <2>1, <2>4 DEF WInv, NeverUntimed, Running
  <2>10. PlatformTried'
    <3>1. hw' = [hw EXCEPT ![Drivers[next]] = h]
      BY <1>0, <2>1
    <3> QED BY <1>1, <1>2, <1>4, <2>1, <3>1, PlatformKept
  <2> QED BY <1>3, <2>6, <2>7, <2>8, <2>9, <2>10 DEF WInv
<1>8. MovesOn(d) \/ Arms(d)
  BY <1>0, Probing
<1> QED BY <1>6, <1>7, <1>8

-----------------------------------------------------------------------------
(* The WDAT timer: a count that its register can hold loses less than one  *)
(* tick of the timeout.                                                    *)
LEMMA WdatTime ==
    ASSUME timeout \in Nat, WdatPeriod <= 3000,
           timeout <= ((WdatRange - 1) * WdatPeriod) \div 1000
    PROVE  ((((timeout * 1000) \div WdatPeriod) % WdatRange) * WdatPeriod) \div 1000
               >= timeout - 3
<1>0. PICK t \in Nat, P \in Nat \ {0}, R \in Nat \ {0} :
         t = timeout /\ P = WdatPeriod /\ R = WdatRange
  BY TicksAssumption
<1>00. P <= 3000 /\ t <= ((R - 1) * P) \div 1000
  BY <1>0
<1> DEFINE q == (t * 1000) \div P
           top == (R - 1) * P
<1>1. q \in Nat /\ q * P <= t * 1000 /\ t * 1000 < q * P + P
  OBVIOUS
<1>2. top \in Nat
  OBVIOUS
<1>3. t * 1000 <= top
  <2>1. t <= top \div 1000
    BY <1>00
  <2> HIDE DEF top
  <2> QED BY <1>2, <2>1
<1>4. q * P <= (R - 1) * P
  BY <1>1, <1>3
<1> HIDE DEF q, top
<1>5. q <= R - 1
  <2> SUFFICES ASSUME q >= R PROVE FALSE
    BY <1>1
  <2>1. q * P >= R * P
    BY <1>1
  <2>2. (R - 1) * P = R * P - P
    OBVIOUS
  <2>3. q * P \in Nat /\ R * P \in Nat
    BY <1>1
  <2> QED BY <1>4, <2>1, <2>2, <2>3
<1>6. q % R = q
  BY <1>1, <1>5
<1>7. (q * P) \div 1000 >= t - 3
  <2> DEFINE n == q * P
  <2>1. n \in Nat /\ t * 1000 < n + P
    BY <1>1
  <2> HIDE DEF n
  <2>2. n \div 1000 >= t - 3
    BY <1>00, <2>1
  <2> QED BY <2>2 DEF n
<1>8. (q % R) * P = q * P
  BY <1>6
<1>9. ((((t * 1000) \div P) % R) * P) \div 1000 >= t - 3
  BY <1>7, <1>8 DEF q
<1> QED BY <1>0, <1>9

(* The scaler of the IPC4x7E: the time selected is not below the timeout. *)
LEMMA ScalerTime ==
    ASSUME timeout \in Nat, timeout <= 64
    PROVE  \E m \in 1 .. 8 :
               /\ m = Cardinality({n \in 1 .. 7 : timeout > ScalerSeconds[n]}) + 1
               /\ ScalerSeconds[m] \in Nat /\ ScalerSeconds[m] >= timeout
<1> DEFINE above == {n \in 1 .. 7 : timeout > ScalerSeconds[n]}
<1>1. \E m \in 0 .. 7 : /\ above = 1 .. m /\ ScalerSeconds[m + 1] \in Nat
                         /\ ScalerSeconds[m + 1] >= timeout
  <2>0. /\ ScalerSeconds[1] = 2 /\ ScalerSeconds[2] = 4 /\ ScalerSeconds[3] = 6
        /\ ScalerSeconds[4] = 8 /\ ScalerSeconds[5] = 16 /\ ScalerSeconds[6] = 32
        /\ ScalerSeconds[7] = 48 /\ ScalerSeconds[8] = 64
    BY DEF ScalerSeconds
  <2>00. \A n \in 1 .. 7 : n \in {1, 2, 3, 4, 5, 6, 7}
    OBVIOUS
  <2>1. CASE timeout <= 2
    <3>1. above = 1 .. 0
      BY <2>0, <2>00, <2>1
    <3> QED BY <2>0, <2>1, <3>1
  <2>2. CASE 2 < timeout /\ timeout <= 4
    <3>1. above = 1 .. 1
      BY <2>0, <2>00, <2>2
    <3> QED BY <2>0, <2>2, <3>1
  <2>3. CASE 4 < timeout /\ timeout <= 6
    <3>1. above = 1 .. 2
      BY <2>0, <2>00, <2>3
    <3> QED BY <2>0, <2>3, <3>1
  <2>4. CASE 6 < timeout /\ timeout <= 8
    <3>1. above = 1 .. 3
      BY <2>0, <2>00, <2>4
    <3> QED BY <2>0, <2>4, <3>1
  <2>5. CASE 8 < timeout /\ timeout <= 16
    <3>1. above = 1 .. 4
      BY <2>0, <2>00, <2>5
    <3> QED BY <2>0, <2>5, <3>1
  <2>6. CASE 16 < timeout /\ timeout <= 32
    <3>1. above = 1 .. 5
      BY <2>0, <2>00, <2>6
    <3> QED BY <2>0, <2>6, <3>1
  <2>7. CASE 32 < timeout /\ timeout <= 48
    <3>1. above = 1 .. 6
      BY <2>0, <2>00, <2>7
    <3> QED BY <2>0, <2>7, <3>1
  <2>8. CASE 48 < timeout /\ timeout <= 64
    <3>1. above = 1 .. 7
      BY <2>0, <2>00, <2>8
    <3> QED BY <2>0, <2>8, <3>1
  <2> QED BY <2>1, <2>2, <2>3, <2>4, <2>5, <2>6, <2>7, <2>8
<1> HIDE DEF above
<1>2. PICK m \in 0 .. 7 : /\ above = 1 .. m /\ ScalerSeconds[m + 1] \in Nat
                         /\ ScalerSeconds[m + 1] >= timeout
  BY <1>1
<1>3. Cardinality(1 .. m) = m
  <2>1. \A a, b \in Int : Cardinality(a .. b) = IF a > b THEN 0 ELSE b - a + 1
    BY FS_Interval
  <2>2. 1 \in Int /\ m \in Int
    OBVIOUS
  <2>3. Cardinality(1 .. m) = IF 1 > m THEN 0 ELSE m - 1 + 1
    BY <2>1, <2>2, Zenon
  <2>4. (IF 1 > m THEN 0 ELSE m - 1 + 1) = m
    OBVIOUS
  <2> QED BY <2>3, <2>4
<1>4. Cardinality(above) = m
  BY <1>2, <1>3, Zenon
<1>5. m + 1 \in 1 .. 8 /\ m + 1 = Cardinality(above) + 1
  BY <1>2, <1>4
<1> QED BY <1>2, <1>5 DEF above

(* The count every driver writes runs for the timeout, less the slack, as  *)
(* long as the driver can count that far.                                  *)
LEMMA TicksEnough ==
    ASSUME timeout \in Nat, 0 < timeout, WdatPeriod <= 1000 * Slack,
           NEW d \in DriverNames, NEW dev, timeout <= Longest(d, dev)
    PROVE  Expires(d, dev, Init_of(d, dev).ticks) >= timeout - Slack
<1>1. CASE d = "wdat"
  <2>1. wdat(dev).ticks = ((timeout * 1000) \div WdatPeriod) % WdatRange
    BY SMT DEF wdat, Driver
  <2>2. Init_of(d, dev) = wdat(dev)
    BY <1>1, Zenon DEF Init_of
  <2>3. timeout <= ((WdatRange - 1) * WdatPeriod) \div 1000
    BY <1>1, SMT DEF Longest
  <2>4. \A n : Expires(d, dev, n) = (n * WdatPeriod) \div 1000
    BY <1>1, SMT DEF Expires
  <2> DEFINE n == ((timeout * 1000) \div WdatPeriod) % WdatRange
  <2>5. (n * WdatPeriod) \div 1000 >= timeout - 3
    BY <2>3, WdatTime DEF Slack
  <2> HIDE DEF n
  <2>6. Init_of(d, dev).ticks = n
    BY <2>1, <2>2, SMT DEF n
  <2> QED BY <2>4, <2>5, <2>6 DEF Slack
<1>2. CASE d = "amdfch"
  <2>1. amdfch(dev).ticks = Clamp(timeout, 1, AMDFCH_WDT_MAX_TIMEOUT)
    BY SMT DEF amdfch, Driver
  <2>2. Init_of(d, dev) = amdfch(dev)
    BY <1>2, Zenon DEF Init_of
  <2>3. timeout <= 65535
    BY <1>2, SMT DEF Longest
  <2>4. \A n : Expires(d, dev, n) = n
    BY <1>2, SMT DEF Expires
  <2> DEFINE n == Clamp(timeout, 1, AMDFCH_WDT_MAX_TIMEOUT)
  <2>5. (n) >= timeout - 3
    BY <2>3, SMT DEF Clamp, AMDFCH_WDT_MAX_TIMEOUT
  <2> HIDE DEF n
  <2>6. Init_of(d, dev).ticks = n
    BY <2>1, <2>2, SMT DEF n
  <2> QED BY <2>4, <2>5, <2>6 DEF Slack
<1>3. CASE d = "i6300esb"
  <2>1. i6300esb(dev).ticks = NanoTicks
    BY SMT DEF i6300esb, Driver
  <2>2. Init_of(d, dev) = i6300esb(dev)
    BY <1>3, Zenon DEF Init_of
  <2>3. timeout <= 65535
    BY <1>3, SMT DEF Longest
  <2>4. \A n : Expires(d, dev, n) = (n \div 390625) * 384 + ((n % 390625) * 384) \div 390625
    BY <1>3, SMT DEF Expires
  <2> DEFINE n == NanoTicks
  <2>5. ((n \div 390625) * 384 + ((n % 390625) * 384) \div 390625) >= timeout - 3
    BY <2>3, SMT DEF NanoTicks
  <2> HIDE DEF n
  <2>6. Init_of(d, dev).ticks = n
    BY <2>1, <2>2, SMT DEF n
  <2> QED BY <2>4, <2>5, <2>6 DEF Slack
<1>4. CASE d = "atom_quark"
  <2>1. atom_quark(dev).ticks = NanoTicks % 2^24
    BY SMT DEF atom_quark, Driver
  <2>2. Init_of(d, dev) = atom_quark(dev)
    BY <1>4, Zenon DEF Init_of
  <2>3. timeout <= 16492
    BY <1>4, SMT DEF Longest
  <2>4. \A n : Expires(d, dev, n) = (n \div 390625) * 384 + ((n % 390625) * 384) \div 390625
    BY <1>4, SMT DEF Expires
  <2> DEFINE n == NanoTicks % 2^24
  <2>5. ((n \div 390625) * 384 + ((n % 390625) * 384) \div 390625) >= timeout - 3
    BY <2>3, SMT DEF NanoTicks
  <2> HIDE DEF n
  <2>6. Init_of(d, dev).ticks = n
    BY <2>1, <2>2, SMT DEF n
  <2> QED BY <2>4, <2>5, <2>6 DEF Slack
<1>5. CASE d = "ipcbx21a"
  <2>1. ipcbx21a(dev).ticks = (IF timeout > 1024 THEN 60 ELSE timeout) - 1
    BY SMT DEF ipcbx21a, Driver
  <2>2. Init_of(d, dev) = ipcbx21a(dev)
    BY <1>5, Zenon DEF Init_of
  <2>3. timeout <= 1024
    BY <1>5, SMT DEF Longest
  <2>4. \A n : Expires(d, dev, n) = n + 1
    BY <1>5, SMT DEF Expires
  <2> DEFINE n == (IF timeout > 1024 THEN 60 ELSE timeout) - 1
  <2>5. (n + 1) >= timeout - 3
    BY <2>3, SMT
  <2> HIDE DEF n
  <2>6. Init_of(d, dev).ticks = n
    BY <2>1, <2>2, SMT DEF n
  <2> QED BY <2>4, <2>5, <2>6 DEF Slack
<1>6. CASE d = "ipc4x7e"
  <2>1. ipc4x7e(dev).ticks = Cardinality({n \in 1 .. 7 : timeout > ScalerSeconds[n]})
    BY SMT DEF ipc4x7e, Driver
  <2>2. Init_of(d, dev) = ipc4x7e(dev)
    BY <1>6, Zenon DEF Init_of
  <2>3. timeout <= 64
    BY <1>6, SMT DEF Longest
  <2>4. \A n : Expires(d, dev, n) = ScalerSeconds[n + 1]
    BY <1>6, SMT DEF Expires
  <2> DEFINE n == Cardinality({m \in 1 .. 7 : timeout > ScalerSeconds[m]})
  <2>5. ScalerSeconds[n + 1] >= timeout - 3
    <3>1. PICK m \in 1 .. 8 : m = n + 1 /\ ScalerSeconds[m] \in Nat /\ ScalerSeconds[m] >= timeout
      BY <2>3, ScalerTime
    <3> HIDE DEF n
    <3> QED BY <3>1
  <2> HIDE DEF n
  <2>6. Init_of(d, dev).ticks = n
    BY <2>1, <2>2, SMT DEF n
  <2> QED BY <2>4, <2>5, <2>6 DEF Slack
<1>7. CASE d = "w83627hf"
  <2>1. w83627hf(dev).ticks = timeout % 256
    BY SMT DEF w83627hf, Driver
  <2>2. Init_of(d, dev) = w83627hf(dev)
    BY <1>7, Zenon DEF Init_of
  <2>3. timeout <= 255
    BY <1>7, SMT DEF Longest
  <2>4. \A n : Expires(d, dev, n) = n
    BY <1>7, SMT DEF Expires
  <2> DEFINE n == timeout % 256
  <2>5. (n) >= timeout - 3
    BY <2>3, SMT
  <2> HIDE DEF n
  <2>6. Init_of(d, dev).ticks = n
    BY <2>1, <2>2, SMT DEF n
  <2> QED BY <2>4, <2>5, <2>6 DEF Slack
<1>8. CASE d = "ipmi"
  <2>1. ipmi(dev).ticks = (timeout * 10) % 2^16
    BY SMT DEF ipmi, Driver
  <2>2. Init_of(d, dev) = ipmi(dev)
    BY <1>8, Zenon DEF Init_of
  <2>3. timeout <= 6553
    BY <1>8, SMT DEF Longest
  <2>4. \A n : Expires(d, dev, n) = n \div 10
    BY <1>8, SMT DEF Expires
  <2> DEFINE n == (timeout * 10) % 2^16
  <2>5. (n \div 10) >= timeout - 3
    BY <2>3, SMT
  <2> HIDE DEF n
  <2>6. Init_of(d, dev).ticks = n
    BY <2>1, <2>2, SMT DEF n
  <2> QED BY <2>4, <2>5, <2>6 DEF Slack
<1>9. CASE d = "itco"
  <2>1. itco(dev).ticks
          = get_timeout_value(dev, IF Halved(dev) THEN timeout \div 2 ELSE timeout) % 2^10
    BY SMT DEF itco, Driver
  <2>2. Init_of(d, dev) = itco(dev)
    BY <1>9, Zenon DEF Init_of
  <2>3. timeout <= CASE dev = "tco_v3" -> IF Halved(dev) THEN 2047 ELSE 1023
                              [] OTHER          -> IF Halved(dev) THEN 1229 ELSE 614
    BY <1>9, SMT DEF Longest
  <2>4. \A n : Expires(d, dev, n) = LET once == IF dev = "tco_v3" THEN n * 10 ELSE n * 6
                          IN  (IF Halved(dev) THEN 2 * once ELSE once) \div 10
    BY <1>9, SMT DEF Expires
  <2> DEFINE n == get_timeout_value(dev, IF Halved(dev) THEN timeout \div 2 ELSE timeout) % 2^10
  <2>5. (LET once == IF dev = "tco_v3" THEN n * 10 ELSE n * 6
                          IN  (IF Halved(dev) THEN 2 * once ELSE once) \div 10) >= timeout - 3
    BY <2>3, SMT DEF get_timeout_value
  <2> HIDE DEF n
  <2>6. Init_of(d, dev).ticks = n
    BY <2>1, <2>2, SMT DEF n
  <2> QED BY <2>4, <2>5, <2>6 DEF Slack
<1>10. CASE d = "hpwdt"
  <2>1. hpwdt(dev).ticks = ((timeout * 1000) \div 128) % 2^16
    BY SMT DEF hpwdt, Driver
  <2>2. Init_of(d, dev) = hpwdt(dev)
    BY <1>10, Zenon DEF Init_of
  <2>3. timeout <= 8388
    BY <1>10, SMT DEF Longest
  <2>4. \A n : Expires(d, dev, n) = (n * 128) \div 1000
    BY <1>10, SMT DEF Expires
  <2> DEFINE n == ((timeout * 1000) \div 128) % 2^16
  <2>5. ((n * 128) \div 1000) >= timeout - 3
    BY <2>3, SMT
  <2> HIDE DEF n
  <2>6. Init_of(d, dev).ticks = n
    BY <2>1, <2>2, SMT DEF n
  <2> QED BY <2>4, <2>5, <2>6 DEF Slack
<1>11. CASE d = "eiois200"
  <2>1. eiois200(dev).ticks = Clamp(timeout * 1000, 1000, PMC_WDT_MAX_TIMEOUT_MS)
    BY SMT DEF eiois200, Driver
  <2>2. Init_of(d, dev) = eiois200(dev)
    BY <1>11, Zenon DEF Init_of
  <2>3. timeout <= 32767
    BY <1>11, SMT DEF Longest
  <2>4. \A n : Expires(d, dev, n) = n \div 1000
    BY <1>11, SMT DEF Expires
  <2> DEFINE n == Clamp(timeout * 1000, 1000, PMC_WDT_MAX_TIMEOUT_MS)
  <2>5. (n \div 1000) >= timeout - 3
    BY <2>3, SMT DEF Clamp, PMC_WDT_MAX_TIMEOUT_MS
  <2> HIDE DEF n
  <2>6. Init_of(d, dev).ticks = n
    BY <2>1, <2>2, SMT DEF n
  <2> QED BY <2>4, <2>5, <2>6 DEF Slack
<1> QED BY Names, <1>1, <1>2, <1>3, <1>4, <1>5, <1>6, <1>7, <1>8, <1>9, <1>10, <1>11, Zenon

-----------------------------------------------------------------------------
(* No step of probe_watchdogs leaves the invariant, for any list of PCI    *)
(* devices of any length.                                                  *)
THEOREM WatchdogInvariance == Spec => []WInv
<1>1. Init => WInv
  BY WInvInit
<1>2. WInv /\ [Next]_vars => WInv'
  <2> SUFFICES ASSUME WInv, [Next]_vars PROVE WInv'
    OBVIOUS
  <2>1. CASE Begin \/ OpenFails \/ ReadFails \/ ReadId
    BY <2>1, OutsideDrivers
  <2>2. CASE Probe
    BY <2>2, CallKeeps
  <2>3. CASE UNCHANGED vars
    <3>1. /\ machine' = machine /\ timeout' = timeout /\ drivers' = drivers /\ pc' = pc
          /\ index' = index /\ next' = next /\ probed' = probed /\ status' = status
          /\ hw' = hw /\ seen' = seen /\ failed' = failed
      BY <2>3 DEF vars
    <3>2. \A d, k : Handled(d, k)' <=> Handled(d, k)
      BY <3>1, SameFound DEF Handled
    <3>3. TypeOK' /\ Setting' /\ Cursor'
      BY <3>1 DEF WInv, TypeOK, Setting, Cursor
    <3>4. OnceTried' /\ TriedHere' /\ TriedBefore'
      BY <3>1, <3>2 DEF WInv, OnceTried, TriedHere, TriedBefore
    <3>5. NeverUntimed' /\ PlatformTried'
      BY <3>1, HardwareKept
    <3>6. Armed'
      <4>1. Init_of(drivers[next], machine.dev[index])'
              = Init_of(drivers[next], machine.dev[index])
        BY <3>1, SameHere
      <4>2. (Init_of(drivers[next], machine.dev[index]).ticks)'
              = Init_of(drivers[next], machine.dev[index]).ticks
        BY <4>1, Zenon
      <4>3. Whole(Init_of(drivers[next], machine.dev[index]))'
              = Whole(Init_of(drivers[next], machine.dev[index]))
        BY <4>1, Zenon DEF Whole
      <4> QED BY <3>1, <4>2, <4>3 DEF WInv, Armed
    <3> QED BY <3>3, <3>4, <3>5, <3>6 DEF WInv
  <2> QED BY <2>1, <2>2, <2>3 DEF Next
<1> QED BY <1>1, <1>2, PTL DEF Spec

(* The cursor of probe_watchdogs over devices and drivers stays inside     *)
(* both lists.                                                             *)
THEOREM WatchdogTypes == Spec => []TypeOK
<1>1. WInv => TypeOK
  BY DEF WInv
<1> QED BY <1>1, WatchdogInvariance, PTL

(* Success of probe_watchdogs for a non-zero timeout means that the timer  *)
(* of the driver that ended it has its time, resets the machine and runs;  *)
(* the exceptions are a timeout whose low bits switch the counter off, and *)
(* a WDAT without a SET_REBOOT the driver can run.                         *)
THEOREM Success == Spec => []SuccessMeansArmed
<1>1. WInv => SuccessMeansArmed
  <2> SUFFICES ASSUME WInv, pc = "done", status = "EFI_SUCCESS", timeout > 0
               PROVE  \/ hw[drivers[next]].done = Effects
                      \/ /\ timeout > Longest(drivers[next], machine.dev[index])
                         /\ hw[drivers[next]].ticks = 0
                      \/ /\ drivers[next] = "wdat" /\ "REBOOT" \notin machine.tables
                         /\ hw[drivers[next]].done = Effects \ {"reset"}
    BY DEF SuccessMeansArmed
  <2>1. PICK d, dev : d = drivers[next] /\ dev = machine.dev[index]
    OBVIOUS
  <2>2. d \in DriverNames
    BY <2>1, Names DEF WInv, TypeOK, Armed
  <2>3. timeout \in Nat /\ 0 < timeout
    BY TicksAssumption DEF WInv, Setting
  <2>4. PICK drv : drv = Init_of(d, dev)
    OBVIOUS
  <2>5. hw[d].ticks = drv.ticks /\ Whole(drv) \subseteq hw[d].done
    BY <2>1, <2>4 DEF WInv, Armed
  <2>6. hw[d].done \subseteq Effects
    BY <2>2 DEF WInv, TypeOK, Hardware
  <2>7. Full(drv.steps) \/ Partial(d, drv.steps)
    BY <2>2, <2>3, <2>4, DriversSound
  <2>8. CASE Full(drv.steps)
    BY <2>1, <2>5, <2>6, <2>8 DEF Full, Whole
  <2>9. CASE d = "w83627hf" /\ timeout % 256 = 0
    <3>1. Longest(d, dev) = 255
      BY <2>9 DEF Longest
    <3>2. drv = w83627hf(dev)
      BY <2>4, <2>9, Zenon DEF Init_of
    <3>3. w83627hf(dev).ticks = timeout % 256
      BY SMT DEF w83627hf, Driver
    <3>4. hw[d].ticks = 0
      BY <2>5, <2>9, <3>2, <3>3
    <3>5. timeout > 255
      BY <2>3, <2>9
    <3> QED BY <2>1, <3>1, <3>4, <3>5
  <2>10. CASE d = "wdat" /\ Partial(d, drv.steps)
    <3>1. "REBOOT" \notin machine.tables /\ Effects \ {"reset"} \subseteq hw[d].done
      BY <2>5, <2>10 DEF Partial, Whole
    <3> QED BY <2>1, <2>6, <2>10, <3>1 DEF Effects
  <2> QED BY <2>7, <2>8, <2>9, <2>10 DEF Partial
<1> QED BY <1>1, WatchdogInvariance, PTL

(* No driver's init, nor any failing prefix of it, leaves a timer running  *)
(* without its time.                                                       *)
THEOREM Timed == Spec => []NeverUntimed
<1>1. WInv => NeverUntimed
  BY DEF WInv
<1> QED BY <1>1, WatchdogInvariance, PTL

(* In the order in which Makefile.am links the drivers the TCO's timer is  *)
(* started only after those for the whole machine have failed.             *)
THEOREM Platform == Spec => []PlatformFirst
<1>1. WInv => PlatformFirst
  BY DEF WInv, PlatformTried, PlatformFirst, Handled, Found
<1> QED BY <1>1, WatchdogInvariance, PTL

(* When probe_watchdogs gives up, every driver has failed on each device   *)
(* it would have accepted and whose id could be read.                      *)
THEOREM Complete == Spec => []NothingMissed
<1>1. WInv => NothingMissed
  BY DEF WInv, TriedBefore, NothingMissed, Handled, Found
<1> QED BY <1>1, WatchdogInvariance, PTL

(* The timer that is running when probe_watchdogs succeeds leaves the time *)
(* the environment asks for, if its counter can hold it and a tick of the  *)
(* WDAT timer is no longer than the slack.                                 *)
THEOREM EnoughTime ==
    ASSUME WdatPeriod <= 1000 * Slack
    PROVE  Spec => []TimeEnough
<1>1. WInv => TimeEnough
  <2> SUFFICES ASSUME WInv, pc = "done", status = "EFI_SUCCESS", timeout > 0,
                      timeout <= Longest(drivers[next], machine.dev[index])
               PROVE  HasTime(drivers[next])
    BY DEF TimeEnough
  <2>1. PICK d, dev : d = drivers[next] /\ dev = machine.dev[index]
    OBVIOUS
  <2>2. d \in DriverNames
    BY <2>1, Names DEF WInv, TypeOK, Armed
  <2>3. timeout \in Nat /\ 0 < timeout
    BY TicksAssumption DEF WInv, Setting
  <2>4. timeout <= Longest(d, dev)
    BY <2>1
  <2>5. Expires(d, dev, Init_of(d, dev).ticks) >= timeout - Slack
    BY <2>2, <2>3, <2>4, TicksEnough
  <2>7. hw[d].ticks = Init_of(d, dev).ticks
    BY <2>1 DEF WInv, Armed
  <2> QED BY <2>1, <2>5, <2>7 DEF HasTime
<1> QED BY <1>1, WatchdogInvariance, PTL
=============================================================================

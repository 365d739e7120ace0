-------------------------- MODULE UnifiedBootProofs --------------------------
(***************************************************************************)
(* Proofs about the unified kernel image, for every stub, kernel, command  *)
(* line, initrd, device tree and board, and for any number of starts and   *)
(* of failing calls into the firmware:                                     *)
(*   1. the stub leaves nothing dangling in the firmware (KInv);           *)
(*   2. bg_gen_unified_kernel writes a file whose sections are in order    *)
(*      (GInv);                                                            *)
(*   3. the stub starts what was given to the generator and copies the     *)
(*      kernel into its buffer only (RInv, which rests on the other two).  *)
(***************************************************************************)
EXTENDS UnifiedBoot, SequenceTheorems, WellFoundedInduction, TLAPS

-----------------------------------------------------------------------------
(* Part 1: what the stub leaves behind. *)


(* Where the kernel's buffer exists. *)
Buffered == {"copy", "register", "fixup_size", "clone", "fixup", "table", "vars",
             "entry", "running", "crashed", "cleanup_protocols", "cleanup_buffer"}

(* Where the kernel may be registered, and where the initrd may be. *)
KernelPlaces == Buffered \ {"copy", "register", "cleanup_buffer"}
InitrdPlaces == Buffered \cup {"alloc", "cleanup_initrd"}

(* Where this start of the image has no device tree of its own yet. *)
NoClone == {"fdt", "open", "scan", "initrd", "alloc", "copy", "register",
            "fixup_size", "clone"}

(* Where its device tree exists and is not in the configuration table. *)
Cloned == {"fixup", "table"}

Places == NoClone \cup Cloned \cup Buffered \cup {"off", "cleanup_initrd"}

-----------------------------------------------------------------------------
(* The inductive invariant, by parts. *)

Shape ==
    /\ DOMAIN stub = {"pc", "n", "cmdline", "kernel", "initrd", "alt", "compatible",
                      "base", "pages", "written"}
    /\ DOMAIN fw = {"mem", "table", "uuid", "initrd", "kernel"}
    /\ stub.pc \in Places
    /\ starts \in Nat /\ refused \in Nat

(* Memory in use is the firmware's, that of this start, or a device tree   *)
(* of this start or an earlier one.                                        *)
Memory ==
    /\ FirmwareRegion \in fw.mem
    /\ \A r \in fw.mem :
          \/ r = FirmwareRegion
          \/ r = Region("stub") /\ stub.pc # "off"
          \/ r = Region("kernel") /\ stub.pc \in Buffered
          \/ \E n \in 0 .. starts : r = <<"fdt", n>>
    /\ stub.pc # "off" => Region("stub") \in fw.mem
    /\ stub.pc \in Buffered => Region("kernel") \in fw.mem

(* The tree in the table is the firmware's or one that a start of the      *)
(* image installed and that was not freed.                                 *)
Table ==
    fw.table # NoTree =>
        /\ fw.table.at \in fw.mem
        /\ fw.table.at = FirmwareRegion \/ \E n \in 0 .. starts : fw.table.at = <<"fdt", n>>

(* The device tree of this start is missing, loose, or in the table. *)
OwnTree ==
    /\ stub.pc \in NoClone => Region("fdt") \notin fw.mem
    /\ stub.pc \in Cloned => Region("fdt") \in fw.mem
    /\ stub.pc \in Cloned /\ fw.table # NoTree => fw.table.at # Region("fdt")
    /\ stub.pc \notin Cloned /\ Region("fdt") \in fw.mem => fw.table.at = Region("fdt")

(* A protocol is registered between registering and unregistering it. *)
Registered ==
    refused = 0 =>
        /\ fw.initrd => stub.pc \in InitrdPlaces
        /\ fw.kernel => stub.pc \in KernelPlaces

KInv == Shape /\ Memory /\ Table /\ OwnTree /\ Registered

-----------------------------------------------------------------------------
(* What a step does, as far as the invariant is concerned. *)

Moves(from, to) == stub.pc = from /\ stub'.pc = to

SameTable == fw'.table = fw.table
SameMemory == fw'.mem = fw.mem
SameInitrd == fw'.initrd = fw.initrd
SameKernel == fw'.kernel = fw.kernel
SameStart  == starts' = starts
SameRefused == refused' = refused

(* The control flow that changes nothing the invariant is about. *)
Going ==
    \/ Moves("fdt", "open") \/ Moves("open", "scan") \/ Moves("scan", "scan")
    \/ Moves("scan", "initrd") \/ Moves("initrd", "alloc")
    \/ Moves("alloc", "cleanup_initrd")
    \/ Moves("copy", "cleanup_buffer") \/ Moves("copy", "register")
    \/ Moves("register", "cleanup_buffer")
    \/ Moves("fixup_size", "clone") \/ Moves("fixup_size", "cleanup_protocols")
    \/ Moves("clone", "cleanup_protocols")
    \/ Moves("fixup", "table") \/ Moves("vars", "entry") \/ Moves("vars", "crashed")
    \/ Moves("entry", "running") \/ Moves("running", "cleanup_protocols")

(* A step that only goes on. *)
Quiet ==
    SameTable /\ SameMemory /\ SameInitrd /\ SameKernel /\ SameStart /\ SameRefused /\ Going

(* The image is unloaded: by error_exit, or by the return of efi_main. *)
Leaves ==
    /\ SameTable /\ SameKernel /\ SameStart
    /\ fw'.mem = fw.mem \ {Region("stub")}
    /\ stub'.pc = "off"
    /\ \/ /\ stub.pc \in {"fdt", "open", "scan", "initrd"}
          /\ SameInitrd /\ SameRefused
       \/ /\ stub.pc = "cleanup_initrd"
          /\ (fw'.initrd = FALSE /\ SameRefused) \/ refused' = refused + 1

Starts ==
    /\ Moves("off", "fdt")
    /\ SameTable /\ SameInitrd /\ SameKernel /\ SameRefused
    /\ starts' = starts + 1
    /\ fw'.mem = fw.mem \cup {<<"stub", starts + 1>>}

(* The other calls into the firmware that change something. *)
Calls ==
    /\ SameStart
    /\ \/ /\ Moves("initrd", "alloc")
          /\ SameTable /\ SameMemory /\ SameKernel /\ SameRefused
       \/ /\ Moves("alloc", "copy")
          /\ SameTable /\ SameInitrd /\ SameKernel /\ SameRefused
          /\ fw'.mem = fw.mem \cup {Region("kernel")}
       \/ /\ Moves("register", "vars") \/ Moves("register", "fixup_size")
          /\ SameTable /\ SameInitrd /\ SameMemory /\ SameRefused
       \/ /\ Moves("clone", "fixup") \/ Moves("clone", "table")
          /\ SameTable /\ SameInitrd /\ SameKernel /\ SameRefused
          /\ fw'.mem = fw.mem \cup {Region("fdt")}
       \/ /\ Moves("fixup", "cleanup_protocols") \/ Moves("table", "cleanup_protocols")
          /\ SameTable /\ SameInitrd /\ SameKernel /\ SameRefused
          /\ fw'.mem = fw.mem \ {Region("fdt")}
       \/ /\ Moves("table", "vars")
          /\ SameMemory /\ SameInitrd /\ SameKernel /\ SameRefused
          /\ fw'.table.at = Region("fdt")
       \/ /\ Moves("cleanup_protocols", "cleanup_buffer")
          /\ SameMemory /\ SameInitrd /\ SameTable
          /\ (fw'.kernel = FALSE /\ SameRefused) \/ refused' = refused + 1
       \/ /\ Moves("cleanup_buffer", "cleanup_initrd")
          /\ SameTable /\ SameInitrd /\ SameKernel /\ SameRefused
          /\ fw'.mem = fw.mem \ {Region("kernel")}

(* Records keep their fields, and a field that is not assigned its value. *)
LEMMA FirmwareFields ==
    ASSUME DOMAIN fw = {"mem", "table", "uuid", "initrd", "kernel"}, NEW x
    PROVE  /\ DOMAIN [fw EXCEPT !.mem = x] = DOMAIN fw
           /\ [fw EXCEPT !.mem = x].mem = x
           /\ [fw EXCEPT !.mem = x].table = fw.table
           /\ [fw EXCEPT !.mem = x].initrd = fw.initrd
           /\ [fw EXCEPT !.mem = x].kernel = fw.kernel
           /\ DOMAIN [fw EXCEPT !.table = x] = DOMAIN fw
           /\ [fw EXCEPT !.table = x].mem = fw.mem
           /\ [fw EXCEPT !.table = x].table = x
           /\ [fw EXCEPT !.table = x].initrd = fw.initrd
           /\ [fw EXCEPT !.table = x].kernel = fw.kernel
           /\ DOMAIN [fw EXCEPT !.initrd = x] = DOMAIN fw
           /\ [fw EXCEPT !.initrd = x].mem = fw.mem
           /\ [fw EXCEPT !.initrd = x].table = fw.table
           /\ [fw EXCEPT !.initrd = x].initrd = x
           /\ [fw EXCEPT !.initrd = x].kernel = fw.kernel
           /\ DOMAIN [fw EXCEPT !.kernel = x] = DOMAIN fw
           /\ [fw EXCEPT !.kernel = x].mem = fw.mem
           /\ [fw EXCEPT !.kernel = x].table = fw.table
           /\ [fw EXCEPT !.kernel = x].initrd = fw.initrd
           /\ [fw EXCEPT !.kernel = x].kernel = x
           /\ DOMAIN [fw EXCEPT !.uuid = x] = DOMAIN fw
           /\ [fw EXCEPT !.uuid = x].mem = fw.mem
           /\ [fw EXCEPT !.uuid = x].table = fw.table
           /\ [fw EXCEPT !.uuid = x].initrd = fw.initrd
           /\ [fw EXCEPT !.uuid = x].kernel = fw.kernel
OBVIOUS

(* A step that asks nothing of the firmware keeps the invariant. *)
LEMMA QuietKeeps ==
    ASSUME KInv, Quiet, Shape'
    PROVE  KInv'
<1> USE DEF Quiet, Going, Moves, SameTable, SameMemory, SameInitrd, SameKernel, SameStart,
            SameRefused, KInv
<1>1. Memory'
  BY DEF Memory, Region, Buffered
<1>2. Table'
  BY DEF Table
<1>3. OwnTree'
  BY DEF OwnTree, NoClone, Cloned, Region
<1>4. Registered'
  BY DEF Registered, InitrdPlaces, KernelPlaces, Buffered
<1> QED BY <1>1, <1>2, <1>3, <1>4

(* Leaving the stub, early or after its cleanup, keeps it. *)
LEMMA LeavesKeeps ==
    ASSUME KInv, Leaves, Shape'
    PROVE  KInv'
<1> USE DEF Leaves, SameTable, SameMemory, SameInitrd, SameKernel, SameStart,
            SameRefused, KInv
<1>1. Memory'
  BY DEF Memory, Region, Buffered, FirmwareRegion
<1>2. Table'
  BY DEF Table, Region, FirmwareRegion
<1>3. OwnTree'
  BY DEF OwnTree, NoClone, Cloned, Region
<1>4. Registered'
  BY DEF Registered, InitrdPlaces, KernelPlaces, Buffered, Shape
<1> QED BY <1>1, <1>2, <1>3, <1>4

(* A start of the image keeps it. *)
LEMMA StartsKeeps ==
    ASSUME KInv, Starts, Shape'
    PROVE  KInv'
<1> USE DEF Starts, Moves, SameTable, SameMemory, SameInitrd, SameKernel, SameStart,
            SameRefused, KInv
<1>1. Memory'
  BY DEF Memory, Region, Buffered, FirmwareRegion, Shape
<1>2. Table'
  BY DEF Table, Region, FirmwareRegion, Shape
<1>3. OwnTree'
  BY DEF OwnTree, Memory, NoClone, Cloned, Region, FirmwareRegion, Shape
<1>4. Registered'
  BY DEF Registered, InitrdPlaces, KernelPlaces, Buffered, Shape
<1> QED BY <1>1, <1>2, <1>3, <1>4
(* Each call of the firmware, with its answer, keeps it. *)
LEMMA CallsKeep ==
    ASSUME KInv, Calls, Shape'
    PROVE  KInv'
<1> USE DEF Moves, SameTable, SameMemory, SameInitrd, SameKernel, SameStart,
            SameRefused, KInv
<1>0. starts' = starts /\ refused \in Nat /\ starts \in Nat
  BY DEF Calls, Shape
<1>1. CASE /\ Moves("initrd", "alloc")
           /\ SameTable /\ SameMemory /\ SameKernel /\ SameRefused
  <2>1. Memory' /\ Table'
    BY <1>0, <1>1 DEF Memory, Table, Region, Buffered
  <2>2. OwnTree' /\ Registered'
    BY <1>0, <1>1 DEF OwnTree, Registered, NoClone, Cloned, Region, InitrdPlaces,
                      KernelPlaces, Buffered
  <2> QED BY <2>1, <2>2
<1>2. CASE /\ Moves("alloc", "copy")
           /\ SameTable /\ SameInitrd /\ SameKernel /\ SameRefused
           /\ fw'.mem = fw.mem \cup {Region("kernel")}
  <2>1. Memory'
    BY <1>0, <1>2 DEF Memory, Region, Buffered, FirmwareRegion
  <2>2. Table'
    BY <1>0, <1>2 DEF Table
  <2>3. OwnTree' /\ Registered'
    BY <1>0, <1>2 DEF OwnTree, Registered, NoClone, Cloned, Region, InitrdPlaces,
                      KernelPlaces, Buffered
  <2> QED BY <2>1, <2>2, <2>3
<1>3. CASE /\ Moves("register", "vars") \/ Moves("register", "fixup_size")
           /\ SameTable /\ SameInitrd /\ SameMemory /\ SameRefused
  <2>1. Memory' /\ Table'
    BY <1>0, <1>3 DEF Memory, Table, Region, Buffered
  <2>2. OwnTree' /\ Registered'
    BY <1>0, <1>3 DEF OwnTree, Registered, NoClone, Cloned, Region, InitrdPlaces,
                      KernelPlaces, Buffered
  <2> QED BY <2>1, <2>2
<1>4. CASE /\ Moves("clone", "fixup") \/ Moves("clone", "table")
           /\ SameTable /\ SameInitrd /\ SameKernel /\ SameRefused
           /\ fw'.mem = fw.mem \cup {Region("fdt")}
  <2>1. Memory'
    BY <1>0, <1>4 DEF Memory, Region, Buffered, FirmwareRegion
  <2>2. Table'
    BY <1>0, <1>4 DEF Table
  <2>3. OwnTree' /\ Registered'
    BY <1>0, <1>4 DEF OwnTree, Table, Registered, NoClone, Cloned, Region, InitrdPlaces,
                      KernelPlaces, Buffered
  <2> QED BY <2>1, <2>2, <2>3
<1>5. CASE /\ Moves("fixup", "cleanup_protocols") \/ Moves("table", "cleanup_protocols")
           /\ SameTable /\ SameInitrd /\ SameKernel /\ SameRefused
           /\ fw'.mem = fw.mem \ {Region("fdt")}
  <2>1. Memory'
    BY <1>0, <1>5 DEF Memory, Region, Buffered, FirmwareRegion
  <2>2. Table'
    BY <1>0, <1>5 DEF Table, OwnTree, Cloned, Region
  <2>3. OwnTree' /\ Registered'
    BY <1>0, <1>5 DEF OwnTree, Registered, NoClone, Cloned, Region, InitrdPlaces,
                      KernelPlaces, Buffered
  <2> QED BY <2>1, <2>2, <2>3
<1>6. CASE /\ Moves("table", "vars")
           /\ SameMemory /\ SameInitrd /\ SameKernel /\ SameRefused
           /\ fw'.table.at = Region("fdt") /\ Region("fdt") \in fw.mem
  <2>1. Memory'
    BY <1>0, <1>6 DEF Memory, Region, Buffered
  <2>2. Table'
    BY <1>0, <1>6 DEF Table, Region
  <2>3. OwnTree' /\ Registered'
    BY <1>0, <1>6 DEF OwnTree, Registered, NoClone, Cloned, Region, InitrdPlaces,
                      KernelPlaces, Buffered
  <2> QED BY <2>1, <2>2, <2>3
<1>7. CASE /\ Moves("cleanup_protocols", "cleanup_buffer")
           /\ SameMemory /\ SameInitrd /\ SameTable
           /\ (fw'.kernel = FALSE /\ SameRefused) \/ refused' = refused + 1
  <2>1. Memory' /\ Table'
    BY <1>0, <1>7 DEF Memory, Table, Region, Buffered
  <2>2. OwnTree'
    BY <1>0, <1>7 DEF OwnTree, NoClone, Cloned, Region
  <2>3. Registered'
    BY <1>0, <1>7 DEF Registered, InitrdPlaces, KernelPlaces, Buffered
  <2> QED BY <2>1, <2>2, <2>3
<1>8. CASE /\ Moves("cleanup_buffer", "cleanup_initrd")
           /\ SameTable /\ SameInitrd /\ SameKernel /\ SameRefused
           /\ fw'.mem = fw.mem \ {Region("kernel")}
  <2>1. Memory'
    BY <1>0, <1>8 DEF Memory, Region, Buffered, FirmwareRegion
  <2>2. Table'
    BY <1>0, <1>8 DEF Table, Region, FirmwareRegion
  <2>3. OwnTree' /\ Registered'
    BY <1>0, <1>8 DEF OwnTree, Registered, NoClone, Cloned, Region, InitrdPlaces,
                      KernelPlaces, Buffered
  <2> QED BY <2>1, <2>2, <2>3
<1>9. Moves("table", "vars") => Region("fdt") \in fw.mem
  BY DEF OwnTree, Cloned
<1> QED BY <1>1, <1>2, <1>3, <1>4, <1>5, <1>6, <1>7, <1>8, <1>9 DEF Calls
StubFields == {"pc", "n", "cmdline", "kernel", "initrd", "alt", "compatible",
               "base", "pages", "written"}

(* What moving on leaves of the record of the stub. *)
LEMMA StubMoves ==
    ASSUME DOMAIN stub = StubFields
    PROVE  /\ \A q : DOMAIN To(q) = StubFields /\ To(q).pc = q
           /\ \A q, x : LET new == [To(q) EXCEPT !.compatible = x]
                        IN  DOMAIN new = StubFields /\ new.pc = q
           /\ \A q, x : LET new == [To(q) EXCEPT !.written = x]
                        IN  DOMAIN new = StubFields /\ new.pc = q
           /\ \A q, x, y : LET new == [To(q) EXCEPT !.base = x, !.pages = y]
                           IN  DOMAIN new = StubFields /\ new.pc = q
           /\ \A x, y : LET new == [stub EXCEPT !.n = x, !.alt = y]
                        IN  DOMAIN new = StubFields /\ new.pc = stub.pc
           /\ \A x, c, k, i : LET new == [stub EXCEPT !.n = x, !.cmdline = c,
                                                      !.kernel = k, !.initrd = i]
                              IN  DOMAIN new = StubFields /\ new.pc = stub.pc
           /\ DOMAIN NewStub = StubFields /\ NewStub.pc = "off"
<1>1. \A q : DOMAIN To(q) = StubFields /\ To(q).pc = q
  BY DEF To, StubFields
<1>2. \A q, x : LET new == [To(q) EXCEPT !.compatible = x]
                IN  DOMAIN new = StubFields /\ new.pc = q
  BY <1>1 DEF StubFields
<1>3. \A q, x : LET new == [To(q) EXCEPT !.written = x]
                IN  DOMAIN new = StubFields /\ new.pc = q
  BY <1>1 DEF StubFields
<1>4. \A q, x, y : LET new == [To(q) EXCEPT !.base = x, !.pages = y]
                   IN  DOMAIN new = StubFields /\ new.pc = q
  BY <1>1 DEF StubFields
<1>5. \A x, y : LET new == [stub EXCEPT !.n = x, !.alt = y]
                IN  DOMAIN new = StubFields /\ new.pc = stub.pc
  BY DEF StubFields
<1>6. \A x, c, k, i : LET new == [stub EXCEPT !.n = x, !.cmdline = c,
                                              !.kernel = k, !.initrd = i]
                      IN  DOMAIN new = StubFields /\ new.pc = stub.pc
  BY DEF StubFields
<1>7. DOMAIN NewStub = StubFields /\ NewStub.pc = "off"
  BY DEF NewStub, StubFields
<1> QED BY <1>1, <1>2, <1>3, <1>4, <1>5, <1>6, <1>7

(* Unloading an image frees its memory and nothing else. *)
LEMMA UnloadedFields ==
    ASSUME NEW f, DOMAIN f = {"mem", "table", "uuid", "initrd", "kernel"}
    PROVE  /\ DOMAIN Unloaded(f) = DOMAIN f
           /\ Unloaded(f).mem = f.mem \ {Region("stub")}
           /\ Unloaded(f).table = f.table
           /\ Unloaded(f).initrd = f.initrd
           /\ Unloaded(f).kernel = f.kernel
BY DEF Unloaded

(* error_exit as seen by the invariant. *)
LEMMA Exits ==
    ASSUME Shape, error_exit, refused' \in Nat,
           \/ stub.pc \in {"fdt", "open", "scan", "initrd"} /\ refused' = refused
           \/ stub.pc = "cleanup_initrd" /\ refused' = refused + 1
    PROVE  Shape' /\ Leaves
<1>1. stub' = NewStub /\ fw' = Unloaded(fw) /\ starts' = starts
  BY DEF error_exit, Locals
<1>2. DOMAIN stub' = StubFields /\ stub'.pc = "off"
  BY <1>1, StubMoves DEF Shape, StubFields
<1>3. /\ DOMAIN fw' = {"mem", "table", "uuid", "initrd", "kernel"}
      /\ fw'.mem = fw.mem \ {Region("stub")} /\ fw'.table = fw.table
      /\ fw'.initrd = fw.initrd /\ fw'.kernel = fw.kernel
  BY <1>1, UnloadedFields DEF Shape
<1>4. Shape'
  BY <1>1, <1>2, <1>3 DEF Shape, StubFields, Places
<1>5. Leaves
  BY <1>1, <1>2, <1>3 DEF Leaves, SameTable, SameKernel, SameStart, SameInitrd, SameRefused
<1> QED BY <1>4, <1>5
FirmwareShape == {"mem", "table", "uuid", "initrd", "kernel"}

(* The shape of the next state from its parts. *)
LEMMA NewShape ==
    ASSUME DOMAIN stub' = StubFields, DOMAIN fw' = FirmwareShape, stub'.pc \in Places,
           starts' \in Nat, refused' \in Nat
    PROVE  Shape'
BY DEF Shape, StubFields, FirmwareShape

(* Leaving the firmware alone is a quiet step. *)
LEMMA QuietStep ==
    ASSUME Shape, fw' = fw, starts' = starts, refused' = refused,
           DOMAIN stub' = StubFields, Going
    PROVE  Shape' /\ Quiet
<1>1. stub'.pc \in Places
  BY DEF Going, Moves, Places, NoClone, Cloned, Buffered
<1>2. Shape'
  BY <1>1, NewShape DEF Shape, FirmwareShape
<1>3. Quiet
  BY DEF Quiet, SameTable, SameMemory, SameInitrd, SameKernel, SameStart, SameRefused
<1> QED BY <1>2, <1>3

(* The steps of efi_main up to the end of the section headers. *)
LEMMA EarlySteps ==
    ASSUME Shape,
           StartImage \/ get_fdt_compatible \/ OpenImage \/ ScanSection \/ ScanDtb \/ ScanEnd
    PROVE  Shape' /\ (Quiet \/ Leaves \/ Starts)
<1>0. DOMAIN stub = StubFields /\ DOMAIN fw = FirmwareShape /\ starts \in Nat /\ refused \in Nat
  BY DEF Shape, StubFields, FirmwareShape
<1>1. CASE StartImage
  <2>1. /\ stub.pc = "off" /\ DOMAIN stub' = StubFields /\ stub'.pc = "fdt"
        /\ starts' = starts + 1 /\ refused' = refused
    BY <1>0, <1>1, StubMoves DEF StartImage
  <2>2. fw' = [fw EXCEPT !.mem = fw.mem \cup {<<"stub", starts + 1>>}]
    BY <1>1 DEF StartImage
  <2>3. /\ DOMAIN fw' = FirmwareShape /\ fw'.mem = fw.mem \cup {<<"stub", starts + 1>>}
        /\ fw'.table = fw.table /\ fw'.initrd = fw.initrd /\ fw'.kernel = fw.kernel
    BY <1>0, <2>2, FirmwareFields DEF FirmwareShape
  <2>4. Shape'
    BY <1>0, <2>1, <2>3, NewShape DEF Places, NoClone
  <2>5. Starts
    BY <2>1, <2>3 DEF Starts, Moves, SameTable, SameInitrd, SameKernel, SameRefused
  <2> QED BY <2>4, <2>5
<1>2. CASE get_fdt_compatible
  <2>1. stub.pc = "fdt" /\ refused' = refused
    BY <1>2 DEF get_fdt_compatible, Works
  <2>2. CASE error_exit
    BY <1>0, <2>1, <2>2, Exits
  <2>3. CASE Locals(To("open")) /\ fw' = fw
    <3>1. DOMAIN stub' = StubFields /\ stub'.pc = "open" /\ starts' = starts
      BY <1>0, <2>3, StubMoves DEF Locals
    <3> QED BY <2>1, <2>3, <3>1, QuietStep DEF Going, Moves
  <2>4. CASE /\ Locals([To("open") EXCEPT !.compatible = get_compatible_from_fdt(fw.table)])
             /\ fw' = fw
    <3>1. DOMAIN stub' = StubFields /\ stub'.pc = "open" /\ starts' = starts
      BY <1>0, <2>4, StubMoves DEF Locals
    <3> QED BY <2>1, <2>4, <3>1, QuietStep DEF Going, Moves
  <2> QED BY <1>2, <2>2, <2>3, <2>4 DEF get_fdt_compatible
<1>3. CASE OpenImage
  <2>1. stub.pc = "open" /\ refused' = refused
    BY <1>3 DEF OpenImage, Works, Fails
  <2>2. CASE error_exit
    BY <1>0, <2>1, <2>2, Exits
  <2>3. CASE Locals(To("scan")) /\ fw' = fw
    <3>1. DOMAIN stub' = StubFields /\ stub'.pc = "scan" /\ starts' = starts
      BY <1>0, <2>3, StubMoves DEF Locals
    <3> QED BY <2>1, <2>3, <3>1, QuietStep DEF Going, Moves
  <2> QED BY <1>3, <2>2, <2>3 DEF OpenImage
<1>4. CASE ScanSection
  <2>1. stub.pc = "scan" /\ refused' = refused /\ fw' = fw /\ starts' = starts
    BY <1>4 DEF ScanSection, Scanning, Works, Locals
  <2>2. \E x, c, k, i : stub' = [stub EXCEPT !.n = x, !.cmdline = c, !.kernel = k, !.initrd = i]
    BY <1>4 DEF ScanSection, Locals
  <2>3. DOMAIN stub' = StubFields /\ stub'.pc = "scan"
    BY <1>0, <2>1, <2>2, StubMoves
  <2> QED BY <2>1, <2>3, QuietStep DEF Going, Moves
<1>5. CASE ScanDtb
  <2>1. stub.pc = "scan" /\ refused' = refused
    BY <1>5 DEF ScanDtb, Scanning, Works
  <2>2. CASE error_exit
    BY <1>0, <2>1, <2>2, Exits
  <2>3. CASE ~error_exit
    <3>1. /\ fw' = fw /\ starts' = starts
          /\ \E x, y : stub' = [stub EXCEPT !.n = x, !.alt = y]
      BY <1>5, <2>3 DEF ScanDtb, Locals
    <3>2. DOMAIN stub' = StubFields /\ stub'.pc = "scan"
      BY <1>0, <2>1, <3>1, StubMoves
    <3> QED BY <2>1, <3>1, <3>2, QuietStep DEF Going, Moves
  <2> QED BY <2>2, <2>3
<1>6. CASE ScanEnd
  <2>1. stub.pc = "scan" /\ refused' = refused
    BY <1>6 DEF ScanEnd, Works
  <2>2. CASE error_exit
    BY <1>0, <2>1, <2>2, Exits
  <2>3. CASE Locals(To("initrd")) /\ fw' = fw
    <3>1. DOMAIN stub' = StubFields /\ stub'.pc = "initrd" /\ starts' = starts
      BY <1>0, <2>3, StubMoves DEF Locals
    <3> QED BY <2>1, <2>3, <3>1, QuietStep DEF Going, Moves
  <2> QED BY <1>6, <2>2, <2>3 DEF ScanEnd
<1> QED BY <1>1, <1>2, <1>3, <1>4, <1>5, <1>6
(* The steps that register protocols and bring the kernel into place. *)
LEMMA MiddleSteps ==
    ASSUME Shape, install_initrd_loader \/ AllocateKernel \/ CopyKernel \/ RegisterKernel
    PROVE  Shape' /\ (Quiet \/ Leaves \/ Calls)
<1>0. DOMAIN stub = StubFields /\ DOMAIN fw = FirmwareShape /\ starts \in Nat /\ refused \in Nat
  BY DEF Shape, StubFields, FirmwareShape
<1>1. CASE install_initrd_loader
  <2>1. stub.pc = "initrd" /\ refused' = refused
    BY <1>1 DEF install_initrd_loader, Works, Fails
  <2>2. CASE error_exit
    BY <1>0, <2>1, <2>2, Exits
  <2>3. CASE Locals(To("alloc")) /\ fw' = fw
    <3>1. DOMAIN stub' = StubFields /\ stub'.pc = "alloc" /\ starts' = starts
      BY <1>0, <2>3, StubMoves DEF Locals
    <3> QED BY <2>1, <2>3, <3>1, QuietStep DEF Going, Moves
  <2>4. CASE Locals(To("alloc")) /\ fw' = [fw EXCEPT !.initrd = TRUE]
    <3>1. DOMAIN stub' = StubFields /\ stub'.pc = "alloc" /\ starts' = starts
      BY <1>0, <2>4, StubMoves DEF Locals
    <3>2. /\ DOMAIN fw' = FirmwareShape /\ fw'.initrd = TRUE
          /\ fw'.mem = fw.mem /\ fw'.table = fw.table /\ fw'.kernel = fw.kernel
      BY <1>0, <2>4, FirmwareFields DEF FirmwareShape
    <3>3. Shape'
      BY <1>0, <2>1, <2>4, <3>1, <3>2, NewShape DEF Places, NoClone, Cloned, Buffered
    <3>4. Calls
      BY <2>1, <2>4, <3>1, <3>2 DEF Calls, Moves, SameTable, SameMemory, SameInitrd,
                                 SameKernel, SameStart, SameRefused
    <3> QED BY <3>3, <3>4
  <2> QED BY <1>1, <2>2, <2>3, <2>4 DEF install_initrd_loader
<1>2. CASE AllocateKernel
  <2>1. stub.pc = "alloc" /\ refused' = refused
    BY <1>2 DEF AllocateKernel, Works, Fails
  <2>2. CASE Locals(To("cleanup_initrd")) /\ fw' = fw
    <3>1. DOMAIN stub' = StubFields /\ stub'.pc = "cleanup_initrd" /\ starts' = starts
      BY <1>0, <2>2, StubMoves DEF Locals
    <3> QED BY <2>1, <2>2, <3>1, QuietStep DEF Going, Moves
  <2>3. CASE /\ \E b, n : Locals([To("copy") EXCEPT !.base = b, !.pages = n])
             /\ fw' = [fw EXCEPT !.mem = fw.mem \cup {Region("kernel")}]
    <3>1. DOMAIN stub' = StubFields /\ stub'.pc = "copy" /\ starts' = starts
      BY <1>0, <2>3, StubMoves DEF Locals
    <3>2. /\ DOMAIN fw' = FirmwareShape /\ fw'.mem = fw.mem \cup {Region("kernel")}
          /\ fw'.table = fw.table /\ fw'.initrd = fw.initrd /\ fw'.kernel = fw.kernel
      BY <1>0, <2>3, FirmwareFields DEF FirmwareShape
    <3>3. Shape'
      BY <1>0, <2>1, <2>3, <3>1, <3>2, NewShape DEF Places, NoClone, Cloned, Buffered
    <3>4. Calls
      BY <2>1, <2>3, <3>1, <3>2 DEF Calls, Moves, SameTable, SameMemory, SameInitrd,
                                 SameKernel, SameStart, SameRefused
    <3> QED BY <3>3, <3>4
  <2> QED BY <1>2, <2>2, <2>3 DEF AllocateKernel
<1>3. CASE CopyKernel
  <2>1. stub.pc = "copy" /\ refused' = refused /\ fw' = fw
    BY <1>3 DEF CopyKernel, Works
  <2>2. Locals(To("cleanup_buffer")) \/ \E x : Locals([To("register") EXCEPT !.written = x])
    BY <1>3 DEF CopyKernel
  <2>3. DOMAIN stub' = StubFields /\ stub'.pc \in {"cleanup_buffer", "register"} /\ starts' = starts
    <3>1. CASE Locals(To("cleanup_buffer"))
      BY <1>0, <3>1, StubMoves DEF Locals
    <3>2. ASSUME NEW x, Locals([To("register") EXCEPT !.written = x])
          PROVE  DOMAIN stub' = StubFields /\ stub'.pc = "register" /\ starts' = starts
      BY <1>0, <3>2, StubMoves DEF Locals
    <3> QED BY <2>2, <3>1, <3>2
  <2> QED BY <2>1, <2>3, QuietStep DEF Going, Moves
<1>4. CASE RegisterKernel
  <2>1. stub.pc = "register" /\ refused' = refused
    BY <1>4 DEF RegisterKernel, RegisterFails, Works, Fails
  <2>2. CASE Locals(To("cleanup_buffer")) /\ fw' = fw
    <3>1. DOMAIN stub' = StubFields /\ stub'.pc = "cleanup_buffer" /\ starts' = starts
      BY <1>0, <2>2, StubMoves DEF Locals
    <3> QED BY <2>1, <2>2, <3>1, QuietStep DEF Going, Moves
  <2>3. CASE /\ Locals(To("vars")) \/ Locals(To("fixup_size"))
             /\ fw' = [fw EXCEPT !.kernel = TRUE]
    <3>1. DOMAIN stub' = StubFields /\ stub'.pc \in {"vars", "fixup_size"} /\ starts' = starts
      BY <1>0, <2>3, StubMoves DEF Locals
    <3>2. /\ DOMAIN fw' = FirmwareShape /\ fw'.kernel = TRUE
          /\ fw'.mem = fw.mem /\ fw'.table = fw.table /\ fw'.initrd = fw.initrd
      BY <1>0, <2>3, FirmwareFields DEF FirmwareShape
    <3>3. Shape'
      BY <1>0, <2>1, <2>3, <3>1, <3>2, NewShape DEF Places, NoClone, Cloned, Buffered
    <3>4. Calls
      BY <2>1, <2>3, <3>1, <3>2 DEF Calls, Moves, SameTable, SameMemory, SameInitrd,
                                 SameKernel, SameStart, SameRefused
    <3> QED BY <3>3, <3>4
  <2> QED BY <1>4, <2>2, <2>3 DEF RegisterKernel, RegisterFails
<1> QED BY <1>1, <1>2, <1>3, <1>4

(* The steps of replace_fdt and set_bg_interface_vars. *)
LEMMA TreeSteps ==
    ASSUME Shape, FixupSize \/ clone_fdt \/ Fixup \/ InstallTable \/ SetInterfaceVars
    PROVE  Shape' /\ (Quiet \/ Calls)
<1>0. DOMAIN stub = StubFields /\ DOMAIN fw = FirmwareShape /\ starts \in Nat /\ refused \in Nat
  BY DEF Shape, StubFields, FirmwareShape
<1>1. CASE FixupSize
  <2>1. stub.pc = "fixup_size" /\ refused' = refused /\ fw' = fw
    BY <1>1 DEF FixupSize, Works, Fails
  <2>2. Locals(To("clone")) \/ Locals(To("cleanup_protocols"))
    BY <1>1 DEF FixupSize
  <2>3. DOMAIN stub' = StubFields /\ stub'.pc \in {"clone", "cleanup_protocols"} /\ starts' = starts
    BY <1>0, <2>2, StubMoves DEF Locals
  <2> QED BY <2>1, <2>3, QuietStep DEF Going, Moves
<1>2. CASE clone_fdt
  <2>1. stub.pc = "clone" /\ refused' = refused
    BY <1>2 DEF clone_fdt, Works, Fails
  <2>2. CASE Locals(To("cleanup_protocols")) /\ fw' = fw
    <3>1. DOMAIN stub' = StubFields /\ stub'.pc = "cleanup_protocols" /\ starts' = starts
      BY <1>0, <2>2, StubMoves DEF Locals
    <3> QED BY <2>1, <2>2, <3>1, QuietStep DEF Going, Moves
  <2>3. CASE /\ Locals(To("fixup")) \/ Locals(To("table"))
             /\ fw' = [fw EXCEPT !.mem = fw.mem \cup {Region("fdt")}]
    <3>1. DOMAIN stub' = StubFields /\ stub'.pc \in {"fixup", "table"} /\ starts' = starts
      BY <1>0, <2>3, StubMoves DEF Locals
    <3>2. /\ DOMAIN fw' = FirmwareShape /\ fw'.mem = fw.mem \cup {Region("fdt")}
          /\ fw'.table = fw.table /\ fw'.initrd = fw.initrd /\ fw'.kernel = fw.kernel
      BY <1>0, <2>3, FirmwareFields DEF FirmwareShape
    <3>3. Shape'
      BY <1>0, <2>1, <2>3, <3>1, <3>2, NewShape DEF Places, NoClone, Cloned, Buffered
    <3>4. Calls
      BY <2>1, <2>3, <3>1, <3>2 DEF Calls, Moves, SameTable, SameMemory, SameInitrd,
                                 SameKernel, SameStart, SameRefused
    <3> QED BY <3>3, <3>4
  <2> QED BY <1>2, <2>2, <2>3 DEF clone_fdt
<1>3. CASE Fixup
  <2>1. stub.pc = "fixup" /\ refused' = refused
    BY <1>3 DEF Fixup, Works, Fails
  <2>2. CASE Locals(To("table")) /\ fw' = fw
    <3>1. DOMAIN stub' = StubFields /\ stub'.pc = "table" /\ starts' = starts
      BY <1>0, <2>2, StubMoves DEF Locals
    <3> QED BY <2>1, <2>2, <3>1, QuietStep DEF Going, Moves
  <2>3. CASE /\ Locals(To("cleanup_protocols"))
             /\ fw' = [fw EXCEPT !.mem = fw.mem \ {Region("fdt")}]
    <3>1. DOMAIN stub' = StubFields /\ stub'.pc = "cleanup_protocols" /\ starts' = starts
      BY <1>0, <2>3, StubMoves DEF Locals
    <3>2. /\ DOMAIN fw' = FirmwareShape /\ fw'.mem = fw.mem \ {Region("fdt")}
          /\ fw'.table = fw.table /\ fw'.initrd = fw.initrd /\ fw'.kernel = fw.kernel
      BY <1>0, <2>3, FirmwareFields DEF FirmwareShape
    <3>3. Shape'
      BY <1>0, <2>1, <2>3, <3>1, <3>2, NewShape DEF Places, NoClone, Cloned, Buffered
    <3>4. Calls
      BY <2>1, <2>3, <3>1, <3>2 DEF Calls, Moves, SameTable, SameMemory, SameInitrd,
                                 SameKernel, SameStart, SameRefused
    <3> QED BY <3>3, <3>4
  <2> QED BY <1>3, <2>2, <2>3 DEF Fixup
<1>4. CASE InstallTable
  <2>1. stub.pc = "table" /\ refused' = refused
    BY <1>4 DEF InstallTable, Works, Fails
  <2>2. CASE /\ Locals(To("cleanup_protocols"))
             /\ fw' = [fw EXCEPT !.mem = fw.mem \ {Region("fdt")}]
    <3>1. DOMAIN stub' = StubFields /\ stub'.pc = "cleanup_protocols" /\ starts' = starts
      BY <1>0, <2>2, StubMoves DEF Locals
    <3>2. /\ DOMAIN fw' = FirmwareShape /\ fw'.mem = fw.mem \ {Region("fdt")}
          /\ fw'.table = fw.table /\ fw'.initrd = fw.initrd /\ fw'.kernel = fw.kernel
      BY <1>0, <2>2, FirmwareFields DEF FirmwareShape
    <3>3. Shape'
      BY <1>0, <2>1, <2>2, <3>1, <3>2, NewShape DEF Places, NoClone, Cloned, Buffered
    <3>4. Calls
      BY <2>1, <2>2, <3>1, <3>2 DEF Calls, Moves, SameTable, SameMemory, SameInitrd,
                                 SameKernel, SameStart, SameRefused
    <3> QED BY <3>3, <3>4
  <2>3. CASE /\ Locals(To("vars"))
             /\ \E t : t.at = Region("fdt") /\ fw' = [fw EXCEPT !.table = t]
    <3>1. DOMAIN stub' = StubFields /\ stub'.pc = "vars" /\ starts' = starts
      BY <1>0, <2>3, StubMoves DEF Locals
    <3>2. /\ DOMAIN fw' = FirmwareShape /\ fw'.table.at = Region("fdt")
          /\ fw'.mem = fw.mem /\ fw'.initrd = fw.initrd /\ fw'.kernel = fw.kernel
      BY <1>0, <2>3, FirmwareFields DEF FirmwareShape
    <3>3. Shape'
      BY <1>0, <2>1, <2>3, <3>1, <3>2, NewShape DEF Places, NoClone, Cloned, Buffered
    <3>4. Calls
      BY <2>1, <2>3, <3>1, <3>2 DEF Calls, Moves, SameTable, SameMemory, SameInitrd,
                                 SameKernel, SameStart, SameRefused
    <3> QED BY <3>3, <3>4
  <2>4. \A c, i : [at |-> Region("fdt"), compat |-> c, id |-> i].at = Region("fdt")
    OBVIOUS
  <2> QED BY <1>4, <2>2, <2>3, <2>4 DEF InstallTable
<1>5. CASE SetInterfaceVars
  <2>1. stub.pc = "vars" /\ refused' = refused
    BY <1>5 DEF SetInterfaceVars, NoUuid, Works, Fails
  <2>2. Locals(To("entry")) \/ Locals(To("crashed"))
    BY <1>5 DEF SetInterfaceVars
  <2>3. DOMAIN stub' = StubFields /\ stub'.pc \in {"entry", "crashed"} /\ starts' = starts
    BY <1>0, <2>2, StubMoves DEF Locals
  <2>4. fw' = fw \/ \E x : fw' = [fw EXCEPT !.uuid = x]
    BY <1>5 DEF SetInterfaceVars
  <2>5. /\ DOMAIN fw' = FirmwareShape /\ fw'.mem = fw.mem /\ fw'.table = fw.table
        /\ fw'.initrd = fw.initrd /\ fw'.kernel = fw.kernel
    BY <1>0, <2>4, FirmwareFields DEF FirmwareShape
  <2>6. Shape'
    BY <1>0, <2>1, <2>3, <2>5, NewShape DEF Places, Buffered
  <2>7. Quiet
    BY <2>1, <2>3, <2>5 DEF Quiet, Going, Moves, SameTable, SameMemory, SameInitrd,
                            SameKernel, SameStart, SameRefused
  <2> QED BY <2>6, <2>7
<1> QED BY <1>1, <1>2, <1>3, <1>4, <1>5

(* The steps around the kernel, and the labels at the end of efi_main. *)
LEMMA LateSteps ==
    ASSUME Shape,
           \/ KernelEntry \/ KernelReturns
           \/ cleanup_protocols \/ cleanup_buffer \/ uninstall_initrd_loader
    PROVE  Shape' /\ (Quiet \/ Leaves \/ Calls)
<1>0. DOMAIN stub = StubFields /\ DOMAIN fw = FirmwareShape /\ starts \in Nat /\ refused \in Nat
  BY DEF Shape, StubFields, FirmwareShape
<1>1. CASE KernelEntry
  <2>1. stub.pc = "entry" /\ refused' = refused /\ fw' = fw /\ Locals(To("running"))
    BY <1>1 DEF KernelEntry, Works
  <2>2. DOMAIN stub' = StubFields /\ stub'.pc = "running" /\ starts' = starts
    BY <1>0, <2>1, StubMoves DEF Locals
  <2> QED BY <2>1, <2>2, QuietStep DEF Going, Moves
<1>2. CASE KernelReturns
  <2>1. stub.pc = "running" /\ refused' = refused /\ fw' = fw /\ Locals(To("cleanup_protocols"))
    BY <1>2 DEF KernelReturns, Works
  <2>2. DOMAIN stub' = StubFields /\ stub'.pc = "cleanup_protocols" /\ starts' = starts
    BY <1>0, <2>1, StubMoves DEF Locals
  <2> QED BY <2>1, <2>2, QuietStep DEF Going, Moves
<1>3. CASE cleanup_protocols
  <2>1. stub.pc = "cleanup_protocols" /\ Locals(To("cleanup_buffer"))
    BY <1>3 DEF cleanup_protocols
  <2>2. DOMAIN stub' = StubFields /\ stub'.pc = "cleanup_buffer" /\ starts' = starts
    BY <1>0, <2>1, StubMoves DEF Locals
  <2>3. \/ refused' = refused /\ fw' = [fw EXCEPT !.kernel = FALSE]
        \/ refused' = refused + 1 /\ fw' = fw
    BY <1>3 DEF cleanup_protocols, Works
  <2>4. /\ DOMAIN fw' = FirmwareShape /\ fw'.mem = fw.mem /\ fw'.table = fw.table
        /\ fw'.initrd = fw.initrd
        /\ (refused' = refused /\ fw'.kernel = FALSE) \/ refused' = refused + 1
    BY <1>0, <2>3, FirmwareFields DEF FirmwareShape
  <2>5. Shape'
    BY <1>0, <2>2, <2>4, NewShape DEF Places, Buffered
  <2>6. Calls
    BY <2>1, <2>2, <2>4 DEF Calls, Moves, SameTable, SameMemory, SameInitrd,
                            SameStart, SameRefused
  <2> QED BY <2>5, <2>6
<1>4. CASE cleanup_buffer
  <2>1. stub.pc = "cleanup_buffer" /\ refused' = refused
    BY <1>4 DEF cleanup_buffer, Works
  <2>2. CASE /\ Locals(To("cleanup_initrd"))
             /\ fw' = [fw EXCEPT !.mem = fw.mem \ {Region("kernel")}]
    <3>1. DOMAIN stub' = StubFields /\ stub'.pc = "cleanup_initrd" /\ starts' = starts
      BY <1>0, <2>2, StubMoves DEF Locals
    <3>2. /\ DOMAIN fw' = FirmwareShape /\ fw'.mem = fw.mem \ {Region("kernel")}
          /\ fw'.table = fw.table /\ fw'.initrd = fw.initrd /\ fw'.kernel = fw.kernel
      BY <1>0, <2>2, FirmwareFields DEF FirmwareShape
    <3>3. Shape'
      BY <1>0, <2>1, <2>2, <3>1, <3>2, NewShape DEF Places, NoClone, Cloned, Buffered
    <3>4. Calls
      BY <2>1, <2>2, <3>1, <3>2 DEF Calls, Moves, SameTable, SameMemory, SameInitrd,
                                 SameKernel, SameStart, SameRefused
    <3> QED BY <3>3, <3>4
  <2> QED BY <1>4, <2>2 DEF cleanup_buffer
<1>5. CASE uninstall_initrd_loader
  <2>1. stub.pc = "cleanup_initrd"
    BY <1>5 DEF uninstall_initrd_loader
  <2>2. CASE error_exit /\ refused' = refused + 1
    BY <1>0, <2>1, <2>2, Exits
  <2>3. CASE /\ refused' = refused /\ Locals(NewStub)
             /\ fw' = Unloaded([fw EXCEPT !.initrd = FALSE])
    <3>1. DOMAIN stub' = StubFields /\ stub'.pc = "off" /\ starts' = starts
      BY <1>0, <2>3, StubMoves DEF Locals
    <3>2. PICK f : f = [fw EXCEPT !.initrd = FALSE]
      OBVIOUS
    <3>3. /\ DOMAIN f = FirmwareShape /\ f.mem = fw.mem /\ f.table = fw.table
          /\ f.initrd = FALSE /\ f.kernel = fw.kernel
      BY <1>0, <3>2, FirmwareFields DEF FirmwareShape
    <3>4. /\ DOMAIN fw' = FirmwareShape /\ fw'.mem = fw.mem \ {Region("stub")}
          /\ fw'.table = fw.table /\ fw'.initrd = FALSE /\ fw'.kernel = fw.kernel
      BY <2>3, <3>2, <3>3, UnloadedFields DEF FirmwareShape
    <3>5. Shape'
      BY <1>0, <2>3, <3>1, <3>4, NewShape DEF Places
    <3>6. Leaves
      BY <2>1, <2>3, <3>1, <3>4 DEF Leaves, SameTable, SameKernel, SameStart, SameRefused
    <3> QED BY <3>5, <3>6
  <2> QED BY <1>5, <2>2, <2>3 DEF uninstall_initrd_loader, Works
<1> QED BY <1>1, <1>2, <1>3, <1>4, <1>5
-----------------------------------------------------------------------------
(* No step of the tool, the firmware or the stub leaves the invariant. *)
THEOREM StubInvariance == Spec => []KInv
<1>1. Init => KInv
  <2> SUFFICES ASSUME Init PROVE KInv
    OBVIOUS
  <2>1. /\ fw.mem = {FirmwareRegion} /\ fw.table = board.tree
        /\ fw.initrd = FALSE /\ fw.kernel = FALSE /\ DOMAIN fw = FirmwareShape
        /\ starts = 0 /\ refused = 0 /\ stub = NewStub /\ board \in Boards
    BY DEF Init, InitFirmware, FirmwareShape
  <2>2. stub.pc = "off" /\ DOMAIN stub = StubFields
    BY <2>1 DEF NewStub, StubFields
  <2>3. Shape
    BY <2>1, <2>2 DEF Shape, Places, StubFields, FirmwareShape
  <2>4. Memory
    BY <2>1, <2>2 DEF Memory, Buffered
  <2>5. Table
    BY <2>1, BoardAssumption DEF Table
  <2>6. OwnTree
    BY <2>1, <2>2 DEF OwnTree, NoClone, Cloned, Region, FirmwareRegion
  <2>7. Registered
    BY <2>1 DEF Registered
  <2> QED BY <2>3, <2>4, <2>5, <2>6, <2>7 DEF KInv
<1>2. KInv /\ [Next]_vars => KInv'
  <2> SUFFICES ASSUME KInv, [Next]_vars PROVE KInv'
    OBVIOUS
  <2>1. CASE StubNext
    <3>1. Shape
      BY DEF KInv
    <3>2. Shape' /\ (Quiet \/ Leaves \/ Starts \/ Calls)
      BY <2>1, <3>1, EarlySteps, MiddleSteps, TreeSteps, LateSteps DEF StubNext
    <3> QED BY <3>2, QuietKeeps, LeavesKeeps, StartsKeeps, CallsKeep
  <2>2. CASE UNCHANGED <<stub, fw, starts, refused>>
    <3>1. Shape' /\ Memory'
      BY <2>2 DEF KInv, Shape, Memory, Region
    <3>2. Table' /\ OwnTree' /\ Registered'
      BY <2>2 DEF KInv, Table, OwnTree, Registered, Region
    <3> QED BY <3>1, <3>2 DEF KInv
  <2> QED BY <2>1, <2>2 DEF Next, LoadImage, stubVars, vars
<1> QED BY <1>1, <1>2, PTL DEF Spec

(* The device tree in the configuration table is never in freed memory;    *)
(* whatever calls of efi_main and replace_fdt fail, protocols are          *)
(* registered only for memory in use and a return to the firmware leaves   *)
(* no memory behind but installed device trees, unless the firmware        *)
(* refused to unregister a protocol.                                       *)
THEOREM Clean == Spec => []NothingDangles
<1>1. KInv => NothingDangles
  <2> SUFFICES ASSUME KInv PROVE NothingDangles
    OBVIOUS
  <2>1. fw.table # NoTree => fw.table.at \in fw.mem
    BY DEF KInv, Table
  <2>2. ASSUME refused = 0
        PROVE  /\ fw.initrd => Region("stub") \in fw.mem
               /\ fw.kernel => Region("kernel") \in fw.mem
    BY <2>2 DEF KInv, Registered, Memory, InitrdPlaces, KernelPlaces, Buffered
  <2>3. ASSUME stub.pc = "off"
        PROVE  /\ {r \in fw.mem : r[1] # "fdt"} = {FirmwareRegion}
               /\ Region("fdt") \in fw.mem => fw.table.at = Region("fdt")
    <3>1. \A r \in fw.mem : r = FirmwareRegion \/ \E n \in 0 .. starts : r = <<"fdt", n>>
      BY <2>3 DEF KInv, Memory, Buffered
    <3>2. FirmwareRegion \in fw.mem /\ FirmwareRegion[1] # "fdt"
      BY DEF KInv, Memory, FirmwareRegion
    <3>3. \A r \in fw.mem : r[1] # "fdt" <=> r = FirmwareRegion
      BY <3>1, <3>2
    <3> QED BY <2>3, <3>2, <3>3 DEF KInv, OwnTree, Cloned
  <2> QED BY <2>1, <2>2, <2>3 DEF NothingDangles
<1> QED BY <1>1, StubInvariance, PTL

-----------------------------------------------------------------------------
(* Part 2: the file that bg_gen_unified_kernel writes. *)

(* Division with remainder. *)
LEMMA DivMod ==
    ASSUME NEW v \in Int, NEW a \in Nat \ {0}
    PROVE  v \div a \in Int /\ v % a \in 0 .. a - 1 /\ v = (v \div a) * a + (v % a)
BY SMT

(* Multiples have no remainder, ... *)
LEMMA Product ==
    ASSUME NEW k \in Int, NEW a \in Nat \ {0}
    PROVE  (k * a) % a = 0
<1>0. k * a \in Int
  OBVIOUS
<1>1. k * a = ((k * a) \div a) * a + ((k * a) % a) /\ (k * a) % a \in 0 .. a - 1
      /\ (k * a) \div a \in Int
  BY <1>0, DivMod
<1>2. PICK q \in Int : q = (k * a) \div a
  BY <1>1
<1>3. PICK r \in 0 .. a - 1 : r = (k * a) % a
  BY <1>1
<1>4. (k - q) * a = r
  BY <1>1, <1>2, <1>3, SMT
<1>5. k - q = 0
  <2>1. CASE k - q >= 1
    BY <1>4, <2>1, SMT
  <2>2. CASE k - q <= -1
    BY <1>4, <2>2, SMT
  <2> QED BY <2>1, <2>2
<1> QED BY <1>3, <1>4, <1>5

(* ... and what has none is a multiple. *)
LEMMA Factor ==
    ASSUME NEW a \in Nat \ {0}, NEW x \in Int, x % a = 0
    PROVE  \E k \in Int : x = k * a
<1>1. x \div a \in Int /\ x = (x \div a) * a + (x % a)
  BY DivMod
<1>2. x = (x \div a) * a
  BY <1>1
<1> QED BY <1>1, <1>2

(* Sums and differences of multiples are multiples; a multiple above -a is *)
(* not negative.                                                           *)
LEMMA Multiples ==
    ASSUME NEW a \in Nat \ {0}, NEW x \in Int, NEW y \in Int, x % a = 0, y % a = 0
    PROVE  /\ (x + y) % a = 0 /\ (x - y) % a = 0
           /\ x + a > y => x >= y
<1>1. PICK j \in Int : x = j * a
  BY Factor
<1>2. PICK k \in Int : y = k * a
  BY Factor
<1>3. x + y = (j + k) * a /\ x - y = (j - k) * a /\ j + k \in Int /\ j - k \in Int
  BY <1>1, <1>2
<1>4. ((j + k) * a) % a = 0 /\ ((j - k) * a) % a = 0
  BY <1>3, Product
<1>5. ASSUME x + a > y PROVE x >= y
  <2>1. (j - k) * a > 0 - a
    BY <1>3, <1>5
  <2>2. j - k >= 0
    BY <2>1
  <2>3. (j - k) * a >= 0
    BY <2>2
  <2> QED BY <1>3, <2>3
<1> QED BY <1>3, <1>4, <1>5

(* align rounds up to the next multiple. *)
LEMMA Aligned ==
    ASSUME NEW v \in Nat, NEW a \in Nat \ {0}
    PROVE  /\ align(v, a) \in Nat /\ align(v, a) >= v /\ align(v, a) < v + a
           /\ align(v, a) % a = 0
<1>0. v + a - 1 \in Int
  OBVIOUS
<1>1. PICK q \in Int : q = (v + a - 1) \div a
  BY <1>0, DivMod
<1>2. PICK r \in 0 .. a - 1 : v + a - 1 = q * a + r
  BY <1>0, <1>1, DivMod
<1>3. align(v, a) = q * a
  BY <1>1 DEF align
<1>4. q * a \in Int /\ q * a >= v /\ q * a < v + a
  BY <1>2
<1> QED BY <1>3, <1>4, Product

(* A multiple that is at least v is at least align(v). *)
LEMMA AlignLeast ==
    ASSUME NEW v \in Nat, NEW a \in Nat \ {0}, NEW m \in Int, m % a = 0, m >= v
    PROVE  m >= align(v, a)
<1>1. align(v, a) \in Nat /\ align(v, a) < v + a /\ align(v, a) % a = 0
  BY Aligned
<1> HIDE DEF align
<1> QED BY <1>1, Multiples

(* Behind an aligned place, aligning the length or the end is the same. *)
LEMMA AlignBehind ==
    ASSUME NEW at \in Nat, NEW len \in Nat, NEW a \in Nat \ {0}, at % a = 0
    PROVE  at + align(len, a) <= align(at + len, a)
<1>0. at + len \in Nat
  OBVIOUS
<1>1. /\ align(at + len, a) \in Nat /\ align(at + len, a) >= at + len
      /\ align(at + len, a) % a = 0
  BY <1>0, Aligned
<1>2. (align(at + len, a) - at) % a = 0
  BY <1>1, Multiples
<1>3. align(at + len, a) - at >= align(len, a)
  BY <1>1, <1>2, AlignLeast
<1>4. align(len, a) \in Nat
  BY Aligned
<1> QED BY <1>1, <1>3, <1>4

(* The least number of a set, ... *)
LEMMA Least ==
    ASSUME NEW T, T \subseteq Nat, T # {}
    PROVE  Min(T) \in T /\ \A y \in T : Min(T) <= y
<1>1. \E x \in T : \A y \in T : ~(<<y, x>> \in OpToRel(<, Nat))
  BY WFMin, NatLessThanWellFounded, Zenon
<1>2. \E x \in T : \A y \in T : ~(y < x)
  BY <1>1, Zenon DEF OpToRel
<1>3. \A x, y \in T : ~(y < x) => x <= y
  OBVIOUS
<1>4. \E x \in T : \A y \in T : x <= y
  BY <1>2, <1>3, Zenon
<1> QED BY <1>4, Zenon DEF Min

(* ... and the greatest, if the numbers have a bound. *)
LEMMA Greatest ==
    ASSUME NEW T, T \subseteq Nat, T # {}, NEW b \in Nat, \A y \in T : y <= b
    PROVE  Max(T) \in T /\ \A y \in T : y <= Max(T)
<1> DEFINE U == {u \in Nat : \A y \in T : y <= u}
<1>1. U \in SUBSET Nat /\ U # {}
  OBVIOUS
<1>2. PICK m \in U : \A u \in U : m <= u
  BY <1>1, Least
<1>3. m \in T
  <2> SUFFICES ASSUME m \notin T PROVE FALSE
    OBVIOUS
  <2>1. \A y \in T : y < m
    BY <1>2
  <2>2. m > 0
    <3>1. PICK y : y \in T
      OBVIOUS
    <3> QED BY <2>1, <3>1
  <2>3. m - 1 \in U
    BY <2>1, <2>2
  <2> QED BY <1>2, <2>3
<1>4. \E x \in T : \A y \in T : x >= y
  BY <1>2, <1>3
<1> QED BY <1>4 DEF Max

SectionFields == {"name", "file", "virt_addr", "virt_size", "data_size", "data_offs"}

IsSection(t) ==
    /\ DOMAIN t = SectionFields
    /\ t.virt_addr \in Nat /\ t.virt_size \in Nat
    /\ t.data_size \in Nat /\ t.data_offs \in Nat

IsList(s) == Len(s) \in Nat /\ s = [i \in 1 .. Len(s) |-> s[i]]

HeaderFields == {"header_size", "size_of_headers", "size_of_image", "entry_point",
                 "file_align", "section_align", "sections", "first_data",
                 "end_of_sections"}

(* Headers in good order: they end before the data begins. *)
IsHeaders(p) ==
    /\ DOMAIN p = HeaderFields
    /\ p.header_size \in Nat /\ p.size_of_headers \in Nat /\ p.size_of_image \in Nat
    /\ p.entry_point \in Nat /\ p.first_data \in Nat
    /\ p.file_align \in Nat \ {0} /\ p.section_align \in Nat \ {0}
    /\ IsList(p.sections)
    /\ \A i \in 1 .. Len(p.sections) : IsSection(p.sections[i])
    /\ p.header_size <= p.size_of_headers /\ p.size_of_headers <= p.first_data
    /\ p.size_of_headers % p.file_align = 0 /\ p.first_data % p.file_align = 0

(* Section t is section u, its data pushed back by d. *)
Pushed(t, u, d) ==
    /\ t.name = u.name /\ t.file = u.file
    /\ t.virt_addr = u.virt_addr /\ t.virt_size = u.virt_size
    /\ t.data_size = u.data_size
    /\ t.data_offs = u.data_offs + (IF u.data_size > 0 THEN d ELSE 0)

(* Appending to a list. *)
LEMMA Longer ==
    ASSUME NEW s, IsList(s), NEW e
    PROVE  /\ IsList(Append(s, e)) /\ Len(Append(s, e)) = Len(s) + 1
           /\ \A i \in 1 .. Len(s) : Append(s, e)[i] = s[i]
           /\ Append(s, e)[Len(s) + 1] = e
<1> DEFINE T == {s[i] : i \in 1 .. Len(s)} \cup {e}
<1>1. s \in Seq(T) /\ e \in T
  BY DEF IsList
<1>2. Append(s, e) \in Seq(T) /\ Len(Append(s, e)) = Len(s) + 1
  BY <1>1
<1>3. Len(Append(s, e)) \in Nat /\ DOMAIN Append(s, e) = 1 .. Len(Append(s, e))
  BY <1>2
<1>4. \A i \in 1 .. Len(s) : Append(s, e)[i] = s[i]
  BY <1>1
<1>5. Append(s, e)[Len(s) + 1] = e
  BY <1>1
<1>6. Append(s, e) = [i \in 1 .. Len(Append(s, e)) |-> Append(s, e)[i]]
  <2>1. Append(s, e) \in [1 .. Len(Append(s, e)) -> T]
    BY <1>2, LenProperties
  <2> QED BY <2>1
<1> QED BY <1>2, <1>3, <1>4, <1>5, <1>6 DEF IsList

(* PEHeaders.add_section: one header more, the data of all sections behind *)
(* the headers, each section pushed back as far as the first.              *)
LEMMA Added ==
    ASSUME NEW p, IsHeaders(p), NEW s, IsSection(s),
           NEW q, q = add_section(p, s)
    PROVE  /\ IsHeaders(q)
           /\ q.file_align = p.file_align /\ q.section_align = p.section_align
           /\ q.entry_point = p.entry_point /\ q.end_of_sections = p.end_of_sections
           /\ Len(q.sections) = Len(p.sections) + 1
           /\ q.first_data >= p.first_data
           /\ q.size_of_image >= p.size_of_image
           /\ q.size_of_image >= s.virt_addr + s.virt_size
           /\ \A i \in 1 .. Len(p.sections) :
                  Pushed(q.sections[i], p.sections[i], q.first_data - p.first_data)
           /\ Pushed(q.sections[Len(p.sections) + 1], s, q.first_data - p.first_data)
<1> DEFINE header == p.header_size + HEADER
           hdrs   == IF header > p.size_of_headers THEN align(header, p.file_align)
                     ELSE p.size_of_headers
           moved  == IF hdrs > p.first_data THEN hdrs - p.first_data ELSE 0
           end    == align(s.virt_addr + s.virt_size, p.section_align)
           image  == Max({p.size_of_image, end})
           all    == Append(p.sections, s)
           Move(t) == IF t.data_size > 0 THEN [t EXCEPT !.data_offs = @ + moved] ELSE t
           list   == [i \in 1 .. Len(all) |-> Move(all[i])]
<1>0. q = [p EXCEPT !.header_size = header, !.size_of_headers = hdrs,
                  !.size_of_image = image, !.first_data = p.first_data + moved,
                  !.sections = list]
  BY DEF add_section
<1>1. header \in Nat /\ header >= p.header_size
  BY SizesAssumption DEF IsHeaders
<1>2. hdrs \in Nat /\ hdrs >= header /\ hdrs >= p.size_of_headers /\ hdrs % p.file_align = 0
  <2>1. /\ align(header, p.file_align) \in Nat /\ align(header, p.file_align) >= header
        /\ align(header, p.file_align) % p.file_align = 0
    BY <1>1, Aligned DEF IsHeaders
  <2> QED BY <1>1, <2>1 DEF IsHeaders
<1>3. /\ moved \in Nat /\ hdrs <= p.first_data + moved
      /\ (p.first_data + moved) % p.file_align = 0
  BY <1>2 DEF IsHeaders
<1>4. end \in Nat /\ end >= s.virt_addr + s.virt_size
  <2>1. s.virt_addr + s.virt_size \in Nat
    BY DEF IsSection
  <2> QED BY <2>1, Aligned DEF IsHeaders
<1>5. image \in Nat /\ image >= p.size_of_image /\ image >= end
  <2>1. \E x \in {p.size_of_image, end} : \A y \in {p.size_of_image, end} : x >= y
    BY <1>4 DEF IsHeaders
  <2>2. image \in {p.size_of_image, end} /\ \A y \in {p.size_of_image, end} : image >= y
    BY <2>1, Zenon DEF Max
  <2> QED BY <1>4, <2>2 DEF IsHeaders
<1>6. /\ IsList(all) /\ Len(all) = Len(p.sections) + 1
      /\ \A i \in 1 .. Len(p.sections) : all[i] = p.sections[i]
      /\ all[Len(p.sections) + 1] = s
  BY Longer DEF IsHeaders
<1> HIDE DEF header, hdrs, moved, end, image, all
<1>7. \A t : IsSection(t) => IsSection(Move(t)) /\ Pushed(Move(t), t, moved)
  BY <1>3 DEF IsSection, SectionFields, Pushed
<1>8. IsList(list) /\ Len(list) = Len(all) /\ \A i \in 1 .. Len(all) : list[i] = Move(all[i])
  BY <1>6 DEF IsList
<1> HIDE DEF list, Move
<1>9. /\ DOMAIN q = HeaderFields
      /\ q.header_size = header /\ q.size_of_headers = hdrs /\ q.size_of_image = image
      /\ q.first_data = p.first_data + moved /\ q.sections = list
      /\ q.file_align = p.file_align /\ q.section_align = p.section_align
      /\ q.entry_point = p.entry_point /\ q.end_of_sections = p.end_of_sections
  BY <1>0 DEF IsHeaders, HeaderFields
<1>10. \A i \in 1 .. Len(all) : IsSection(all[i])
  <2>1. \A i \in 1 .. Len(p.sections) : IsSection(p.sections[i])
    BY DEF IsHeaders
  <2>2. Len(p.sections) \in Nat
    BY DEF IsHeaders, IsList
  <2> QED BY <1>6, <2>1, <2>2
<1>11. IsHeaders(q)
  <2>1. \A i \in 1 .. Len(q.sections) : IsSection(q.sections[i])
    BY <1>7, <1>8, <1>9, <1>10
  <2>2. p.first_data \in Nat /\ p.file_align \in Nat \ {0} /\ p.section_align \in Nat \ {0}
        /\ p.entry_point \in Nat
    BY DEF IsHeaders
  <2> QED BY <1>1, <1>2, <1>3, <1>5, <1>8, <1>9, <2>1, <2>2 DEF IsHeaders
<1>12. q.first_data - p.first_data = moved /\ q.first_data >= p.first_data
  BY <1>3, <1>9 DEF IsHeaders
<1>13. Len(q.sections) = Len(p.sections) + 1
  BY <1>6, <1>8, <1>9
<1>14. \A i \in 1 .. Len(p.sections) + 1 : Pushed(q.sections[i], all[i], moved)
  BY <1>6, <1>7, <1>8, <1>9, <1>10
<1>15. Len(p.sections) \in Nat
  BY DEF IsHeaders, IsList
<1>16. q.size_of_image >= p.size_of_image /\ q.size_of_image >= s.virt_addr + s.virt_size
  BY <1>4, <1>5, <1>9 DEF IsHeaders, IsSection
<1> QED BY <1>6, <1>9, <1>11, <1>12, <1>13, <1>14, <1>15, <1>16

Old == PEHeaders(args.stub)

(* The stub's data is a block of this length. *)
BlockLen == Old.end_of_sections - Old.first_data

(* Section t is section u of the stub, its data pushed back by d. *)
FromStub(t, u, d) ==
    /\ t.name = u.name /\ t.file = u.file
    /\ t.virt_size = u.virt_size /\ t.data_size = u.data_size
    /\ t.data_offs = u.data_offs + (IF u.data_size > 0 THEN d ELSE 0)

StubPart(p) ==
    /\ p.file_align = args.stub.file_align
    /\ p.first_data >= Old.first_data
    /\ Len(p.sections) >= StubLen
    /\ \A i \in 1 .. StubLen :
          FromStub(p.sections[i], args.stub.sections[i], p.first_data - Old.first_data)

(* Section t was made of a file. *)
FromFile(t) ==
    /\ t.file.len \in Nat
    /\ Filled => t.file.len > 0
    /\ t.virt_size = t.data_size
    /\ t.data_size = align(t.file.len, args.stub.file_align)

FilePart(p) ==
    \A i \in StubLen + 1 .. Len(p.sections) :
        FromFile(p.sections[i]) /\ VirtEnd(p.sections[i]) <= p.size_of_image

DataEnd(t) == t.data_offs + t.data_size

(* If no file is empty: the files are behind the stub and one behind the   *)
(* other, at aligned places, the next one being put at c.                  *)
OrderPart(p, c) ==
    Filled =>
    /\ c >= p.first_data + BlockLen /\ c % p.file_align = 0
    /\ \A i \in StubLen + 1 .. Len(p.sections) :
          /\ p.sections[i].data_offs >= p.first_data + BlockLen
          /\ p.sections[i].data_offs % p.file_align = 0
          /\ DataEnd(p.sections[i]) <= c
          /\ \A j \in StubLen + 1 .. Len(p.sections) :
                i < j => DataEnd(p.sections[i]) <= p.sections[j].data_offs
    /\ Len(p.sections) > StubLen => DataEnd(p.sections[Len(p.sections)]) = c

-----------------------------------------------------------------------------
(* What PEHeaders finds in a stub. *)
LEMMA StubHeaders ==
    ASSUME args.stub \in Stubs
    PROVE  /\ IsHeaders(Old) /\ Old.sections = args.stub.sections
           /\ Old.file_align = args.stub.file_align
           /\ Old.end_of_sections \in Nat /\ BlockLen \in Nat
           /\ \A i \in 1 .. StubLen :
                 LET t == args.stub.sections[i] IN
                 /\ IsSection(t)
                 /\ t.data_size > 0 => Old.first_data <= t.data_offs
                 /\ DataEnd(t) <= Old.end_of_sections
           /\ \A i, j \in 1 .. StubLen :
                 /\ i < j
                 /\ args.stub.sections[i].data_size > 0 /\ args.stub.sections[j].data_size > 0
                 => DataEnd(args.stub.sections[i]) <= args.stub.sections[j].data_offs
<1> DEFINE s == args.stub
           S == DataSections(s)
           F == {s.len} \cup {s.sections[i].data_offs : i \in S}
           E == {0} \cup {s.sections[i].data_offs + s.sections[i].data_size :
                             i \in 1 .. Len(s.sections)}
<1>1. IsPE(s)
  BY StubsAssumption
<1>2. /\ s.header_size \in Nat /\ s.size_of_headers \in Nat /\ s.size_of_image \in Nat
      /\ s.entry_point \in Nat /\ s.len \in Nat
      /\ s.file_align \in Nat \ {0} /\ s.section_align \in Nat \ {0}
      /\ Len(s.sections) \in Nat /\ IsList(s.sections)
      /\ s.header_size <= s.size_of_headers /\ s.size_of_headers % s.file_align = 0
  BY <1>1 DEF IsPE, IsList
<1>3. \A i \in 1 .. Len(s.sections) : IsSection(s.sections[i]) /\ DataEnd(s.sections[i]) <= s.len
  <2> SUFFICES ASSUME NEW i \in 1 .. Len(s.sections)
               PROVE  IsSection(s.sections[i]) /\ DataEnd(s.sections[i]) <= s.len
    OBVIOUS
  <2> DEFINE t == s.sections[i]
  <2>1. /\ DOMAIN t = {"name", "file", "virt_addr", "virt_size", "data_size", "data_offs"}
        /\ {t.virt_addr, t.virt_size, t.data_size, t.data_offs} \subseteq Nat
        /\ t.data_offs + t.data_size <= s.len
    BY <1>1 DEF IsPE
  <2> HIDE DEF t
  <2>2. IsSection(t) /\ DataEnd(t) <= s.len
    BY <2>1 DEF IsSection, SectionFields, DataEnd
  <2> QED BY <2>2 DEF t
<1>4. \A i \in S : i \in 1 .. Len(s.sections) /\ s.sections[i].data_size > 0
  BY DEF DataSections
<1>5. \A i \in 1 .. Len(s.sections) : s.sections[i].data_size > 0 => i \in S
  BY DEF DataSections
<1>6. /\ S # {}
      /\ \A i \in S : /\ s.size_of_headers <= s.sections[i].data_offs
                      /\ s.sections[i].data_offs % s.file_align = 0
                      /\ \A j \in S : i < j =>
                             s.sections[i].data_offs + s.sections[i].data_size
                                 <= s.sections[j].data_offs
  BY <1>1 DEF IsPE
<1>7. /\ Old.header_size = s.header_size /\ Old.size_of_headers = s.size_of_headers
      /\ Old.size_of_image = s.size_of_image /\ Old.entry_point = s.entry_point
      /\ Old.file_align = s.file_align /\ Old.section_align = s.section_align
      /\ Old.sections = s.sections /\ Old.first_data = Min(F) /\ Old.end_of_sections = Max(E)
      /\ DOMAIN Old = HeaderFields
  BY DEF Old, PEHeaders, HeaderFields
<1> HIDE DEF s, S
<1>8. F \subseteq Nat /\ F # {}
  BY <1>2, <1>3, <1>4 DEF IsSection
<1>9. Min(F) \in F /\ \A y \in F : Min(F) <= y
  BY <1>8, Least
<1>10. E \subseteq Nat /\ E # {} /\ \A y \in E : y <= s.len
  BY <1>2, <1>3 DEF IsSection, DataEnd
<1>11. Max(E) \in E /\ \A y \in E : y <= Max(E)
  BY <1>2, <1>10, Greatest
<1> HIDE DEF F, E
<1>12. Min(F) \in Nat /\ Max(E) \in Nat
  BY <1>8, <1>9, <1>10, <1>11
<1>13. \A i \in S : Min(F) <= s.sections[i].data_offs
  BY <1>9 DEF F
<1>14. \A i \in 1 .. Len(s.sections) : DataEnd(s.sections[i]) <= Max(E)
  BY <1>11 DEF E, DataEnd
<1>15. \E i \in S : Min(F) = s.sections[i].data_offs
  <2>1. PICK k \in S : TRUE
    BY <1>6
  <2>2. Min(F) <= s.sections[k].data_offs /\ s.sections[k].data_offs < s.len
    BY <1>2, <1>3, <1>4, <1>13, <2>1 DEF IsSection, DataEnd
  <2>3. Min(F) # s.len
    BY <1>2, <1>3, <1>4, <1>12, <2>1, <2>2 DEF IsSection
  <2> QED BY <1>9, <2>3 DEF F
<1>16. Min(F) <= Max(E)
  <2>1. PICK k \in S : Min(F) = s.sections[k].data_offs
    BY <1>15
  <2>2. DataEnd(s.sections[k]) <= Max(E) /\ IsSection(s.sections[k])
    BY <1>3, <1>4, <1>14, <2>1
  <2> QED BY <1>12, <2>1, <2>2 DEF DataEnd, IsSection
<1>17. Min(F) % s.file_align = 0 /\ s.size_of_headers <= Min(F)
  BY <1>6, <1>15
<1>18. IsHeaders(Old)
  BY <1>2, <1>3, <1>7, <1>12, <1>17 DEF IsHeaders
<1>19. BlockLen \in Nat /\ Old.end_of_sections \in Nat
  BY <1>7, <1>12, <1>16 DEF BlockLen
<1>20. StubLen = Len(s.sections)
  BY DEF StubLen, s
<1>21. \A i \in 1 .. StubLen :
           /\ IsSection(s.sections[i])
           /\ s.sections[i].data_size > 0 => Old.first_data <= s.sections[i].data_offs
           /\ DataEnd(s.sections[i]) <= Old.end_of_sections
  BY <1>3, <1>5, <1>7, <1>13, <1>14, <1>20
<1>22. \A i, j \in 1 .. StubLen :
           i < j /\ s.sections[i].data_size > 0 /\ s.sections[j].data_size > 0
           => DataEnd(s.sections[i]) <= s.sections[j].data_offs
  BY <1>5, <1>6, <1>20 DEF DataEnd
<1> QED BY <1>7, <1>18, <1>19, <1>21, <1>22 DEF s

(* One section more leaves the parts of the layout as they were. *)
LEMMA Grows ==
    ASSUME args.stub \in Stubs, NEW p, NEW q, NEW s, NEW c \in Nat,
           IsHeaders(p), StubPart(p), FilePart(p), OrderPart(p, c),
           IsSection(s), FromFile(s), s.data_offs = c, q = add_section(p, s)
    PROVE  /\ IsHeaders(q) /\ StubPart(q) /\ FilePart(q)
           /\ DataEnd(q.sections[Len(q.sections)]) \in Nat
           /\ OrderPart(q, DataEnd(q.sections[Len(q.sections)]))
           /\ Len(q.sections) = Len(p.sections) + 1
           /\ q.entry_point = p.entry_point
           /\ \A i \in 1 .. Len(p.sections) :
                 /\ q.sections[i].name = p.sections[i].name
                 /\ q.sections[i].file = p.sections[i].file
                 /\ q.sections[i].virt_addr = p.sections[i].virt_addr
                 /\ q.sections[i].virt_size = p.sections[i].virt_size
           /\ LET t == q.sections[Len(p.sections) + 1] IN
                 /\ t.name = s.name /\ t.file = s.file
                 /\ t.virt_addr = s.virt_addr /\ t.virt_size = s.virt_size
                 /\ t.data_size = s.data_size
<1> DEFINE n == Len(p.sections)
           d == q.first_data - p.first_data
<1>1. /\ IsHeaders(q)
      /\ q.file_align = p.file_align /\ q.entry_point = p.entry_point
      /\ Len(q.sections) = n + 1 /\ q.first_data >= p.first_data
      /\ q.size_of_image >= p.size_of_image
      /\ q.size_of_image >= s.virt_addr + s.virt_size
      /\ \A i \in 1 .. n : Pushed(q.sections[i], p.sections[i], d)
      /\ Pushed(q.sections[n + 1], s, d)
  BY Added
<1>2. n \in Nat /\ p.first_data \in Nat /\ q.first_data \in Nat /\ d \in Nat
      /\ p.file_align \in Nat \ {0} /\ p.size_of_image \in Nat /\ q.size_of_image \in Nat
      /\ q.first_data = p.first_data + d
  BY <1>1 DEF IsHeaders, IsList
<1>3. d % p.file_align = 0
  <2>1. q.first_data % p.file_align = 0 /\ p.first_data % p.file_align = 0
    BY <1>1 DEF IsHeaders
  <2>2. q.first_data \in Int /\ p.first_data \in Int
    BY <1>2
  <2> QED BY <1>2, <2>1, <2>2, Multiples, Zenon
<1>4. \A i \in 1 .. n + 1 : IsSection(q.sections[i])
  BY <1>1 DEF IsHeaders
<1>5. \A i \in 1 .. n : IsSection(p.sections[i])
  BY DEF IsHeaders
<1> HIDE DEF n, d
<1>6. /\ Old.first_data \in Nat /\ BlockLen \in Nat /\ StubLen \in Nat
      /\ \A i \in 1 .. StubLen : IsSection(args.stub.sections[i])
  BY StubHeaders, StubsAssumption DEF IsHeaders, StubLen, IsPE
<1>7. StubPart(q)
  <2>1. p.first_data >= Old.first_data /\ n >= StubLen /\ p.file_align = args.stub.file_align
    BY DEF StubPart, n
  <2>2. ASSUME NEW i \in 1 .. StubLen
        PROVE  FromStub(q.sections[i], args.stub.sections[i], q.first_data - Old.first_data)
    <3>1. FromStub(p.sections[i], args.stub.sections[i], p.first_data - Old.first_data)
      BY DEF StubPart
    <3>2. Pushed(q.sections[i], p.sections[i], d)
      BY <1>1, <1>2, <1>6, <2>1
    <3>3. IsSection(args.stub.sections[i])
      BY <1>6
    <3> QED BY <1>2, <1>6, <2>1, <3>1, <3>2, <3>3 DEF FromStub, Pushed, IsSection
  <2> QED BY <1>1, <1>2, <1>6, <2>1, <2>2 DEF StubPart
<1>8. ASSUME NEW i \in StubLen + 1 .. n + 1
      PROVE  FromFile(q.sections[i]) /\ VirtEnd(q.sections[i]) <= q.size_of_image
  <2>1. CASE i \in StubLen + 1 .. n
    <3>1. FromFile(p.sections[i]) /\ VirtEnd(p.sections[i]) <= p.size_of_image
      BY <2>1 DEF FilePart, n
    <3>2. Pushed(q.sections[i], p.sections[i], d) /\ IsSection(p.sections[i])
      BY <1>1, <1>2, <1>5, <1>6, <2>1
    <3>3. VirtEnd(q.sections[i]) = VirtEnd(p.sections[i]) /\ VirtEnd(p.sections[i]) \in Nat
      BY <3>2 DEF Pushed, VirtEnd, IsSection
    <3>5. VirtEnd(q.sections[i]) <= q.size_of_image
      BY <1>1, <1>2, <3>1, <3>3
    <3>4. FromFile(q.sections[i])
      BY <3>1, <3>2 DEF FromFile, Pushed
    <3> QED BY <3>4, <3>5
  <2>2. CASE i = n + 1
    BY <1>1, <1>2, <2>2 DEF FromFile, Pushed, VirtEnd, IsSection
  <2> QED BY <1>2, <1>6, <2>1, <2>2
<1>9. FilePart(q)
  BY <1>1, <1>8 DEF FilePart
<1>10. DataEnd(q.sections[n + 1]) \in Nat
  BY <1>2, <1>4 DEF DataEnd, IsSection
<1>11. ASSUME Filled PROVE OrderPart(q, DataEnd(q.sections[n + 1]))
  <2>1. /\ c >= p.first_data + BlockLen /\ c % p.file_align = 0
        /\ \A i \in StubLen + 1 .. n :
              /\ p.sections[i].data_offs >= p.first_data + BlockLen
              /\ p.sections[i].data_offs % p.file_align = 0
              /\ DataEnd(p.sections[i]) <= c
              /\ \A j \in StubLen + 1 .. n :
                    i < j => DataEnd(p.sections[i]) <= p.sections[j].data_offs
    BY <1>11 DEF OrderPart, n
  <2>2. \A len \in Nat : len > 0 => align(len, args.stub.file_align) \in Nat
                                    /\ align(len, args.stub.file_align) > 0
                                    /\ align(len, args.stub.file_align) % args.stub.file_align = 0
    <3>1. args.stub.file_align \in Nat \ {0}
      BY <1>2 DEF StubPart
    <3> HIDE DEF align
    <3> SUFFICES ASSUME NEW len \in Nat, len > 0
                 PROVE  /\ align(len, args.stub.file_align) \in Nat
                        /\ align(len, args.stub.file_align) > 0
                        /\ align(len, args.stub.file_align) % args.stub.file_align = 0
      OBVIOUS
    <3>2. /\ align(len, args.stub.file_align) \in Nat
          /\ align(len, args.stub.file_align) >= len
          /\ align(len, args.stub.file_align) % args.stub.file_align = 0
      BY <3>1, Aligned
    <3> QED BY <3>2
  <2>3. \A t : FromFile(t) => t.data_size \in Nat /\ t.data_size > 0
                              /\ t.data_size % p.file_align = 0
    <3> SUFFICES ASSUME NEW t, FromFile(t)
                 PROVE  t.data_size \in Nat /\ t.data_size > 0 /\ t.data_size % p.file_align = 0
      OBVIOUS
    <3>1. /\ t.file.len \in Nat /\ t.file.len > 0 /\ p.file_align = args.stub.file_align
          /\ t.data_size = align(t.file.len, args.stub.file_align)
      BY <1>11 DEF FromFile, StubPart
    <3> QED BY <2>2, <3>1
  <2>4. \A i \in StubLen + 1 .. n : /\ q.sections[i].data_offs = p.sections[i].data_offs + d
                                    /\ q.sections[i].data_size = p.sections[i].data_size
                                    /\ IsSection(p.sections[i])
    <3> SUFFICES ASSUME NEW i \in StubLen + 1 .. n
                 PROVE  /\ q.sections[i].data_offs = p.sections[i].data_offs + d
                        /\ q.sections[i].data_size = p.sections[i].data_size
                        /\ IsSection(p.sections[i])
      OBVIOUS
    <3>1. FromFile(p.sections[i])
      BY DEF FilePart, n
    <3>2. Pushed(q.sections[i], p.sections[i], d) /\ IsSection(p.sections[i])
      BY <1>1, <1>2, <1>5, <1>6
    <3> QED BY <2>3, <3>1, <3>2 DEF Pushed
  <2>5. q.sections[n + 1].data_offs = c + d /\ q.sections[n + 1].data_size = s.data_size
        /\ s.data_size \in Nat /\ s.data_size % p.file_align = 0
    BY <1>1, <2>3 DEF Pushed
  <2>6. (c + d) % p.file_align = 0 /\ (c + d + s.data_size) % p.file_align = 0
    <3>1. (c + d) % p.file_align = 0
      <4>1. /\ p.file_align \in Nat \ {0} /\ c \in Int /\ d \in Int
            /\ c % p.file_align = 0 /\ d % p.file_align = 0
        BY <1>2, <1>3, <2>1
      <4> QED BY <4>1, Multiples
    <3>2. c + d \in Int /\ s.data_size \in Int
      BY <1>2, <2>5
    <3> QED BY <1>2, <2>5, <3>1, <3>2, Multiples, Zenon
  <2>7. DataEnd(q.sections[n + 1]) = c + d + s.data_size
    BY <2>5 DEF DataEnd
  <2>8. ASSUME NEW i \in StubLen + 1 .. n
        PROVE  /\ q.sections[i].data_offs >= q.first_data + BlockLen
               /\ q.sections[i].data_offs % p.file_align = 0
               /\ DataEnd(q.sections[i]) <= c + d
               /\ \A j \in StubLen + 1 .. n :
                     i < j => DataEnd(q.sections[i]) <= q.sections[j].data_offs
    <3>1. p.sections[i].data_offs \in Nat /\ p.sections[i].data_size \in Nat
      BY <2>4 DEF IsSection
    <3>2. (p.sections[i].data_offs + d) % p.file_align = 0
      <4>1. /\ p.file_align \in Nat \ {0} /\ p.sections[i].data_offs \in Int /\ d \in Int
            /\ p.sections[i].data_offs % p.file_align = 0 /\ d % p.file_align = 0
        BY <1>2, <1>3, <2>1, <3>1
      <4> QED BY <4>1, Multiples
    <3>3. \A j \in StubLen + 1 .. n : i < j => DataEnd(q.sections[i]) <= q.sections[j].data_offs
      BY <1>2, <2>1, <2>4, <3>1 DEF DataEnd, IsSection
    <3> QED BY <1>2, <1>6, <2>1, <2>4, <3>1, <3>2, <3>3 DEF DataEnd
  <2>9. ASSUME NEW i \in StubLen + 1 .. n + 1
        PROVE  /\ q.sections[i].data_offs >= q.first_data + BlockLen
               /\ q.sections[i].data_offs % p.file_align = 0
               /\ DataEnd(q.sections[i]) <= c + d + s.data_size
               /\ \A j \in StubLen + 1 .. n + 1 :
                     i < j => DataEnd(q.sections[i]) <= q.sections[j].data_offs
    <3>1. CASE i \in StubLen + 1 .. n
      <4>1. DataEnd(q.sections[i]) \in Nat
        BY <1>2, <1>4, <1>6, <3>1 DEF DataEnd, IsSection
      <4>2. \A j \in StubLen + 1 .. n + 1 :
                i < j => DataEnd(q.sections[i]) <= q.sections[j].data_offs
        BY <1>2, <1>6, <2>5, <2>8, <3>1
      <4> QED BY <1>2, <2>5, <2>8, <3>1, <4>1, <4>2
    <3>2. CASE i = n + 1
      BY <1>2, <1>6, <2>1, <2>5, <2>6, <2>7, <3>2
    <3> QED BY <1>2, <1>6, <3>1, <3>2
  <2>10. c + d + s.data_size >= q.first_data + BlockLen
    BY <1>2, <1>6, <2>1, <2>5
  <2> QED BY <1>1, <2>6, <2>7, <2>9, <2>10 DEF OrderPart
<1>12. OrderPart(q, DataEnd(q.sections[n + 1]))
  BY <1>11 DEF OrderPart
<1> QED BY <1>1, <1>7, <1>9, <1>10, <1>12 DEF Pushed, n

GenPlaces == {"stub", "cmdline", "kernel", "initrd", "dtb", "write", "done", "failed", "raised"}
Late      == {"dtb", "write", "done"}

(* The device trees are the sections behind this one. *)
FirstDtb == StubLen + (IF args.initrd = NoFile THEN 2 ELSE 3)

GShape ==
    /\ args \in Arguments
    /\ DOMAIN gen = {"pc", "current_offs", "dtb_virt", "n"}
    /\ gen.pc \in GenPlaces /\ gen.current_offs \in Nat /\ gen.dtb_virt \in Nat
    /\ gen.n \in 0 .. Len(args.dtb)

(* What Added and Grows keep. *)
GLayout ==
    /\ IsHeaders(pe) /\ StubPart(pe) /\ FilePart(pe)
    /\ gen.pc \notin {"stub", "failed"} => OrderPart(pe, gen.current_offs)

(* How many sections there are. *)
GCount ==
    /\ gen.pc = "stub" => pe = Old
    /\ gen.pc = "cmdline" => Len(pe.sections) = StubLen
    /\ gen.pc = "kernel" => Len(pe.sections) = StubLen + 1
    /\ gen.pc = "initrd" => Len(pe.sections) = StubLen + 2
    /\ gen.pc \in Late => Len(pe.sections) = FirstDtb + gen.n
    /\ gen.pc \in {"stub", "cmdline", "kernel", "initrd"} =>
           gen.n = 0 /\ gen.dtb_virt = DTB_VIRT
    /\ gen.pc \in {"write", "done"} => gen.n = Len(args.dtb)

Holds(p, i, name, file, virt) ==
    /\ p.sections[i].name = name /\ p.sections[i].file = file
    /\ p.sections[i].virt_addr = virt

(* Which section is which. *)
GFiles ==
    /\ gen.pc \in {"kernel", "initrd"} \cup Late =>
           Holds(pe, StubLen + 1, ".cmdline", args.cmdline, CMDLINE_VIRT)
    /\ gen.pc \in {"initrd"} \cup Late =>
           Holds(pe, StubLen + 2, ".kernel", args.kernel, KERNEL_VIRT)
    /\ gen.pc \in Late /\ args.initrd # NoFile =>
           Holds(pe, StubLen + 3, ".initrd", args.initrd, INITRD_VIRT)

GTrees ==
    /\ gen.dtb_virt >= DTB_VIRT
    /\ gen.pc \in Late =>
           \A n \in 1 .. gen.n :
               LET t == pe.sections[FirstDtb + n] IN
               /\ t.name = ".dtb-" /\ t.file = args.dtb[n]
               /\ t.virt_addr >= DTB_VIRT /\ VirtEnd(t) <= gen.dtb_virt
               /\ \A m \in 1 .. n - 1 : VirtEnd(pe.sections[FirstDtb + m]) <= t.virt_addr

(* Where the stub is in memory. *)
GEntry ==
    /\ gen.pc \in {"stub", "cmdline", "kernel", "initrd", "dtb"} =>
           /\ pe.entry_point = args.stub.entry_point
           /\ \A i \in 1 .. StubLen :
                  pe.sections[i].virt_addr = args.stub.sections[i].virt_addr
    /\ gen.pc \in {"write", "done"} =>
           \A i \in 1 .. StubLen :
               LET u == args.stub.sections[i] IN
               /\ pe.sections[i].virt_addr = HighAddr(u)
               /\ u.name = ".text" =>
                     pe.entry_point - HighAddr(u) = args.stub.entry_point - u.virt_addr

GOut ==
    /\ gen.pc = "raised" => ~Filled
    /\ gen.pc = "done" => InOrder /\ out = Pieces

GInv == GShape /\ GLayout /\ GCount /\ GFiles /\ GTrees /\ GEntry /\ GOut

-----------------------------------------------------------------------------
(* What depends on the arguments only. *)
LEMMA SameArguments ==
    ASSUME args' = args
    PROVE  /\ Old' = Old /\ StubLen' = StubLen /\ BlockLen' = BlockLen
           /\ FirstDtb' = FirstDtb /\ Filled' = Filled
BY DEF Old, StubLen, BlockLen, FirstDtb, Filled

(* The types of the arguments. *)
LEMMA ArgumentTypes ==
    ASSUME args \in Arguments
    PROVE  /\ args.stub \in Stubs /\ args.cmdline \in Cmdlines /\ args.kernel \in KernelFiles
           /\ args.initrd \in Initrds \cup {NoFile}
           /\ Len(args.dtb) \in Nat /\ \A n \in 1 .. Len(args.dtb) : args.dtb[n] \in Dtbs
           /\ args.cmdline.len \in Nat /\ args.kernel.len \in Nat
           /\ args.initrd # NoFile => args.initrd.len \in Nat
           /\ \A n \in 1 .. Len(args.dtb) : args.dtb[n].len \in Nat
           /\ StubLen \in Nat /\ IsPE(args.stub) /\ FirstDtb \in Nat
<1>1. /\ args.stub \in Stubs /\ args.cmdline \in Cmdlines /\ args.kernel \in KernelFiles
      /\ args.initrd \in Initrds \cup {NoFile}
      /\ args.dtb \in UNION {[1 .. n -> Dtbs] : n \in 0 .. MaxDtbs}
  BY DEF Arguments
<1>2. PICK k \in 0 .. MaxDtbs : args.dtb \in [1 .. k -> Dtbs]
  BY <1>1
<1>3. k \in Nat
  BY FilesAssumption
<1>4. Len(args.dtb) = k /\ \A n \in 1 .. k : args.dtb[n] \in Dtbs
  BY <1>2, <1>3
<1>5. StubLen \in Nat /\ IsPE(args.stub)
  BY <1>1, StubsAssumption DEF IsPE, StubLen
<1>6. FirstDtb \in Nat
  BY <1>5 DEF FirstDtb
<1> QED BY <1>1, <1>3, <1>4, <1>5, <1>6, FilesAssumption

(* The start of the tool. *)
LEMMA GenStarts ==
    ASSUME Init_gen
    PROVE  GInv
<1>1. /\ args \in Arguments /\ pe = Old /\ out = <<>>
      /\ gen = [pc |-> "stub", current_offs |-> 0, dtb_virt |-> DTB_VIRT, n |-> 0]
  BY DEF Init_gen, Old
<1>2. args.stub \in Stubs /\ StubLen \in Nat /\ Len(args.dtb) \in Nat
  BY <1>1, ArgumentTypes
<1>3. GShape /\ gen.pc = "stub" /\ gen.n = 0 /\ gen.dtb_virt = DTB_VIRT
  BY <1>1, <1>2, AddressesAssumption DEF GShape, GenPlaces
<1>4. /\ IsHeaders(Old) /\ Old.sections = args.stub.sections
      /\ Old.file_align = args.stub.file_align /\ Old.first_data \in Nat
      /\ \A i \in 1 .. StubLen : IsSection(args.stub.sections[i])
  BY <1>2, StubHeaders DEF IsHeaders
<1>5. StubPart(Old)
  BY <1>2, <1>4 DEF StubPart, FromStub, StubLen, IsSection
<1>6. Len(Old.sections) = StubLen
  BY <1>4 DEF StubLen
<1>7. FilePart(Old)
  BY <1>2, <1>6 DEF FilePart
<1>8. Old.entry_point = args.stub.entry_point
  BY DEF Old, PEHeaders
<1> HIDE DEF Old
<1>9. GLayout
  BY <1>1, <1>3, <1>4, <1>5, <1>7 DEF GLayout
<1>10. GCount /\ GFiles /\ GOut
  BY <1>1, <1>3 DEF GCount, GFiles, GOut, Late
<1>11. GTrees /\ GEntry
  BY <1>1, <1>3, <1>4, <1>8, AddressesAssumption DEF GTrees, GEntry, Late
<1> QED BY <1>3, <1>9, <1>10, <1>11 DEF GInv

(* A step of the tool that only goes on. *)
LEMMA GenGoes ==
    ASSUME GInv, args' = args, pe' = pe, out' = out, NEW q, gen' = [gen EXCEPT !.pc = q],
           q \in {"failed"} \/ (gen.pc = "initrd" /\ q = "dtb" /\ args.initrd = NoFile)
    PROVE  GInv'
<1>0. /\ Old' = Old /\ StubLen' = StubLen /\ BlockLen' = BlockLen
      /\ FirstDtb' = FirstDtb /\ Filled' = Filled
  BY SameArguments
<1>1. /\ DOMAIN gen' = {"pc", "current_offs", "dtb_virt", "n"} /\ gen'.pc = q
      /\ gen'.current_offs = gen.current_offs /\ gen'.dtb_virt = gen.dtb_virt /\ gen'.n = gen.n
  BY DEF GInv, GShape
<1>2. GShape'
  BY <1>1 DEF GInv, GShape, GenPlaces
<1>3. GLayout'
  <2>1. IsHeaders(pe)' /\ StubPart(pe)' /\ FilePart(pe)'
    BY <1>0 DEF GInv, GLayout, StubPart, FilePart, FromFile
  <2>2. CASE q = "failed"
    BY <1>1, <2>1, <2>2 DEF GLayout
  <2>3. CASE gen.pc = "initrd"
    <3>1. OrderPart(pe, gen.current_offs)
      BY <2>3 DEF GInv, GLayout
    <3>2. OrderPart(pe, gen.current_offs)'
      BY <1>0, <1>1, <3>1 DEF OrderPart
    <3> QED BY <2>1, <3>2 DEF GLayout
  <2> QED BY <2>2, <2>3
<1>4. GCount'
  BY <1>0, <1>1, AddressesAssumption DEF GInv, GCount, FirstDtb, Late
<1>5. GFiles'
  BY <1>0, <1>1 DEF GInv, GFiles, Holds, Late
<1>6. GTrees'
  BY <1>0, <1>1 DEF GInv, GTrees, GCount, Late
<1>7. GEntry'
  BY <1>0, <1>1 DEF GInv, GEntry
<1>8. GOut'
  BY <1>1 DEF GOut
<1> QED BY <1>2, <1>3, <1>4, <1>5, <1>6, <1>7, <1>8 DEF GInv

(* ReadStub: the files are put behind the end of the stub's data. *)
LEMMA StepReadStub ==
    ASSUME GInv, ReadStub
    PROVE  GInv'
<1>0. /\ Old' = Old /\ StubLen' = StubLen /\ BlockLen' = BlockLen
      /\ FirstDtb' = FirstDtb /\ Filled' = Filled /\ args' = args /\ pe' = pe /\ out' = out
  BY SameArguments DEF ReadStub
<1>1. /\ gen.pc = "stub" /\ pe = Old /\ gen.n = 0 /\ gen.dtb_virt = DTB_VIRT
      /\ args.stub \in Stubs
  BY ArgumentTypes DEF ReadStub, GInv, GCount, GShape
<1> DEFINE c == align(pe.end_of_sections, pe.file_align)
<1>2. /\ DOMAIN gen' = {"pc", "current_offs", "dtb_virt", "n"} /\ gen'.pc = "cmdline"
      /\ gen'.current_offs = c
      /\ gen'.dtb_virt = gen.dtb_virt /\ gen'.n = gen.n
  BY DEF ReadStub, GInv, GShape
<1>3. /\ Old.end_of_sections \in Nat /\ BlockLen \in Nat /\ Old.file_align \in Nat \ {0}
      /\ Old.first_data \in Nat /\ Old.sections = args.stub.sections
  BY <1>1, StubHeaders DEF IsHeaders
<1>4. c \in Nat /\ c >= Old.end_of_sections /\ c % pe.file_align = 0
  BY <1>1, <1>3, Aligned
<1> HIDE DEF c
<1>5. Old.first_data + BlockLen = Old.end_of_sections
  BY <1>3 DEF BlockLen
<1>6. Len(pe.sections) = StubLen /\ StubLen \in Nat
  BY <1>1, <1>3, ArgumentTypes DEF StubLen, GInv, GShape
<1>7. OrderPart(pe, c)
  BY <1>1, <1>4, <1>5, <1>6 DEF OrderPart
<1>8. GShape'
  BY <1>0, <1>2, <1>4 DEF GInv, GShape, GenPlaces
<1>9. GLayout'
  <2>1. IsHeaders(pe)' /\ StubPart(pe)' /\ FilePart(pe)'
    BY <1>0 DEF GInv, GLayout, StubPart, FilePart, FromFile
  <2>2. OrderPart(pe, gen.current_offs)'
    BY <1>0, <1>2, <1>7 DEF OrderPart
  <2> QED BY <2>1, <2>2 DEF GLayout
<1>10. GCount' /\ GFiles' /\ GOut'
  BY <1>0, <1>1, <1>2, <1>6 DEF GCount, GFiles, GOut, Late
<1>11. GTrees' /\ GEntry'
  BY <1>0, <1>1, <1>2 DEF GInv, GTrees, GEntry, Late
<1> QED BY <1>8, <1>9, <1>10, <1>11 DEF GInv

(* Adding a section for a file, as far as it is the same for all of them. *)
Grown(name, file, virt) ==
    /\ IsHeaders(pe') /\ StubPart(pe)' /\ FilePart(pe)'
    /\ gen'.current_offs \in Nat
    /\ OrderPart(pe, gen.current_offs)'
    /\ Len(pe'.sections) = Len(pe.sections) + 1
    /\ pe'.entry_point = pe.entry_point
    /\ \A i \in 1 .. Len(pe.sections) :
          /\ pe'.sections[i].name = pe.sections[i].name
          /\ pe'.sections[i].file = pe.sections[i].file
          /\ pe'.sections[i].virt_addr = pe.sections[i].virt_addr
          /\ pe'.sections[i].virt_size = pe.sections[i].virt_size
    /\ LET t == pe'.sections[Len(pe.sections) + 1] IN
          /\ t.name = name /\ t.file = file /\ t.virt_addr = virt
          /\ t.virt_size \in Nat /\ t.data_size = t.virt_size

(* Adding a file to the image keeps what holds of its headers. *)
LEMMA FileGrows ==
    ASSUME GInv, gen.pc \in {"cmdline", "kernel", "initrd", "dtb"}, args' = args,
           NEW name, NEW file, file.len \in Nat, Filled => file.len > 0, NEW virt \in Nat,
           pe' = add_section(pe, Section(name, file, virt)),
           gen'.current_offs = pe'.sections[Len(pe'.sections)].data_offs
                                   + pe'.sections[Len(pe'.sections)].data_size
    PROVE  Grown(name, file, virt)
<1>0. Old' = Old /\ StubLen' = StubLen /\ BlockLen' = BlockLen /\ Filled' = Filled
  BY SameArguments
<1> DEFINE s == Section(name, file, virt)
           size == align(file.len, pe.file_align)
<1>1. /\ args.stub \in Stubs /\ gen.current_offs \in Nat
      /\ IsHeaders(pe) /\ StubPart(pe) /\ FilePart(pe) /\ OrderPart(pe, gen.current_offs)
  BY ArgumentTypes DEF GInv, GShape, GLayout
<1>2. size \in Nat /\ pe.file_align = args.stub.file_align
  BY <1>1, Aligned DEF IsHeaders, StubPart
<1>3. s = [name |-> name, file |-> file, virt_addr |-> virt, virt_size |-> size,
           data_size |-> size, data_offs |-> gen.current_offs]
  BY DEF Section
<1> HIDE DEF size, s
<1>4. IsSection(s) /\ s.data_offs = gen.current_offs
  BY <1>1, <1>2, <1>3 DEF IsSection, SectionFields
<1>5. FromFile(s)
  BY <1>2, <1>3 DEF FromFile, size
<1>6. pe' = add_section(pe, s)
  BY DEF s
<1>7. /\ s.name = name /\ s.file = file /\ s.virt_addr = virt
      /\ s.virt_size = size /\ s.data_size = size
  BY <1>3
<1>8. /\ IsHeaders(pe') /\ StubPart(pe') /\ FilePart(pe')
      /\ DataEnd(pe'.sections[Len(pe'.sections)]) \in Nat
      /\ OrderPart(pe', DataEnd(pe'.sections[Len(pe'.sections)]))
      /\ Len(pe'.sections) = Len(pe.sections) + 1
      /\ pe'.entry_point = pe.entry_point
      /\ \A i \in 1 .. Len(pe.sections) :
            /\ pe'.sections[i].name = pe.sections[i].name
            /\ pe'.sections[i].file = pe.sections[i].file
            /\ pe'.sections[i].virt_addr = pe.sections[i].virt_addr
            /\ pe'.sections[i].virt_size = pe.sections[i].virt_size
      /\ LET t == pe'.sections[Len(pe.sections) + 1] IN
            /\ t.name = s.name /\ t.file = s.file
            /\ t.virt_addr = s.virt_addr /\ t.virt_size = s.virt_size
            /\ t.data_size = s.data_size
  BY <1>1, <1>4, <1>5, <1>6, Grows
<1>9. gen'.current_offs = DataEnd(pe'.sections[Len(pe'.sections)])
  BY DEF DataEnd
<1>10. StubPart(pe)' /\ FilePart(pe)'
  BY <1>0, <1>8 DEF StubPart, FilePart, FromFile
<1>11. OrderPart(pe, gen.current_offs)'
  BY <1>0, <1>8, <1>9 DEF OrderPart
<1> QED BY <1>2, <1>7, <1>8, <1>9, <1>10, <1>11 DEF Grown

(* A new section moves no other in memory. *)
LEMMA GrownKeeps ==
    ASSUME GInv, gen.pc \in {"cmdline", "kernel", "initrd", "dtb"}, args' = args,
           NEW name, NEW file, NEW virt, Grown(name, file, virt),
           gen'.pc \in {"kernel", "initrd", "dtb"}
    PROVE  /\ GEntry'
           /\ \A i \in 1 .. Len(pe.sections) : \A nm, f, v :
                 Holds(pe, i, nm, f, v) => Holds(pe', i, nm, f, v)
           /\ \A i \in 1 .. Len(pe.sections) :
                 VirtEnd(pe'.sections[i]) = VirtEnd(pe.sections[i])
           /\ Holds(pe', Len(pe.sections) + 1, name, file, virt)
<1>0. StubLen' = StubLen
  BY SameArguments
<1>1. StubLen \in Nat /\ Len(pe.sections) \in Nat /\ Len(pe.sections) >= StubLen
  BY ArgumentTypes DEF GInv, GShape, GLayout, StubPart, IsHeaders, IsList
<1>2. \A i \in 1 .. Len(pe.sections) :
          /\ pe'.sections[i].name = pe.sections[i].name
          /\ pe'.sections[i].file = pe.sections[i].file
          /\ pe'.sections[i].virt_addr = pe.sections[i].virt_addr
          /\ pe'.sections[i].virt_size = pe.sections[i].virt_size
  BY DEF Grown
<1>3. GEntry'
  <2>1. /\ pe.entry_point = args.stub.entry_point /\ pe'.entry_point = pe.entry_point
        /\ \A i \in 1 .. StubLen :
               pe.sections[i].virt_addr = args.stub.sections[i].virt_addr
    BY DEF GInv, GEntry, Grown
  <2>2. \A i \in 1 .. StubLen : pe'.sections[i].virt_addr = args.stub.sections[i].virt_addr
    BY <1>1, <1>2, <2>1
  <2> QED BY <1>0, <2>1, <2>2 DEF GEntry
<1>4. \A i \in 1 .. Len(pe.sections) :
         \A nm, f, v : Holds(pe, i, nm, f, v) => Holds(pe', i, nm, f, v)
  BY <1>2 DEF Holds
<1>5. \A i \in 1 .. Len(pe.sections) : VirtEnd(pe'.sections[i]) = VirtEnd(pe.sections[i])
  BY <1>2 DEF VirtEnd
<1>6. Holds(pe', Len(pe.sections) + 1, name, file, virt)
  BY DEF Grown, Holds
<1> QED BY <1>3, <1>4, <1>5, <1>6

(* What AddFile does. *)
LEMMA FileAdded ==
    ASSUME GInv, gen.pc \in {"cmdline", "kernel", "initrd"},
           NEW name, NEW file, file.len \in Nat, Filled => file.len > 0, NEW virt \in Nat,
           NEW next \in {"kernel", "initrd", "dtb"},
           AddFile(name, file, virt, next)
    PROVE  /\ Grown(name, file, virt) /\ args' = args /\ out' = out
           /\ GShape' /\ GLayout' /\ GOut'
           /\ gen'.pc = next /\ gen'.n = gen.n /\ gen'.dtb_virt = gen.dtb_virt
<1> DEFINE new  == add_section(pe, Section(name, file, virt))
           last == new.sections[Len(new.sections)]
<1>1. /\ pe' = new /\ args' = args /\ out' = out
      /\ gen' = [gen EXCEPT !.pc = next, !.current_offs = last.data_offs + last.data_size]
  BY DEF AddFile
<1> HIDE DEF new
<1>2. /\ DOMAIN gen' = {"pc", "current_offs", "dtb_virt", "n"} /\ gen'.pc = next
      /\ gen'.current_offs = last.data_offs + last.data_size
      /\ gen'.dtb_virt = gen.dtb_virt /\ gen'.n = gen.n
  BY <1>1 DEF GInv, GShape
<1>3. Grown(name, file, virt)
  BY <1>1, <1>2, FileGrows DEF new
<1>4. GShape'
  BY <1>1, <1>2, <1>3 DEF GInv, GShape, GenPlaces, Grown
<1>5. GLayout'
  BY <1>3 DEF GLayout, Grown
<1>6. GOut'
  BY <1>2 DEF GOut
<1> QED BY <1>1, <1>2, <1>3, <1>4, <1>5, <1>6

(* AddCmdline: the command line is put behind the stub. *)
LEMMA StepAddCmdline ==
    ASSUME GInv, AddCmdline
    PROVE  GInv'
<1>1. gen.pc = "cmdline" /\ AddFile(".cmdline", args.cmdline, CMDLINE_VIRT, "kernel")
  BY DEF AddCmdline
<1>2. /\ args.cmdline.len \in Nat /\ CMDLINE_VIRT \in Nat /\ StubLen \in Nat
      /\ Filled => args.cmdline.len > 0
  BY ArgumentTypes, AddressesAssumption DEF GInv, GShape, Filled
<1>3. /\ Grown(".cmdline", args.cmdline, CMDLINE_VIRT) /\ args' = args /\ out' = out
      /\ GShape' /\ GLayout' /\ GOut'
      /\ gen'.pc = "kernel" /\ gen'.n = gen.n /\ gen'.dtb_virt = gen.dtb_virt
  BY <1>1, <1>2, FileAdded
<1>4. /\ GEntry' /\ Holds(pe', Len(pe.sections) + 1, ".cmdline", args.cmdline, CMDLINE_VIRT)
  BY <1>1, <1>3, GrownKeeps
<1>5. StubLen' = StubLen /\ Old' = Old /\ FirstDtb' = FirstDtb
  BY <1>3, SameArguments
<1>6. Len(pe.sections) = StubLen /\ Len(pe'.sections) = StubLen + 1
      /\ gen.n = 0 /\ gen.dtb_virt = DTB_VIRT
  BY <1>1, <1>3 DEF GInv, GCount, Grown
<1>7. GCount'
  BY <1>3, <1>5, <1>6 DEF GCount, Late
<1>8. GFiles'
  BY <1>3, <1>4, <1>5, <1>6 DEF GFiles, Late
<1>9. GTrees'
  BY <1>3, <1>6, AddressesAssumption DEF GTrees, Late
<1> QED BY <1>3, <1>4, <1>7, <1>8, <1>9 DEF GInv

(* AddKernel: the kernel is put behind the command line. *)
LEMMA StepAddKernel ==
    ASSUME GInv, AddKernel
    PROVE  GInv'
<1>1. gen.pc = "kernel" /\ AddFile(".kernel", args.kernel, KERNEL_VIRT, "initrd")
  BY DEF AddKernel
<1>2. /\ args.kernel.len \in Nat /\ KERNEL_VIRT \in Nat /\ StubLen \in Nat
      /\ Filled => args.kernel.len > 0
  BY ArgumentTypes, AddressesAssumption DEF GInv, GShape, Filled
<1>3. /\ Grown(".kernel", args.kernel, KERNEL_VIRT) /\ args' = args /\ out' = out
      /\ GShape' /\ GLayout' /\ GOut'
      /\ gen'.pc = "initrd" /\ gen'.n = gen.n /\ gen'.dtb_virt = gen.dtb_virt
  BY <1>1, <1>2, FileAdded
<1>4. /\ GEntry' /\ Holds(pe', Len(pe.sections) + 1, ".kernel", args.kernel, KERNEL_VIRT)
      /\ \A i \in 1 .. Len(pe.sections) : \A nm, f, v :
            Holds(pe, i, nm, f, v) => Holds(pe', i, nm, f, v)
  BY <1>1, <1>3, GrownKeeps
<1>5. StubLen' = StubLen /\ Old' = Old /\ FirstDtb' = FirstDtb
  BY <1>3, SameArguments
<1>6. Len(pe.sections) = StubLen + 1 /\ Len(pe'.sections) = StubLen + 2
      /\ gen.n = 0 /\ gen.dtb_virt = DTB_VIRT
  BY <1>1, <1>2, <1>3 DEF GInv, GCount, Grown
<1>7. GCount'
  BY <1>3, <1>5, <1>6 DEF GCount, Late
<1>8. GFiles'
  <2>1. Holds(pe, StubLen + 1, ".cmdline", args.cmdline, CMDLINE_VIRT)
    BY <1>1 DEF GInv, GFiles
  <2>2. Holds(pe', StubLen + 1, ".cmdline", args.cmdline, CMDLINE_VIRT)
    BY <1>2, <1>3, <1>4, <1>5, <1>6, <2>1 DEF Holds
  <2>3. Holds(pe', StubLen + 2, ".kernel", args.kernel, KERNEL_VIRT)
    BY <1>2, <1>3, <1>4, <1>5, <1>6 DEF Holds
  <2> QED BY <1>3, <1>5, <2>2, <2>3 DEF GFiles, Late
<1>9. GTrees'
  BY <1>3, <1>6, AddressesAssumption DEF GTrees, Late
<1> QED BY <1>3, <1>4, <1>7, <1>8, <1>9 DEF GInv

(* AddInitrd: the initrd is put behind the kernel. *)
LEMMA StepAddInitrd ==
    ASSUME GInv, AddInitrd
    PROVE  GInv'
<1>1. /\ gen.pc = "initrd" /\ args.initrd # NoFile
      /\ AddFile(".initrd", args.initrd, INITRD_VIRT, "dtb")
  BY DEF AddInitrd
<1>2. /\ args.initrd.len \in Nat /\ INITRD_VIRT \in Nat /\ StubLen \in Nat
      /\ Filled => args.initrd.len > 0
  BY <1>1, ArgumentTypes, AddressesAssumption DEF GInv, GShape, Filled
<1>3. /\ Grown(".initrd", args.initrd, INITRD_VIRT) /\ args' = args /\ out' = out
      /\ GShape' /\ GLayout' /\ GOut'
      /\ gen'.pc = "dtb" /\ gen'.n = gen.n /\ gen'.dtb_virt = gen.dtb_virt
  BY <1>1, <1>2, FileAdded
<1>4. /\ GEntry' /\ Holds(pe', Len(pe.sections) + 1, ".initrd", args.initrd, INITRD_VIRT)
      /\ \A i \in 1 .. Len(pe.sections) : \A nm, f, v :
            Holds(pe, i, nm, f, v) => Holds(pe', i, nm, f, v)
  BY <1>1, <1>3, GrownKeeps
<1>5. StubLen' = StubLen /\ Old' = Old /\ FirstDtb' = FirstDtb /\ FirstDtb = StubLen + 3
  BY <1>1, <1>3, SameArguments DEF FirstDtb
<1>6. Len(pe.sections) = StubLen + 2 /\ Len(pe'.sections) = StubLen + 3
      /\ gen.n = 0 /\ gen.dtb_virt = DTB_VIRT
  BY <1>1, <1>2, <1>3 DEF GInv, GCount, Grown
<1>7. GCount'
  BY <1>2, <1>3, <1>5, <1>6 DEF GCount, Late
<1>8. GFiles'
  <2>1. /\ Holds(pe, StubLen + 1, ".cmdline", args.cmdline, CMDLINE_VIRT)
        /\ Holds(pe, StubLen + 2, ".kernel", args.kernel, KERNEL_VIRT)
    BY <1>1 DEF GInv, GFiles
  <2>2. /\ Holds(pe', StubLen + 1, ".cmdline", args.cmdline, CMDLINE_VIRT)
        /\ Holds(pe', StubLen + 2, ".kernel", args.kernel, KERNEL_VIRT)
    BY <1>2, <1>3, <1>4, <1>5, <1>6, <2>1 DEF Holds
  <2>3. Holds(pe', StubLen + 3, ".initrd", args.initrd, INITRD_VIRT)
    BY <1>2, <1>3, <1>4, <1>5, <1>6 DEF Holds
  <2> QED BY <1>3, <1>5, <2>2, <2>3 DEF GFiles, Late
<1>9. GTrees'
  BY <1>3, <1>6, AddressesAssumption DEF GTrees, Late
<1> QED BY <1>3, <1>4, <1>7, <1>8, <1>9 DEF GInv

(* AddDtb: the next device tree is put behind the last one in memory. *)
LEMMA StepAddDtb ==
    ASSUME GInv, AddDtb
    PROVE  GInv'
<1> DEFINE file == args.dtb[gen.n + 1]
           new  == add_section(pe, Section(".dtb-", file, gen.dtb_virt))
           last == new.sections[Len(new.sections)]
           k    == gen.n + 1
<1>1. /\ gen.pc = "dtb" /\ gen.n < Len(args.dtb) /\ pe' = new /\ args' = args /\ out' = out
      /\ gen' = [gen EXCEPT !.n = gen.n + 1, !.dtb_virt = gen.dtb_virt + last.data_size,
                            !.current_offs = last.data_offs + last.data_size]
  BY DEF AddDtb
<1> HIDE DEF new
<1>2. /\ DOMAIN gen' = {"pc", "current_offs", "dtb_virt", "n"} /\ gen'.pc = "dtb"
      /\ gen'.current_offs = last.data_offs + last.data_size
      /\ gen'.dtb_virt = gen.dtb_virt + last.data_size /\ gen'.n = k
  BY <1>1 DEF GInv, GShape
<1>3. /\ Len(args.dtb) \in Nat /\ gen.n \in Nat /\ gen.dtb_virt \in Nat /\ StubLen \in Nat
      /\ FirstDtb \in Nat /\ k \in 1 .. Len(args.dtb) /\ DTB_VIRT \in Nat
  BY <1>1, ArgumentTypes, AddressesAssumption DEF GInv, GShape
<1>4. file.len \in Nat /\ (Filled => file.len > 0)
  BY <1>3, ArgumentTypes DEF GInv, GShape, Filled
<1>5. Grown(".dtb-", file, gen.dtb_virt)
  BY <1>1, <1>2, <1>3, <1>4, FileGrows DEF new
<1>6. Len(pe'.sections) = Len(pe.sections) + 1 /\ Len(pe.sections) = FirstDtb + gen.n
  BY <1>1, <1>5 DEF Grown, GInv, GCount, Late
<1>7. /\ last = pe'.sections[FirstDtb + k] /\ Len(pe'.sections) = FirstDtb + k
      /\ Len(pe.sections) + 1 = FirstDtb + k
  BY <1>1, <1>3, <1>6
<1>8. /\ last.virt_size \in Nat /\ last.data_size = last.virt_size
      /\ last.virt_addr = gen.dtb_virt /\ last.name = ".dtb-" /\ last.file = file
  BY <1>5, <1>7 DEF Grown
<1> HIDE DEF last
<1>9. GShape'
  BY <1>1, <1>2, <1>3, <1>5, <1>8, SMTT(30) DEF GInv, GShape, GenPlaces, Grown
<1>10. GLayout'
  BY <1>5 DEF GLayout, Grown
<1>11. GOut'
  BY <1>2 DEF GOut
<1>12. /\ GEntry'
       /\ \A i \in 1 .. Len(pe.sections) : \A nm, f, v :
            Holds(pe, i, nm, f, v) => Holds(pe', i, nm, f, v)
       /\ \A i \in 1 .. Len(pe.sections) : VirtEnd(pe'.sections[i]) = VirtEnd(pe.sections[i])
  BY <1>1, <1>2, <1>5, GrownKeeps
<1>13. StubLen' = StubLen /\ Old' = Old /\ FirstDtb' = FirstDtb
       /\ FirstDtb >= StubLen + 2 /\ (args.initrd # NoFile => FirstDtb = StubLen + 3)
  BY <1>1, <1>3, SameArguments DEF FirstDtb
<1>14. GCount'
  BY <1>2, <1>7, <1>13 DEF GCount, Late
<1>15. GFiles'
  <2>1. /\ Holds(pe, StubLen + 1, ".cmdline", args.cmdline, CMDLINE_VIRT)
        /\ Holds(pe, StubLen + 2, ".kernel", args.kernel, KERNEL_VIRT)
        /\ args.initrd # NoFile => Holds(pe, StubLen + 3, ".initrd", args.initrd, INITRD_VIRT)
    BY <1>1 DEF GInv, GFiles, Late
  <2>2. /\ Holds(pe', StubLen + 1, ".cmdline", args.cmdline, CMDLINE_VIRT)
        /\ Holds(pe', StubLen + 2, ".kernel", args.kernel, KERNEL_VIRT)
    <3>1. StubLen + 1 \in 1 .. Len(pe.sections) /\ StubLen + 2 \in 1 .. Len(pe.sections)
      BY <1>3, <1>6, <1>13
    <3> QED BY <1>12, <2>1, <3>1
  <2>3. args.initrd # NoFile => Holds(pe', StubLen + 3, ".initrd", args.initrd, INITRD_VIRT)
    <3>1. args.initrd # NoFile => StubLen + 3 \in 1 .. Len(pe.sections)
      BY <1>3, <1>6, <1>13
    <3> QED BY <1>12, <2>1, <3>1
  <2> QED BY <1>1, <1>2, <1>13, <2>2, <2>3 DEF GFiles, Late
<1>16. GTrees'
  <2>1. /\ gen.dtb_virt >= DTB_VIRT
        /\ \A n \in 1 .. gen.n :
               LET t == pe.sections[FirstDtb + n] IN
               /\ t.name = ".dtb-" /\ t.file = args.dtb[n]
               /\ t.virt_addr >= DTB_VIRT /\ VirtEnd(t) <= gen.dtb_virt
               /\ \A m \in 1 .. n - 1 : VirtEnd(pe.sections[FirstDtb + m]) <= t.virt_addr
    BY <1>1 DEF GInv, GTrees, Late
  <2>2. gen'.dtb_virt >= DTB_VIRT /\ gen'.dtb_virt >= gen.dtb_virt /\ gen'.dtb_virt \in Nat
    BY <1>2, <1>3, <1>8, <2>1
  <2>3. ASSUME NEW n \in 1 .. gen.n
        PROVE  /\ pe'.sections[FirstDtb + n].name = ".dtb-"
               /\ pe'.sections[FirstDtb + n].file = args.dtb[n]
               /\ pe'.sections[FirstDtb + n].virt_addr = pe.sections[FirstDtb + n].virt_addr
               /\ VirtEnd(pe'.sections[FirstDtb + n]) = VirtEnd(pe.sections[FirstDtb + n])
               /\ VirtEnd(pe.sections[FirstDtb + n]) \in Nat
    <3>1. FirstDtb + n \in 1 .. Len(pe.sections)
      BY <1>3, <1>6
    <3>2. IsSection(pe.sections[FirstDtb + n])
      BY <3>1 DEF GInv, GLayout, IsHeaders
    <3>3. VirtEnd(pe.sections[FirstDtb + n]) \in Nat
      BY <3>2 DEF VirtEnd, IsSection
    <3> QED BY <1>5, <1>12, <2>1, <3>1, <3>3 DEF Grown
  <2>4. ASSUME NEW n \in 1 .. k
        PROVE  /\ pe'.sections[FirstDtb + n].name = ".dtb-"
               /\ pe'.sections[FirstDtb + n].file = args.dtb[n]
               /\ pe'.sections[FirstDtb + n].virt_addr >= DTB_VIRT
               /\ VirtEnd(pe'.sections[FirstDtb + n]) <= gen'.dtb_virt
               /\ \A m \in 1 .. n - 1 :
                     VirtEnd(pe'.sections[FirstDtb + m]) <= pe'.sections[FirstDtb + n].virt_addr
    <3>1. CASE n \in 1 .. gen.n
      <4>1. \A m \in 1 .. n - 1 : m \in 1 .. gen.n
        BY <1>3, <3>1
      <4>2. \A m \in 1 .. n - 1 :
                VirtEnd(pe'.sections[FirstDtb + m]) <= pe'.sections[FirstDtb + n].virt_addr
        BY <2>1, <2>3, <3>1, <4>1
      <4>3. VirtEnd(pe'.sections[FirstDtb + n]) <= gen'.dtb_virt
        BY <1>3, <2>1, <2>2, <2>3, <3>1
      <4> QED BY <2>1, <2>3, <3>1, <4>2, <4>3
    <3>2. CASE n = k
      <4>1. VirtEnd(last) = gen'.dtb_virt
        BY <1>2, <1>8 DEF VirtEnd
      <4>2. \A m \in 1 .. gen.n : VirtEnd(pe'.sections[FirstDtb + m]) <= gen.dtb_virt
        BY <2>1, <2>3
      <4>3. pe'.sections[FirstDtb + n] = last /\ n - 1 = gen.n /\ file = args.dtb[n]
        BY <1>3, <1>7, <3>2
      <4>4. VirtEnd(last) <= gen'.dtb_virt /\ last.virt_addr >= DTB_VIRT
        BY <1>8, <2>1, <2>2, <4>1
      <4> HIDE DEF k, file
      <4> QED BY <1>8, <4>2, <4>3, <4>4
    <3> QED BY <1>3, <3>1, <3>2
  <2> QED BY <1>1, <1>2, <1>13, <2>2, <2>4 DEF GTrees
<1> QED BY <1>9, <1>10, <1>11, <1>12, <1>14, <1>15, <1>16 DEF GInv

(* The sections behind those of the stub have names of their own. *)
LEMMA NewNames ==
    ASSUME GInv, gen.pc \in Late, NEW i \in StubLen + 1 .. Len(pe.sections)
    PROVE  pe.sections[i].name \in {".cmdline", ".kernel", ".initrd", ".dtb-"}
<1>1. /\ StubLen \in Nat /\ gen.n \in Nat /\ Len(pe.sections) = FirstDtb + gen.n
      /\ FirstDtb = StubLen + (IF args.initrd = NoFile THEN 2 ELSE 3)
  BY ArgumentTypes DEF GInv, GShape, GCount, FirstDtb
<1>2. CASE i \in 1 .. FirstDtb
  <2>1. gen.pc \in {"initrd"} \cup Late /\ gen.pc \in {"kernel", "initrd"} \cup Late
    OBVIOUS
  <2>2. /\ pe.sections[StubLen + 1].name = ".cmdline"
        /\ pe.sections[StubLen + 2].name = ".kernel"
        /\ args.initrd # NoFile => pe.sections[StubLen + 3].name = ".initrd"
    BY <2>1 DEF GInv, GFiles, Holds
  <2>3. \/ i = StubLen + 1 \/ i = StubLen + 2
        \/ i = StubLen + 3 /\ args.initrd # NoFile
    BY <1>1, <1>2
  <2> QED BY <2>2, <2>3
<1>3. CASE i > FirstDtb
  <2>1. i - FirstDtb \in 1 .. gen.n /\ FirstDtb + (i - FirstDtb) = i
    BY <1>1, <1>3
  <2> QED BY <2>1 DEF GInv, GTrees
<1> QED BY <1>1, <1>2, <1>3

(* KeepText: no section needs to be moved. *)
LEMMA StepKeepText ==
    ASSUME GInv, KeepText
    PROVE  GInv'
<1>1. /\ gen.pc = "dtb" /\ gen.n = Len(args.dtb) /\ LowText = {}
      /\ gen' = [gen EXCEPT !.pc = "write"] /\ args' = args /\ pe' = pe /\ out' = out
  BY DEF KeepText, Goto
<1>2. /\ DOMAIN gen' = {"pc", "current_offs", "dtb_virt", "n"} /\ gen'.pc = "write"
      /\ gen'.current_offs = gen.current_offs /\ gen'.dtb_virt = gen.dtb_virt /\ gen'.n = gen.n
  BY <1>1 DEF GInv, GShape
<1>3. /\ Old' = Old /\ StubLen' = StubLen /\ BlockLen' = BlockLen
      /\ FirstDtb' = FirstDtb /\ Filled' = Filled
  BY <1>1, SameArguments
<1>4. GShape'
  BY <1>1, <1>2 DEF GInv, GShape, GenPlaces
<1>5. GLayout'
  <2>1. IsHeaders(pe) /\ StubPart(pe) /\ FilePart(pe) /\ OrderPart(pe, gen.current_offs)
    BY <1>1 DEF GInv, GLayout
  <2>2. IsHeaders(pe)' /\ StubPart(pe)' /\ FilePart(pe)'
    BY <1>1, <1>3, <2>1 DEF StubPart, FilePart, FromFile
  <2>3. OrderPart(pe, gen.current_offs)'
    BY <1>1, <1>2, <1>3, <2>1 DEF OrderPart
  <2> QED BY <2>2, <2>3 DEF GLayout
<1>6. GCount'
  BY <1>1, <1>2, <1>3 DEF GInv, GCount, Late
<1>7. GFiles'
  BY <1>1, <1>2, <1>3 DEF GInv, GFiles, Late
<1>8. GTrees'
  BY <1>1, <1>2, <1>3 DEF GInv, GTrees, Late
<1>9. GEntry'
  <2>1. /\ pe.entry_point = args.stub.entry_point
        /\ \A i \in 1 .. StubLen : pe.sections[i].virt_addr = args.stub.sections[i].virt_addr
    BY <1>1 DEF GInv, GEntry
  <2>2. /\ StubLen \in Nat /\ Len(pe.sections) \in Nat /\ Len(pe.sections) >= StubLen
        /\ \A i \in 1 .. StubLen : pe.sections[i].name = args.stub.sections[i].name
    BY ArgumentTypes DEF GInv, GShape, GLayout, StubPart, FromStub, IsHeaders, IsList
  <2>3. \A i \in 1 .. StubLen : HighAddr(args.stub.sections[i]) = args.stub.sections[i].virt_addr
    BY <1>1, <2>1, <2>2 DEF LowText, HighAddr
  <2> QED BY <1>1, <1>2, <1>3, <2>1, <2>3 DEF GEntry
<1>10. GOut'
  BY <1>2 DEF GOut
<1> QED BY <1>4, <1>5, <1>6, <1>7, <1>8, <1>9, <1>10 DEF GInv

(* RaiseText: the text section and with it the entry point. *)
LEMMA StepRaiseText ==
    ASSUME GInv, RaiseText
    PROVE  GInv'
<1> DEFINE k == Min(LowText)
<1>1. /\ gen.pc = "dtb" /\ gen.n = Len(args.dtb) /\ LowText # {}
      /\ gen' = [gen EXCEPT !.pc = "write"] /\ args' = args /\ out' = out
      /\ pe' = [pe EXCEPT !.sections[k].virt_addr = PAGE,
                          !.entry_point = pe.entry_point + (PAGE - pe.sections[k].virt_addr)]
  BY DEF RaiseText, Goto, MoveText
<1>2. /\ DOMAIN gen' = {"pc", "current_offs", "dtb_virt", "n"} /\ gen'.pc = "write"
      /\ gen'.current_offs = gen.current_offs /\ gen'.dtb_virt = gen.dtb_virt /\ gen'.n = gen.n
  BY <1>1 DEF GInv, GShape
<1>3. /\ Old' = Old /\ StubLen' = StubLen /\ BlockLen' = BlockLen
      /\ FirstDtb' = FirstDtb /\ Filled' = Filled
  BY <1>1, SameArguments
<1>4. /\ StubLen \in Nat /\ Len(pe.sections) \in Nat /\ Len(pe.sections) >= StubLen
      /\ \A i \in 1 .. StubLen : pe.sections[i].name = args.stub.sections[i].name
  BY ArgumentTypes DEF GInv, GShape, GLayout, StubPart, FromStub, IsHeaders, IsList
<1>5. k \in LowText
  <2>1. LowText \subseteq Nat
    BY <1>4 DEF LowText
  <2> QED BY <1>1, <2>1, Least
<1> HIDE DEF k
<1>6. /\ k \in 1 .. Len(pe.sections) /\ pe.sections[k].name = ".text"
      /\ pe.sections[k].virt_addr < PAGE
  BY <1>5 DEF LowText
<1>7. k \in 1 .. StubLen
  BY <1>1, <1>4, <1>6, NewNames DEF Late
<1>8. IsHeaders(pe) /\ StubPart(pe) /\ FilePart(pe) /\ OrderPart(pe, gen.current_offs)
  BY <1>1 DEF GInv, GLayout
<1>9. IsSection(pe.sections[k])
  BY <1>6, <1>8 DEF IsHeaders
<1> DEFINE high == [pe.sections[k] EXCEPT !.virt_addr = PAGE]
           list == [pe.sections EXCEPT ![k] = high]
           entry == pe.entry_point + (PAGE - pe.sections[k].virt_addr)
<1>10. /\ DOMAIN pe' = HeaderFields /\ pe'.sections = list /\ pe'.entry_point = entry
       /\ pe'.header_size = pe.header_size /\ pe'.size_of_headers = pe.size_of_headers
       /\ pe'.size_of_image = pe.size_of_image /\ pe'.first_data = pe.first_data
       /\ pe'.file_align = pe.file_align /\ pe'.section_align = pe.section_align
       /\ pe'.end_of_sections = pe.end_of_sections
  BY <1>1, <1>8 DEF IsHeaders, HeaderFields
<1>11. entry \in Nat
  BY <1>6, <1>8, <1>9, SizesAssumption, SMTT(30) DEF IsHeaders, IsSection
<1>12. /\ IsSection(high) /\ high.virt_addr = PAGE /\ high.name = pe.sections[k].name
       /\ high.file = pe.sections[k].file /\ high.virt_size = pe.sections[k].virt_size
       /\ high.data_size = pe.sections[k].data_size /\ high.data_offs = pe.sections[k].data_offs
  BY <1>9, SizesAssumption DEF IsSection, SectionFields
<1> HIDE DEF high
<1>13. /\ IsList(list) /\ Len(list) = Len(pe.sections) /\ list[k] = high
       /\ \A i \in 1 .. Len(pe.sections) : i # k => list[i] = pe.sections[i]
  <2>1. IsList(pe.sections)
    BY <1>8 DEF IsHeaders
  <2>2. list = [i \in 1 .. Len(pe.sections) |-> IF i = k THEN high ELSE pe.sections[i]]
    BY <2>1 DEF IsList
  <2>3. Len(list) = Len(pe.sections)
    BY <1>4, <2>2
  <2> QED BY <1>4, <1>6, <2>2, <2>3 DEF IsList
<1> HIDE DEF list, entry
<1>14. \A i \in 1 .. Len(pe.sections) :
           /\ pe'.sections[i].name = pe.sections[i].name
           /\ pe'.sections[i].file = pe.sections[i].file
           /\ pe'.sections[i].virt_size = pe.sections[i].virt_size
           /\ pe'.sections[i].data_size = pe.sections[i].data_size
           /\ pe'.sections[i].data_offs = pe.sections[i].data_offs
           /\ i # k => pe'.sections[i] = pe.sections[i]
  BY <1>10, <1>12, <1>13
<1>15. pe'.sections[k].virt_addr = PAGE /\ Len(pe'.sections) = Len(pe.sections)
  BY <1>10, <1>12, <1>13
<1>16. IsHeaders(pe')
  <2>1. \A i \in 1 .. Len(pe'.sections) : IsSection(pe'.sections[i])
    BY <1>8, <1>10, <1>12, <1>13 DEF IsHeaders
  <2> QED BY <1>8, <1>10, <1>11, <1>13, <2>1 DEF IsHeaders
<1>17. GShape'
  BY <1>1, <1>2 DEF GInv, GShape, GenPlaces
<1>18. GLayout'
  <2>1. StubPart(pe)'
    BY <1>1, <1>3, <1>4, <1>8, <1>10, <1>14, <1>15 DEF StubPart, FromStub
  <2>2. \A i \in StubLen + 1 .. Len(pe.sections) : pe'.sections[i] = pe.sections[i]
    BY <1>4, <1>7, <1>14
  <2>3. FilePart(pe)'
    BY <1>1, <1>3, <1>8, <1>10, <1>15, <2>2 DEF FilePart, FromFile
  <2>4. OrderPart(pe, gen.current_offs)'
    <3>1. Len(pe.sections) > StubLen => Len(pe.sections) \in StubLen + 1 .. Len(pe.sections)
      BY <1>4
    <3> QED BY <1>2, <1>3, <1>8, <1>10, <1>15, <2>2, <3>1 DEF OrderPart
  <2> QED BY <1>16, <2>1, <2>3, <2>4 DEF GLayout
<1>19. GCount'
  BY <1>1, <1>2, <1>3, <1>15 DEF GInv, GCount, Late
<1>20. StubLen + 1 \in 1 .. Len(pe.sections) /\ StubLen + 2 \in 1 .. Len(pe.sections)
       /\ (args.initrd # NoFile => StubLen + 3 \in 1 .. Len(pe.sections))
       /\ Len(pe.sections) = FirstDtb + gen.n /\ gen.n \in Nat /\ FirstDtb \in Nat
       /\ FirstDtb > StubLen
  BY <1>1, <1>4, ArgumentTypes, SMTT(30) DEF GInv, GShape, GCount, FirstDtb, Late
<1>21. \A i \in 1 .. Len(pe.sections) : i > StubLen => pe'.sections[i] = pe.sections[i]
  BY <1>4, <1>7, <1>14
<1>22. GFiles'
  <2>1. /\ Holds(pe, StubLen + 1, ".cmdline", args.cmdline, CMDLINE_VIRT)
        /\ Holds(pe, StubLen + 2, ".kernel", args.kernel, KERNEL_VIRT)
        /\ args.initrd # NoFile => Holds(pe, StubLen + 3, ".initrd", args.initrd, INITRD_VIRT)
    BY <1>1 DEF GInv, GFiles, Late
  <2>2. /\ Holds(pe', StubLen + 1, ".cmdline", args.cmdline, CMDLINE_VIRT)
        /\ Holds(pe', StubLen + 2, ".kernel", args.kernel, KERNEL_VIRT)
        /\ args.initrd # NoFile => Holds(pe', StubLen + 3, ".initrd", args.initrd, INITRD_VIRT)
    <3>1. /\ pe'.sections[StubLen + 1] = pe.sections[StubLen + 1]
          /\ pe'.sections[StubLen + 2] = pe.sections[StubLen + 2]
          /\ args.initrd # NoFile => pe'.sections[StubLen + 3] = pe.sections[StubLen + 3]
      <4>1. StubLen + 1 > StubLen /\ StubLen + 2 > StubLen /\ StubLen + 3 > StubLen
        BY <1>4
      <4> QED BY <1>20, <1>21, <4>1
    <3> QED BY <2>1, <3>1 DEF Holds
  <2> QED BY <1>1, <1>2, <1>3, <2>2 DEF GFiles
<1>23. GTrees'
  <2>1. \A n \in 1 .. gen.n : pe'.sections[FirstDtb + n] = pe.sections[FirstDtb + n]
    <3>1. \A n \in 1 .. gen.n : /\ FirstDtb + n \in 1 .. Len(pe.sections)
                                /\ FirstDtb + n > StubLen
      BY <1>4, <1>20
    <3> QED BY <1>21, <3>1
  <2>2. /\ gen.dtb_virt >= DTB_VIRT
        /\ \A n \in 1 .. gen.n :
               LET t == pe.sections[FirstDtb + n] IN
               /\ t.name = ".dtb-" /\ t.file = args.dtb[n]
               /\ t.virt_addr >= DTB_VIRT /\ VirtEnd(t) <= gen.dtb_virt
               /\ \A m \in 1 .. n - 1 : VirtEnd(pe.sections[FirstDtb + m]) <= t.virt_addr
    BY <1>1 DEF GInv, GTrees, Late
  <2>3. \A n \in 1 .. gen.n :
               LET t == pe'.sections[FirstDtb + n] IN
               /\ t.name = ".dtb-" /\ t.file = args.dtb[n]
               /\ t.virt_addr >= DTB_VIRT /\ VirtEnd(t) <= gen.dtb_virt
               /\ \A m \in 1 .. n - 1 : VirtEnd(pe'.sections[FirstDtb + m]) <= t.virt_addr
    <3>1. \A n \in 1 .. gen.n : \A m \in 1 .. n - 1 : m \in 1 .. gen.n
      BY <1>20
    <3> QED BY <2>1, <2>2, <3>1, Zenon
  <2> QED BY <1>1, <1>2, <1>3, <2>2, <2>3 DEF GTrees
<1>24. GEntry'
  <2>1. /\ pe.entry_point = args.stub.entry_point
        /\ \A i \in 1 .. StubLen : pe.sections[i].virt_addr = args.stub.sections[i].virt_addr
    BY <1>1 DEF GInv, GEntry
  <2>2. \A i \in 1 .. StubLen : i # k => args.stub.sections[i].name # ".text"
    <3>1. args.stub \in Stubs /\ StubLen = Len(args.stub.sections)
      BY ArgumentTypes DEF GInv, GShape, StubLen
    <3>2. args.stub.sections[k].name = ".text"
      BY <1>4, <1>6, <1>7
    <3> QED BY <1>7, <3>1, <3>2, LinkedAssumption
  <2>3. ASSUME NEW i \in 1 .. StubLen
        PROVE  /\ pe'.sections[i].virt_addr = HighAddr(args.stub.sections[i])
               /\ args.stub.sections[i].name = ".text" =>
                     pe'.entry_point - HighAddr(args.stub.sections[i])
                         = args.stub.entry_point - args.stub.sections[i].virt_addr
    <3>1. CASE i = k
      <4>1. HighAddr(args.stub.sections[k]) = PAGE
        BY <1>4, <1>6, <1>7, <2>1 DEF HighAddr
      <4>2. pe'.entry_point - PAGE = pe.entry_point - pe.sections[k].virt_addr
        BY <1>8, <1>9, <1>10, SizesAssumption DEF entry, IsHeaders, IsSection
      <4> QED BY <1>7, <1>15, <2>1, <3>1, <4>1, <4>2
    <3>2. CASE i # k
      <4>1. HighAddr(args.stub.sections[i]) = args.stub.sections[i].virt_addr
        BY <2>2, <3>2 DEF HighAddr
      <4>2. pe'.sections[i] = pe.sections[i]
        BY <1>4, <1>14, <3>2
      <4> QED BY <2>1, <2>2, <3>2, <4>1, <4>2
    <3> QED BY <3>1, <3>2
  <2> QED BY <1>1, <1>2, <1>3, <2>3 DEF GEntry
<1>25. GOut'
  BY <1>2 DEF GOut
<1> QED BY <1>17, <1>18, <1>19, <1>22, <1>23, <1>24, <1>25 DEF GInv

(* The pieces of the image, one by one. *)
LEMMA PiecesAre ==
    ASSUME StubLen \in Nat, Len(pe.sections) \in Nat, Len(pe.sections) >= StubLen
    PROVE  /\ Len(Pieces) = 2 + (Len(pe.sections) - StubLen)
           /\ Pieces[1] = [at |-> 0, len |-> pe.header_size]
           /\ Pieces[2] = StubBlock
           /\ \A i \in 1 .. Len(pe.sections) - StubLen :
                 Pieces[2 + i] = [at |-> pe.sections[StubLen + i].data_offs,
                                  len |-> pe.sections[StubLen + i].file.len]
<1>0. PICK m \in Nat : m = Len(pe.sections) - StubLen
  OBVIOUS
<1> DEFINE one == [at |-> 0, len |-> pe.header_size]
           head == <<one, StubBlock>>
           F(i) == [at |-> pe.sections[StubLen + i].data_offs,
                    len |-> pe.sections[StubLen + i].file.len]
           tail == [i \in 1 .. m |-> F(i)]
           T == {one, StubBlock} \cup {F(i) : i \in 1 .. m}
<1>1. Pieces = head \o tail
  BY <1>0 DEF Pieces
<1> HIDE DEF one, F
<1>2. head \in Seq(T) /\ Len(head) = 2 /\ head[1] = one /\ head[2] = StubBlock
  OBVIOUS
<1>3. tail \in Seq(T) /\ Len(tail) = m /\ \A i \in 1 .. m : tail[i] = F(i)
  <2>1. tail \in [1 .. m -> T]
    OBVIOUS
  <2> QED BY <2>1
<1> HIDE DEF head, tail, T
<1>4. /\ Len(head \o tail) = 2 + m
      /\ \A i \in 1 .. 2 : (head \o tail)[i] = head[i]
      /\ \A i \in 1 .. m : (head \o tail)[2 + i] = tail[i]
  <2>1. /\ Len(head \o tail) = Len(head) + Len(tail)
        /\ \A i \in 1 .. Len(head) + Len(tail) :
              (head \o tail)[i] = IF i <= Len(head) THEN head[i] ELSE tail[i - Len(head)]
    BY <1>2, <1>3, ConcatProperties
  <2>2. \A i \in 1 .. m : /\ 2 + i \in 1 .. Len(head) + Len(tail)
                          /\ ~(2 + i <= Len(head)) /\ (2 + i) - Len(head) = i
    BY <1>2, <1>3
  <2> QED BY <1>2, <1>3, <2>1, <2>2
<1>5. \A i \in 1 .. m : Pieces[2 + i] = F(i)
  BY <1>1, <1>3, <1>4
<1>6. Len(Pieces) = 2 + m /\ Pieces[1] = one /\ Pieces[2] = StubBlock
  BY <1>1, <1>2, <1>4
<1> QED BY <1>0, <1>5, <1>6 DEF F, one

(* Unless a file is empty, the image can be written front to back. *)
LEMMA WritesInOrder ==
    ASSUME GInv, gen.pc = "write", Filled
    PROVE  InOrder
<1>1. /\ StubLen \in Nat /\ Len(pe.sections) \in Nat /\ Len(pe.sections) >= StubLen
      /\ IsHeaders(pe) /\ FilePart(pe) /\ OrderPart(pe, gen.current_offs)
      /\ args.stub \in Stubs /\ pe.file_align = args.stub.file_align
  BY ArgumentTypes DEF GInv, GShape, GLayout, StubPart, IsHeaders, IsList
<1>0. PICK m \in Nat : m = Len(pe.sections) - StubLen
  BY <1>1, SMTT(30)
<1>2. /\ Len(Pieces) = 2 + m
      /\ Pieces[1] = [at |-> 0, len |-> pe.header_size]
      /\ Pieces[2] = StubBlock
      /\ \A i \in 1 .. m :
            Pieces[2 + i] = [at |-> pe.sections[StubLen + i].data_offs,
                             len |-> pe.sections[StubLen + i].file.len]
  BY <1>0, <1>1, PiecesAre
<1>3. StubBlock.at = pe.first_data /\ StubBlock.len = BlockLen /\ BlockLen \in Nat
  BY <1>1, StubHeaders DEF StubBlock, BlockLen, Old
<1>4. /\ pe.header_size \in Nat /\ pe.first_data \in Nat /\ pe.header_size <= pe.first_data
      /\ pe.file_align \in Nat \ {0}
  BY <1>1 DEF IsHeaders
<1>5. \A i \in 1 .. m :
          LET t == pe.sections[StubLen + i] IN
          /\ t.data_offs \in Nat /\ t.data_size \in Nat /\ t.file.len \in Nat
          /\ t.file.len <= t.data_size
          /\ t.data_offs >= pe.first_data + BlockLen
          /\ \A j \in 1 .. m : i < j => DataEnd(t) <= pe.sections[StubLen + j].data_offs
  <2> SUFFICES ASSUME NEW i \in 1 .. m
               PROVE  LET t == pe.sections[StubLen + i] IN
                      /\ t.data_offs \in Nat /\ t.data_size \in Nat /\ t.file.len \in Nat
                      /\ t.file.len <= t.data_size
                      /\ t.data_offs >= pe.first_data + BlockLen
                      /\ \A j \in 1 .. m : i < j => DataEnd(t) <= pe.sections[StubLen + j].data_offs
    OBVIOUS
  <2> DEFINE t == pe.sections[StubLen + i]
  <2>1. /\ StubLen + i \in StubLen + 1 .. Len(pe.sections)
        /\ StubLen + i \in 1 .. Len(pe.sections)
        /\ \A j \in 1 .. m : /\ StubLen + j \in StubLen + 1 .. Len(pe.sections)
                             /\ i < j => StubLen + i < StubLen + j
    BY <1>0, <1>1
  <2>2. IsSection(t) /\ FromFile(t)
    BY <1>1, <2>1 DEF IsHeaders, FilePart
  <2>3. t.file.len \in Nat /\ t.data_size = align(t.file.len, pe.file_align)
    BY <1>1, <2>2 DEF FromFile
  <2>4. t.file.len <= t.data_size
    BY <1>4, <2>3, Aligned
  <2>5. /\ t.data_offs >= pe.first_data + BlockLen
        /\ \A j \in 1 .. m : i < j => DataEnd(t) <= pe.sections[StubLen + j].data_offs
    BY <1>1, <2>1 DEF OrderPart
  <2> QED BY <2>2, <2>3, <2>4, <2>5 DEF IsSection
<1> SUFFICES ASSUME NEW p \in 1 .. Len(Pieces) - 1
             PROVE  Pieces[p].at + Pieces[p].len <= Pieces[p + 1].at
  BY DEF InOrder
<1>6. CASE p = 1
  BY <1>2, <1>3, <1>4, <1>6
<1>7. CASE p = 2
  <2>1. 1 \in 1 .. m /\ p + 1 = 2 + 1
    BY <1>2, <1>7
  <2>2. Pieces[2 + 1] = [at |-> pe.sections[StubLen + 1].data_offs,
                         len |-> pe.sections[StubLen + 1].file.len]
    BY <1>2, <2>1
  <2>3. pe.sections[StubLen + 1].data_offs >= pe.first_data + BlockLen
    BY <1>5, <2>1
  <2> QED BY <1>2, <1>3, <1>7, <2>1, <2>2, <2>3
<1>8. CASE p > 2
  <2>1. PICK i \in 1 .. m : p = 2 + i /\ i + 1 \in 1 .. m /\ p + 1 = 2 + (i + 1) /\ i < i + 1
    <3>1. p - 2 \in 1 .. m /\ p = 2 + (p - 2) /\ (p - 2) + 1 \in 1 .. m
          /\ p + 1 = 2 + ((p - 2) + 1) /\ p - 2 < (p - 2) + 1
      BY <1>2, <1>8
    <3> QED BY <3>1
  <2>2. /\ Pieces[2 + i] = [at |-> pe.sections[StubLen + i].data_offs,
                            len |-> pe.sections[StubLen + i].file.len]
        /\ Pieces[2 + (i + 1)] = [at |-> pe.sections[StubLen + (i + 1)].data_offs,
                                  len |-> pe.sections[StubLen + (i + 1)].file.len]
    BY <1>2, <2>1, Zenon
  <2>3. DataEnd(pe.sections[StubLen + i]) <= pe.sections[StubLen + (i + 1)].data_offs
    BY <1>5, <2>1
  <2>4. pe.sections[StubLen + (i + 1)].data_offs \in Nat
    BY <1>5, <2>1
  <2>5. /\ pe.sections[StubLen + i].data_offs \in Nat
        /\ pe.sections[StubLen + i].data_size \in Nat
        /\ pe.sections[StubLen + i].file.len \in Nat
        /\ pe.sections[StubLen + i].file.len <= pe.sections[StubLen + i].data_size
    BY <1>5
  <2>6. pe.sections[StubLen + i].data_offs + pe.sections[StubLen + i].file.len
            <= pe.sections[StubLen + (i + 1)].data_offs
    BY <2>3, <2>4, <2>5, SMTT(30) DEF DataEnd
  <2>7. /\ Pieces[p].at = pe.sections[StubLen + i].data_offs
        /\ Pieces[p].len = pe.sections[StubLen + i].file.len
        /\ Pieces[p + 1].at = pe.sections[StubLen + (i + 1)].data_offs
    <3>1. Pieces[p] = Pieces[2 + i] /\ Pieces[p + 1] = Pieces[2 + (i + 1)]
      BY <2>1, Zenon
    <3> HIDE DEF Pieces
    <3> QED BY <2>2, <3>1
  <2> QED BY <2>6, <2>7
<1> QED BY <1>2, <1>6, <1>7, <1>8

(* WriteImage: only an empty file can make it raise an exception. *)
LEMMA StepWriteImage ==
    ASSUME GInv, WriteImage
    PROVE  GInv'
<1>1. /\ gen.pc = "write" /\ args' = args /\ pe' = pe
      /\ \/ InOrder /\ out' = Pieces /\ gen' = [gen EXCEPT !.pc = "done"]
         \/ ~InOrder /\ out' = out /\ gen' = [gen EXCEPT !.pc = "raised"]
  BY DEF WriteImage, Goto
<1>2. /\ DOMAIN gen' = {"pc", "current_offs", "dtb_virt", "n"}
      /\ gen'.pc \in {"done", "raised"}
      /\ gen'.current_offs = gen.current_offs /\ gen'.dtb_virt = gen.dtb_virt /\ gen'.n = gen.n
      /\ gen'.pc = "done" => InOrder /\ out' = Pieces
      /\ gen'.pc = "raised" => ~InOrder
  BY <1>1 DEF GInv, GShape
<1>3. /\ Old' = Old /\ StubLen' = StubLen /\ BlockLen' = BlockLen
      /\ FirstDtb' = FirstDtb /\ Filled' = Filled
  BY <1>1, SameArguments
<1>4. GShape'
  BY <1>1, <1>2 DEF GInv, GShape, GenPlaces
<1>5. GLayout'
  <2>1. IsHeaders(pe) /\ StubPart(pe) /\ FilePart(pe) /\ OrderPart(pe, gen.current_offs)
    BY <1>1 DEF GInv, GLayout
  <2>2. IsHeaders(pe)' /\ StubPart(pe)' /\ FilePart(pe)'
    BY <1>1, <1>3, <2>1 DEF StubPart, FilePart, FromFile
  <2>3. OrderPart(pe, gen.current_offs)'
    BY <1>1, <1>2, <1>3, <2>1 DEF OrderPart
  <2> QED BY <2>2, <2>3 DEF GLayout
<1>6. GCount'
  BY <1>1, <1>2, <1>3 DEF GInv, GCount, Late
<1>7. GFiles'
  BY <1>1, <1>2, <1>3 DEF GInv, GFiles, Late
<1>8. GTrees'
  BY <1>1, <1>2, <1>3 DEF GInv, GTrees, Late
<1>9. GEntry'
  BY <1>1, <1>2, <1>3 DEF GInv, GEntry
<1>10. GOut'
  <2>1. Pieces' = Pieces
    BY <1>1, <1>3 DEF Pieces, StubBlock
  <2>2. InOrder' = InOrder
    BY <2>1 DEF InOrder
  <2>3. ~InOrder => ~Filled
    BY <1>1, WritesInOrder
  <2> QED BY <1>2, <1>3, <2>1, <2>2, <2>3 DEF GOut
<1> QED BY <1>4, <1>5, <1>6, <1>7, <1>8, <1>9, <1>10 DEF GInv

(* No step of the tool, the firmware or the stub leaves the invariant. *)
THEOREM ImageInvariance == Spec => []GInv
<1>1. Init => GInv
  BY GenStarts DEF Init
<1>2. GInv /\ GenNext => GInv'
  <2> SUFFICES ASSUME GInv, GenNext PROVE GInv'
    OBVIOUS
  <2>1. CASE RefuseStub \/ RefuseKernel \/ RefuseHeaders
    <3>1. /\ args' = args /\ pe' = pe /\ out' = out
          /\ gen' = [gen EXCEPT !.pc = "failed"]
      BY <2>1 DEF RefuseStub, RefuseKernel, RefuseHeaders, Refuse, Goto
    <3>2. "failed" \in {"failed"}
      OBVIOUS
    <3> QED BY <3>1, <3>2, GenGoes
  <2>2. CASE NoInitrd
    <3>1. /\ args' = args /\ pe' = pe /\ out' = out
          /\ gen.pc = "initrd" /\ args.initrd = NoFile
          /\ gen' = [gen EXCEPT !.pc = "dtb"]
      BY <2>2 DEF NoInitrd, Goto
    <3> QED BY <3>1, GenGoes
  <2> QED BY <2>1, <2>2, StepReadStub, StepAddCmdline, StepAddKernel, StepAddInitrd,
             StepAddDtb, StepKeepText, StepRaiseText, StepWriteImage DEF GenNext
<1>3. GInv /\ UNCHANGED genVars => GInv'
  <2> SUFFICES ASSUME GInv, UNCHANGED genVars PROVE GInv'
    OBVIOUS
  <2>1. args' = args /\ gen' = gen /\ pe' = pe /\ out' = out
    BY DEF genVars
  <2>2. /\ Old' = Old /\ StubLen' = StubLen /\ BlockLen' = BlockLen
        /\ FirstDtb' = FirstDtb /\ Filled' = Filled
    BY <2>1, SameArguments
  <2>3. GShape' /\ GFiles' /\ GTrees' /\ GEntry'
    BY <2>1, <2>2 DEF GInv, GShape, GFiles, GTrees, GEntry
  <2>4. GLayout'
    BY <2>1, <2>2 DEF GInv, GLayout, StubPart, FilePart, FromFile, OrderPart
  <2>5. GCount'
    BY <2>1, <2>2 DEF GInv, GCount
  <2>6. GOut'
    <3>1. Pieces' = Pieces
      BY <2>1, <2>2 DEF Pieces, StubBlock
    <3>2. InOrder' = InOrder
      BY <3>1 DEF InOrder
    <3> QED BY <2>1, <2>2, <3>1, <3>2 DEF GInv, GOut
  <2> QED BY <2>3, <2>4, <2>5, <2>6 DEF GInv
<1>4. [Next]_vars => GenNext \/ UNCHANGED genVars
  BY DEF Next, LoadImage, vars, genVars
<1> QED BY <1>1, <1>2, <1>3, <1>4, PTL DEF Spec

(* The data of the stub's sections moves as one block. *)
LEMMA StubData ==
    ASSUME GInv, gen.pc = "done", NEW i \in 1 .. StubLen, pe.sections[i].data_size > 0
    PROVE  /\ pe.sections[i].data_offs = WrittenAt(i)
           /\ pe.sections[i].data_offs >= pe.first_data
           /\ DataEnd(pe.sections[i]) <= pe.first_data + BlockLen
           /\ \A j \in 1 .. StubLen : i < j /\ pe.sections[j].data_size > 0 =>
                 DataEnd(pe.sections[i]) <= pe.sections[j].data_offs
<1>1. /\ args.stub \in Stubs /\ StubPart(pe) /\ StubLen \in Nat /\ IsHeaders(pe)
      /\ Len(pe.sections) \in Nat /\ Len(pe.sections) >= StubLen
  BY ArgumentTypes DEF GInv, GShape, GLayout, StubPart, IsHeaders, IsList
<1>2. PICK d \in Int : d = pe.first_data - Old.first_data
  BY <1>1, StubHeaders DEF IsHeaders
<1>3. /\ Old.first_data \in Nat /\ pe.first_data \in Nat /\ pe.first_data = Old.first_data + d
      /\ Old.end_of_sections \in Nat /\ BlockLen = Old.end_of_sections - Old.first_data
  BY <1>1, <1>2, StubHeaders, SMTT(30) DEF IsHeaders, BlockLen
<1>4. \A j \in 1 .. StubLen :
         /\ pe.sections[j].data_size = args.stub.sections[j].data_size
         /\ pe.sections[j].data_size > 0 =>
               pe.sections[j].data_offs = args.stub.sections[j].data_offs + d
         /\ IsSection(args.stub.sections[j])
         /\ pe.sections[j].data_size > 0 => Old.first_data <= args.stub.sections[j].data_offs
         /\ DataEnd(args.stub.sections[j]) <= Old.end_of_sections
  BY <1>1, <1>2, StubHeaders DEF StubPart, FromStub
<1>5. WrittenAt(i) = pe.first_data + (args.stub.sections[i].data_offs - Old.first_data)
  <2>1. out = Pieces /\ Pieces[2] = StubBlock
    BY <1>1, PiecesAre DEF GInv, GOut
  <2>2. out[2].at = pe.first_data
    BY <2>1 DEF StubBlock
  <2>3. ~(i > StubLen)
    BY <1>1
  <2> QED BY <2>2, <2>3 DEF WrittenAt, Old
<1>6. /\ pe.sections[i].data_size = args.stub.sections[i].data_size
      /\ pe.sections[i].data_offs = args.stub.sections[i].data_offs + d
      /\ args.stub.sections[i].data_offs \in Nat /\ args.stub.sections[i].data_size \in Nat
      /\ Old.first_data <= args.stub.sections[i].data_offs
      /\ DataEnd(args.stub.sections[i]) <= Old.end_of_sections
  BY <1>4 DEF IsSection
<1>7. \A j \in 1 .. StubLen : i < j /\ pe.sections[j].data_size > 0 =>
          DataEnd(pe.sections[i]) <= pe.sections[j].data_offs
  <2> SUFFICES ASSUME NEW j \in 1 .. StubLen, i < j, pe.sections[j].data_size > 0
               PROVE  DataEnd(pe.sections[i]) <= pe.sections[j].data_offs
    OBVIOUS
  <2>1. DataEnd(args.stub.sections[i]) <= args.stub.sections[j].data_offs
    BY <1>1, <1>4, StubHeaders
  <2>2. /\ pe.sections[j].data_offs = args.stub.sections[j].data_offs + d
        /\ args.stub.sections[j].data_offs \in Nat
    BY <1>4 DEF IsSection
  <2> QED BY <1>6, <2>1, <2>2 DEF DataEnd
<1> QED BY <1>3, <1>5, <1>6, <1>7 DEF DataEnd

(* The data of the files is behind it. *)
LEMMA FileData ==
    ASSUME GInv, gen.pc = "done", Filled, NEW i \in StubLen + 1 .. Len(pe.sections)
    PROVE  /\ pe.sections[i].data_offs = WrittenAt(i)
           /\ pe.sections[i].data_offs \in Nat
           /\ pe.sections[i].data_offs >= pe.first_data + BlockLen
           /\ DataEnd(pe.sections[i]) <= ImageLen /\ ImageLen \in Nat
           /\ pe.first_data + BlockLen <= ImageLen
           /\ \A j \in 1 .. Len(pe.sections) : i < j =>
                 DataEnd(pe.sections[i]) <= pe.sections[j].data_offs
<1>1. /\ StubLen \in Nat /\ Len(pe.sections) \in Nat /\ Len(pe.sections) >= StubLen
      /\ IsHeaders(pe) /\ FilePart(pe) /\ OrderPart(pe, gen.current_offs)
      /\ args.stub \in Stubs /\ pe.file_align = args.stub.file_align
      /\ pe.file_align \in Nat \ {0} /\ pe.first_data \in Nat
  BY ArgumentTypes DEF GInv, GShape, GLayout, StubPart, IsHeaders, IsList
<1>0. PICK m \in Nat : m = Len(pe.sections) - StubLen
  <2>1. Len(pe.sections) - StubLen \in Nat
    BY <1>1
  <2> QED BY <2>1, Zenon
<1>2. /\ Len(out) = 2 + m
      /\ \A j \in 1 .. m : out[2 + j] = [at |-> pe.sections[StubLen + j].data_offs,
                                         len |-> pe.sections[StubLen + j].file.len]
  <2>1. out = Pieces
    BY DEF GInv, GOut
  <2> QED BY <1>0, <1>1, <2>1, PiecesAre
<1>3. BlockLen \in Nat
  BY <1>1, StubHeaders
<1>4. i - StubLen \in 1 .. m /\ StubLen + (i - StubLen) = i /\ i \in 1 .. Len(pe.sections)
      /\ 2 + (i - StubLen) = 2 + i - StubLen /\ i > StubLen
  BY <1>0, <1>1
<1>5. pe.sections[i].data_offs = WrittenAt(i)
  <2>1. out[2 + (i - StubLen)] = [at |-> pe.sections[StubLen + (i - StubLen)].data_offs,
                                  len |-> pe.sections[StubLen + (i - StubLen)].file.len]
    BY <1>2, <1>4, Zenon
  <2>2. out[2 + i - StubLen].at = pe.sections[i].data_offs
    BY <1>4, <2>1
  <2> QED BY <1>4, <2>2 DEF WrittenAt
<1>6. /\ pe.sections[i].data_offs >= pe.first_data + BlockLen
      /\ DataEnd(pe.sections[i]) <= gen.current_offs
      /\ \A j \in StubLen + 1 .. Len(pe.sections) : i < j =>
            DataEnd(pe.sections[i]) <= pe.sections[j].data_offs
  BY <1>1 DEF OrderPart
<1>7. \A j \in 1 .. Len(pe.sections) : i < j => j \in StubLen + 1 .. Len(pe.sections)
  BY <1>1
<1> DEFINE t == pe.sections[Len(pe.sections)]
<1>8. /\ DataEnd(t) = gen.current_offs /\ t.data_offs % pe.file_align = 0
      /\ gen.current_offs >= pe.first_data + BlockLen
      /\ gen.current_offs \in Nat
  <2>1. Len(pe.sections) \in StubLen + 1 .. Len(pe.sections) /\ Len(pe.sections) > StubLen
    BY <1>1
  <2> QED BY <1>1, <2>1 DEF OrderPart, GInv, GShape
<1>9. /\ t.data_offs \in Nat /\ t.file.len \in Nat
      /\ t.data_size = align(t.file.len, pe.file_align)
  <2>1. Len(pe.sections) \in StubLen + 1 .. Len(pe.sections)
        /\ Len(pe.sections) \in 1 .. Len(pe.sections)
    BY <1>1
  <2>2. FromFile(t) /\ IsSection(t)
    BY <1>1, <2>1 DEF FilePart, IsHeaders
  <2> QED BY <1>1, <2>2 DEF FromFile, IsSection
<1>10. ImageLen = align(t.data_offs + t.file.len, pe.file_align)
  <2>1. m \in 1 .. m /\ StubLen + m = Len(pe.sections)
    BY <1>0, <1>1, <1>4
  <2>2. out[2 + m] = [at |-> pe.sections[StubLen + m].data_offs,
                      len |-> pe.sections[StubLen + m].file.len]
    BY <1>2, <2>1, Zenon
  <2>3. out[Len(out)].at = t.data_offs /\ out[Len(out)].len = t.file.len
    BY <1>2, <2>1, <2>2
  <2> QED BY <2>3 DEF ImageLen
<1> HIDE DEF t
<1>11. gen.current_offs <= ImageLen /\ ImageLen \in Nat
  <2>1. t.data_offs + align(t.file.len, pe.file_align) <= ImageLen
    BY <1>1, <1>8, <1>9, <1>10, AlignBehind
  <2>2. t.data_offs + t.file.len \in Nat
    BY <1>9
  <2>3. ImageLen \in Nat
    BY <1>1, <1>10, <2>2, Aligned
  <2> QED BY <1>8, <1>9, <2>1, <2>3 DEF DataEnd
<1>12. IsSection(pe.sections[i])
  BY <1>1, <1>4 DEF IsHeaders
<1>13. DataEnd(pe.sections[i]) \in Nat /\ pe.sections[i].data_offs \in Nat
  BY <1>12 DEF DataEnd, IsSection
<1>14. DataEnd(pe.sections[i]) <= ImageLen /\ pe.first_data + BlockLen <= ImageLen
  BY <1>1, <1>3, <1>6, <1>8, <1>11, <1>13
<1> QED BY <1>5, <1>6, <1>7, <1>11, <1>13, <1>14

(* A finished image has a command line, a kernel and so on. *)
LEMMA HasFiles ==
    ASSUME GInv, gen.pc = "done"
    PROVE  /\ StubLen \in Nat /\ Len(pe.sections) \in Nat /\ FirstDtb \in Nat
           /\ FirstDtb > StubLen + 1
           /\ Len(pe.sections) = FirstDtb + Len(args.dtb) /\ Len(args.dtb) \in Nat
           /\ Len(pe.sections) > StubLen + 1
BY ArgumentTypes DEF GInv, GShape, GCount, Late, FirstDtb

(* Every section header of a finished image points to the data of its      *)
(* section, no piece overwrites another and the tool does not raise an     *)
(* exception, unless an input file is empty; however many sections         *)
(* bg_gen_unified_kernel adds and however long headers and data are.       *)
THEOREM Layout == Spec => []FileLayout
<1>1. GInv => FileLayout
  <2> SUFFICES ASSUME GInv, Filled
               PROVE  /\ gen.pc # "raised"
                      /\ gen.pc = "done" =>
                            /\ \A i \in DataSections(pe) :
                                  /\ pe.sections[i].data_offs = WrittenAt(i)
                                  /\ pe.sections[i].data_offs >= pe.size_of_headers
                                  /\ DataEnd(pe.sections[i]) <= ImageLen
                            /\ pe.header_size <= pe.size_of_headers
                            /\ \A i, j \in DataSections(pe) : i < j =>
                                  DataEnd(pe.sections[i]) <= pe.sections[j].data_offs
    BY DEF FileLayout, DataEnd
  <2>1. gen.pc # "raised"
    BY DEF GInv, GOut
  <2> SUFFICES ASSUME gen.pc = "done"
               PROVE  /\ \A i \in DataSections(pe) :
                            /\ pe.sections[i].data_offs = WrittenAt(i)
                            /\ pe.sections[i].data_offs >= pe.size_of_headers
                            /\ DataEnd(pe.sections[i]) <= ImageLen
                      /\ pe.header_size <= pe.size_of_headers
                      /\ \A i, j \in DataSections(pe) : i < j =>
                            DataEnd(pe.sections[i]) <= pe.sections[j].data_offs
    BY <2>1
  <2>2. /\ IsHeaders(pe) /\ pe.header_size <= pe.size_of_headers
        /\ pe.size_of_headers \in Nat /\ pe.first_data \in Nat
        /\ pe.size_of_headers <= pe.first_data
        /\ BlockLen \in Nat
    BY ArgumentTypes, StubHeaders DEF GInv, GShape, GLayout, IsHeaders
  <2>3. /\ StubLen \in Nat /\ Len(pe.sections) \in Nat /\ Len(pe.sections) > StubLen + 1
    BY HasFiles
  <2>4. \A i \in DataSections(pe) :
           /\ pe.sections[i].data_size > 0 /\ IsSection(pe.sections[i])
           /\ i \in 1 .. StubLen \/ i \in StubLen + 1 .. Len(pe.sections)
    BY <2>2, <2>3 DEF DataSections, IsHeaders
  <2>5. pe.first_data + BlockLen <= ImageLen /\ ImageLen \in Nat
    <3>1. StubLen + 1 \in StubLen + 1 .. Len(pe.sections)
      BY <2>3
    <3> QED BY <3>1, FileData
  <2>6. ASSUME NEW i \in DataSections(pe)
        PROVE  /\ pe.sections[i].data_offs = WrittenAt(i)
               /\ pe.sections[i].data_offs >= pe.size_of_headers
               /\ DataEnd(pe.sections[i]) <= ImageLen
    <3>1. pe.sections[i].data_offs \in Nat /\ DataEnd(pe.sections[i]) \in Nat
      BY <2>4 DEF IsSection, DataEnd
    <3>2. CASE i \in 1 .. StubLen
      <4>1. /\ pe.sections[i].data_offs = WrittenAt(i)
            /\ pe.sections[i].data_offs >= pe.first_data
            /\ DataEnd(pe.sections[i]) <= pe.first_data + BlockLen
        BY <2>4, <3>2, StubData
      <4> QED BY <2>2, <2>5, <3>1, <4>1
    <3>3. CASE i \in StubLen + 1 .. Len(pe.sections)
      <4>1. /\ pe.sections[i].data_offs = WrittenAt(i)
            /\ pe.sections[i].data_offs >= pe.first_data + BlockLen
            /\ DataEnd(pe.sections[i]) <= ImageLen
        BY <3>3, FileData
      <4> QED BY <2>2, <2>5, <3>1, <4>1
    <3> QED BY <2>4, <3>2, <3>3
  <2>7. ASSUME NEW i \in DataSections(pe), NEW j \in DataSections(pe), i < j
        PROVE  DataEnd(pe.sections[i]) <= pe.sections[j].data_offs
    <3>1. /\ pe.sections[i].data_offs \in Nat /\ DataEnd(pe.sections[i]) \in Nat
          /\ pe.sections[j].data_offs \in Nat
          /\ pe.sections[i].data_size > 0 /\ pe.sections[j].data_size > 0
      BY <2>4 DEF IsSection, DataEnd
    <3>2. CASE i \in StubLen + 1 .. Len(pe.sections)
      <4>1. j \in 1 .. Len(pe.sections)
        BY <2>3, <2>4
      <4> QED BY <2>7, <3>2, <4>1, FileData
    <3>3. CASE i \in 1 .. StubLen /\ j \in 1 .. StubLen
      BY <2>7, <3>1, <3>3, StubData
    <3>4. CASE i \in 1 .. StubLen /\ j \in StubLen + 1 .. Len(pe.sections)
      <4>1. DataEnd(pe.sections[i]) <= pe.first_data + BlockLen
        BY <3>1, <3>4, StubData
      <4>2. pe.sections[j].data_offs >= pe.first_data + BlockLen
        BY <3>4, FileData
      <4> QED BY <2>2, <3>1, <4>1, <4>2
    <3> QED BY <2>4, <3>2, <3>3, <3>4
  <2> QED BY <2>2, <2>6, <2>7
<1> QED BY <1>1, ImageInvariance, PTL

(* Sections of files are written where their headers say. *)
LEMMA FileAt ==
    ASSUME GInv, gen.pc = "done", NEW i \in StubLen + 1 .. Len(pe.sections)
    PROVE  pe.sections[i].data_offs = WrittenAt(i)
<1>1. StubLen \in Nat /\ Len(pe.sections) \in Nat /\ Len(pe.sections) > StubLen + 1
  BY HasFiles
<1>2. \A j \in 1 .. Len(pe.sections) - StubLen :
          out[2 + j] = [at |-> pe.sections[StubLen + j].data_offs,
                        len |-> pe.sections[StubLen + j].file.len]
  <2>1. out = Pieces
    BY DEF GInv, GOut
  <2>2. Len(pe.sections) >= StubLen
    BY <1>1
  <2> QED BY <1>1, <2>1, <2>2, PiecesAre
<1>3. /\ i - StubLen \in 1 .. Len(pe.sections) - StubLen /\ StubLen + (i - StubLen) = i
      /\ 2 + (i - StubLen) = 2 + i - StubLen /\ i > StubLen
  BY <1>1
<1>4. out[2 + (i - StubLen)] = [at |-> pe.sections[StubLen + (i - StubLen)].data_offs,
                                len |-> pe.sections[StubLen + (i - StubLen)].file.len]
  BY <1>2, <1>3, Zenon
<1>5. out[2 + i - StubLen].at = pe.sections[i].data_offs
  BY <1>3, <1>4
<1> QED BY <1>3, <1>5 DEF WrittenAt

(* What a section behind those of the stub is. *)
LEMMA Kinds ==
    ASSUME GInv, gen.pc = "done", NEW i \in StubLen + 1 .. Len(pe.sections)
    PROVE  \/ i = StubLen + 1 \/ i = StubLen + 2
           \/ i = StubLen + 3 /\ args.initrd # NoFile
           \/ \E n \in 1 .. Len(args.dtb) : i = FirstDtb + n
<1>1. /\ StubLen \in Nat /\ Len(args.dtb) \in Nat /\ Len(pe.sections) = FirstDtb + Len(args.dtb)
      /\ FirstDtb \in Nat
  BY HasFiles
<1>4. FirstDtb = StubLen + (IF args.initrd = NoFile THEN 2 ELSE 3)
  BY DEF FirstDtb
<1>2. CASE i > FirstDtb
  <2>1. i - FirstDtb \in 1 .. Len(args.dtb) /\ i = FirstDtb + (i - FirstDtb)
    BY <1>1, <1>2
  <2> QED BY <2>1
<1>3. CASE i <= FirstDtb
  BY <1>1, <1>3, <1>4
<1> QED BY <1>1, <1>2, <1>3

(* The names and the contents of these sections. *)
LEMMA FileSections ==
    ASSUME GInv, gen.pc = "done"
    PROVE  /\ Holds(pe, StubLen + 1, ".cmdline", args.cmdline, CMDLINE_VIRT)
           /\ Holds(pe, StubLen + 2, ".kernel", args.kernel, KERNEL_VIRT)
           /\ args.initrd # NoFile => Holds(pe, StubLen + 3, ".initrd", args.initrd, INITRD_VIRT)
           /\ \A n \in 1 .. Len(args.dtb) :
                 LET t == pe.sections[FirstDtb + n] IN
                 /\ t.name = ".dtb-" /\ t.file = args.dtb[n]
                 /\ t.virt_addr >= DTB_VIRT /\ VirtEnd(t) <= gen.dtb_virt
                 /\ \A m \in 1 .. n - 1 : VirtEnd(pe.sections[FirstDtb + m]) <= t.virt_addr
<1>1. gen.pc \in {"kernel", "initrd"} \cup Late /\ gen.pc \in {"initrd"} \cup Late
      /\ gen.pc \in Late
  BY DEF Late
<1>2. gen.n = Len(args.dtb)
  BY DEF GInv, GCount
<1> QED BY <1>1, <1>2 DEF GInv, GFiles, GTrees

(* Every section has its part of the address space, if it fits. *)
LEMMA MemoryPlan ==
    ASSUME GInv, gen.pc = "done", Fits
    PROVE  /\ \A i \in 1 .. Len(pe.sections) :
                 IsSection(pe.sections[i]) /\ VirtEnd(pe.sections[i]) \in Nat
           /\ \A i \in 1 .. StubLen :
                 /\ pe.sections[i].virt_addr = HighAddr(args.stub.sections[i])
                 /\ pe.sections[i].virt_size = args.stub.sections[i].virt_size
                 /\ VirtEnd(pe.sections[i]) <= CMDLINE_VIRT
           /\ LET t == pe.sections[StubLen + 1] IN
                 t.virt_addr = CMDLINE_VIRT /\ VirtEnd(t) <= DTB_VIRT
           /\ LET t == pe.sections[StubLen + 2] IN
                 /\ t.virt_addr = KERNEL_VIRT
                 /\ args.initrd # NoFile => VirtEnd(t) <= INITRD_VIRT
           /\ args.initrd # NoFile => pe.sections[StubLen + 3].virt_addr = INITRD_VIRT
           /\ \A n \in 1 .. Len(args.dtb) :
                 LET t == pe.sections[FirstDtb + n] IN
                 t.virt_addr >= DTB_VIRT /\ VirtEnd(t) <= KERNEL_VIRT
<1>1. /\ StubLen \in Nat /\ Len(pe.sections) \in Nat /\ Len(pe.sections) > StubLen + 1
      /\ FirstDtb \in Nat /\ FirstDtb > StubLen + 1
      /\ Len(pe.sections) = FirstDtb + Len(args.dtb) /\ Len(args.dtb) \in Nat
  BY HasFiles
<1>2. /\ IsHeaders(pe) /\ StubPart(pe) /\ FilePart(pe) /\ args.stub \in Stubs
      /\ pe.file_align = args.stub.file_align /\ gen.dtb_virt \in Nat
      /\ \A i \in 1 .. StubLen : pe.sections[i].virt_addr = HighAddr(args.stub.sections[i])
  BY ArgumentTypes DEF GInv, GShape, GLayout, StubPart, GEntry
<1>3. \A i \in 1 .. Len(pe.sections) :
          IsSection(pe.sections[i]) /\ VirtEnd(pe.sections[i]) \in Nat
  BY <1>2 DEF IsHeaders, IsSection, VirtEnd
<1>4. \A i \in 1 .. StubLen :
          /\ pe.sections[i].virt_addr = HighAddr(args.stub.sections[i])
          /\ pe.sections[i].virt_size = args.stub.sections[i].virt_size
          /\ VirtEnd(pe.sections[i]) <= CMDLINE_VIRT
  <2>1. \A i \in 1 .. StubLen :
            HighAddr(args.stub.sections[i]) + args.stub.sections[i].virt_size <= CMDLINE_VIRT
    BY <1>2, LinkedAssumption DEF StubLen
  <2>2. \A i \in 1 .. StubLen : pe.sections[i].virt_size = args.stub.sections[i].virt_size
    BY <1>2 DEF StubPart, FromStub
  <2> QED BY <1>2, <2>1, <2>2 DEF VirtEnd
<1>5. \A i \in StubLen + 1 .. Len(pe.sections) :
          VirtEnd(pe.sections[i]) = pe.sections[i].virt_addr + Size(pe.sections[i].file)
  BY <1>2 DEF FilePart, FromFile, VirtEnd, Size
<1>6. /\ {CMDLINE_VIRT, DTB_VIRT, KERNEL_VIRT, INITRD_VIRT} \subseteq Nat
      /\ args.cmdline.len \in Nat /\ args.kernel.len \in Nat /\ pe.file_align \in Nat \ {0}
  BY <1>2, AddressesAssumption, ArgumentTypes DEF GInv, GShape, IsHeaders
<1>7. Size(args.cmdline) \in Nat /\ Size(args.kernel) \in Nat
  BY <1>6, Aligned DEF Size
<1>8. pe.sections[StubLen + 1].virt_addr = CMDLINE_VIRT
      /\ VirtEnd(pe.sections[StubLen + 1]) <= DTB_VIRT
  <2>1. StubLen + 1 \in StubLen + 1 .. Len(pe.sections)
    BY <1>1
  <2>2. VirtEnd(pe.sections[StubLen + 1]) = CMDLINE_VIRT + Size(args.cmdline)
    BY <1>5, <2>1, FileSections DEF Holds
  <2>3. Size(args.cmdline) <= DTB_VIRT - CMDLINE_VIRT
    BY DEF Fits
  <2> QED BY <1>6, <1>7, <2>2, <2>3, FileSections DEF Holds
<1>9. /\ pe.sections[StubLen + 2].virt_addr = KERNEL_VIRT
      /\ args.initrd # NoFile => VirtEnd(pe.sections[StubLen + 2]) <= INITRD_VIRT
  <2>1. StubLen + 2 \in StubLen + 1 .. Len(pe.sections)
    BY <1>1
  <2>2. VirtEnd(pe.sections[StubLen + 2]) = KERNEL_VIRT + Size(args.kernel)
    BY <1>5, <2>1, FileSections DEF Holds
  <2>3. args.initrd # NoFile => Size(args.kernel) <= INITRD_VIRT - KERNEL_VIRT
    BY DEF Fits
  <2> QED BY <1>6, <1>7, <2>2, <2>3, FileSections DEF Holds
<1>10. args.initrd # NoFile => pe.sections[StubLen + 3].virt_addr = INITRD_VIRT
  BY FileSections DEF Holds
<1>11. \A n \in 1 .. Len(args.dtb) :
          LET t == pe.sections[FirstDtb + n] IN
          t.virt_addr >= DTB_VIRT /\ VirtEnd(t) <= KERNEL_VIRT
  <2> SUFFICES ASSUME NEW n \in 1 .. Len(args.dtb)
               PROVE  /\ pe.sections[FirstDtb + n].virt_addr >= DTB_VIRT
                      /\ VirtEnd(pe.sections[FirstDtb + n]) <= KERNEL_VIRT
    OBVIOUS
  <2>1. /\ pe.sections[FirstDtb + n].virt_addr >= DTB_VIRT
        /\ VirtEnd(pe.sections[FirstDtb + n]) <= gen.dtb_virt
    BY FileSections
  <2>2. gen.dtb_virt <= KERNEL_VIRT
    BY DEF Fits
  <2>3. FirstDtb + n \in 1 .. Len(pe.sections)
    BY <1>1
  <2>4. VirtEnd(pe.sections[FirstDtb + n]) \in Nat
    BY <1>3, <2>3
  <2> QED BY <1>2, <1>6, <2>1, <2>2, <2>4
<1> QED BY <1>3, <1>4, <1>8, <1>9, <1>10, <1>11

(* Two sections, not both of the stub, do not meet in memory. *)
LEMMA FilesApart ==
    ASSUME GInv, gen.pc = "done", Fits,
           NEW i \in StubLen + 1 .. Len(pe.sections), NEW j \in 1 .. Len(pe.sections), j # i
    PROVE  Apart(pe.sections[i], pe.sections[j])
<1>0. /\ StubLen \in Nat /\ Len(pe.sections) \in Nat /\ Len(args.dtb) \in Nat
      /\ FirstDtb \in Nat /\ FirstDtb > StubLen + 1
      /\ Len(pe.sections) = FirstDtb + Len(args.dtb)
  BY HasFiles
<1>a. /\ CMDLINE_VIRT \in Nat /\ DTB_VIRT \in Nat /\ KERNEL_VIRT \in Nat /\ INITRD_VIRT \in Nat
      /\ CMDLINE_VIRT <= DTB_VIRT /\ DTB_VIRT <= KERNEL_VIRT /\ KERNEL_VIRT <= INITRD_VIRT
  BY AddressesAssumption
<1> DEFINE s == pe.sections[i]
           t == pe.sections[j]
           Dtb(k) == \E n \in 1 .. Len(args.dtb) : k = FirstDtb + n
<1>1. /\ s.virt_addr \in Nat /\ VirtEnd(s) \in Nat /\ t.virt_addr \in Nat /\ VirtEnd(t) \in Nat
      /\ VirtEnd(s) >= s.virt_addr /\ VirtEnd(t) >= t.virt_addr
  <2>1. i \in 1 .. Len(pe.sections)
    BY <1>0
  <2>2. /\ IsSection(s) /\ VirtEnd(s) \in Nat /\ IsSection(t) /\ VirtEnd(t) \in Nat
    BY <2>1, MemoryPlan, Zenon
  <2> HIDE DEF s, t
  <2> QED BY <2>2 DEF IsSection, VirtEnd
<1>2. \A k \in 1 .. Len(pe.sections) :
         \/ k \in 1 .. StubLen \/ k = StubLen + 1 \/ k = StubLen + 2
         \/ k = StubLen + 3 /\ args.initrd # NoFile
         \/ Dtb(k)
  <2> SUFFICES ASSUME NEW k \in 1 .. Len(pe.sections), k \notin 1 .. StubLen
               PROVE  \/ k = StubLen + 1 \/ k = StubLen + 2
                      \/ k = StubLen + 3 /\ args.initrd # NoFile
                      \/ Dtb(k)
    OBVIOUS
  <2>1. k \in StubLen + 1 .. Len(pe.sections)
    BY <1>0
  <2> QED BY <2>1, Kinds
<1>3. i \in 1 .. Len(pe.sections)
  BY <1>0
<1>4. ASSUME Dtb(i), Dtb(j)
      PROVE  Apart(s, t)
  <2>1. PICK n \in 1 .. Len(args.dtb) : i = FirstDtb + n
    BY <1>4
  <2>2. PICK m \in 1 .. Len(args.dtb) : j = FirstDtb + m
    BY <1>4
  <2>3. \A p \in 1 .. Len(args.dtb) : \A q \in 1 .. p - 1 :
           VirtEnd(pe.sections[FirstDtb + q]) <= pe.sections[FirstDtb + p].virt_addr
    BY FileSections
  <2>4. n \in 1 .. m - 1 \/ m \in 1 .. n - 1
    BY <1>0, <2>1, <2>2
  <2> QED BY <2>1, <2>2, <2>3, <2>4 DEF Apart
<1>6. i \notin 1 .. StubLen
  BY <1>0
<1>7. /\ i = StubLen + 1 => s.virt_addr = CMDLINE_VIRT /\ VirtEnd(s) <= DTB_VIRT
      /\ i = StubLen + 2 => /\ s.virt_addr = KERNEL_VIRT
                            /\ args.initrd # NoFile => VirtEnd(s) <= INITRD_VIRT
      /\ i = StubLen + 3 /\ args.initrd # NoFile => s.virt_addr = INITRD_VIRT
      /\ Dtb(i) => s.virt_addr >= DTB_VIRT /\ VirtEnd(s) <= KERNEL_VIRT
  BY MemoryPlan, Zenon
<1>8. /\ j \in 1 .. StubLen => VirtEnd(t) <= CMDLINE_VIRT
      /\ j = StubLen + 1 => t.virt_addr = CMDLINE_VIRT /\ VirtEnd(t) <= DTB_VIRT
      /\ j = StubLen + 2 => /\ t.virt_addr = KERNEL_VIRT
                            /\ args.initrd # NoFile => VirtEnd(t) <= INITRD_VIRT
      /\ j = StubLen + 3 /\ args.initrd # NoFile => t.virt_addr = INITRD_VIRT
      /\ Dtb(j) => t.virt_addr >= DTB_VIRT /\ VirtEnd(t) <= KERNEL_VIRT
  BY MemoryPlan, Zenon
<1> HIDE DEF s, t, Dtb
<1>5. SUFFICES Apart(s, t)
  BY DEF s, t
<1>b. \/ j \in 1 .. StubLen \/ j = StubLen + 1 \/ j = StubLen + 2
      \/ j = StubLen + 3 /\ args.initrd # NoFile
      \/ Dtb(j)
  BY <1>2
<1>9. CASE i = StubLen + 1
  BY <1>0, <1>a, <1>1, <1>b, <1>7, <1>8, <1>9 DEF Apart
<1>10. CASE i = StubLen + 2
  BY <1>0, <1>a, <1>1, <1>b, <1>7, <1>8, <1>10 DEF Apart
<1>11. CASE i = StubLen + 3 /\ args.initrd # NoFile
  BY <1>0, <1>a, <1>1, <1>b, <1>7, <1>8, <1>11 DEF Apart
<1>12. CASE Dtb(i)
  <2>1. CASE Dtb(j)
    BY <1>4, <1>12, <2>1
  <2>2. CASE ~Dtb(j)
    BY <1>0, <1>a, <1>1, <1>b, <1>7, <1>8, <1>12, <2>2 DEF Apart
  <2> QED BY <2>1, <2>2
<1> QED BY <1>2, <1>3, <1>6, <1>9, <1>10, <1>11, <1>12

(* If everything fits its place, loading spoils neither the files nor the  *)
(* text of the stub.                                                       *)
LEMMA Survivors ==
    ASSUME GInv, gen.pc = "done", Fits, NEW i \in 1 .. Len(pe.sections),
           i > StubLen \/ pe.sections[i].name = ".text"
    PROVE  Survives(i)
<1>1. /\ StubLen \in Nat /\ Len(pe.sections) \in Nat /\ Len(pe.sections) > StubLen + 1
      /\ pe.size_of_headers \in Nat /\ pe.size_of_image \in Nat /\ pe.size_of_headers <= PAGE
      /\ {PAGE, CMDLINE_VIRT, DTB_VIRT, KERNEL_VIRT, INITRD_VIRT} \subseteq Nat
      /\ PAGE <= CMDLINE_VIRT /\ CMDLINE_VIRT <= DTB_VIRT
      /\ DTB_VIRT <= KERNEL_VIRT /\ KERNEL_VIRT <= INITRD_VIRT
  BY HasFiles, AddressesAssumption, SizesAssumption DEF GInv, GLayout, IsHeaders, Fits
<1>2. \A k \in StubLen + 1 .. Len(pe.sections) : VirtEnd(pe.sections[k]) <= pe.size_of_image
  BY DEF GInv, GLayout, FilePart
<1>3. pe.sections[i].virt_addr \in Nat /\ VirtEnd(pe.sections[i]) \in Nat
  BY MemoryPlan DEF IsSection
<1>4. CASE i > StubLen
  <2>1. i \in StubLen + 1 .. Len(pe.sections)
    BY <1>1, <1>4
  <2>2. pe.sections[i].virt_addr >= CMDLINE_VIRT
    <3>1. CASE \E n \in 1 .. Len(args.dtb) : i = FirstDtb + n
      <4>1. pe.sections[i].virt_addr >= DTB_VIRT
        BY <3>1, FileSections
      <4> QED BY <1>1, <1>3, <4>1
    <3>2. CASE i = StubLen + 1 \/ i = StubLen + 2 \/ (i = StubLen + 3 /\ args.initrd # NoFile)
      BY <1>1, <3>2, MemoryPlan, SMTT(30)
    <3> QED BY <2>1, <3>1, <3>2, Kinds
  <2>3. \A j \in 1 .. Len(pe.sections) : j # i => Apart(pe.sections[i], pe.sections[j])
    BY <2>1, FilesApart
  <2>4. pe.sections[i].data_offs = WrittenAt(i)
    BY <2>1, FileAt
  <2> QED BY <1>1, <1>2, <1>3, <2>1, <2>2, <2>3, <2>4 DEF Survives
<1>5. CASE i <= StubLen
  <2>1. i \in 1 .. StubLen /\ pe.sections[i].name = ".text"
    BY <1>1, <1>5
  <2>2. /\ args.stub \in Stubs /\ args.stub.sections[i].name = ".text"
        /\ IsSection(args.stub.sections[i])
    BY <2>1, ArgumentTypes, StubHeaders DEF GInv, GShape, GLayout, StubPart, FromStub
  <2>3. /\ pe.sections[i].virt_addr = HighAddr(args.stub.sections[i])
        /\ VirtEnd(pe.sections[i]) <= CMDLINE_VIRT
    BY <2>1, MemoryPlan
  <2>4. pe.sections[i].virt_addr >= PAGE
    <3>1. PAGE \in Nat /\ args.stub.sections[i].virt_addr \in Nat
      BY <2>2, SizesAssumption DEF IsSection
    <3>2. HighAddr(args.stub.sections[i]) >= PAGE
      BY <2>2, <3>1 DEF HighAddr
    <3> QED BY <2>3, <3>2
  <2>5. VirtEnd(pe.sections[i]) <= pe.size_of_image
    <3>1. StubLen + 1 \in StubLen + 1 .. Len(pe.sections)
          /\ StubLen + 1 \in 1 .. Len(pe.sections)
      BY <1>1
    <3>2. VirtEnd(pe.sections[StubLen + 1]) <= pe.size_of_image
      BY <1>2, <3>1
    <3>3. /\ pe.sections[StubLen + 1].virt_addr = CMDLINE_VIRT
          /\ IsSection(pe.sections[StubLen + 1])
      BY <3>1, MemoryPlan
    <3> QED BY <1>1, <1>3, <2>3, <3>2, <3>3, SMTT(30) DEF VirtEnd, IsSection
  <2>6. ASSUME NEW j \in 1 .. Len(pe.sections), j # i
        PROVE  Apart(pe.sections[i], pe.sections[j])
    <3>1. CASE j > StubLen
      <4>1. j \in StubLen + 1 .. Len(pe.sections)
        BY <1>1, <3>1
      <4>2. Apart(pe.sections[j], pe.sections[i])
        BY <2>6, <4>1, FilesApart
      <4> QED BY <4>2 DEF Apart
    <3>2. CASE j <= StubLen
      <4>1. j \in 1 .. StubLen
        BY <1>1, <3>2
      <4>2. /\ pe.sections[j].virt_addr = HighAddr(args.stub.sections[j])
            /\ pe.sections[j].virt_size = args.stub.sections[j].virt_size
            /\ pe.sections[i].virt_size = args.stub.sections[i].virt_size
        BY <2>1, <4>1, MemoryPlan
      <4>3. \/ HighAddr(args.stub.sections[i]) + args.stub.sections[i].virt_size
                   <= HighAddr(args.stub.sections[j])
            \/ HighAddr(args.stub.sections[j]) + args.stub.sections[j].virt_size
                   <= HighAddr(args.stub.sections[i])
        BY <2>1, <2>2, <2>6, <4>1, LinkedAssumption DEF StubLen
      <4> QED BY <2>3, <4>2, <4>3 DEF Apart, VirtEnd
    <3> QED BY <1>1, <3>1, <3>2
  <2>7. pe.sections[i].data_size > 0 => pe.sections[i].data_offs = WrittenAt(i)
    BY <2>1, StubData
  <2> QED BY <1>1, <1>3, <2>4, <2>5, <2>6, <2>7 DEF Survives
<1> QED BY <1>1, <1>4, <1>5

-----------------------------------------------------------------------------
(* Part 3: what the stub starts. *)

Before == {"off", "fdt", "open"}

(* The section i, once it was scanned. *)
Found(i) == IF stub.n >= i THEN i ELSE NoSection

(* The sections in memory are those of the image. *)
RLoaded ==
    /\ sections # <<>> =>
           gen.pc = "done" /\ sections = [i \in 1 .. Len(pe.sections) |-> LoadedSection(i)]
    /\ sections = <<>> => stub = NewStub /\ fw.table = board.tree /\ fw.initrd = FALSE

(* What scanning the headers has found. *)
RScan ==
    /\ stub.n \in 0 .. Len(sections)
    /\ stub.pc \in Before => stub.n = 0
    /\ stub.pc \notin Before \cup {"scan"} => stub.n = Len(sections)
    /\ stub.cmdline = Found(StubLen + 1)
    /\ stub.kernel = Found(StubLen + 2)
    /\ stub.initrd = IF args.initrd = NoFile THEN NoSection ELSE Found(StubLen + 3)

(* The device tree that is to replace the firmware's. *)
ForBoard(n) == board.tree # NoTree /\ args.dtb[n].compat = board.tree.compat

RAlt ==
    /\ stub.pc \in {"off", "fdt"} => stub.compatible = NoCompat
    /\ stub.pc \notin {"off", "fdt"} =>
          \/ stub.compatible = NoCompat /\ (board.tree = NoTree \/ fw.table.id \in Matching)
          \/ board.tree # NoTree /\ stub.compatible = board.tree.compat
    /\ stub.alt # NoSection =>
          /\ stub.compatible # NoCompat
          /\ \E n \in 1 .. Len(args.dtb) : stub.alt = FirstDtb + n /\ ForBoard(n)
    /\ stub.pc \in {"fixup_size", "clone", "fixup", "table"} => stub.alt # NoSection
    /\ stub.alt = NoSection => \A n \in 1 .. Len(args.dtb) :
          FirstDtb + n <= stub.n => args.dtb[n].compat # stub.compatible

(* Which tree is in the configuration table. *)
RTable ==
    /\ \/ fw.table = board.tree
       \/ board.tree # NoTree /\ fw.table.compat = board.tree.compat /\ fw.table.id \in Matching
    /\ stub.pc \in {"vars", "entry", "running"} /\ stub.alt # NoSection =>
          fw.table.id \in Matching

(* What is registered. *)
Offered == {"alloc", "copy", "register", "fixup_size", "clone", "fixup", "table", "vars",
            "entry", "running"}
Started == Offered \ {"alloc", "copy", "register"}

RFirmware ==
    /\ args.initrd = NoFile => fw.initrd = FALSE
    /\ stub.pc \in Offered /\ args.initrd # NoFile => fw.initrd = TRUE
    /\ stub.pc \in Started => fw.kernel = TRUE

(* The buffer of the kernel. *)
RCopy ==
    /\ stub.pc \in Before \cup {"scan", "initrd", "alloc", "copy"} => stub.written = 0
    /\ stub.pc = "copy" => stub.base \in Bases
    /\ CopyFits
    /\ stub.pc = "copy" /\ Fits => stub.pages = kernel_pages(args.kernel)

RInv ==
    /\ RLoaded /\ RScan /\ RFirmware /\ RCopy
    /\ sections # <<>> /\ Fits => RAlt /\ RTable

-----------------------------------------------------------------------------
(* What is in memory once the image is loaded. *)
LEMMA InMemory ==
    ASSUME GInv, RLoaded, sections # <<>>
    PROVE  /\ StubLen \in Nat /\ FirstDtb \in Nat /\ FirstDtb >= StubLen + 2
           /\ args.initrd = NoFile => FirstDtb = StubLen + 2
           /\ args.initrd # NoFile => FirstDtb = StubLen + 3
           /\ Len(args.dtb) \in Nat
           /\ Len(sections) = FirstDtb + Len(args.dtb) /\ Len(sections) = Len(pe.sections)
           /\ gen.pc = "done"
           /\ \A i \in 1 .. StubLen :
                 sections[i].name \notin {".cmdline", ".kernel", ".initrd", ".dtb-"}
           /\ sections[StubLen + 1].name = ".cmdline"
           /\ sections[StubLen + 2].name = ".kernel"
           /\ args.initrd # NoFile => sections[StubLen + 3].name = ".initrd"
           /\ \A n \in 1 .. Len(args.dtb) : sections[FirstDtb + n].name = ".dtb-"
<1>1. gen.pc = "done" /\ sections = [i \in 1 .. Len(pe.sections) |-> LoadedSection(i)]
  BY DEF RLoaded
<1>2. /\ StubLen \in Nat /\ Len(pe.sections) \in Nat /\ Len(pe.sections) > StubLen + 1
      /\ FirstDtb \in Nat /\ FirstDtb > StubLen + 1
      /\ Len(pe.sections) = FirstDtb + Len(args.dtb) /\ Len(args.dtb) \in Nat
  BY <1>1, HasFiles
<1>3. /\ args.initrd = NoFile => FirstDtb = StubLen + 2
      /\ args.initrd # NoFile => FirstDtb = StubLen + 3
      /\ FirstDtb >= StubLen + 2
  BY <1>2 DEF FirstDtb
<1>4. Len(sections) = Len(pe.sections)
  BY <1>1, <1>2
<1>5. \A i \in 1 .. Len(pe.sections) : sections[i].name = pe.sections[i].name
  BY <1>1 DEF LoadedSection
<1>6. \A i \in 1 .. StubLen : pe.sections[i].name \notin {".cmdline", ".kernel", ".initrd", ".dtb-"}
  <2>1. args.stub \in Stubs /\ \A i \in 1 .. StubLen :
            pe.sections[i].name = args.stub.sections[i].name
    BY ArgumentTypes DEF GInv, GShape, GLayout, StubPart, FromStub
  <2> QED BY <2>1, LinkedAssumption DEF StubLen
<1>7. /\ pe.sections[StubLen + 1].name = ".cmdline"
      /\ pe.sections[StubLen + 2].name = ".kernel"
      /\ args.initrd # NoFile => pe.sections[StubLen + 3].name = ".initrd"
      /\ \A n \in 1 .. Len(args.dtb) : pe.sections[FirstDtb + n].name = ".dtb-"
  BY <1>1, FileSections DEF Holds
<1>8. /\ StubLen + 1 \in 1 .. Len(pe.sections) /\ StubLen + 2 \in 1 .. Len(pe.sections)
      /\ args.initrd # NoFile => StubLen + 3 \in 1 .. Len(pe.sections)
      /\ \A n \in 1 .. Len(args.dtb) : FirstDtb + n \in 1 .. Len(pe.sections)
      /\ \A i \in 1 .. StubLen : i \in 1 .. Len(pe.sections)
  <2>1. /\ StubLen + 1 \in 1 .. Len(pe.sections) /\ StubLen + 2 \in 1 .. Len(pe.sections)
        /\ \A i \in 1 .. StubLen : i \in 1 .. Len(pe.sections)
    BY <1>2
  <2>2. args.initrd # NoFile => StubLen + 3 \in 1 .. Len(pe.sections)
    BY <1>2, <1>3
  <2>3. \A n \in 1 .. Len(args.dtb) : FirstDtb + n \in 1 .. Len(pe.sections)
    BY <1>2
  <2> QED BY <2>1, <2>2, <2>3
<1>9. /\ sections[StubLen + 1].name = ".cmdline"
      /\ sections[StubLen + 2].name = ".kernel"
      /\ args.initrd # NoFile => sections[StubLen + 3].name = ".initrd"
  BY <1>5, <1>7, <1>8
<1>10. \A n \in 1 .. Len(args.dtb) : sections[FirstDtb + n].name = ".dtb-"
  BY <1>5, <1>7, <1>8
<1>11. \A i \in 1 .. StubLen : sections[i].name \notin {".cmdline", ".kernel", ".initrd", ".dtb-"}
  BY <1>5, <1>6, <1>8
<1>12. Len(sections) = FirstDtb + Len(args.dtb)
  BY <1>2, <1>4
<1> QED BY <1>1, <1>2, <1>3, <1>4, <1>9, <1>10, <1>11, <1>12, Zenon

(* The contents of these sections, if everything fits its place. *)
LEMMA Contents ==
    ASSUME GInv, RLoaded, sections # <<>>, Fits
    PROVE  /\ sections[StubLen + 1].file = args.cmdline
           /\ sections[StubLen + 2].file = args.kernel
           /\ sections[StubLen + 2].virt_size = Size(args.kernel)
           /\ args.initrd # NoFile => sections[StubLen + 3].file = args.initrd
           /\ \A n \in 1 .. Len(args.dtb) : sections[FirstDtb + n].file = args.dtb[n]
<1>1. gen.pc = "done" /\ sections = [i \in 1 .. Len(pe.sections) |-> LoadedSection(i)]
  BY DEF RLoaded
<1>2. /\ StubLen \in Nat /\ Len(pe.sections) \in Nat /\ Len(pe.sections) > StubLen + 1
      /\ FirstDtb \in Nat /\ FirstDtb > StubLen + 1
      /\ Len(pe.sections) = FirstDtb + Len(args.dtb) /\ Len(args.dtb) \in Nat
      /\ args.initrd # NoFile => FirstDtb = StubLen + 3
  BY <1>1, InMemory, HasFiles
<1>3. \A i \in StubLen + 1 .. Len(pe.sections) :
          /\ sections[i].file = pe.sections[i].file
          /\ sections[i].virt_size = Size(pe.sections[i].file)
  <2> SUFFICES ASSUME NEW i \in StubLen + 1 .. Len(pe.sections)
               PROVE  /\ sections[i].file = pe.sections[i].file
                      /\ sections[i].virt_size = Size(pe.sections[i].file)
    OBVIOUS
  <2>1. i \in 1 .. Len(pe.sections) /\ i > StubLen
    <3>1. StubLen \in Nat /\ Len(pe.sections) \in Nat
      BY <1>2
    <3> QED BY <3>1
  <2>2. Survives(i)
    BY <1>1, <2>1, Survivors
  <2>3. pe.sections[i].virt_size = Size(pe.sections[i].file)
    BY DEF GInv, GLayout, StubPart, FilePart, FromFile, Size
  <2> QED BY <1>1, <2>1, <2>2, <2>3 DEF LoadedSection
<1>4. /\ StubLen + 1 \in StubLen + 1 .. Len(pe.sections)
      /\ StubLen + 2 \in StubLen + 1 .. Len(pe.sections)
      /\ args.initrd # NoFile => StubLen + 3 \in StubLen + 1 .. Len(pe.sections)
      /\ \A n \in 1 .. Len(args.dtb) : FirstDtb + n \in StubLen + 1 .. Len(pe.sections)
  <2>1. /\ StubLen + 1 \in StubLen + 1 .. Len(pe.sections)
        /\ StubLen + 2 \in StubLen + 1 .. Len(pe.sections)
    BY <1>2
  <2>2. args.initrd # NoFile => StubLen + 3 \in StubLen + 1 .. Len(pe.sections)
    BY <1>2
  <2>3. \A n \in 1 .. Len(args.dtb) : FirstDtb + n \in StubLen + 1 .. Len(pe.sections)
    BY <1>2
  <2> QED BY <2>1, <2>2, <2>3
<1>5. /\ pe.sections[StubLen + 1].file = args.cmdline
      /\ pe.sections[StubLen + 2].file = args.kernel
      /\ args.initrd # NoFile => pe.sections[StubLen + 3].file = args.initrd
      /\ \A n \in 1 .. Len(args.dtb) : pe.sections[FirstDtb + n].file = args.dtb[n]
  BY <1>1, FileSections DEF Holds
<1> QED BY <1>3, <1>4, <1>5

(* The text of the stub, too. *)
LEMMA Entry ==
    ASSUME GInv, RLoaded, sections # <<>>, Fits
    PROVE  SameEntry
<1> SUFFICES ASSUME NEW i \in 1 .. Len(args.stub.sections),
                    args.stub.sections[i].name = ".text"
             PROVE  /\ sections[i].file # Garbage
                    /\ pe.entry_point - pe.sections[i].virt_addr
                           = args.stub.entry_point - args.stub.sections[i].virt_addr
  BY DEF SameEntry
<1>1. gen.pc = "done" /\ sections = [k \in 1 .. Len(pe.sections) |-> LoadedSection(k)]
  BY DEF RLoaded
<1>2. i \in 1 .. StubLen /\ i \in 1 .. Len(pe.sections)
  BY <1>1, HasFiles DEF StubLen
<1>3. /\ args.stub \in Stubs /\ pe.sections[i].name = ".text"
      /\ pe.sections[i].file = args.stub.sections[i].file
  BY <1>2, ArgumentTypes DEF GInv, GShape, GLayout, StubPart, FromStub
<1>4. Survives(i)
  BY <1>1, <1>2, <1>3, Survivors
<1>5. sections[i].file = args.stub.sections[i].file
  BY <1>1, <1>2, <1>3, <1>4 DEF LoadedSection
<1>6. args.stub.sections[i].file # Garbage
  BY <1>3, LinkedAssumption
<1>7. /\ pe.sections[i].virt_addr = HighAddr(args.stub.sections[i])
      /\ pe.entry_point - HighAddr(args.stub.sections[i])
             = args.stub.entry_point - args.stub.sections[i].virt_addr
  BY <1>1, <1>2 DEF GInv, GEntry
<1> QED BY <1>5, <1>6, <1>7

(* The image does not change while it runs. *)
Frozen ==
    /\ args' = args /\ gen' = gen /\ pe' = pe /\ out' = out
    /\ board' = board /\ sections' = sections

(* What depends on the image only. *)
LEMMA FrozenSame ==
    ASSUME Frozen
    PROVE  /\ StubLen' = StubLen /\ FirstDtb' = FirstDtb /\ Matching' = Matching
           /\ Fits' <=> Fits
           /\ WellFormed(args.kernel)' <=> WellFormed(args.kernel)
           /\ \A n : ForBoard(n)' <=> ForBoard(n)
           /\ RLoaded /\ sections # <<>> => RLoaded'
<1> USE DEF Frozen
<1>1. StubLen' = StubLen /\ FirstDtb' = FirstDtb /\ Matching' = Matching
  BY DEF StubLen, FirstDtb, Matching
<1>2. Fits' <=> Fits
  BY DEF Fits, Size
<1>3. WellFormed(args.kernel)' <=> WellFormed(args.kernel)
  BY DEF WellFormed
<1>4. \A n : ForBoard(n)' <=> ForBoard(n)
  BY DEF ForBoard
<1>5. ASSUME RLoaded, sections # <<>>
      PROVE  RLoaded'
  <2>1. \A i : WrittenAt(i)' = WrittenAt(i)
    BY <1>1 DEF WrittenAt
  <2>2. \A i : Survives(i)' <=> Survives(i)
    BY <2>1 DEF Survives
  <2>3. \A i : LoadedSection(i)' = LoadedSection(i)
    BY <2>2 DEF LoadedSection
  <2> QED BY <1>5, <2>3 DEF RLoaded
<1> QED BY <1>1, <1>2, <1>3, <1>4, <1>5

(* Before the first start. *)
Fresh ==
    /\ args \in Arguments /\ RLoaded /\ Len(sections) \in Nat
    /\ stub = NewStub /\ fw.table = board.tree /\ fw.initrd = FALSE

(* It holds before the first start. *)
LEMMA FreshInv == Fresh => RInv
<1> SUFFICES ASSUME Fresh PROVE RInv
  OBVIOUS
<1>1. /\ stub.pc = "off" /\ stub.n = 0 /\ stub.cmdline = 0 /\ stub.kernel = 0
      /\ stub.initrd = 0 /\ stub.alt = 0 /\ stub.compatible = NoCompat /\ stub.written = 0
  BY DEF Fresh, NewStub, NoSection
<1>2. StubLen \in Nat /\ FirstDtb \in Nat /\ Len(args.dtb) \in Nat
  BY ArgumentTypes DEF Fresh
<1>3. RLoaded
  BY DEF Fresh
<1>4. RScan
  <2>1. \A i \in Nat : Found(i + 1) = 0
    BY <1>1 DEF Found, NoSection
  <2>2. Found(StubLen + 1) = 0 /\ Found(StubLen + 2) = 0 /\ Found(StubLen + 3) = 0
    BY <1>1, <1>2 DEF Found, NoSection
  <2> QED BY <1>1, <2>2 DEF RScan, Fresh, Before, NoSection
<1>5. RFirmware
  BY <1>1 DEF RFirmware, Fresh, Offered, Started
<1>6. RCopy
  BY <1>1 DEF RCopy, CopyFits
<1>7. RAlt
  BY <1>1, <1>2 DEF RAlt, NoSection
<1>8. RTable
  BY <1>1 DEF RTable, Fresh
<1> QED BY <1>3, <1>4, <1>5, <1>6, <1>7, <1>8 DEF RInv

-----------------------------------------------------------------------------
(* A step of the stub that changes none of its variables. *)
SameLocals ==
    /\ stub'.n = stub.n /\ stub'.cmdline = stub.cmdline /\ stub'.kernel = stub.kernel
    /\ stub'.initrd = stub.initrd /\ stub'.alt = stub.alt
    /\ stub'.compatible = stub.compatible /\ stub'.base = stub.base
    /\ stub'.pages = stub.pages /\ stub'.written = stub.written

Hop ==
    \/ Moves("off", "fdt") \/ Moves("open", "scan") \/ Moves("alloc", "cleanup_initrd")
    \/ Moves("fdt", "open") /\ fw.table = NoTree
    \/ Moves("scan", "initrd") /\ stub.n = Len(sections)
    \/ Moves("initrd", "alloc") /\ fw'.initrd = (stub.initrd # NoSection \/ fw.initrd)
    \/ Moves("copy", "cleanup_buffer") \/ Moves("register", "cleanup_buffer")
    \/ Moves("register", "vars") /\ stub.alt = NoSection /\ fw'.kernel = TRUE
    \/ Moves("register", "fixup_size") /\ stub.alt # NoSection /\ fw'.kernel = TRUE
    \/ Moves("fixup_size", "clone") \/ Moves("clone", "fixup") \/ Moves("clone", "table")
    \/ Moves("fixup", "table")
    \/ Moves("table", "vars") /\ fw'.table.compat = Alt.compat /\ fw'.table.id = Alt.id
    \/ \E q \in {"fixup_size", "clone", "fixup", "table", "running"} :
          Moves(q, "cleanup_protocols")
    \/ Moves("vars", "entry") \/ Moves("vars", "crashed") \/ Moves("entry", "running")
    \/ Moves("cleanup_protocols", "cleanup_buffer")
    \/ Moves("cleanup_buffer", "cleanup_initrd")

(* Where a step may change what. *)
Quietly ==
    /\ SameTable \/ Moves("table", "vars")
    /\ SameInitrd \/ Moves("initrd", "alloc")
    /\ SameKernel \/ stub.pc \in {"register", "cleanup_protocols"}

(* Such a step leaves what was found in the image alone, ... *)
LEMMA HopScan ==
    ASSUME RScan, Frozen, SameLocals, Hop
    PROVE  RScan'
<1>1. StubLen' = StubLen
  BY FrozenSame
<1>2. \A i : Found(i)' = Found(i)
  BY DEF Found, SameLocals
<1>3. /\ stub'.pc \in Before => stub.pc \in Before
      /\ stub'.pc \notin Before \cup {"scan"} =>
            stub.pc \notin Before \cup {"scan"} \/ stub.n = Len(sections)
  BY DEF Hop, Moves, Before
<1>4. /\ stub'.n \in 0 .. Len(sections') /\ (stub'.pc \in Before => stub'.n = 0)
      /\ (stub'.pc \notin Before \cup {"scan"} => stub'.n = Len(sections'))
  BY <1>3 DEF RScan, SameLocals, Frozen
<1> QED BY <1>1, <1>2, <1>4 DEF RScan, SameLocals, Frozen

(* ... and the registered protocols as they have to be, ... *)
LEMMA HopFirmware ==
    ASSUME RScan, RFirmware, Frozen, SameLocals, Hop, Quietly,
           GInv, RLoaded, sections # <<>>
    PROVE  RFirmware'
<1>1. stub.pc = "initrd" => (stub.initrd # NoSection <=> args.initrd # NoFile)
  <2>1. stub.pc = "initrd" => stub.n = Len(sections)
    BY DEF RScan, Before
  <2>2. stub.pc = "initrd" /\ args.initrd # NoFile => Found(StubLen + 3) = StubLen + 3
    BY <2>1, InMemory, SMTT(30) DEF Found
  <2>3. StubLen \in Nat
    BY InMemory
  <2> QED BY <2>2, <2>3 DEF RScan, NoSection
<1>2. args.initrd = NoFile => fw'.initrd = FALSE
  <2> SUFFICES ASSUME args.initrd = NoFile PROVE fw'.initrd = FALSE
    OBVIOUS
  <2>1. fw.initrd = FALSE
    BY DEF RFirmware
  <2>2. CASE Moves("initrd", "alloc")
    BY <1>1, <2>1, <2>2 DEF Hop, Moves
  <2>3. CASE ~Moves("initrd", "alloc")
    BY <2>1, <2>3 DEF Quietly, SameInitrd
  <2> QED BY <2>2, <2>3
<1>3. stub'.pc \in Offered /\ args.initrd # NoFile => fw'.initrd = TRUE
  <2> SUFFICES ASSUME stub'.pc \in Offered, args.initrd # NoFile PROVE fw'.initrd = TRUE
    OBVIOUS
  <2>1. CASE Moves("initrd", "alloc")
    BY <1>1, <2>1 DEF Hop, Moves
  <2>2. CASE ~Moves("initrd", "alloc")
    <3>1. stub.pc \in Offered
      BY <2>2 DEF Hop, Moves, Offered
    <3> QED BY <2>2, <3>1 DEF Quietly, SameInitrd, RFirmware
  <2> QED BY <2>1, <2>2
<1>4. stub'.pc \in Started => fw'.kernel = TRUE
  <2> SUFFICES ASSUME stub'.pc \in Started PROVE fw'.kernel = TRUE
    OBVIOUS
  <2>1. \/ stub.pc \in Started
        \/ fw'.kernel = TRUE
    BY DEF Hop, Moves, Offered, Started
  <2>2. stub.pc \in Started => stub.pc \notin {"register", "cleanup_protocols"}
    BY DEF Started, Offered
  <2> QED BY <2>1, <2>2 DEF Quietly, SameKernel, RFirmware
<1> QED BY <1>2, <1>3, <1>4 DEF RFirmware, Frozen

(* ... the buffer too, ... *)
LEMMA HopCopy ==
    ASSUME RCopy, Frozen, SameLocals, Hop
    PROVE  RCopy'
<1>1. (Fits' <=> Fits) /\ (WellFormed(args.kernel)' <=> WellFormed(args.kernel))
  BY FrozenSame
<1>2. stub'.pc # "copy"
  BY DEF Hop, Moves
<1>3. stub'.pc \in Before \cup {"scan", "initrd", "alloc", "copy"} =>
          stub.pc \in Before \cup {"scan", "initrd", "alloc", "copy"}
  BY DEF Hop, Moves, Before
<1>4. CopyFits'
  <2>1. CopyFits
    BY DEF RCopy
  <2> QED BY <1>1, <2>1 DEF CopyFits, SameLocals
<1>5. stub'.pc \in Before \cup {"scan", "initrd", "alloc", "copy"} => stub'.written = 0
  BY <1>3 DEF RCopy, SameLocals
<1> QED BY <1>2, <1>4, <1>5 DEF RCopy

(* ... and the device trees. *)
LEMMA HopTrees ==
    ASSUME RAlt, RTable, Frozen, SameLocals, Hop, Quietly,
           GInv, RLoaded, sections # <<>>, Fits
    PROVE  RAlt' /\ RTable'
<1>0. /\ FirstDtb' = FirstDtb /\ Matching' = Matching /\ \A n : ForBoard(n)' <=> ForBoard(n)
      /\ args' = args /\ board' = board
  BY FrozenSame DEF Frozen
<1>1. Moves("table", "vars") =>
          /\ fw'.table.id \in Matching /\ fw'.table.compat = board.tree.compat
          /\ board.tree # NoTree
  <2> SUFFICES ASSUME Moves("table", "vars")
               PROVE  /\ fw'.table.id \in Matching /\ fw'.table.compat = board.tree.compat
                      /\ board.tree # NoTree
    OBVIOUS
  <2>1. fw'.table.compat = Alt.compat /\ fw'.table.id = Alt.id
    BY DEF Hop, Moves
  <2>2. PICK n \in 1 .. Len(args.dtb) : stub.alt = FirstDtb + n /\ ForBoard(n)
    BY DEF RAlt, Moves
  <2>3. Alt = args.dtb[n]
    BY <2>2, Contents DEF Alt
  <2> QED BY <2>1, <2>2, <2>3 DEF ForBoard, Matching
<1>2. RTable'
  <2>1. CASE Moves("table", "vars")
    BY <1>0, <1>1, <2>1 DEF RTable
  <2>2. CASE ~Moves("table", "vars")
    <3>1. fw'.table = fw.table
      BY <2>2 DEF Quietly, SameTable
    <3>2. /\ stub'.pc \in {"vars", "entry", "running"} =>
                stub.pc \in {"vars", "entry", "running"} \/ stub.alt = NoSection
      BY <2>2 DEF Hop, Moves
    <3>3. stub'.pc \in {"vars", "entry", "running"} /\ stub'.alt # NoSection =>
              fw'.table.id \in Matching
      BY <3>1, <3>2 DEF RTable, SameLocals
    <3>4. \/ fw'.table = board.tree
          \/ /\ board.tree # NoTree /\ fw'.table.compat = board.tree.compat
             /\ fw'.table.id \in Matching
      BY <3>1 DEF RTable
    <3> QED BY <1>0, <3>3, <3>4 DEF RTable
  <2> QED BY <2>1, <2>2
<1>3. RAlt'
  <2>1. stub'.pc \in {"off", "fdt"} => stub'.compatible = NoCompat
    <3>1. stub'.pc \in {"off", "fdt"} => stub.pc = "off"
      BY DEF Hop, Moves
    <3> QED BY <3>1 DEF RAlt, SameLocals
  <2>2. stub'.pc \notin {"off", "fdt"} =>
           \/ stub'.compatible = NoCompat /\ (board.tree = NoTree \/ fw'.table.id \in Matching)
           \/ board.tree # NoTree /\ stub'.compatible = board.tree.compat
    <3> SUFFICES ASSUME stub'.pc \notin {"off", "fdt"}
                 PROVE  \/ /\ stub'.compatible = NoCompat
                           /\ board.tree = NoTree \/ fw'.table.id \in Matching
                        \/ board.tree # NoTree /\ stub'.compatible = board.tree.compat
      OBVIOUS
    <3>1. CASE Moves("fdt", "open")
      <4>1. fw.table = NoTree /\ stub.compatible = NoCompat
        BY <3>1 DEF Hop, Moves, RAlt
      <4>2. fw'.table = fw.table
        BY <3>1 DEF Quietly, SameTable, Moves
      <4>3. fw.table = board.tree \/ fw.table.id \in Matching
        BY DEF RTable
      <4> QED BY <4>1, <4>2, <4>3 DEF SameLocals
    <3>2. CASE ~Moves("fdt", "open")
      <4>1. stub.pc \notin {"off", "fdt"}
        BY <3>2 DEF Hop, Moves
      <4>2. fw'.table = fw.table \/ fw'.table.id \in Matching
        BY <1>1 DEF Quietly, SameTable
      <4> QED BY <4>1, <4>2 DEF RAlt, SameLocals
    <3> QED BY <3>1, <3>2
  <2>3. stub'.alt # NoSection =>
           /\ stub'.compatible # NoCompat
           /\ \E n \in 1 .. Len(args.dtb) : stub'.alt = FirstDtb + n /\ ForBoard(n)
    BY DEF RAlt, SameLocals
  <2>4. stub'.pc \in {"fixup_size", "clone", "fixup", "table"} => stub'.alt # NoSection
    BY DEF Hop, Moves, RAlt, SameLocals
  <2>5. stub'.alt = NoSection => \A n \in 1 .. Len(args.dtb) :
           FirstDtb + n <= stub'.n => args.dtb[n].compat # stub'.compatible
    BY DEF RAlt, SameLocals
  <2>6. stub'.alt # NoSection =>
           \E n \in 1 .. Len(args'.dtb) : stub'.alt = FirstDtb' + n /\ ForBoard(n)'
    BY <1>0, <2>3
  <2> QED BY <1>0, <2>1, <2>2, <2>3, <2>4, <2>5, <2>6 DEF RAlt
<1> QED BY <1>2, <1>3

(* Putting the parts together. *)
LEMMA HopKeeps ==
    ASSUME GInv, RInv, sections # <<>>, Frozen, SameLocals, Hop, Quietly
    PROVE  RInv'
<1>1. RLoaded' /\ (Fits' <=> Fits)
  BY FrozenSame DEF RInv
<1>2. RScan' /\ RFirmware' /\ RCopy'
  BY HopScan, HopFirmware, HopCopy DEF RInv
<1>3. Fits => RAlt' /\ RTable'
  BY HopTrees DEF RInv
<1> QED BY <1>1, <1>2, <1>3 DEF RInv

(* Leaving the image: by error_exit, or by the return of efi_main. *)
LEMMA ExitKeeps ==
    ASSUME GInv, RInv, sections # <<>>, Frozen, stub' = NewStub,
           fw'.table = fw.table, fw'.initrd \in {FALSE, fw.initrd}
    PROVE  RInv'
<1>1. /\ stub'.pc = "off" /\ stub'.n = 0 /\ stub'.cmdline = 0 /\ stub'.kernel = 0
      /\ stub'.initrd = 0 /\ stub'.alt = 0 /\ stub'.compatible = NoCompat /\ stub'.written = 0
  BY DEF NewStub, NoSection
<1>2. StubLen \in Nat /\ FirstDtb \in Nat /\ Len(args.dtb) \in Nat /\ Len(sections) \in Nat
  BY InMemory DEF RInv
<1>3. /\ StubLen' = StubLen /\ FirstDtb' = FirstDtb /\ Matching' = Matching /\ (Fits' <=> Fits)
      /\ RLoaded' /\ args' = args /\ board' = board /\ sections' = sections
  BY FrozenSame DEF RInv, Frozen
<1>4. RScan'
  <2>1. Found(StubLen + 1)' = 0 /\ Found(StubLen + 2)' = 0 /\ Found(StubLen + 3)' = 0
    BY <1>1, <1>2, <1>3 DEF Found, NoSection
  <2> QED BY <1>1, <1>2, <1>3, <2>1 DEF RScan, Before, NoSection
<1>5. RFirmware'
  BY <1>1, <1>3 DEF RInv, RFirmware, Offered, Started
<1>6. RCopy'
  BY <1>1 DEF RCopy, CopyFits
<1>7. RAlt'
  BY <1>1, <1>2, <1>3 DEF RAlt, NoSection
<1>8. Fits => RTable'
  BY <1>1, <1>3 DEF RInv, RTable
<1> QED BY <1>3, <1>4, <1>5, <1>6, <1>7, <1>8 DEF RInv

(* The fields of the record after a step. *)
LEMMA ToSame ==
    ASSUME DOMAIN stub = StubFields, NEW q, Locals(To(q))
    PROVE  stub'.pc = q /\ SameLocals
BY DEF Locals, To, SameLocals, StubFields

(* get_fdt_compatible has found the tree of the board. *)
LEMMA CompatibleKeeps ==
    ASSUME GInv, RInv, Shape, sections # <<>>, Frozen, stub.pc = "fdt", fw' = fw,
           fw.table # NoTree, fw.table.compat # NoCompat,
           stub' = [To("open") EXCEPT !.compatible = fw.table.compat]
    PROVE  RInv'
<1>1. /\ stub'.pc = "open" /\ stub'.compatible = fw.table.compat
      /\ stub'.n = stub.n /\ stub'.cmdline = stub.cmdline /\ stub'.kernel = stub.kernel
      /\ stub'.initrd = stub.initrd /\ stub'.alt = stub.alt /\ stub'.written = stub.written
  BY DEF Shape, To
<1>2. StubLen \in Nat /\ FirstDtb \in Nat /\ Len(args.dtb) \in Nat /\ Len(sections) \in Nat
  BY InMemory DEF RInv
<1>3. /\ StubLen' = StubLen /\ FirstDtb' = FirstDtb /\ Matching' = Matching /\ (Fits' <=> Fits)
      /\ RLoaded' /\ args' = args /\ board' = board /\ sections' = sections
      /\ \A n : ForBoard(n)' <=> ForBoard(n)
  BY FrozenSame DEF RInv, Frozen
<1>4. RScan'
  <2>1. \A i : Found(i)' = Found(i)
    BY <1>1 DEF Found
  <2>2. RScan
    BY DEF RInv
  <2> QED BY <1>1, <1>3, <2>1, <2>2 DEF RScan, Before
<1>5. RFirmware'
  BY <1>1, <1>3 DEF RInv, RFirmware, Offered, Started
<1>6. RCopy'
  BY <1>1 DEF RInv, RCopy, CopyFits, Before
<1>7. ASSUME Fits PROVE RAlt' /\ RTable'
  <2>1. RAlt /\ RTable /\ RScan
    BY <1>7 DEF RInv
  <2>2. board.tree # NoTree /\ fw.table.compat = board.tree.compat
    BY <2>1 DEF RTable
  <2>3. stub.n = 0
    BY <2>1 DEF RScan, Before
  <2>4. stub.alt = NoSection
    BY <2>1 DEF RAlt
  <2>5. RAlt'
    BY <1>1, <1>2, <1>3, <2>2, <2>3, <2>4 DEF RAlt
  <2>6. RTable'
    BY <1>1, <1>3, <2>1 DEF RTable
  <2> QED BY <2>5, <2>6
<1> QED BY <1>3, <1>4, <1>5, <1>6, <1>7 DEF RInv

(* Scanning: one section after the other. *)
LEMMA ScanKeeps ==
    ASSUME GInv, RInv, Shape, sections # <<>>, Frozen, stub.pc = "scan", fw' = fw,
           stub.n < Len(sections), DOMAIN stub' = StubFields, stub'.pc = "scan",
           stub'.n = stub.n + 1, stub'.compatible = stub.compatible,
           stub'.written = stub.written,
           stub'.cmdline = IF Scanned.name = ".cmdline" THEN stub.n + 1 ELSE stub.cmdline,
           stub'.kernel = IF Scanned.name = ".kernel" THEN stub.n + 1 ELSE stub.kernel,
           stub'.initrd = IF Scanned.name = ".initrd" THEN stub.n + 1 ELSE stub.initrd,
           Scanned.name # ".dtb-" => stub'.alt = stub.alt,
           Scanned.name = ".dtb-" =>
              /\ stub.compatible # NoCompat
              /\ stub'.alt = IF Scanned.file.compat = stub.compatible THEN stub.n + 1 ELSE stub.alt
    PROVE  RInv'
<1>2. /\ StubLen \in Nat /\ FirstDtb \in Nat /\ Len(args.dtb) \in Nat /\ Len(sections) \in Nat
      /\ FirstDtb >= StubLen + 2 /\ Len(sections) = FirstDtb + Len(args.dtb)
  BY InMemory DEF RInv
<1>3. /\ StubLen' = StubLen /\ FirstDtb' = FirstDtb /\ Matching' = Matching /\ (Fits' <=> Fits)
      /\ RLoaded' /\ args' = args /\ board' = board /\ sections' = sections
      /\ \A n : ForBoard(n)' <=> ForBoard(n)
  BY FrozenSame DEF RInv, Frozen
<1>4. RScan /\ stub.n \in Nat
  BY <1>2 DEF RInv, RScan
<1>5. PICK i \in 1 .. Len(sections) : i = stub.n + 1
  BY <1>2, <1>4
<1>6. /\ sections[i].name = ".cmdline" <=> i = StubLen + 1
      /\ sections[i].name = ".kernel" <=> i = StubLen + 2
      /\ sections[i].name = ".initrd" <=> i = StubLen + 3 /\ args.initrd # NoFile
      /\ sections[i].name = ".dtb-" <=> \E n \in 1 .. Len(args.dtb) : i = FirstDtb + n
  <2>0. RLoaded /\ (args.initrd = NoFile => FirstDtb = StubLen + 2)
        /\ (args.initrd # NoFile => FirstDtb = StubLen + 3)
    BY InMemory DEF RInv
  <2>1. CASE i \in 1 .. StubLen
    <3>1. sections[i].name \notin {".cmdline", ".kernel", ".initrd", ".dtb-"}
      BY <2>0, <2>1, InMemory
    <3>2. i # StubLen + 1 /\ i # StubLen + 2 /\ i # StubLen + 3
          /\ ~\E n \in 1 .. Len(args.dtb) : i = FirstDtb + n
      BY <1>2, <2>1
    <3> QED BY <3>1, <3>2
  <2>2. CASE i = StubLen + 1
    <3>1. sections[i].name = ".cmdline"
      BY <2>0, <2>2, InMemory
    <3>2. i # StubLen + 2 /\ i # StubLen + 3
          /\ ~\E n \in 1 .. Len(args.dtb) : i = FirstDtb + n
      BY <1>2, <2>2
    <3> QED BY <2>2, <3>1, <3>2
  <2>3. CASE i = StubLen + 2
    <3>1. sections[i].name = ".kernel"
      BY <2>0, <2>3, InMemory
    <3>2. i # StubLen + 1 /\ i # StubLen + 3
          /\ ~\E n \in 1 .. Len(args.dtb) : i = FirstDtb + n
      BY <1>2, <2>3
    <3> QED BY <2>3, <3>1, <3>2
  <2>4. CASE i = StubLen + 3 /\ args.initrd # NoFile
    <3>1. sections[i].name = ".initrd"
      BY <2>0, <2>4, InMemory
    <3>2. i # StubLen + 1 /\ i # StubLen + 2
          /\ ~\E n \in 1 .. Len(args.dtb) : i = FirstDtb + n
      BY <1>2, <2>0, <2>4
    <3> QED BY <2>4, <3>1, <3>2
  <2>5. CASE i > FirstDtb
    <3>1. i - FirstDtb \in 1 .. Len(args.dtb) /\ i = FirstDtb + (i - FirstDtb)
      BY <1>2, <2>5
    <3>2. \E n \in 1 .. Len(args.dtb) : i = FirstDtb + n
      BY <3>1
    <3>3. sections[i].name = ".dtb-"
      BY <2>0, <3>2, InMemory
    <3>4. i # StubLen + 1 /\ i # StubLen + 2 /\ ~(i = StubLen + 3 /\ args.initrd # NoFile)
      BY <1>2, <2>0, <2>5
    <3> QED BY <3>2, <3>3, <3>4
  <2>6. \/ i \in 1 .. StubLen \/ i = StubLen + 1 \/ i = StubLen + 2
        \/ i = StubLen + 3 /\ args.initrd # NoFile
        \/ i > FirstDtb
    BY <1>2, <2>0
  <2> QED BY <2>1, <2>2, <2>3, <2>4, <2>5, <2>6
<1>7. Scanned = sections[i]
  BY <1>5 DEF Scanned
<1>8. RScan'
  <2>1. /\ stub.cmdline = Found(StubLen + 1) /\ stub.kernel = Found(StubLen + 2)
        /\ stub.initrd = IF args.initrd = NoFile THEN NoSection ELSE Found(StubLen + 3)
    BY <1>4 DEF RScan
  <2>2. stub'.cmdline = Found(StubLen + 1)'
    BY <1>2, <1>3, <1>4, <1>5, <1>6, <1>7, <2>1 DEF Found, NoSection
  <2>3. stub'.kernel = Found(StubLen + 2)'
    BY <1>2, <1>3, <1>4, <1>5, <1>6, <1>7, <2>1 DEF Found, NoSection
  <2>4. stub'.initrd = IF args.initrd = NoFile THEN NoSection ELSE Found(StubLen + 3)'
    BY <1>2, <1>3, <1>4, <1>5, <1>6, <1>7, <2>1 DEF Found, NoSection
  <2>5. stub'.n \in 0 .. Len(sections)
    BY <1>2, <1>5
  <2> QED BY <1>3, <2>2, <2>3, <2>4, <2>5 DEF RScan, Before
<1>9. RFirmware'
  BY <1>3 DEF RInv, RFirmware, Offered, Started
<1>10. RCopy'
  BY DEF RInv, RCopy, CopyFits, Before
<1>11. ASSUME Fits PROVE RAlt' /\ RTable'
  <2>1. RAlt /\ RTable
    BY <1>11 DEF RInv
  <2>2. RTable'
    BY <1>3, <2>1 DEF RTable
  <2>3. CASE sections[i].name # ".dtb-"
    <3>1. stub'.alt = stub.alt
      BY <1>7, <2>3
    <3>2. \A n \in 1 .. Len(args.dtb) : FirstDtb + n <= stub'.n => FirstDtb + n <= stub.n
      <4> SUFFICES ASSUME NEW n \in 1 .. Len(args.dtb), FirstDtb + n <= stub'.n
                   PROVE  FirstDtb + n <= stub.n
        OBVIOUS
      <4>1. i # FirstDtb + n
        BY <1>6, <2>3
      <4> QED BY <1>2, <1>4, <1>5, <4>1
    <3>3. stub'.alt = NoSection => \A n \in 1 .. Len(args.dtb) :
             FirstDtb + n <= stub'.n => args.dtb[n].compat # stub'.compatible
      BY <2>1, <3>1, <3>2 DEF RAlt
    <3>4. stub'.alt # NoSection =>
             /\ stub'.compatible # NoCompat
             /\ \E n \in 1 .. Len(args'.dtb) : stub'.alt = FirstDtb' + n /\ ForBoard(n)'
      BY <1>3, <2>1, <3>1 DEF RAlt
    <3>5. \/ stub'.compatible = NoCompat /\ (board.tree = NoTree \/ fw.table.id \in Matching)
          \/ board.tree # NoTree /\ stub'.compatible = board.tree.compat
      BY <2>1 DEF RAlt
    <3> QED BY <1>3, <2>2, <3>3, <3>4, <3>5 DEF RAlt
  <2>4. CASE sections[i].name = ".dtb-"
    <3>1. PICK m \in 1 .. Len(args.dtb) : i = FirstDtb + m
      BY <1>6, <2>4
    <3>2. sections[i].file = args.dtb[m]
      BY <1>11, <3>1, Contents DEF RInv
    <3>3. /\ stub.compatible # NoCompat
          /\ stub'.alt = IF args.dtb[m].compat = stub.compatible THEN i ELSE stub.alt
      BY <1>5, <1>7, <2>4, <3>2
    <3>4. board.tree # NoTree /\ stub.compatible = board.tree.compat
      BY <2>1, <3>3 DEF RAlt
    <3>5. stub'.alt # NoSection =>
             \E n \in 1 .. Len(args'.dtb) : stub'.alt = FirstDtb' + n /\ ForBoard(n)'
      <4>1. CASE args.dtb[m].compat = stub.compatible
        <5>1. stub'.alt = FirstDtb + m /\ ForBoard(m)
          BY <3>1, <3>3, <3>4, <4>1 DEF ForBoard
        <5> QED BY <1>3, <5>1
      <4>2. CASE args.dtb[m].compat # stub.compatible
        <5>1. stub'.alt = stub.alt
          BY <3>3, <4>2
        <5> QED BY <1>3, <2>1, <5>1 DEF RAlt
      <4> QED BY <4>1, <4>2
    <3>6. stub'.alt = NoSection => \A n \in 1 .. Len(args.dtb) :
             FirstDtb + n <= stub'.n => args.dtb[n].compat # stub'.compatible
      <4> SUFFICES ASSUME stub'.alt = NoSection, NEW n \in 1 .. Len(args.dtb),
                          FirstDtb + n <= stub'.n
                   PROVE  args.dtb[n].compat # stub.compatible
        OBVIOUS
      <4>1. i # NoSection
        BY <1>2 DEF NoSection
      <4>2. args.dtb[m].compat # stub.compatible /\ stub.alt = NoSection
        BY <3>3, <4>1
      <4>3. n = m \/ FirstDtb + n <= stub.n
        BY <1>2, <1>4, <1>5, <3>1
      <4> QED BY <2>1, <4>2, <4>3 DEF RAlt
    <3> QED BY <1>3, <2>2, <3>3, <3>4, <3>5, <3>6 DEF RAlt
  <2> QED BY <2>2, <2>3, <2>4
<1> QED BY <1>3, <1>8, <1>9, <1>10, <1>11 DEF RInv

(* kernel_pages: room for the image wherever it is moved to. *)
LEMMA RoomForKernel ==
    ASSUME NEW k, k.size_of_image \in Nat, k.alignment \in Nat \ {0}
    PROVE  /\ kernel_pages(k) * EFI_PAGE_SIZE \in Nat
           /\ kernel_pages(k) * EFI_PAGE_SIZE >= k.size_of_image + k.alignment
<1>1. EFI_PAGE_SIZE \in Nat \ {0} /\ k.size_of_image + k.alignment \in Nat
  BY PageAssumption
<1>2. kernel_pages(k) * EFI_PAGE_SIZE = align(k.size_of_image + k.alignment, EFI_PAGE_SIZE)
  BY DEF kernel_pages, align
<1> QED BY <1>1, <1>2, Aligned

(* AllocatePages returned a buffer. *)
LEMMA AllocateKeeps ==
    ASSUME GInv, RInv, Shape, sections # <<>>, Frozen, stub.pc = "alloc",
           fw'.table = fw.table, fw'.initrd = fw.initrd, fw'.kernel = fw.kernel,
           NEW b \in Bases,
           stub' = [To("copy") EXCEPT !.base = b, !.pages = kernel_pages(Kernel.file)]
    PROVE  RInv'
<1>1. /\ stub'.pc = "copy" /\ stub'.base = b /\ stub'.pages = kernel_pages(Kernel.file)
      /\ stub'.n = stub.n /\ stub'.cmdline = stub.cmdline /\ stub'.kernel = stub.kernel
      /\ stub'.initrd = stub.initrd /\ stub'.alt = stub.alt /\ stub'.written = stub.written
      /\ stub'.compatible = stub.compatible
  BY DEF Shape, To
<1>2. /\ StubLen \in Nat /\ FirstDtb \in Nat /\ Len(args.dtb) \in Nat /\ Len(sections) \in Nat
      /\ FirstDtb >= StubLen + 2 /\ Len(sections) = FirstDtb + Len(args.dtb)
  BY InMemory DEF RInv
<1>3. /\ StubLen' = StubLen /\ FirstDtb' = FirstDtb /\ Matching' = Matching /\ (Fits' <=> Fits)
      /\ RLoaded' /\ args' = args /\ board' = board /\ sections' = sections
      /\ \A n : ForBoard(n)' <=> ForBoard(n)
  BY FrozenSame DEF RInv, Frozen
<1>4. RScan'
  <2>1. \A i : Found(i)' = Found(i)
    BY <1>1 DEF Found
  <2>2. RScan
    BY DEF RInv
  <2> QED BY <1>1, <1>3, <2>1, <2>2 DEF RScan, Before
<1>5. RFirmware'
  BY <1>1, <1>3 DEF RInv, RFirmware, Offered, Started
<1>6. RCopy'
  <2>1. stub.written = 0
    BY DEF RInv, RCopy
  <2>2. ASSUME Fits PROVE Kernel.file = args.kernel
    <3>1. stub.kernel = Found(StubLen + 2) /\ stub.n = Len(sections)
      BY DEF RInv, RScan, Before
    <3>2. stub.kernel = StubLen + 2
      BY <1>2, <3>1 DEF Found
    <3> QED BY <2>2, <3>2, Contents DEF Kernel, RInv
  <2>3. kernel_pages(args.kernel)' = kernel_pages(args.kernel)
    BY <1>3 DEF kernel_pages
  <2> QED BY <1>1, <1>3, <2>1, <2>2, <2>3 DEF RCopy, CopyFits
<1>7. ASSUME Fits PROVE RAlt' /\ RTable'
  <2>1. RAlt /\ RTable
    BY <1>7 DEF RInv
  <2>2. RTable'
    BY <1>1, <1>3, <2>1 DEF RTable
  <2>3. stub'.alt # NoSection =>
           /\ stub'.compatible # NoCompat
           /\ \E n \in 1 .. Len(args'.dtb) : stub'.alt = FirstDtb' + n /\ ForBoard(n)'
    BY <1>1, <1>3, <2>1 DEF RAlt
  <2>4. /\ stub'.alt = NoSection => \A n \in 1 .. Len(args.dtb) :
              FirstDtb + n <= stub'.n => args.dtb[n].compat # stub'.compatible
        /\ \/ stub'.compatible = NoCompat /\ (board.tree = NoTree \/ fw.table.id \in Matching)
           \/ board.tree # NoTree /\ stub'.compatible = board.tree.compat
    BY <1>1, <2>1 DEF RAlt
  <2> QED BY <1>1, <1>3, <2>2, <2>3, <2>4 DEF RAlt
<1> QED BY <1>3, <1>4, <1>5, <1>6, <1>7 DEF RInv

(* CopyMem and SetMem end inside the buffer. *)
LEMMA CopyInside ==
    ASSUME NEW k, k.len \in Nat, k.size_of_image \in Nat, k.alignment \in Nat \ {0},
           NEW f \in Nat \ {0}, k.len <= k.size_of_image,
           k.size_of_image % k.alignment = 0, k.alignment % f = 0,
           NEW b \in Nat, NEW size, size = align(k.len, f),
           NEW p, p = kernel_pages(k)
    PROVE  LET aligned == align_addr(b, k.alignment)
               rest    == (k.size_of_image - size) % (UINTPTR_MAX + 1)
           IN  aligned + size + rest <= b + p * EFI_PAGE_SIZE
<1>0. k.size_of_image \in Int /\ k.alignment \in Int
  OBVIOUS
<1>1. k.size_of_image % f = 0
  <2>1. PICK x \in Int : k.size_of_image = x * k.alignment
    BY <1>0, Factor, Zenon
  <2>2. PICK y \in Int : k.alignment = y * f
    BY <1>0, Factor, Zenon
  <2>3. x * y \in Int /\ k.size_of_image = (x * y) * f
    BY <2>1, <2>2
  <2> QED BY <2>3, Product
<1>2. size \in Nat /\ size <= k.size_of_image
  <2>1. align(k.len, f) \in Nat
    BY Aligned
  <2>2. k.size_of_image >= k.len
    OBVIOUS
  <2>3. k.size_of_image >= align(k.len, f)
    BY <1>0, <1>1, <2>2, AlignLeast, Zenon
  <2> HIDE DEF align
  <2> QED BY <1>0, <2>1, <2>3
<1>3. /\ (k.size_of_image - size) % (UINTPTR_MAX + 1) \in Nat
      /\ (k.size_of_image - size) % (UINTPTR_MAX + 1) <= k.size_of_image - size
  <2>1. PICK d \in Nat : d = k.size_of_image - size
    BY <1>2
  <2>2. PICK w \in Nat \ {0} : w = UINTPTR_MAX + 1
    BY LoadingAssumption
  <2>3. d % w \in Nat /\ d % w <= d
    <3>0. d \in Int /\ w \in Nat \ {0}
      OBVIOUS
    <3>a. d \div w \in Int /\ d % w \in 0 .. w - 1 /\ d = (d \div w) * w + (d % w)
      BY <3>0, DivMod, Zenon
    <3>1. PICK q \in Int : q = d \div w
      BY <3>a, Zenon
    <3>2. PICK r \in 0 .. w - 1 : r = d % w
      BY <3>a, Zenon
    <3>3. d = q * w + r
      BY <3>a, <3>1, <3>2
    <3>4. q >= 0
      <4>1. CASE q <= -1
        BY <3>3, <4>1
      <4> QED BY <4>1
    <3>5. q * w >= 0 /\ q * w \in Int
      BY <3>4
    <3> QED BY <3>2, <3>3, <3>5
  <2> QED BY <2>1, <2>2, <2>3
<1>4. /\ align_addr(b, k.alignment) \in Nat
      /\ align_addr(b, k.alignment) < b + k.alignment
  <2>1. align_addr(b, k.alignment) = align(b, k.alignment)
    BY DEF align_addr, align
  <2> QED BY <2>1, Aligned
<1>5. p * EFI_PAGE_SIZE \in Nat /\ p * EFI_PAGE_SIZE >= k.size_of_image + k.alignment
  BY RoomForKernel
<1> QED BY <1>2, <1>3, <1>4, <1>5

(* The kernel was copied. *)
LEMMA CopyKeeps ==
    ASSUME GInv, RInv, Shape, sections # <<>>, Frozen, stub.pc = "copy", fw' = fw,
           stub' = [To("register") EXCEPT
                       !.written = align_addr(stub.base, Kernel.file.alignment) + Kernel.virt_size
                                     + ((Kernel.file.size_of_image - Kernel.virt_size)
                                            % (UINTPTR_MAX + 1))]
    PROVE  RInv'
<1> DEFINE w == align_addr(stub.base, Kernel.file.alignment) + Kernel.virt_size
                  + ((Kernel.file.size_of_image - Kernel.virt_size) % (UINTPTR_MAX + 1))
<1> HIDE DEF w
<1>1. /\ stub'.pc = "register" /\ stub'.written = w
      /\ stub'.base = stub.base /\ stub'.pages = stub.pages
      /\ stub'.n = stub.n /\ stub'.cmdline = stub.cmdline /\ stub'.kernel = stub.kernel
      /\ stub'.initrd = stub.initrd /\ stub'.alt = stub.alt
      /\ stub'.compatible = stub.compatible
  BY DEF Shape, To, w
<1>2. /\ StubLen \in Nat /\ FirstDtb \in Nat /\ Len(args.dtb) \in Nat /\ Len(sections) \in Nat
      /\ FirstDtb >= StubLen + 2 /\ Len(sections) = FirstDtb + Len(args.dtb)
  BY InMemory DEF RInv
<1>3. /\ StubLen' = StubLen /\ FirstDtb' = FirstDtb /\ Matching' = Matching /\ (Fits' <=> Fits)
      /\ RLoaded' /\ args' = args /\ board' = board /\ sections' = sections /\ pe' = pe
      /\ \A n : ForBoard(n)' <=> ForBoard(n)
      /\ WellFormed(args.kernel)' <=> WellFormed(args.kernel)
  BY FrozenSame DEF RInv, Frozen
<1>4. RScan'
  <2>1. \A i : Found(i)' = Found(i)
    BY <1>1 DEF Found
  <2>2. RScan
    BY DEF RInv
  <2> QED BY <1>1, <1>3, <2>1, <2>2 DEF RScan, Before
<1>5. RFirmware'
  BY <1>1, <1>3 DEF RInv, RFirmware, Offered, Started
<1>6. ASSUME Fits, WellFormed(args.kernel)
      PROVE  w <= stub.base + stub.pages * EFI_PAGE_SIZE
  <2>1. stub.kernel = StubLen + 2
    <3>1. stub.kernel = Found(StubLen + 2) /\ stub.n = Len(sections)
      BY DEF RInv, RScan, Before
    <3> QED BY <1>2, <3>1 DEF Found
  <2>2. Kernel.file = args.kernel /\ Kernel.virt_size = align(args.kernel.len, pe.file_align)
    BY <1>6, <2>1, Contents DEF Kernel, RInv, Size
  <2>3. stub.base \in Nat /\ stub.pages = kernel_pages(args.kernel)
    BY <1>6, LoadingAssumption DEF RInv, RCopy
  <2>4. /\ args.kernel.len \in Nat /\ args.kernel.size_of_image \in Nat
        /\ args.kernel.alignment \in Nat \ {0} /\ pe.file_align \in Nat \ {0}
    BY ArgumentTypes, LoadingAssumption DEF GInv, GShape, GLayout, IsHeaders
  <2>5. /\ args.kernel.len <= args.kernel.size_of_image
        /\ args.kernel.size_of_image % args.kernel.alignment = 0
        /\ args.kernel.alignment % pe.file_align = 0
    BY <1>6 DEF WellFormed
  <2>6. w = align_addr(stub.base, args.kernel.alignment) + Kernel.virt_size
              + ((args.kernel.size_of_image - Kernel.virt_size) % (UINTPTR_MAX + 1))
    BY <2>2 DEF w
  <2> QED BY <2>2, <2>3, <2>4, <2>5, <2>6, CopyInside
<1>7. RCopy'
  <2>1. CopyFits'
    BY <1>1, <1>3, <1>6 DEF CopyFits
  <2> QED BY <1>1, <2>1 DEF RCopy, Before
<1>8. ASSUME Fits PROVE RAlt' /\ RTable'
  <2>1. RAlt /\ RTable
    BY <1>8 DEF RInv
  <2>2. RTable'
    BY <1>1, <1>3, <2>1 DEF RTable
  <2>3. stub'.alt # NoSection =>
           /\ stub'.compatible # NoCompat
           /\ \E n \in 1 .. Len(args'.dtb) : stub'.alt = FirstDtb' + n /\ ForBoard(n)'
    BY <1>1, <1>3, <2>1 DEF RAlt
  <2>4. /\ stub'.alt = NoSection => \A n \in 1 .. Len(args.dtb) :
              FirstDtb + n <= stub'.n => args.dtb[n].compat # stub'.compatible
        /\ \/ stub'.compatible = NoCompat /\ (board.tree = NoTree \/ fw.table.id \in Matching)
           \/ board.tree # NoTree /\ stub'.compatible = board.tree.compat
    BY <1>1, <2>1 DEF RAlt
  <2> QED BY <1>1, <1>3, <2>2, <2>3, <2>4 DEF RAlt
<1> QED BY <1>3, <1>4, <1>5, <1>7, <1>8 DEF RInv

(* Firmware fields that most steps leave alone. *)
LEMMA MemoryOnly ==
    ASSUME DOMAIN fw = FirmwareShape, NEW x, fw' = [fw EXCEPT !.mem = x] \/ fw' = fw
    PROVE  SameTable /\ SameInitrd /\ SameKernel
BY FirmwareFields DEF FirmwareShape, SameTable, SameInitrd, SameKernel

(* error_exit. *)
LEMMA ErrorKeeps ==
    ASSUME GInv, RInv, Shape, sections # <<>>, Frozen, error_exit
    PROVE  RInv'
<1>1. stub' = NewStub /\ fw' = Unloaded(fw)
  BY DEF error_exit, Locals
<1>2. fw'.table = fw.table /\ fw'.initrd = fw.initrd
  BY <1>1, UnloadedFields DEF Shape
<1> QED BY <1>1, <1>2, ExitKeeps

(* The steps of the stub up to the registration of the kernel. *)
LEMMA EarlyRuns ==
    ASSUME GInv, RInv, Shape, sections # <<>>, Frozen,
           \/ StartImage \/ get_fdt_compatible \/ OpenImage \/ ScanSection \/ ScanDtb \/ ScanEnd
           \/ install_initrd_loader \/ AllocateKernel \/ CopyKernel
    PROVE  RInv'
<1>0. DOMAIN stub = StubFields /\ DOMAIN fw = FirmwareShape
  BY DEF Shape, StubFields, FirmwareShape
<1>1. CASE StartImage
  <2>1. /\ stub.pc = "off" /\ stub' = To("fdt")
        /\ fw' = [fw EXCEPT !.mem = fw.mem \cup {<<"stub", starts + 1>>}]
    BY <1>1 DEF StartImage
  <2>2. stub'.pc = "fdt" /\ SameLocals
    BY <1>0, <2>1 DEF To, SameLocals, StubFields
  <2>3. SameTable /\ SameInitrd /\ SameKernel
    BY <1>0, <2>1, MemoryOnly
  <2> QED BY <2>1, <2>2, <2>3, HopKeeps DEF Hop, Moves, Quietly
<1>2. CASE get_fdt_compatible
  <2>1. stub.pc = "fdt"
    BY <1>2 DEF get_fdt_compatible
  <2>2. CASE error_exit
    BY <2>2, ErrorKeeps
  <2>3. CASE fw.table = NoTree /\ Locals(To("open")) /\ fw' = fw
    BY <1>0, <2>1, <2>3, ToSame, HopKeeps DEF Hop, Moves, Quietly, SameTable, SameInitrd,
                                             SameKernel
  <2>4. CASE /\ fw.table # NoTree /\ fw.table.compat # NoCompat /\ fw' = fw
             /\ Locals([To("open") EXCEPT !.compatible = fw.table.compat])
    BY <2>1, <2>4, CompatibleKeeps DEF Locals
  <2> QED BY <1>2, <2>2, <2>3, <2>4 DEF get_fdt_compatible, get_compatible_from_fdt
<1>3. CASE OpenImage
  <2>1. CASE error_exit
    BY <2>1, ErrorKeeps
  <2>2. CASE stub.pc = "open" /\ Locals(To("scan")) /\ fw' = fw
    BY <1>0, <2>2, ToSame, HopKeeps DEF Hop, Moves, Quietly, SameTable, SameInitrd, SameKernel
  <2> QED BY <1>3, <2>1, <2>2 DEF OpenImage
<1>4. CASE ScanSection
  <2>1. /\ stub.pc = "scan" /\ stub.n < Len(sections) /\ Scanned.name # ".dtb-" /\ fw' = fw
        /\ stub' = [stub EXCEPT !.n = stub.n + 1,
                      !.cmdline = IF Scanned.name = ".cmdline" THEN stub.n + 1 ELSE stub.cmdline,
                      !.kernel  = IF Scanned.name = ".kernel" THEN stub.n + 1 ELSE stub.kernel,
                      !.initrd  = IF Scanned.name = ".initrd" THEN stub.n + 1 ELSE stub.initrd]
    BY <1>4 DEF ScanSection, Scanning, Locals
  <2>2. /\ DOMAIN stub' = StubFields /\ stub'.pc = "scan" /\ stub'.n = stub.n + 1
        /\ stub'.compatible = stub.compatible /\ stub'.written = stub.written
        /\ stub'.alt = stub.alt
        /\ stub'.cmdline = IF Scanned.name = ".cmdline" THEN stub.n + 1 ELSE stub.cmdline
        /\ stub'.kernel = IF Scanned.name = ".kernel" THEN stub.n + 1 ELSE stub.kernel
        /\ stub'.initrd = IF Scanned.name = ".initrd" THEN stub.n + 1 ELSE stub.initrd
    BY <1>0, <2>1 DEF StubFields
  <2> QED BY <2>1, <2>2, ScanKeeps
<1>5. CASE ScanDtb
  <2>1. CASE error_exit
    BY <2>1, ErrorKeeps
  <2>2. CASE ~error_exit
    <3>1. /\ stub.pc = "scan" /\ stub.n < Len(sections) /\ Scanned.name = ".dtb-" /\ fw' = fw
          /\ stub.compatible # NoCompat
          /\ stub' = [stub EXCEPT !.n = stub.n + 1,
                        !.alt = IF Scanned.file.compat = stub.compatible
                                THEN stub.n + 1 ELSE stub.alt]
      BY <1>5, <2>2 DEF ScanDtb, Scanning, Locals, match_fdt, get_compatible_from_fdt
    <3>2. /\ DOMAIN stub' = StubFields /\ stub'.pc = "scan" /\ stub'.n = stub.n + 1
          /\ stub'.compatible = stub.compatible /\ stub'.written = stub.written
          /\ stub'.alt = IF Scanned.file.compat = stub.compatible THEN stub.n + 1 ELSE stub.alt
          /\ stub'.cmdline = stub.cmdline /\ stub'.kernel = stub.kernel
          /\ stub'.initrd = stub.initrd
      BY <1>0, <3>1 DEF StubFields
    <3> QED BY <3>1, <3>2, ScanKeeps
  <2> QED BY <2>1, <2>2
<1>6. CASE ScanEnd
  <2>1. CASE error_exit
    BY <2>1, ErrorKeeps
  <2>2. CASE stub.pc = "scan" /\ stub.n = Len(sections) /\ Locals(To("initrd")) /\ fw' = fw
    BY <1>0, <2>2, ToSame, HopKeeps DEF Hop, Moves, Quietly, SameTable, SameInitrd, SameKernel
  <2> QED BY <1>6, <2>1, <2>2 DEF ScanEnd
<1>7. CASE install_initrd_loader
  <2>0. stub.pc = "initrd"
    BY <1>7 DEF install_initrd_loader
  <2>1. CASE error_exit
    BY <2>1, ErrorKeeps
  <2>2. CASE stub.initrd = NoSection /\ Locals(To("alloc")) /\ fw' = fw
    <3>1. stub'.pc = "alloc" /\ SameLocals
      BY <1>0, <2>2, ToSame
    <3>2. fw.initrd = FALSE
      <4>1. RScan /\ RFirmware /\ RLoaded
        BY DEF RInv
      <4>2. stub.n = Len(sections)
        BY <2>0, <4>1 DEF RScan, Before
      <4>3. args.initrd = NoFile
        BY <2>2, <4>1, <4>2, InMemory DEF RScan, Found, NoSection
      <4> QED BY <4>1, <4>3 DEF RFirmware
    <3>3. fw'.initrd = (stub.initrd # NoSection \/ fw.initrd)
      BY <2>2, <3>2
    <3> QED BY <2>0, <2>2, <3>1, <3>3, HopKeeps
            DEF Hop, Moves, Quietly, SameTable, SameInitrd, SameKernel
  <2>3. CASE stub.initrd # NoSection /\ Locals(To("alloc")) /\ fw' = [fw EXCEPT !.initrd = TRUE]
    <3>1. stub'.pc = "alloc" /\ SameLocals
      BY <1>0, <2>3, ToSame
    <3>2. SameTable /\ SameKernel /\ fw'.initrd = TRUE
      BY <1>0, <2>3, FirmwareFields DEF FirmwareShape, SameTable, SameKernel
    <3>3. fw'.initrd = (stub.initrd # NoSection \/ fw.initrd)
      BY <2>3, <3>2
    <3> QED BY <2>0, <3>1, <3>2, <3>3, HopKeeps DEF Hop, Moves, Quietly
  <2> QED BY <1>7, <2>1, <2>2, <2>3 DEF install_initrd_loader
<1>8. CASE AllocateKernel
  <2>0. stub.pc = "alloc"
    BY <1>8 DEF AllocateKernel
  <2>1. CASE /\ fw' = [fw EXCEPT !.mem = fw.mem \cup {Region("kernel")}]
             /\ \E b \in Bases :
                   Locals([To("copy") EXCEPT !.base = b, !.pages = kernel_pages(Kernel.file)])
    <3>1. PICK b \in Bases :
             stub' = [To("copy") EXCEPT !.base = b, !.pages = kernel_pages(Kernel.file)]
      BY <2>1 DEF Locals
    <3>2. fw'.table = fw.table /\ fw'.initrd = fw.initrd /\ fw'.kernel = fw.kernel
      BY <1>0, <2>1, MemoryOnly DEF SameTable, SameInitrd, SameKernel
    <3> QED BY <2>0, <3>1, <3>2, AllocateKeeps
  <2>2. CASE Locals(To("cleanup_initrd")) /\ fw' = fw
    BY <1>0, <2>0, <2>2, ToSame, HopKeeps DEF Hop, Moves, Quietly, SameTable, SameInitrd,
                                             SameKernel
  <2> QED BY <1>8, <2>1, <2>2 DEF AllocateKernel
<1>9. CASE CopyKernel
  <2>1. CASE Locals(To("cleanup_buffer")) /\ stub.pc = "copy" /\ fw' = fw
    BY <1>0, <2>1, ToSame, HopKeeps DEF Hop, Moves, Quietly, SameTable, SameInitrd, SameKernel
  <2>2. CASE ~Locals(To("cleanup_buffer"))
    <3>1. /\ stub.pc = "copy" /\ fw' = fw
          /\ stub' = [To("register") EXCEPT
                         !.written = align_addr(stub.base, Kernel.file.alignment)
                                       + Kernel.virt_size
                                       + ((Kernel.file.size_of_image - Kernel.virt_size)
                                              % (UINTPTR_MAX + 1))]
      BY <1>9, <2>2 DEF CopyKernel, Locals
    <3> QED BY <3>1, CopyKeeps
  <2>3. stub.pc = "copy" /\ fw' = fw
    BY <1>9 DEF CopyKernel
  <2> QED BY <2>1, <2>2, <2>3
<1> QED BY <1>1, <1>2, <1>3, <1>4, <1>5, <1>6, <1>7, <1>8, <1>9

(* The steps of the stub from there on. *)
LEMMA LateRuns ==
    ASSUME GInv, RInv, Shape, sections # <<>>, Frozen,
           \/ RegisterKernel \/ FixupSize \/ clone_fdt \/ Fixup \/ InstallTable
           \/ SetInterfaceVars \/ KernelEntry \/ KernelReturns
           \/ cleanup_protocols \/ cleanup_buffer \/ uninstall_initrd_loader
    PROVE  RInv'
<1>0. DOMAIN stub = StubFields /\ DOMAIN fw = FirmwareShape
  BY DEF Shape, StubFields, FirmwareShape
<1>1. CASE RegisterKernel
  <2>0. stub.pc = "register"
    BY <1>1 DEF RegisterKernel
  <2>1. CASE Locals(To("cleanup_buffer")) /\ fw' = fw
    BY <1>0, <2>0, <2>1, ToSame, HopKeeps DEF Hop, Moves, Quietly, SameTable, SameInitrd,
                                             SameKernel
  <2>2. CASE /\ fw' = [fw EXCEPT !.kernel = TRUE]
             /\ Locals(To(IF stub.alt = NoSection THEN "vars" ELSE "fixup_size"))
    <3>1. stub'.pc = (IF stub.alt = NoSection THEN "vars" ELSE "fixup_size") /\ SameLocals
      BY <1>0, <2>2, ToSame
    <3>2. SameTable /\ SameInitrd /\ fw'.kernel = TRUE
      BY <1>0, <2>2, FirmwareFields DEF FirmwareShape, SameTable, SameInitrd
    <3> QED BY <2>0, <3>1, <3>2, HopKeeps DEF Hop, Moves, Quietly
  <2> QED BY <1>1, <2>1, <2>2 DEF RegisterKernel, RegisterFails
<1>2. CASE FixupSize
  <2>1. stub.pc = "fixup_size" /\ fw' = fw
    BY <1>2 DEF FixupSize
  <2>2. stub'.pc \in {"clone", "cleanup_protocols"} /\ SameLocals
    BY <1>0, <1>2, ToSame DEF FixupSize
  <2> QED BY <2>1, <2>2, HopKeeps DEF Hop, Moves, Quietly, SameTable, SameInitrd, SameKernel
<1>3. CASE clone_fdt
  <2>1. stub.pc = "clone"
    BY <1>3 DEF clone_fdt
  <2>2. stub'.pc \in {"fixup", "table", "cleanup_protocols"} /\ SameLocals
    BY <1>0, <1>3, ToSame DEF clone_fdt
  <2>3. SameTable /\ SameInitrd /\ SameKernel
    BY <1>0, <1>3, MemoryOnly DEF clone_fdt
  <2> QED BY <2>1, <2>2, <2>3, HopKeeps DEF Hop, Moves, Quietly
<1>4. CASE Fixup
  <2>1. stub.pc = "fixup"
    BY <1>4 DEF Fixup
  <2>2. stub'.pc \in {"table", "cleanup_protocols"} /\ SameLocals
    BY <1>0, <1>4, ToSame DEF Fixup
  <2>3. SameTable /\ SameInitrd /\ SameKernel
    BY <1>0, <1>4, MemoryOnly DEF Fixup
  <2> QED BY <2>1, <2>2, <2>3, HopKeeps DEF Hop, Moves, Quietly
<1>5. CASE InstallTable
  <2>0. stub.pc = "table"
    BY <1>5 DEF InstallTable
  <2>1. CASE /\ Locals(To("cleanup_protocols"))
             /\ fw' = [fw EXCEPT !.mem = fw.mem \ {Region("fdt")}]
    <3>1. stub'.pc = "cleanup_protocols" /\ SameLocals
      BY <1>0, <2>1, ToSame
    <3>2. SameTable /\ SameInitrd /\ SameKernel
      BY <1>0, <2>1, MemoryOnly
    <3> QED BY <2>0, <3>1, <3>2, HopKeeps DEF Hop, Moves, Quietly
  <2>2. CASE /\ Locals(To("vars"))
             /\ fw' = [fw EXCEPT !.table = [at |-> Region("fdt"), compat |-> Alt.compat,
                                            id |-> Alt.id]]
    <3>1. stub'.pc = "vars" /\ SameLocals
      BY <1>0, <2>2, ToSame
    <3>2. PICK t : t = [at |-> Region("fdt"), compat |-> Alt.compat, id |-> Alt.id]
      OBVIOUS
    <3>3. t.compat = Alt.compat /\ t.id = Alt.id
      BY <3>2
    <3>4. SameInitrd /\ SameKernel /\ fw'.table = t
      BY <1>0, <2>2, <3>2, FirmwareFields DEF FirmwareShape, SameInitrd, SameKernel
    <3> QED BY <2>0, <3>1, <3>3, <3>4, HopKeeps DEF Hop, Moves, Quietly
  <2> QED BY <1>5, <2>1, <2>2 DEF InstallTable
<1>6. CASE SetInterfaceVars
  <2>1. stub.pc = "vars"
    BY <1>6 DEF SetInterfaceVars
  <2>2. stub'.pc \in {"entry", "crashed"} /\ SameLocals
    BY <1>0, <1>6, ToSame DEF SetInterfaceVars
  <2>3. fw' = fw \/ \E x : fw' = [fw EXCEPT !.uuid = x]
    BY <1>6 DEF SetInterfaceVars
  <2>4. SameTable /\ SameInitrd /\ SameKernel
    BY <1>0, <2>3, FirmwareFields DEF FirmwareShape, SameTable, SameInitrd, SameKernel
  <2> QED BY <2>1, <2>2, <2>4, HopKeeps DEF Hop, Moves, Quietly
<1>7. CASE KernelEntry
  <2>1. stub.pc = "entry" /\ fw' = fw /\ Locals(To("running"))
    BY <1>7 DEF KernelEntry
  <2> QED BY <1>0, <2>1, ToSame, HopKeeps DEF Hop, Moves, Quietly, SameTable, SameInitrd,
                                             SameKernel
<1>8. CASE KernelReturns
  <2>1. stub.pc = "running" /\ fw' = fw /\ Locals(To("cleanup_protocols"))
    BY <1>8 DEF KernelReturns
  <2> QED BY <1>0, <2>1, ToSame, HopKeeps DEF Hop, Moves, Quietly, SameTable, SameInitrd,
                                             SameKernel
<1>9. CASE cleanup_protocols
  <2>1. stub.pc = "cleanup_protocols" /\ Locals(To("cleanup_buffer"))
    BY <1>9 DEF cleanup_protocols
  <2>2. stub'.pc = "cleanup_buffer" /\ SameLocals
    BY <1>0, <2>1, ToSame
  <2>3. fw' = [fw EXCEPT !.kernel = FALSE] \/ fw' = fw
    BY <1>9 DEF cleanup_protocols
  <2>4. SameTable /\ SameInitrd
    BY <1>0, <2>3, FirmwareFields DEF FirmwareShape, SameTable, SameInitrd
  <2> QED BY <2>1, <2>2, <2>4, HopKeeps DEF Hop, Moves, Quietly
<1>10. CASE cleanup_buffer
  <2>1. /\ stub.pc = "cleanup_buffer" /\ Locals(To("cleanup_initrd"))
        /\ fw' = [fw EXCEPT !.mem = fw.mem \ {Region("kernel")}]
    BY <1>10 DEF cleanup_buffer
  <2>2. stub'.pc = "cleanup_initrd" /\ SameLocals
    BY <1>0, <2>1, ToSame
  <2>3. SameTable /\ SameInitrd /\ SameKernel
    BY <1>0, <2>1, MemoryOnly
  <2> QED BY <2>1, <2>2, <2>3, HopKeeps DEF Hop, Moves, Quietly
<1>11. CASE uninstall_initrd_loader
  <2>1. CASE error_exit
    BY <2>1, ErrorKeeps
  <2>2. CASE Locals(NewStub) /\ fw' = Unloaded([fw EXCEPT !.initrd = FALSE])
    <3>1. PICK f : f = [fw EXCEPT !.initrd = FALSE]
      OBVIOUS
    <3>2. DOMAIN f = FirmwareShape /\ f.table = fw.table /\ f.initrd = FALSE
      BY <1>0, <3>1, FirmwareFields DEF FirmwareShape
    <3>3. fw'.table = fw.table /\ fw'.initrd = FALSE
      BY <2>2, <3>1, <3>2, UnloadedFields DEF FirmwareShape
    <3> QED BY <2>2, <3>3, ExitKeeps DEF Locals
  <2> QED BY <1>11, <2>1, <2>2 DEF uninstall_initrd_loader
<1> QED BY <1>1, <1>2, <1>3, <1>4, <1>5, <1>6, <1>7, <1>8, <1>9, <1>10, <1>11

(* LoadImage, before the first start. *)
LEMMA LoadKeeps ==
    ASSUME GInv, RInv, LoadImage
    PROVE  Fresh'
<1>1. /\ gen.pc = "done" /\ sections = <<>>
      /\ sections' = [i \in 1 .. Len(pe.sections) |-> LoadedSection(i)]
      /\ args' = args /\ gen' = gen /\ pe' = pe /\ out' = out /\ board' = board
      /\ stub' = stub /\ fw' = fw
  BY DEF LoadImage
<1>2. Len(pe.sections) \in Nat /\ Len(pe.sections) > 0
  BY <1>1, HasFiles
<1>3. Len(sections') \in Nat /\ sections' # <<>>
  BY <1>1, <1>2
<1>4. stub = NewStub /\ fw.table = board.tree /\ fw.initrd = FALSE
  BY <1>1 DEF RInv, RLoaded
<1>5. \A i : LoadedSection(i)' = LoadedSection(i)
  <2>1. \A i : WrittenAt(i)' = WrittenAt(i)
    BY <1>1 DEF WrittenAt, StubLen
  <2>2. \A i : Survives(i)' <=> Survives(i)
    BY <1>1, <2>1 DEF Survives
  <2> QED BY <1>1, <2>2 DEF LoadedSection
<1>6. RLoaded'
  BY <1>1, <1>3, <1>5 DEF RLoaded
<1>7. args' \in Arguments
  BY <1>1 DEF GInv, GShape
<1>8. stub' = NewStub' /\ fw'.table = board'.tree /\ fw'.initrd = FALSE
  BY <1>1, <1>4 DEF NewStub
<1> QED BY <1>3, <1>6, <1>7, <1>8 DEF Fresh

(* A step of the tool. *)
LEMMA BuildKeeps ==
    ASSUME GInv, RInv, GenNext, UNCHANGED stubVars
    PROVE  Fresh'
<1>1. /\ board' = board /\ sections' = sections /\ stub' = stub /\ fw' = fw
  BY DEF stubVars
<1>2. gen.pc # "done" /\ args' = args
  BY DEF GenNext, ReadStub, RefuseStub, AddCmdline, AddKernel, RefuseKernel, AddInitrd, NoInitrd,
         AddDtb, KeepText, RaiseText, RefuseHeaders, WriteImage, Refuse, AddFile
<1>3. /\ sections = <<>> /\ stub = NewStub /\ fw.table = board.tree /\ fw.initrd = FALSE
  BY <1>2 DEF RInv, RLoaded
<1>4. Len(sections') \in Nat /\ sections' = <<>> /\ args' \in Arguments
  BY <1>1, <1>2, <1>3 DEF GInv, GShape
<1>5. stub' = NewStub' /\ fw'.table = board'.tree /\ fw'.initrd = FALSE
  BY <1>1, <1>3 DEF NewStub
<1>6. RLoaded'
  BY <1>4, <1>5 DEF RLoaded
<1> QED BY <1>4, <1>5, <1>6 DEF Fresh

(* No step of the tool, the firmware or the stub leaves this invariant. *)
THEOREM RunInvariance == Spec => []RInv
<1>1. Init => RInv
  <2> SUFFICES ASSUME Init PROVE RInv
    OBVIOUS
  <2>1. /\ args \in Arguments /\ sections = <<>> /\ stub = NewStub
        /\ fw.table = board.tree /\ fw.initrd = FALSE
    BY DEF Init, Init_gen, InitFirmware
  <2>2. RLoaded /\ Len(sections) \in Nat
    BY <2>1 DEF RLoaded
  <2> QED BY <2>1, <2>2, FreshInv DEF Fresh
<1>2. Fresh' => RInv'
  BY FreshInv, PTL
<1>3. GInv /\ KInv /\ RInv /\ [Next]_vars => RInv'
  <2> SUFFICES ASSUME GInv, KInv, RInv, [Next]_vars PROVE RInv'
    OBVIOUS
  <2>1. CASE GenNext /\ UNCHANGED stubVars
    BY <1>2, <2>1, BuildKeeps
  <2>2. CASE LoadImage
    BY <1>2, <2>2, LoadKeeps
  <2>3. CASE sections # <<>> /\ StubNext /\ UNCHANGED genVars
    <3>1. Shape
      BY DEF KInv
    <3>2. board' = board /\ sections' = sections
      <4>1. ASSUME StartImage PROVE board' = board /\ sections' = sections
        BY <4>1 DEF StartImage
      <4>2. ASSUME NEW x, Locals(x) PROVE board' = board /\ sections' = sections
        BY <4>2 DEF Locals
      <4>3. StartImage \/ \E x : Locals(x)
        <5>1. CASE StartImage \/ get_fdt_compatible \/ OpenImage \/ ScanSection \/ ScanDtb
                   \/ ScanEnd \/ install_initrd_loader
          BY <5>1 DEF get_fdt_compatible, OpenImage, ScanSection, ScanDtb, ScanEnd,
                      install_initrd_loader, error_exit
        <5>2. CASE AllocateKernel \/ CopyKernel \/ RegisterKernel \/ FixupSize \/ clone_fdt
                   \/ Fixup \/ InstallTable
          BY <5>2 DEF AllocateKernel, CopyKernel, RegisterKernel, RegisterFails, FixupSize,
                      clone_fdt, Fixup, InstallTable
        <5>3. CASE SetInterfaceVars \/ KernelEntry \/ KernelReturns \/ cleanup_protocols
                   \/ cleanup_buffer \/ uninstall_initrd_loader
          BY <5>3 DEF SetInterfaceVars, KernelEntry, KernelReturns, cleanup_protocols,
                      cleanup_buffer, uninstall_initrd_loader, error_exit
        <5> QED BY <2>3, <5>1, <5>2, <5>3 DEF StubNext
      <4> QED BY <4>1, <4>2, <4>3
    <3>3. Frozen
      BY <2>3, <3>2 DEF Frozen, genVars
    <3> QED BY <2>3, <3>1, <3>3, EarlyRuns, LateRuns DEF StubNext
  <2>4. CASE UNCHANGED vars
    <3>1. Frozen /\ stub' = stub /\ fw' = fw
      BY <2>4 DEF vars, Frozen
    <3>2. CASE sections = <<>>
      <4>1. /\ stub = NewStub /\ fw.table = board.tree /\ fw.initrd = FALSE /\ args \in Arguments
        BY <3>2 DEF RInv, RLoaded, GInv, GShape
      <4>2. RLoaded' /\ Len(sections') \in Nat
        BY <3>1, <3>2, <4>1 DEF RLoaded, Frozen, NewStub
      <4>3. Fresh'
        BY <3>1, <4>1, <4>2 DEF Fresh, Frozen, NewStub
      <4> QED BY <1>2, <4>3
    <3>3. CASE sections # <<>>
      <4>1. /\ StubLen' = StubLen /\ FirstDtb' = FirstDtb /\ Matching' = Matching
            /\ (Fits' <=> Fits) /\ RLoaded' /\ \A n : ForBoard(n)' <=> ForBoard(n)
            /\ WellFormed(args.kernel)' <=> WellFormed(args.kernel)
            /\ args' = args /\ board' = board /\ sections' = sections
        BY <3>1, <3>3, FrozenSame DEF RInv, Frozen
      <4>2. \A i : Found(i)' = Found(i)
        BY <3>1 DEF Found
      <4>3. RScan' /\ RFirmware'
        BY <3>1, <4>1, <4>2 DEF RInv, RScan, RFirmware
      <4>4. kernel_pages(args.kernel)' = kernel_pages(args.kernel)
        BY <4>1 DEF kernel_pages
      <4>5. RCopy'
        BY <3>1, <4>1, <4>4 DEF RInv, RCopy, CopyFits
      <4>6. Fits => RAlt' /\ RTable'
        BY <3>1, <3>3, <4>1 DEF RInv, RAlt, RTable
      <4> QED BY <4>1, <4>3, <4>5, <4>6 DEF RInv
    <3> QED BY <3>2, <3>3
  <2> QED BY <2>1, <2>2, <2>3, <2>4 DEF Next
<1> QED BY <1>1, <1>3, ImageInvariance, StubInvariance, PTL DEF Spec

(* Copying and clearing the kernel in efi_main stays inside the buffer     *)
(* that was allocated, wherever AllocatePages found memory, for every      *)
(* kernel whose headers are in order.                                      *)
THEOREM CopyInBuffer == Spec => []CopyFits
<1>1. RInv => CopyFits
  BY DEF RInv, RCopy
<1> QED BY <1>1, RunInvariance, PTL

(* If everything fits its place, efi_main starts the kernel that was given *)
(* to bg_gen_unified_kernel, with its command line, its initrd and the     *)
(* right device tree, at any start of the image.                           *)
THEOREM AsBuilt == Spec => []RunsAsBuilt
<1>1. GInv /\ KInv /\ RInv => RunsAsBuilt
  <2> SUFFICES ASSUME GInv, KInv, RInv, stub.pc = "running", Fits
               PROVE  /\ SameEntry
                      /\ sections[stub.kernel].file = args.kernel
                      /\ sections[stub.cmdline].file = args.cmdline
                      /\ IF args.initrd = NoFile THEN ~fw.initrd
                         ELSE fw.initrd /\ sections[stub.initrd].file = args.initrd
                      /\ IF Matching = {} THEN fw.table = board.tree
                         ELSE fw.table.id \in Matching
                      /\ Region("kernel") \in fw.mem /\ fw.kernel
    BY DEF RunsAsBuilt
  <2>1. sections # <<>> /\ RLoaded
    BY DEF RInv, RLoaded, NewStub
  <2>2. /\ StubLen \in Nat /\ FirstDtb \in Nat /\ Len(args.dtb) \in Nat /\ Len(sections) \in Nat
        /\ FirstDtb >= StubLen + 2 /\ Len(sections) = FirstDtb + Len(args.dtb)
        /\ args.initrd # NoFile => FirstDtb = StubLen + 3
    BY <2>1, InMemory
  <2>3. stub.n = Len(sections) /\ RScan
    BY DEF RInv, RScan, Before
  <2>4. /\ stub.cmdline = StubLen + 1 /\ stub.kernel = StubLen + 2
        /\ args.initrd # NoFile => stub.initrd = StubLen + 3
    <3>9. /\ stub.n >= StubLen + 1 /\ stub.n >= StubLen + 2
          /\ args.initrd # NoFile => stub.n >= StubLen + 3
      BY <2>2, <2>3
    <3>1. Found(StubLen + 1) = StubLen + 1 /\ Found(StubLen + 2) = StubLen + 2
      BY <3>9 DEF Found
    <3>2. args.initrd # NoFile => Found(StubLen + 3) = StubLen + 3
      BY <3>9 DEF Found
    <3>3. stub.cmdline = Found(StubLen + 1) /\ stub.kernel = Found(StubLen + 2)
      BY <2>3 DEF RScan
    <3>4. args.initrd # NoFile => stub.initrd = Found(StubLen + 3)
      BY <2>3 DEF RScan
    <3> QED BY <3>1, <3>2, <3>3, <3>4
  <2>5. /\ sections[stub.kernel].file = args.kernel
        /\ sections[stub.cmdline].file = args.cmdline
        /\ args.initrd # NoFile => sections[stub.initrd].file = args.initrd
    BY <2>1, <2>4, Contents
  <2>6. SameEntry
    BY <2>1, Entry
  <2>7. /\ args.initrd = NoFile => fw.initrd = FALSE
        /\ args.initrd # NoFile => fw.initrd = TRUE
        /\ fw.kernel = TRUE
    BY DEF RInv, RFirmware, Offered, Started
  <2>8. Region("kernel") \in fw.mem
    BY DEF KInv, Memory, Buffered
  <2>9. IF Matching = {} THEN fw.table = board.tree ELSE fw.table.id \in Matching
    <3>1. RAlt /\ RTable
      BY <2>1 DEF RInv
    <3>2. CASE fw.table.id \in Matching
      BY <3>2
    <3>3. CASE fw.table.id \notin Matching
      <4>1. fw.table = board.tree /\ stub.alt = NoSection
        BY <3>1, <3>3 DEF RTable
      <4>2. board.tree = NoTree \/ stub.compatible = board.tree.compat
        BY <3>1, <3>3 DEF RAlt
      <4>3. \A n \in 1 .. Len(args.dtb) : FirstDtb + n <= stub.n
        BY <2>2, <2>3
      <4>4. \A n \in 1 .. Len(args.dtb) : args.dtb[n].compat # stub.compatible
        BY <3>1, <4>1, <4>3 DEF RAlt
      <4>5. Matching = {}
        BY <4>2, <4>4 DEF Matching
      <4> QED BY <4>1, <4>5
    <3> QED BY <3>2, <3>3
  <2> QED BY <2>5, <2>6, <2>7, <2>8, <2>9
<1> QED BY <1>1, RunInvariance, ImageInvariance, StubInvariance, PTL

=============================================================================

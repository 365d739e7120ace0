----------------------------- MODULE KernelStub -----------------------------
(***************************************************************************)
(* The stub of a unified kernel image (kernel-stub/main.c, fdt.c and       *)
(* initrd.c) and the firmware it works on: memory, registered protocols,   *)
(* the device tree in the configuration table and the variable             *)
(* LoaderDevicePartUUID.  Every call into the firmware may fail.  The      *)
(* kernel may return, and the firmware may then start the image again,     *)
(* with the table and the variable as the first start left them.           *)
(***************************************************************************)
EXTENDS Integers, Sequences, FiniteSets, FiniteSetsExt

CONSTANTS
    EFI_PAGE_SIZE,
    UINTPTR_MAX,   \* the highest address
    Bases,         \* where AllocatePages may find memory
    NoCompat,      \* not a device tree, or one without "compatible"
    NoTree,        \* the configuration table has no device tree
    MaxStarts,     \* bound on starts of the image
    MaxFaults      \* bound on failing firmware calls

ASSUME PageAssumption == EFI_PAGE_SIZE \in Nat \ {0}

VARIABLES
    board,         \* gpt: the boot device has a UUID; fixup: is there the
                   \* device tree fixup protocol; tree: the firmware's tree
    sections,      \* the sections of the image, as they are in memory
    stub,          \* pc and local variables of efi_main and replace_fdt
    fw,            \* mem: memory in use; table; uuid; what is registered:
                   \* initrd, kernel
    starts,        \* starts of the image so far
    faults,        \* failed calls so far
    refused        \* of these, protocols that were not unregistered

stubVars == <<board, sections, stub, fw, starts, faults, refused>>

(* Memory is known by who uses it and in which start. *)
Region(who) == <<who, starts>>
FirmwareRegion == <<"firmware", 0>>

NoSection == 0

NewStub ==
    [pc |-> "off", n |-> 0, cmdline |-> NoSection, kernel |-> NoSection,
     initrd |-> NoSection, alt |-> NoSection, compatible |-> NoCompat,
     base |-> 0, pages |-> 0, written |-> 0]

InitFirmware ==
    /\ fw = [mem |-> {FirmwareRegion}, table |-> board.tree, uuid |-> board.uuid,
             initrd |-> FALSE, kernel |-> FALSE]
    /\ stub = NewStub
    /\ starts = 0 /\ faults = 0 /\ refused = 0

-----------------------------------------------------------------------------
Locals(new) == stub' = new /\ UNCHANGED <<board, sections, starts>>

To(pc) == [stub EXCEPT !.pc = pc]

Works == UNCHANGED <<faults, refused>>

Fails == faults < MaxFaults /\ faults' = faults + 1 /\ UNCHANGED refused

(* The firmware unloads the image and frees its memory. *)
Unloaded(f) == [f EXCEPT !.mem = @ \ {Region("stub")}]

(* error_exit: BS->Exit does not come back. *)
error_exit == Locals(NewStub) /\ fw' = Unloaded(fw)

(* BS->StartImage, by the boot loader or by the firmware. *)
StartImage ==
    /\ stub.pc = "off" /\ starts < MaxStarts
    /\ stub' = To("fdt") /\ starts' = starts + 1
    /\ fw' = [fw EXCEPT !.mem = @ \cup {<<"stub", starts + 1>>}]
    /\ UNCHANGED <<board, sections, faults, refused>>

(* get_compatible_from_fdt: NoCompat stands for NULL. *)
get_compatible_from_fdt(fdt) == fdt.compat

get_fdt_compatible ==
    /\ stub.pc = "fdt" /\ Works
    /\ \/ /\ fw.table = NoTree
          /\ Locals(To("open")) /\ UNCHANGED fw
       \/ /\ fw.table # NoTree /\ get_compatible_from_fdt(fw.table) # NoCompat
          /\ Locals([To("open") EXCEPT !.compatible = get_compatible_from_fdt(fw.table)])
          /\ UNCHANGED fw
       \/ /\ fw.table # NoTree /\ get_compatible_from_fdt(fw.table) = NoCompat
          /\ error_exit

OpenImage ==
    /\ stub.pc = "open"
    /\ \/ Works /\ Locals(To("scan")) /\ UNCHANGED fw
       \/ Fails /\ error_exit

-----------------------------------------------------------------------------
(* The section headers; of several sections with one name the last counts. *)
Scanned == sections[stub.n + 1]

Scanning == stub.pc = "scan" /\ stub.n < Len(sections) /\ Works

ScanSection ==
    LET i == stub.n + 1 IN
    /\ Scanning /\ Scanned.name # ".dtb-"
    /\ Locals([stub EXCEPT !.n = i,
                  !.cmdline = IF Scanned.name = ".cmdline" THEN i ELSE @,
                  !.kernel  = IF Scanned.name = ".kernel" THEN i ELSE @,
                  !.initrd  = IF Scanned.name = ".initrd" THEN i ELSE @])
    /\ UNCHANGED fw

(* Fault: the first device tree is taken whatever it is for. *)
match_fdt_any(fdt, compatible) == TRUE

match_fdt(fdt, compatible) == get_compatible_from_fdt(fdt) = compatible

ScanDtb ==
    /\ Scanning /\ Scanned.name = ".dtb-"
    /\ IF stub.compatible = NoCompat \/ get_compatible_from_fdt(Scanned.file) = NoCompat
       THEN error_exit
       ELSE /\ Locals([stub EXCEPT !.n = stub.n + 1,
                          !.alt = IF match_fdt(Scanned.file, stub.compatible)
                                  THEN stub.n + 1 ELSE @])
            /\ UNCHANGED fw

ScanEnd ==
    /\ stub.pc = "scan" /\ stub.n = Len(sections) /\ Works
    /\ IF stub.kernel = NoSection THEN error_exit
       ELSE Locals(To("initrd")) /\ UNCHANGED fw

-----------------------------------------------------------------------------
install_initrd_loader ==
    /\ stub.pc = "initrd"
    /\ \/ stub.initrd = NoSection /\ Works /\ Locals(To("alloc")) /\ UNCHANGED fw
       \/ /\ stub.initrd # NoSection /\ Works
          /\ Locals(To("alloc")) /\ fw' = [fw EXCEPT !.initrd = TRUE]
       \/ stub.initrd # NoSection /\ Fails /\ error_exit

(* align_addr, align being a power of two. *)
align_addr(ptr, align) == ((ptr + align - 1) \div align) * align

Kernel == sections[stub.kernel]

(* Fault: no room for moving the start of the image. *)
kernel_pages_bare(k) == (k.size_of_image + EFI_PAGE_SIZE - 1) \div EFI_PAGE_SIZE

kernel_pages(k) == (k.size_of_image + k.alignment + EFI_PAGE_SIZE - 1) \div EFI_PAGE_SIZE

AllocateKernel ==
    /\ stub.pc = "alloc"
    /\ \/ /\ Works
          /\ \E b \in Bases :
                 Locals([To("copy") EXCEPT !.base = b, !.pages = kernel_pages(Kernel.file)])
          /\ fw' = [fw EXCEPT !.mem = @ \cup {Region("kernel")}]
       \/ Fails /\ Locals(To("cleanup_initrd")) /\ UNCHANGED fw

(* Copy and clear.  The rest to clear is a negative number, that is nearly *)
(* all of memory, if the section is longer than the image.                 *)
CopyKernel ==
    LET k       == Kernel.file
        aligned == align_addr(stub.base, k.alignment)
        rest    == (k.size_of_image - Kernel.virt_size) % (UINTPTR_MAX + 1)
    IN  /\ stub.pc = "copy" /\ Works /\ UNCHANGED fw
        /\ Locals(IF aligned > UINTPTR_MAX THEN To("cleanup_buffer")
                  ELSE [To("register") EXCEPT !.written = aligned + Kernel.virt_size + rest])

(* Fault: the buffer is forgotten. *)
RegisterFails_leaks == Fails /\ Locals(To("cleanup_initrd")) /\ UNCHANGED fw

RegisterFails == Fails /\ Locals(To("cleanup_buffer")) /\ UNCHANGED fw

RegisterKernel ==
    /\ stub.pc = "register"
    /\ \/ /\ Works /\ fw' = [fw EXCEPT !.kernel = TRUE]
          /\ Locals(To(IF stub.alt = NoSection THEN "vars" ELSE "fixup_size"))
       \/ RegisterFails

-----------------------------------------------------------------------------
(***************************************************************************)
(* replace_fdt.  Without the fixup protocol the tree is cloned as it is;   *)
(* with it, the first call of Fixup asks for the size and the second works *)
(* on the clone.                                                           *)
(***************************************************************************)
Alt == sections[stub.alt].file

FixupSize ==
    /\ stub.pc = "fixup_size" /\ UNCHANGED fw
    /\ \/ Works /\ Locals(To("clone"))
       \/ board.fixup /\ Fails /\ Locals(To("cleanup_protocols"))

clone_fdt ==
    /\ stub.pc = "clone"
    /\ \/ /\ Works /\ fw' = [fw EXCEPT !.mem = @ \cup {Region("fdt")}]
          /\ Locals(To(IF board.fixup THEN "fixup" ELSE "table"))
       \/ Fails /\ Locals(To("cleanup_protocols")) /\ UNCHANGED fw

Fixup ==
    /\ stub.pc = "fixup"
    /\ \/ Works /\ Locals(To("table")) /\ UNCHANGED fw
       \/ /\ Fails /\ Locals(To("cleanup_protocols"))
          /\ fw' = [fw EXCEPT !.mem = @ \ {Region("fdt")}]

InstallTable ==
    /\ stub.pc = "table"
    /\ \/ /\ Works /\ Locals(To("vars"))
          /\ fw' = [fw EXCEPT !.table = [at |-> Region("fdt"), compat |-> Alt.compat,
                                         id |-> Alt.id]]
       \/ /\ Fails /\ Locals(To("cleanup_protocols"))
          /\ fw' = [fw EXCEPT !.mem = @ \ {Region("fdt")}]

-----------------------------------------------------------------------------
(***************************************************************************)
(* disk_get_part_uuid and set_bg_interface_vars.  Unlike the boot loader   *)
(* the stub does not test for a missing UUID (a disk without a GPT, or a   *)
(* device path that cannot be had): StrLen(NULL) then reads whatever is at *)
(* address 0, or faults.                                                   *)
(***************************************************************************)
NoUuid == (~board.gpt /\ Works) \/ Fails

SetInterfaceVars ==
    /\ stub.pc = "vars"
    /\ \/ /\ fw.uuid # "unset" /\ Works
          /\ Locals(To("entry")) /\ UNCHANGED fw
       \/ /\ fw.uuid = "unset" /\ board.gpt /\ Works
          /\ Locals(To("entry")) /\ fw' = [fw EXCEPT !.uuid = "set"]
       \/ /\ fw.uuid = "unset" /\ Fails
          /\ Locals(To("entry")) /\ UNCHANGED fw
       \/ /\ fw.uuid = "unset" /\ NoUuid
          /\ Locals(To("entry")) /\ fw' = [fw EXCEPT !.uuid = "junk"]
       \/ /\ fw.uuid = "unset" /\ NoUuid
          /\ Locals(To("crashed")) /\ UNCHANGED fw

KernelEntry == stub.pc = "entry" /\ Works /\ Locals(To("running")) /\ UNCHANGED fw

KernelReturns ==
    stub.pc = "running" /\ Works /\ Locals(To("cleanup_protocols")) /\ UNCHANGED fw

(* The labels at the end of efi_main. *)
cleanup_protocols ==
    /\ stub.pc = "cleanup_protocols"
    /\ \/ Works /\ fw' = [fw EXCEPT !.kernel = FALSE]
       \/ /\ faults < MaxFaults /\ faults' = faults + 1 /\ refused' = refused + 1
          /\ UNCHANGED fw
    /\ Locals(To("cleanup_buffer"))

cleanup_buffer ==
    /\ stub.pc = "cleanup_buffer" /\ Works
    /\ fw' = [fw EXCEPT !.mem = @ \ {Region("kernel")}]
    /\ Locals(To("cleanup_initrd"))

(* uninstall_initrd_loader and the return from efi_main. *)
uninstall_initrd_loader ==
    /\ stub.pc = "cleanup_initrd"
    /\ \/ Works /\ Locals(NewStub) /\ fw' = Unloaded([fw EXCEPT !.initrd = FALSE])
       \/ /\ fw.initrd
          /\ faults < MaxFaults /\ faults' = faults + 1 /\ refused' = refused + 1
          /\ error_exit

StubNext ==
    \/ StartImage \/ get_fdt_compatible \/ OpenImage \/ ScanSection \/ ScanDtb \/ ScanEnd
    \/ install_initrd_loader \/ AllocateKernel \/ CopyKernel \/ RegisterKernel
    \/ FixupSize \/ clone_fdt \/ Fixup \/ InstallTable
    \/ SetInterfaceVars \/ KernelEntry \/ KernelReturns
    \/ cleanup_protocols \/ cleanup_buffer \/ uninstall_initrd_loader

-----------------------------------------------------------------------------
(***************************************************************************)
(* The stub never leaves anything behind that refers to memory it has      *)
(* given back: the device tree of the configuration table is in memory     *)
(* that is in use, at any time; the initrd loader is registered only while *)
(* the image is loaded and the kernel only while its buffer exists, and    *)
(* once control is back at the firmware all memory has been freed but the  *)
(* installed device trees; whichever calls failed, unless the firmware     *)
(* refused to unregister a protocol.                                       *)
(***************************************************************************)
NothingDangles ==
    /\ fw.table # NoTree => fw.table.at \in fw.mem
    /\ refused = 0 =>
           /\ fw.initrd => Region("stub") \in fw.mem
           /\ fw.kernel => Region("kernel") \in fw.mem
           /\ stub.pc = "off" =>
                  /\ {r \in fw.mem : r[1] # "fdt"} = {FirmwareRegion}
                  /\ Region("fdt") \in fw.mem => fw.table.at = Region("fdt")
=============================================================================

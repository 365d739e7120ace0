----------------------------- MODULE UnifiedBoot -----------------------------
(***************************************************************************)
(* A unified kernel image from the tool that builds it to the kernel that  *)
(* runs: UnifiedKernel writes the image, the firmware loads it (external:  *)
(* the headers to the start of the image, every section to its address),   *)
(* and KernelStub runs from what is then in memory.                        *)
(***************************************************************************)
EXTENDS UnifiedKernel, KernelStub

CONSTANTS
    Boards,       \* the machines
    Garbage       \* the contents of a section that does not survive loading

(* A tree of the firmware is in memory of the firmware. *)
ASSUME BoardAssumption ==
    \A b \in Boards : b.tree # NoTree => b.tree.at = FirmwareRegion

ASSUME LoadingAssumption ==
    /\ Bases \subseteq Nat /\ UINTPTR_MAX \in Nat
    /\ \A k \in KernelFiles : k.size_of_image \in Nat /\ k.alignment \in Nat \ {0}

(***************************************************************************)
(* The stub as it is linked: one text section, names of its own, and a     *)
(* place in memory for every section, below that of the command line, also *)
(* if a low text section is moved to PAGE.                                 *)
(***************************************************************************)
HighAddr(t) == IF t.name = ".text" /\ t.virt_addr < PAGE THEN PAGE ELSE t.virt_addr

ASSUME LinkedAssumption ==
    \A s \in Stubs : \A i \in 1 .. Len(s.sections) :
        LET t == s.sections[i] IN
        /\ t.name \notin {".cmdline", ".kernel", ".initrd", ".dtb-"}
        /\ t.file # Garbage
        /\ HighAddr(t) + t.virt_size <= CMDLINE_VIRT
        /\ \A j \in 1 .. Len(s.sections) : j # i =>
              LET u == s.sections[j] IN
              /\ t.name = ".text" => u.name # ".text"
              /\ \/ HighAddr(t) + t.virt_size <= HighAddr(u)
                 \/ HighAddr(u) + u.virt_size <= HighAddr(t)

vars == <<args, gen, pe, out, board, sections, stub, fw, starts, faults, refused>>

Init ==
    /\ Init_gen
    /\ board \in Boards
    /\ sections = <<>>
    /\ InitFirmware

-----------------------------------------------------------------------------
VirtEnd(s) == s.virt_addr + s.virt_size

Apart(s, t) == VirtEnd(s) <= t.virt_addr \/ VirtEnd(t) <= s.virt_addr

(* Section i is in memory what it was in the file. *)
Survives(i) ==
    LET s == pe.sections[i] IN
    /\ s.virt_addr >= pe.size_of_headers
    /\ VirtEnd(s) <= pe.size_of_image
    /\ \A j \in 1 .. Len(pe.sections) : j # i => Apart(s, pe.sections[j])
    /\ s.data_size > 0 => s.data_offs = WrittenAt(i)

LoadedSection(i) ==
    [name      |-> pe.sections[i].name,
     virt_size |-> pe.sections[i].virt_size,
     file      |-> IF Survives(i) THEN pe.sections[i].file ELSE Garbage]

LoadImage ==
    /\ gen.pc = "done" /\ sections = <<>>
    /\ sections' = [i \in 1 .. Len(pe.sections) |-> LoadedSection(i)]
    /\ UNCHANGED <<args, gen, pe, out, board, stub, fw, starts, faults, refused>>

Next ==
    \/ GenNext /\ UNCHANGED stubVars
    \/ LoadImage
    \/ sections # <<>> /\ StubNext /\ UNCHANGED genVars

Spec == Init /\ [][Next]_vars

-----------------------------------------------------------------------------
(* What the fixed addresses leave room for; the tool does not check it. *)
Size(f) == align(f.len, pe.file_align)

Fits ==
    /\ pe.size_of_headers <= PAGE
    /\ Size(args.cmdline) <= DTB_VIRT - CMDLINE_VIRT
    /\ gen.dtb_virt <= KERNEL_VIRT
    /\ args.initrd # NoFile => Size(args.kernel) <= INITRD_VIRT - KERNEL_VIRT

(* The entry point is the same place of the text section as in the stub. *)
SameEntry ==
    \A i \in 1 .. Len(args.stub.sections) :
        args.stub.sections[i].name = ".text" =>
            /\ sections[i].file # Garbage
            /\ pe.entry_point - pe.sections[i].virt_addr
                   = args.stub.entry_point - args.stub.sections[i].virt_addr

(* The device trees that were given for the board. *)
Matching ==
    {args.dtb[n].id : n \in {m \in 1 .. Len(args.dtb) :
                                board.tree # NoTree /\ args.dtb[m].compat = board.tree.compat}}

(***************************************************************************)
(* If everything fits its place, a kernel that is started is the one given *)
(* to bg_gen_unified_kernel, with the command line and the initrd given    *)
(* there, the initrd being offered if and only if there is one; it finds   *)
(* one of the given device trees that match the firmware's, or the         *)
(* firmware's own if none matches; and the stub itself ran as it was       *)
(* built.  Also if an earlier start of the image had failed half way.      *)
(***************************************************************************)
RunsAsBuilt ==
    stub.pc = "running" /\ Fits =>
        /\ SameEntry
        /\ sections[stub.kernel].file = args.kernel
        /\ sections[stub.cmdline].file = args.cmdline
        /\ IF args.initrd = NoFile THEN ~fw.initrd
           ELSE fw.initrd /\ sections[stub.initrd].file = args.initrd
        /\ IF Matching = {} THEN fw.table = board.tree ELSE fw.table.id \in Matching
        /\ Region("kernel") \in fw.mem /\ fw.kernel

(***************************************************************************)
(* Copying and clearing the kernel stays inside the buffer that was        *)
(* allocated, wherever it is, although the start of the image is moved to  *)
(* its alignment and the section is longer than the kernel's file; for     *)
(* kernels that are not longer than they say and at least as coarsely      *)
(* aligned as the sections of the stub.                                    *)
(***************************************************************************)
WellFormed(k) ==
    k.len <= k.size_of_image /\ k.size_of_image % k.alignment = 0 /\ k.alignment % pe.file_align = 0

CopyFits ==
    stub.written > 0 /\ Fits /\ WellFormed(args.kernel) =>
        stub.written <= stub.base + stub.pages * EFI_PAGE_SIZE
=============================================================================

---------------------------- MODULE UnifiedKernel ----------------------------
(***************************************************************************)
(* tools/bg_gen_unified_kernel: the command line, the kernel, the initrd   *)
(* and the device trees are appended to the stub as further sections of    *)
(* its PE image.  Every section header that is added may push the data of  *)
(* all sections back in the file, and every section has a fixed place in   *)
(* memory, whatever its size.                                              *)
(*                                                                         *)
(* Input files are records of what the rest of the model needs to know of  *)
(* them.  Offsets and sizes count in units; a section header is HEADER     *)
(* units long, and the addresses of the sections are CONSTANTS.            *)
(***************************************************************************)
EXTENDS Integers, Sequences, FiniteSets, FiniteSetsExt

CONSTANTS
    HEADER,       \* size of a section header (0x28)
    PAGE,         \* lowest address of the text section (0x1000)
    CMDLINE_VIRT, DTB_VIRT, KERNEL_VIRT, INITRD_VIRT,
    Stubs,        \* the stub images
    Cmdlines, KernelFiles, Initrds, Dtbs,  \* the input files
    NoFile,       \* --initrd is not given
    MaxDtbs       \* bound on the number of --dtb options

ASSUME SizesAssumption == HEADER \in Nat \ {0} /\ PAGE \in Nat \ {0}

ASSUME AddressesAssumption ==
    /\ {CMDLINE_VIRT, DTB_VIRT, KERNEL_VIRT, INITRD_VIRT} \subseteq Nat
    /\ PAGE <= CMDLINE_VIRT /\ CMDLINE_VIRT <= DTB_VIRT
    /\ DTB_VIRT <= KERNEL_VIRT /\ KERNEL_VIRT <= INITRD_VIRT

ASSUME FilesAssumption ==
    /\ \A f \in Cmdlines \cup KernelFiles \cup Initrds \cup Dtbs : f.len \in Nat
    /\ NoFile \notin Initrds
    /\ MaxDtbs \in Nat

VARIABLES
    args,         \* the command line of the tool
    gen,          \* pc and local variables of the tool
    pe,           \* pe_headers
    out           \* the pieces of the image, as they are written

genVars == <<args, gen, pe, out>>

align(v, a) == ((v + a - 1) \div a) * a

DataSections(p) == {i \in 1 .. Len(p.sections) : p.sections[i].data_size > 0}

(* PEHeaders: where the data starts and ends in the file. *)
PEHeaders(stub) ==
    LET S == DataSections(stub)
    IN  [header_size     |-> stub.header_size,
         size_of_headers |-> stub.size_of_headers,
         size_of_image   |-> stub.size_of_image,
         entry_point     |-> stub.entry_point,
         file_align      |-> stub.file_align,
         section_align   |-> stub.section_align,
         sections        |-> stub.sections,
         first_data      |-> Min({stub.len} \cup {stub.sections[i].data_offs : i \in S}),
         end_of_sections |-> Max({0} \cup {stub.sections[i].data_offs
                                              + stub.sections[i].data_size :
                                                i \in 1 .. Len(stub.sections)})]

(***************************************************************************)
(* A stub is a PE image as the format demands it: the section headers end  *)
(* before the data begins, the data of the sections is in their order and  *)
(* without overlap in the file, and data and headers are aligned.          *)
(***************************************************************************)
IsPE(s) ==
    /\ {s.header_size, s.size_of_headers, s.size_of_image, s.entry_point, s.len} \subseteq Nat
    /\ {s.file_align, s.section_align} \subseteq Nat \ {0}
    /\ Len(s.sections) \in Nat
    /\ s.sections = [i \in 1 .. Len(s.sections) |-> s.sections[i]]
    /\ \A i \in 1 .. Len(s.sections) :
          LET t == s.sections[i] IN
          /\ DOMAIN t = {"name", "file", "virt_addr", "virt_size", "data_size", "data_offs"}
          /\ {t.virt_addr, t.virt_size, t.data_size, t.data_offs} \subseteq Nat
          /\ t.data_offs + t.data_size <= s.len
    /\ DataSections(s) # {}
    /\ s.header_size <= s.size_of_headers /\ s.size_of_headers % s.file_align = 0
    /\ \A i \in DataSections(s) :
          /\ s.size_of_headers <= s.sections[i].data_offs
          /\ s.sections[i].data_offs % s.file_align = 0
          /\ \A j \in DataSections(s) : i < j =>
                s.sections[i].data_offs + s.sections[i].data_size <= s.sections[j].data_offs

ASSUME StubsAssumption == \A s \in Stubs : IsPE(s)

Arguments ==
    [stub : Stubs, cmdline : Cmdlines, kernel : KernelFiles,
     initrd : Initrds \cup {NoFile},
     dtb : UNION {[1 .. n -> Dtbs] : n \in 0 .. MaxDtbs}]

Init_gen ==
    /\ args \in Arguments
    /\ gen = [pc |-> "stub", current_offs |-> 0, dtb_virt |-> DTB_VIRT, n |-> 0]
    /\ pe = PEHeaders(args.stub)
    /\ out = <<>>

-----------------------------------------------------------------------------
(* Fault: the section that is being added is not pushed back. *)
add_section_late(p, s) ==
    LET header == p.header_size + HEADER
        hdrs   == IF header > p.size_of_headers THEN align(header, p.file_align)
                  ELSE p.size_of_headers
        moved  == IF hdrs > p.first_data THEN hdrs - p.first_data ELSE 0
        end    == align(s.virt_addr + s.virt_size, p.section_align)
        Move(t) == IF t.data_size > 0 THEN [t EXCEPT !.data_offs = @ + moved] ELSE t
    IN  [p EXCEPT !.header_size = header, !.size_of_headers = hdrs,
                  !.size_of_image = Max({p.size_of_image, end}),
                  !.first_data = p.first_data + moved,
                  !.sections = Append([i \in 1 .. Len(p.sections) |-> Move(p.sections[i])], s)]

(* PEHeaders.add_section.  When the headers reach the first data, all the  *)
(* data moves, that of the new section included.                           *)
add_section(p, s) ==
    LET header == p.header_size + HEADER
        hdrs   == IF header > p.size_of_headers THEN align(header, p.file_align)
                  ELSE p.size_of_headers
        moved  == IF hdrs > p.first_data THEN hdrs - p.first_data ELSE 0
        end    == align(s.virt_addr + s.virt_size, p.section_align)
        all    == Append(p.sections, s)
        Move(t) == IF t.data_size > 0 THEN [t EXCEPT !.data_offs = @ + moved] ELSE t
    IN  [p EXCEPT !.header_size = header, !.size_of_headers = hdrs,
                  !.size_of_image = Max({p.size_of_image, end}),
                  !.first_data = p.first_data + moved,
                  !.sections = [i \in 1 .. Len(all) |-> Move(all[i])]]

Section(name, file, virt) ==
    LET size == align(file.len, pe.file_align)
    IN  [name |-> name, file |-> file, virt_addr |-> virt, virt_size |-> size,
         data_size |-> size, data_offs |-> gen.current_offs]

(* One section more; the data of the next one follows its data. *)
AddFile(name, file, virt, next) ==
    LET new  == add_section(pe, Section(name, file, virt))
        last == new.sections[Len(new.sections)]
    IN  /\ pe' = new
        /\ gen' = [gen EXCEPT !.pc = next, !.current_offs = last.data_offs + last.data_size]
        /\ UNCHANGED <<args, out>>

Goto(pc) == gen' = [gen EXCEPT !.pc = pc]

Refuse == Goto("failed") /\ UNCHANGED <<args, pe, out>>

(* A stub that is no PE image, or is signed, is refused. *)
ReadStub ==
    /\ gen.pc = "stub" /\ args.stub.valid /\ ~args.stub.signed
    /\ gen' = [gen EXCEPT !.pc = "cmdline",
                          !.current_offs = align(pe.end_of_sections, pe.file_align)]
    /\ UNCHANGED <<args, pe, out>>

RefuseStub == gen.pc = "stub" /\ (~args.stub.valid \/ args.stub.signed) /\ Refuse

AddCmdline == gen.pc = "cmdline" /\ AddFile(".cmdline", args.cmdline, CMDLINE_VIRT, "kernel")

(* The kernel must have PE headers too. *)
AddKernel ==
    gen.pc = "kernel" /\ args.kernel.valid
    /\ AddFile(".kernel", args.kernel, KERNEL_VIRT, "initrd")

RefuseKernel == gen.pc = "kernel" /\ ~args.kernel.valid /\ Refuse

AddInitrd ==
    gen.pc = "initrd" /\ args.initrd # NoFile
    /\ AddFile(".initrd", args.initrd, INITRD_VIRT, "dtb")

NoInitrd ==
    gen.pc = "initrd" /\ args.initrd = NoFile /\ Goto("dtb") /\ UNCHANGED <<args, pe, out>>

AddDtb ==
    LET file == args.dtb[gen.n + 1]
        new  == add_section(pe, Section(".dtb-", file, gen.dtb_virt))
        last == new.sections[Len(new.sections)]
    IN  /\ gen.pc = "dtb" /\ gen.n < Len(args.dtb)
        /\ pe' = new
        /\ gen' = [gen EXCEPT !.n = @ + 1, !.dtb_virt = @ + last.data_size,
                              !.current_offs = last.data_offs + last.data_size]
        /\ UNCHANGED <<args, out>>

(* The first text section below PAGE is moved there, with the entry point; *)
(* impossible if the data, and with it the headers, reach beyond PAGE.     *)
LowText == {i \in 1 .. Len(pe.sections) :
               pe.sections[i].name = ".text" /\ pe.sections[i].virt_addr < PAGE}

KeepText ==
    /\ gen.pc = "dtb" /\ gen.n = Len(args.dtb) /\ LowText = {}
    /\ Goto("write") /\ UNCHANGED <<args, pe, out>>

MoveText(i) ==
    pe' = [pe EXCEPT !.sections[i].virt_addr = PAGE,
                     !.entry_point = @ + (PAGE - pe.sections[i].virt_addr)]

RaiseText ==
    /\ gen.pc = "dtb" /\ gen.n = Len(args.dtb) /\ LowText # {} /\ pe.first_data <= PAGE
    /\ MoveText(Min(LowText))
    /\ Goto("write") /\ UNCHANGED <<args, out>>

RefuseHeaders ==
    /\ gen.pc = "dtb" /\ gen.n = Len(args.dtb) /\ LowText # {} /\ pe.first_data > PAGE
    /\ Refuse

-----------------------------------------------------------------------------
(***************************************************************************)
(* The image is written front to back: headers, the stub's data as one     *)
(* block, then the files.  Before each piece the file is padded up to its  *)
(* offset; bytearray() of a negative length raises an exception.           *)
(***************************************************************************)
StubLen == Len(args.stub.sections)

StubBlock ==
    LET old == PEHeaders(args.stub)
    IN  [at |-> pe.first_data, len |-> old.end_of_sections - old.first_data]

Pieces ==
    <<[at |-> 0, len |-> pe.header_size], StubBlock>>
        \o [i \in 1 .. Len(pe.sections) - StubLen |->
               [at |-> pe.sections[StubLen + i].data_offs,
                len |-> pe.sections[StubLen + i].file.len]]

InOrder == \A i \in 1 .. Len(Pieces) - 1 : Pieces[i].at + Pieces[i].len <= Pieces[i + 1].at

WriteImage ==
    /\ gen.pc = "write"
    /\ IF InOrder THEN out' = Pieces /\ Goto("done") ELSE out' = out /\ Goto("raised")
    /\ UNCHANGED <<args, pe>>

GenNext ==
    \/ ReadStub \/ RefuseStub \/ AddCmdline \/ AddKernel \/ RefuseKernel
    \/ AddInitrd \/ NoInitrd \/ AddDtb \/ KeepText \/ RaiseText \/ RefuseHeaders
    \/ WriteImage

-----------------------------------------------------------------------------
(* The length of the file that is written, its end being padded. *)
ImageLen == align(out[Len(out)].at + out[Len(out)].len, pe.file_align)

(* Where the data of section i of the image was put. *)
WrittenAt(i) ==
    IF i > StubLen THEN out[2 + i - StubLen].at
    ELSE out[2].at + (args.stub.sections[i].data_offs - PEHeaders(args.stub).first_data)

(* No input file is empty.  The data of an empty one is not pushed back,   *)
(* and what follows it is then put where it was before.                    *)
Filled ==
    /\ args.cmdline.len > 0 /\ args.kernel.len > 0
    /\ args.initrd # NoFile => args.initrd.len > 0
    /\ \A n \in 1 .. Len(args.dtb) : args.dtb[n].len > 0

(***************************************************************************)
(* Every section header of a finished image points to the data of that     *)
(* section, however often the data was pushed back by later headers; no    *)
(* piece overwrites another, the file is as long as the headers promise,   *)
(* and no input that passed the checks makes the tool raise an exception;  *)
(* unless one of the files is empty.                                       *)
(***************************************************************************)
FileLayout ==
    Filled =>
    /\ gen.pc # "raised"
    /\ gen.pc = "done" =>
           /\ \A i \in DataSections(pe) :
                  /\ pe.sections[i].data_offs = WrittenAt(i)
                  /\ pe.sections[i].data_offs >= pe.size_of_headers
                  /\ pe.sections[i].data_offs + pe.sections[i].data_size <= ImageLen
           /\ pe.header_size <= pe.size_of_headers
           /\ \A i, j \in DataSections(pe) : i < j =>
                  pe.sections[i].data_offs + pe.sections[i].data_size <= pe.sections[j].data_offs
=============================================================================

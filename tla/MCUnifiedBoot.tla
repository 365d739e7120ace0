---------------------------- MODULE MCUnifiedBoot ----------------------------
(* Small files: a unit of the file alignment is 4, of a section header 1. *)
EXTENDS UnifiedBoot

CONSTANTS a, b    \* two kinds of boards

StubFile == [id |-> "stub"]

Sect(name, offs, size, virt, vsize) ==
    [name |-> name, file |-> StubFile, data_offs |-> offs, data_size |-> size,
     virt_addr |-> virt, virt_size |-> vsize]

StubPE(header, sects, entry, image, len) ==
    [header_size |-> header, size_of_headers |-> ((header + 3) \div 4) * 4,
     sections |-> sects, entry_point |-> entry, size_of_image |-> image, len |-> len,
     file_align |-> 4, section_align |-> 4, valid |-> TRUE, signed |-> FALSE]

(* Text below and above PAGE, an odd end of the data, a section without    *)
(* data, and headers that are nearly as long as a page.                    *)
LowStub ==
    StubPE(3, <<Sect(".text", 4, 8, 4, 8), Sect(".data", 12, 2, 24, 2)>>, 6, 28, 16)
HighStub ==
    StubPE(4, <<Sect(".text", 4, 4, 16, 4), Sect(".bss", 0, 0, 24, 4),
                Sect(".data", 8, 4, 20, 4)>>, 17, 28, 12)
LongStub == StubPE(12, <<Sect(".text", 12, 4, 12, 4)>>, 12, 16, 16)

MCStubs == {LowStub, HighStub, LongStub, [HighStub EXCEPT !.valid = FALSE],
            [HighStub EXCEPT !.signed = TRUE]}

(* The second command line is longer than its place. *)
MCCmdlines == {[id |-> "short", len |-> 5, compat |-> NoCompat],
               [id |-> "long", len |-> 9, compat |-> NoCompat]}

KernelFile(id, len, image, alignment) ==
    [id |-> id, len |-> len, size_of_image |-> image, alignment |-> alignment,
     valid |-> TRUE, compat |-> NoCompat]

(* Alignment like that of the section and above it; a kernel that is       *)
(* shorter than its section; and one that is no PE image.                  *)
MCKernelFiles == {KernelFile("k4", 5, 8, 4), KernelFile("k8", 8, 16, 8),
                  KernelFile("k2", 9, 10, 2),
                  [KernelFile("bad", 4, 4, 4) EXCEPT !.valid = FALSE]}

MCInitrds == {[id |-> "initrd", len |-> 5, compat |-> NoCompat],
              [id |-> "empty", len |-> 0, compat |-> NoCompat]}

Dtb(id, len, compat) == [id |-> id, len |-> len, compat |-> compat]

MCDtbs == {Dtb("a1", 4, a), Dtb("a2", 5, a), Dtb("b1", 6, b), Dtb("none", 3, NoCompat)}

MCGarbage == [id |-> "garbage", len |-> 0, size_of_image |-> 4, alignment |-> 4,
              valid |-> FALSE, compat |-> NoCompat]

FirmwareTree(c) == [at |-> FirmwareRegion, compat |-> c, id |-> "firmware"]

MCBoards ==
    [gpt : BOOLEAN, fixup : BOOLEAN, uuid : {"unset", "set"},
     tree : {NoTree, FirmwareTree(a), FirmwareTree(NoCompat)}]
=============================================================================

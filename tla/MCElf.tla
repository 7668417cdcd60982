-------------------------------- MODULE MCElf --------------------------------
(***************************************************************************)
(* elf_load on 4-byte pages, a 2-byte header and five virtual pages, over *)
(* files that reach every branch: unaligned, page-spanning and bss-only   *)
(* PT_LOAD segments, PT_INTERP, PT_PHDR, ignored entries, a segment with  *)
(* p_filesz > p_memsz, a file cut short, and the header rejections; then  *)
(* the new process's user stack, with one to three arguments, zero to two *)
(* environment strings, and an argument too long for the stack.           *)
(***************************************************************************)
EXTENDS StackSetup

CONSTANTS s1, s2, s3, Huge

Entry(t, off, va, fsz, msz) == [type |-> t, offset |-> off, vaddr |-> va, filesz |-> fsz, memsz |-> msz]

\* pages 1-2, unaligned, with bss; page 3, bss only; page 4, unaligned;
\* pages 0-2, file bytes over two pages.
LoadA == Entry(PT_LOAD, 3, 5, 4, 7)
LoadB == Entry(PT_LOAD, 8, 12, 0, 2)
LoadC == Entry(PT_LOAD, 7, 17, 2, 3)
LoadD == Entry(PT_LOAD, 1, 2, 7, 9)
LoadBad == Entry(PT_LOAD, 0, 0, 3, 2)
InterpE == Entry(PT_INTERP, 9, 0, 2, 2)
PhdrE == Entry(PT_PHDR, 0, 2, 0, 0)
NullE == Entry(PT_NULL, 0, 0, 0, 0)
OtherE == Entry(PT_OTHER, 0, 0, 0, 0)

\* header->entry is address 4 (page 1); header->phentsize is sizeof(elf_phdr_t).
ElfFile(ok, sz, phdrs) ==
  [isFile |-> ok, attrOk |-> ok, size |-> sz, identOk |-> ok, entry |-> 4, phent |-> ELF_PHDR_SIZE, phdrs |-> phdrs]

MCFiles ==
  { ElfFile(TRUE, 11, <<PhdrE, LoadA, InterpE, LoadB>>),
    ElfFile(TRUE, 9, <<NullE, LoadC, OtherE>>),
    ElfFile(TRUE, 6, <<LoadC, LoadA>>),
    ElfFile(TRUE, 11, <<InterpE, LoadBad>>),
    ElfFile(TRUE, 11, <<LoadA, LoadB, LoadC, InterpE>>),
    ElfFile(TRUE, 8, <<PhdrE, InterpE>>),
    ElfFile(TRUE, 11, <<InterpE, LoadD, LoadB, LoadC>>),
    ElfFile(TRUE, 4, <<NullE, OtherE, NullE>>),
    ElfFile(TRUE, 1, <<>>),
    [ElfFile(TRUE, 11, <<LoadA>>) EXCEPT !.attrOk = FALSE],
    [ElfFile(TRUE, 11, <<LoadA>>) EXCEPT !.phent = 32],
    ElfFile(FALSE, 11, <<LoadA>>),
    [ElfFile(TRUE, 11, <<LoadA>>) EXCEPT !.identOk = FALSE] }

MCVPages == 0..4

\* Strings of 1, 4 and 10 characters give string areas of every size
\* modulo 16; Huge does not fit in the 32 KiB stack.
MCStrLen == (s1 :> 1) @@ (s2 :> 4) @@ (s3 :> 10) @@ (Huge :> 40000)
MCArgs == {<<s1>>, <<s1, s2>>, <<s2, s1, s3>>, <<Huge>>}
MCEnvs == {<<>>, <<s3>>, <<s2, s3>>}
\* vm_map_anon fails (NULL) or places the stack at 64 KiB.
MCStackBases == {0, 65536}
=============================================================================

--------------------------------- MODULE Elf ---------------------------------
(***************************************************************************)
(* The ELF loader of src/kernel/src/lib/elf.c, elf_load (lines 82-183):    *)
(* validate the header, walk the program headers, and for every PT_LOAD    *)
(* segment allocate a zeroed frame per page, read the segment's file       *)
(* bytes into it at the page offset and map it into the target space.      *)
(*                                                                         *)
(* Data is abstracted to what the properties tell apart: a byte of the     *)
(* file is named by its file offset, a zero byte by Zero; the header       *)
(* identification checks of lines 107-113 are one verdict; the entry     *)
(* size of line 114 is a number (it goes into auxv); the table follows     *)
(* the header, one offset per entry.  Every VFS read can fail or come up   *)
(* short; the code fails on both (read_count != size), except for the     *)
(* interpreter path, which only fails on an error.                        *)
(***************************************************************************)
EXTENDS Integers, Sequences, FiniteSets, TLC

CONSTANTS
  PAGE,        \* ARCH_PAGE_SIZE
  HDR,         \* sizeof(elf_header_t)
  VPages,      \* virtual page numbers of the target space
  Files,       \* the files elf_load may be given
  IOCanFail,   \* whether node->ops->rw may fail on an in-range read
  NoInterp     \* *interpreter == 0

\* p_type values of elf.c:20-27 the loader distinguishes.
PT_NULL == "null"
PT_LOAD == "load"
PT_INTERP == "interp"
PT_PHDR == "phdr"
PT_OTHER == "other"   \* PT_DYNAMIC, PT_NOTE, ...: the default branch

Zero == -1

\* sizeof(elf_phdr_t), the least header->phentsize line 114 accepts.
ELF_PHDR_SIZE == 56

\* The heap buffers of elf_load: the header, the program header and the
\* interpreter path read from entry k.
HeaderBuf == <<"header", 0>>
PhdrBuf == <<"phdr", 0>>

VARIABLES
  file,        \* the node being loaded, with its program headers
  pc,          \* "start" | "phdr" | "load" | "done" | "failed"
  i,           \* the program-header loop index
  count,       \* the PT_LOAD page loop's byte count
  frames,      \* the pages pmm_alloc_page handed out, in order, with contents
  as,          \* [mapped virtual page -> index into frames]: arch_vmm_map
  heap,        \* live heap allocations of elf_load
  interpreter, \* *interpreter
  auxv,        \* *auxv: [entry, phdr, phent, phnum]
  ret          \* elf_load's return value: TRUE on failure

vars == <<file, pc, i, count, frames, as, heap, interpreter, auxv, ret>>

Phdr == file.phdrs[i + 1]

\* The outcomes of node->ops->rw for size bytes at offset off: a read past
\* the end of the file comes up short; any read may fail with an I/O error.
\* r < 0: an I/O error, when the run lets reads fail.
RwError == IF IOCanFail THEN BOOLEAN ELSE {FALSE}
ReadOk(off, size) ==
  IF off + size > file.size THEN {FALSE} ELSE {~e : e \in RwError}

Init ==
  /\ file \in Files
  /\ pc = "start"
  /\ i = 0 /\ count = 0
  /\ frames = <<>> /\ as = <<>>
  /\ heap = {}
  /\ interpreter = NoInterp
  /\ auxv = [entry |-> 0, phdr |-> 0, phent |-> 0, phnum |-> 0]
  /\ ret = FALSE

\* fail_free_all, fail_free_header, fail_free_none (lines 174-180): the
\* labels fall through, so each frees what the later ones free as well;
\* fail_free_all also frees *interpreter when one was stored.
Fail(h) ==
  /\ heap' = h \ ({HeaderBuf, PhdrBuf} \cup (IF interpreter # NoInterp THEN {interpreter} ELSE {}))
  /\ ret' = TRUE
  /\ pc' = "failed"

(***************************************************************************)
(* Lines 92-118: reset *interpreter, check the node and its size, read the *)
(* header into a heap buffer and check it, then allocate the program      *)
(* header buffer.                                                          *)
(***************************************************************************)
Start ==
  /\ pc = "start"
  /\ interpreter' = NoInterp
  /\ \/ /\ ~file.isFile \/ ~file.attrOk \/ file.size < HDR
        /\ Fail(heap)
     \/ /\ file.isFile /\ file.attrOk /\ file.size >= HDR
        /\ \E ok \in ReadOk(0, HDR) :
             IF ok /\ file.identOk /\ file.phent >= ELF_PHDR_SIZE
               THEN heap' = heap \cup {HeaderBuf, PhdrBuf} /\ pc' = "phdr" /\ UNCHANGED ret
               ELSE Fail(heap \cup {HeaderBuf})
  /\ UNCHANGED <<file, i, count, frames, as, auxv>>

(***************************************************************************)
(* One pass of the program-header loop (lines 119-164) up to the page      *)
(* loop of a PT_LOAD: read entry i, then dispatch on its type.  PT_INTERP *)
(* allocates the path buffer and stores it in *interpreter once it is     *)
(* read (lines 150-155).  Line 154 checks r < 0 only: a short read keeps  *)
(* the truncated (NUL-filled) path, and only an I/O error jumps to        *)
(* fail_free_all, with the new buffer not yet stored.                     *)
(***************************************************************************)
NextPhdr ==
  /\ pc = "phdr" /\ i < Len(file.phdrs)
  /\ \E ok \in ReadOk(HDR + i, 1) :
       \/ /\ ~ok
          /\ Fail(heap)
          /\ UNCHANGED <<i, count, interpreter, auxv>>
       \/ /\ ok /\ Phdr.type \in {PT_NULL, PT_OTHER}
          /\ i' = i + 1
          /\ UNCHANGED <<pc, count, heap, interpreter, auxv, ret>>
       \/ /\ ok /\ Phdr.type = PT_PHDR
          /\ auxv' = [auxv EXCEPT !.phdr = Phdr.vaddr]
          /\ i' = i + 1
          /\ UNCHANGED <<pc, count, heap, interpreter, ret>>
       \/ /\ ok /\ Phdr.type = PT_LOAD
          /\ IF Phdr.filesz > Phdr.memsz
               THEN Fail(heap) /\ UNCHANGED count
               ELSE pc' = "load" /\ count' = 0 /\ UNCHANGED <<heap, ret>>
          /\ UNCHANGED <<i, interpreter, auxv>>
       \/ /\ ok /\ Phdr.type = PT_INTERP
          /\ LET buf == <<"interp", i>> IN
             \E err \in RwError :
               IF ~err
                 THEN /\ heap' = heap \cup {buf} /\ interpreter' = buf
                      /\ i' = i + 1
                      /\ UNCHANGED <<pc, ret>>
                 ELSE Fail(heap \cup {buf}) /\ UNCHANGED <<i, interpreter>>
          /\ UNCHANGED <<count, auxv>>
  /\ UNCHANGED <<file, frames, as>>


(***************************************************************************)
(* One pass of the PT_LOAD page loop (lines 133-147), or its exit: take a *)
(* zeroed frame, read the part of the file image that falls in this page  *)
(* at the page offset of vaddr + count, map the frame at the page base    *)
(* and advance count to the next page boundary.  A failing read jumps to  *)
(* fail_free_all with the frame neither mapped nor freed.                 *)
(***************************************************************************)
AlignmentOffset(ph, c) == (ph.vaddr + c) % PAGE
ReadSize(ph, c) ==
  IF ph.filesz - c > PAGE - AlignmentOffset(ph, c) THEN PAGE - AlignmentOffset(ph, c)
  ELSE ph.filesz - c

MorePagesInclusive(ph, c) == c <= ph.memsz
MorePages(ph, c) == c < ph.memsz

AdvanceUnaligned(ph, c) == c + PAGE
Advance(ph, c) == c + PAGE - AlignmentOffset(ph, c)

LoadPage ==
  /\ pc = "load"
  /\ \/ /\ ~MorePages(Phdr, count)
        /\ pc' = "phdr" /\ i' = i + 1
        /\ UNCHANGED <<count, frames, as, heap, ret>>
     \/ /\ MorePages(Phdr, count)
        /\ LET ph == Phdr
               a == AlignmentOffset(ph, count)
               hasData == ph.filesz > count
               page == [o \in 0..(PAGE - 1) |->
                          IF hasData /\ o >= a /\ o < a + ReadSize(ph, count)
                            THEN ph.offset + count + o - a ELSE Zero]
               vpage == (ph.vaddr + count - a) \div PAGE
           IN \E ok \in IF hasData THEN ReadOk(ph.offset + count, ReadSize(ph, count)) ELSE {TRUE} :
                /\ frames' = Append(frames, page)
                /\ IF ok
                     THEN /\ as' = (vpage :> Len(frames) + 1) @@ as
                          /\ count' = Advance(ph, count)
                          /\ UNCHANGED <<pc, i, heap, ret>>
                     ELSE Fail(heap) /\ UNCHANGED <<as, count, i>>
  /\ UNCHANGED <<file, interpreter, auxv>>

FinishLeakPhdr ==
  /\ pc = "phdr" /\ i = Len(file.phdrs)
  /\ auxv' = [auxv EXCEPT !.entry = file.entry, !.phent = file.phent, !.phnum = Len(file.phdrs)]
  /\ heap' = heap \ {HeaderBuf}
  /\ ret' = FALSE
  /\ pc' = "done"
  /\ UNCHANGED <<file, i, count, frames, as, interpreter>>

\* Lines 166-172: fill in the aux vector, free both buffers, return false.
Finish ==
  /\ pc = "phdr" /\ i = Len(file.phdrs)
  /\ auxv' = [auxv EXCEPT !.entry = file.entry, !.phent = file.phent, !.phnum = Len(file.phdrs)]
  /\ heap' = heap \ {HeaderBuf, PhdrBuf}
  /\ ret' = FALSE
  /\ pc' = "done"
  /\ UNCHANGED <<file, i, count, frames, as, interpreter>>

Next == Start \/ NextPhdr \/ LoadPage \/ Finish

\* elf_load runs to completion on its caller's thread.
Spec == Init /\ [][Next]_vars /\ WF_vars(Next)

-----------------------------------------------------------------------------
(***************************************************************************)
(* Properties.                                                             *)
(***************************************************************************)
Allocations == {HeaderBuf, PhdrBuf} \cup {<<"interp", k>> : k \in 0..Len(file.phdrs)}

\* Type invariant; pages are only ever mapped inside the target space.
TypeOK ==
  /\ pc \in {"start", "phdr", "load", "done", "failed"}
  /\ i \in 0..Len(file.phdrs)
  /\ count \in Nat
  /\ frames \in Seq([0..(PAGE - 1) -> Int])
  /\ DOMAIN as \subseteq VPages
  /\ \A v \in DOMAIN as : as[v] \in 1..Len(frames)
  /\ heap \subseteq Allocations
  /\ interpreter \in Allocations \cup {NoInterp}
  /\ ret \in BOOLEAN

\* The byte the target space holds at virtual address addr, and the byte
\* the ELF image prescribes there for segment ph: its file bytes up to
\* p_filesz, zero up to p_memsz.
LoadedByte(addr) ==
  IF addr \div PAGE \in DOMAIN as THEN frames[as[addr \div PAGE]][addr % PAGE] ELSE "unmapped"
ImageByte(ph, addr) ==
  IF addr - ph.vaddr < ph.filesz THEN ph.offset + addr - ph.vaddr ELSE Zero

\* When elf_load reports success, every byte of every PT_LOAD segment is
\* mapped and holds the file byte at the same segment offset, or zero past
\* p_filesz: the page loop's alignment arithmetic (lines 133-146) places
\* unaligned, page-spanning and bss-only segments correctly.
LoadedImageCorrect ==
  (pc = "done" /\ ~ret) =>
    \A k \in 1..Len(file.phdrs) :
      LET ph == file.phdrs[k] IN
      ph.type = PT_LOAD =>
        \A addr \in ph.vaddr..(ph.vaddr + ph.memsz - 1) : LoadedByte(addr) = ImageByte(ph, addr)

\* After a successful load the only heap block of elf_load still live is
\* the interpreter path, which is handed to the caller through
\* *interpreter (lines 155, 170-171).
SuccessHeapOwnership ==
  pc = "done" => heap = (IF interpreter = NoInterp THEN {} ELSE {interpreter})
=============================================================================

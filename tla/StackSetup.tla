----------------------------- MODULE StackSetup -----------------------------
(***************************************************************************)
(* The user stack of a new process: arch_sched_stack_setup                 *)
(* (src/kernel/src/arch/x86_64/sched.c, lines 191-246), run once elf_load  *)
(* (module Elf) has filled the aux vector it is given.                     *)
(*                                                                         *)
(* The function maps USER_STACK_SIZE bytes of anonymous memory.  It then   *)
(* reserves the argv and envp string areas below the 16-byte-aligned top   *)
(* and aligns for the words it is about to write.  Finally it pushes the   *)
(* aux vector, a NULL, the envp pointers, a NULL, the argv pointers and    *)
(* argc, copying each string as its pointer is pushed.  Every write goes   *)
(* through vm_copy_to and is ASSERTed to copy all of its bytes.            *)
(*                                                                         *)
(* Memory is kept as what was written:                                     *)
(*   - the words, by address;                                              *)
(*   - the string copies, in the order they were made.                     *)
(* WRITE_QWORD copies 4 bytes of its uint64_t.  The high half of each word *)
(* is what the frame held, and the mapping is not zeroed (VM_FLAG_NONE):   *)
(* 0 on a clean frame, Junk on a recycled one.  Every value of the model   *)
(* is below 2^31, so the 4 bytes copied are the whole value.  A string is  *)
(* a model value with its string_length.                                   *)
(***************************************************************************)
EXTENDS Elf, SequencesExt

CONSTANTS
  USER_STACK_SIZE,  \* 8 * ARCH_PAGE_GRANULARITY
  StackBases,       \* what vm_map_anon may return; 0 is NULL
  Args,             \* the argv vectors the caller may pass
  Envs,             \* the envp vectors the caller may pass
  StrLen,           \* string_length of each string
  AUXV_SECURE, AUXV_ENTRY, AUXV_PHDR, AUXV_PHENT, AUXV_PHNUM,
  Junk              \* the high half of a word on a frame that was not zeroed

VARIABLES
  spc,     \* "idle" | "done" | "panic"
  argv,    \* the vectors passed
  envp,
  base,    \* stack_ptr
  sp,      \* the stack pointer returned
  low,     \* [address -> the 4 bytes WRITE_QWORD copied there]
  copies,  \* the string copies: <<[at |-> address, str |-> string]>>
  dirty    \* the stack's frames held old data

stackVars == <<spc, argv, envp, base, sp, low, copies, dirty>>
execVars == <<vars, stackVars>>

\* stack = stack_ptr + USER_STACK_SIZE - 1; stack &= ~0xF (lines 201-202).
Top(b) == ((b + USER_STACK_SIZE - 1) \div 16) * 16

\* The bytes a string takes, its NUL included, and those of a vector's
\* strings (lines 205 and 209).
StrSize(s) == StrLen[s] + 1
AreaSize(v) == FoldLeft(LAMBDA a, s : a + StrSize(s), 0, v)

\* Where string k of v is copied: the area's start advanced past the
\* strings before it (lines 230-232 and 238-240).
CopyAtNoAdvance(start, v, k) == start
CopyAt(start, v, k) == start + AreaSize(SubSeq(v, 1, k - 1))

\* The words line 212 accounts for: 12 aux words, the envp NULL, envc
\* pointers, the argv NULL, argc pointers and argc.
WordCountNoArgc(a, e) == 12 + 1 + Len(e) + 1 + Len(a)
WordCount(a, e) == 12 + 1 + Len(e) + 1 + Len(a) + 1

\* The words written, in the order they are pushed (lines 219-242):
\* WRITE_AUX(ID, VALUE) pushes the value, then the tag.
PushesIdFirst(a, e, aux, argData, envData) ==
  <<0, 0, AUXV_SECURE, 0, AUXV_ENTRY, aux.entry, AUXV_PHDR, aux.phdr,
    AUXV_PHENT, aux.phent, AUXV_PHNUM, aux.phnum>>
  \o <<0>> \o [k \in 1..Len(e) |-> CopyAt(envData, e, k)]
  \o <<0>> \o [k \in 1..Len(a) |-> CopyAt(argData, a, k)]
  \o <<Len(a)>>
Pushes(a, e, aux, argData, envData) ==
  <<0, 0, 0, AUXV_SECURE, aux.entry, AUXV_ENTRY, aux.phdr, AUXV_PHDR,
    aux.phent, AUXV_PHENT, aux.phnum, AUXV_PHNUM>>
  \o <<0>> \o [k \in 1..Len(e) |-> CopyAt(envData, e, k)]
  \o <<0>> \o [k \in 1..Len(a) |-> CopyAt(argData, a, k)]
  \o <<Len(a)>>

StackInit ==
  /\ spc = "idle"
  /\ argv = <<>> /\ envp = <<>>
  /\ base = 0 /\ sp = 0
  /\ low = <<>> /\ copies = <<>>
  /\ dirty = FALSE

(***************************************************************************)
(* arch_sched_stack_setup for the process elf_load has just loaded.        *)
(* ASSERT(stack_ptr != NULL) panics when vm_map_anon fails.  A write below *)
(* the mapping makes vm_copy_to copy less than asked, and its ASSERT       *)
(* panics.  The last word is written lowest, so this happens exactly when  *)
(* the final stack is below stack_ptr.                                     *)
(***************************************************************************)
StackSetupCall ==
  /\ pc = "done" /\ ~ret /\ spc = "idle"
  /\ \E a \in Args, e \in Envs, b \in StackBases, d \in BOOLEAN :
       LET argData == Top(b) - AreaSize(a)
           envData == argData - AreaSize(e)
           stack == envData - ((envData - WordCount(a, e) * 8) % 16)
           words == Pushes(a, e, auxv, argData, envData)
           final == stack - 8 * Len(words)
       IN /\ argv' = a /\ envp' = e /\ base' = b /\ dirty' = d
          /\ \/ /\ b = 0 \/ final < b
                /\ spc' = "panic"
                /\ UNCHANGED <<sp, low, copies>>
             \/ /\ b # 0 /\ final >= b
                /\ spc' = "done"
                /\ sp' = final
                /\ low' = [x \in {stack - 8 * k : k \in 1..Len(words)} |-> words[(stack - x) \div 8]]
                /\ copies' = [k \in 1..Len(e) |-> [at |-> CopyAt(envData, e, k), str |-> e[k]]]
                             \o [k \in 1..Len(a) |-> [at |-> CopyAt(argData, a, k), str |-> a[k]]]
  /\ UNCHANGED vars

ExecInit == Init /\ StackInit

ExecNext ==
  \/ Next /\ UNCHANGED stackVars
  \/ StackSetupCall

ExecSpec == ExecInit /\ [][ExecNext]_execVars
-----------------------------------------------------------------------------
(***************************************************************************)
(* Properties.                                                             *)
(***************************************************************************)
\* The word at x as a 64-bit load reads it: the 4 bytes copied and the
\* frame's old high half.
Word(x) == [lo |-> low[x], hi |-> IF dirty THEN Junk ELSE 0]
\* The string a pointer leads to, if one was copied there.
StrAt(x) == IF \E k \in DOMAIN copies : copies[k].at = x
              THEN copies[CHOOSE k \in DOMAIN copies : copies[k].at = x].str
              ELSE Junk

\* The System V x86-64 ABI, and spec 4 ("16-byte-aligned after
\* accounting"), require the stack a process starts on to be 16-byte
\* aligned.  The words that line 212 counts must be exactly the words that
\* lines 219-242 push, for every number of arguments and environment
\* strings.
StackAligned == spc = "done" => sp % 16 = 0

\* Every argv and envp string is copied whole inside the mapping, below
\* its aligned top.  No copy overlaps another copy or a pushed word: the
\* area reserved in lines 204-210 holds the copies that lines 228-241
\* make.
StringsIntact ==
  spc = "done" =>
    LET end(c) == c.at + StrSize(c.str) IN
    /\ \A k \in DOMAIN copies : base <= copies[k].at /\ end(copies[k]) <= Top(base)
    /\ \A j, k \in DOMAIN copies :
         j # k => end(copies[j]) <= copies[k].at \/ end(copies[k]) <= copies[j].at
    /\ \A x \in DOMAIN low, k \in DOMAIN copies : x + 8 <= copies[k].at

\* Read upward from the returned stack pointer, the low halves hold argc,
\* then argc words and a NULL, then envc words and a NULL, then the aux
\* vector.  The aux vector comes as (tag, value) pairs: PHNUM, PHENT,
\* PHDR, ENTRY, SECURE and the terminator, each value being elf_load's.
\* This is the frame the process's start-up code walks; WRITE_AUX's order
\* and the pointer loops decide it.
StackFramePlaced ==
  spc = "done" =>
    LET w(k) == low[sp + 8 * k]
        c == Len(argv)
        n == Len(envp)
        aux == <<AUXV_PHNUM, auxv.phnum, AUXV_PHENT, auxv.phent, AUXV_PHDR, auxv.phdr,
                 AUXV_ENTRY, auxv.entry, AUXV_SECURE, 0, 0, 0>>
    IN /\ w(0) = c
       /\ w(c + 1) = 0
       /\ w(c + n + 2) = 0
       /\ \A k \in 1..12 : w(c + n + 2 + k) = aux[k]

\* Spec 4 and 6 (aux words "64-bit each"), and the host ABI the spec
\* defers to: read as 64-bit words from the returned stack pointer, the
\* stack holds argc, then argv[0] .. argv[argc-1] as pointers to copies of
\* those strings, a NULL, envp[0] .. likewise, a NULL, and the aux pairs.
\* WRITE_QWORD's 4-byte copies and the order of the pointer loops decide it.
StackMatchesAbi ==
  spc = "done" =>
    LET c == Len(argv)
        n == Len(envp)
        whole(k, v) == Word(sp + 8 * k) = [lo |-> v, hi |-> 0]
        points(k, s) == Word(sp + 8 * k).hi = 0 /\ StrAt(Word(sp + 8 * k).lo) = s
    IN /\ whole(0, c)
       /\ \A k \in 1..c : points(k, argv[k])
       /\ whole(c + 1, 0)
       /\ \A k \in 1..n : points(c + 1 + k, envp[k])
       /\ whole(c + n + 2, 0)
       /\ \A k \in 1..12 : Word(sp + 8 * (c + n + 2 + k)).hi = 0
====

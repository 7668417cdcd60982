------------------------------ MODULE Interrupt ------------------------------
(***************************************************************************)
(* The interrupt table of src/kernel/src/cpu/interrupt.c: IDT_SIZE entries *)
(* of {free, handler, priority}; vectors [p * CLASS, (p + 1) * CLASS)      *)
(* form priority class p (CLASS is 16 in the code: priority << 4).        *)
(* The operators here are the functions of interrupt.c over the table;    *)
(* the module that owns the table (Sched) makes them steps of its         *)
(* callers.  The IDT gates themselves (set_idt_gate, lidt) are hardware   *)
(* layout and are not modelled.                                            *)
(***************************************************************************)
EXTENDS Integers, FiniteSets

CONSTANTS
  IDT_SIZE,    \* 256 in the code
  CLASS,       \* vectors per priority class: 1 << 4 in the code
  NoHandler    \* the handler field of an entry nothing was ever set on

Vectors == 0..(IDT_SIZE - 1)

\* interrupt_initialize (lines 24-34): every entry free.
InterruptInitialize == [v \in Vectors |-> [free |-> TRUE, handler |-> NoHandler, priority |-> 0]]

\* interrupt_set (lines 40-44): the entry is taken, whatever it held.
InterruptSet(entries, vector, priority, handler) ==
  [entries EXCEPT ![vector] = [free |-> FALSE, handler |-> handler, priority |-> priority]]

(***************************************************************************)
(* interrupt_request (lines 46-53): scan from priority << 4 to the end of  *)
(* the table and take the first free entry; -1 when there is none.  A     *)
(* full class spills into the classes above it.                           *)
(***************************************************************************)
RECURSIVE ScanFrom(_, _)
ScanFromSkipTaken(entries, i) ==
  IF i >= IDT_SIZE THEN -1 ELSE i
ScanFrom(entries, i) ==
  IF i >= IDT_SIZE THEN -1
  ELSE IF ~entries[i].free THEN ScanFrom(entries, i + 1)
  ELSE i

RequestedVector(entries, priority) == ScanFrom(entries, priority * CLASS)

InterruptRequest(entries, priority, handler) ==
  LET v == RequestedVector(entries, priority) IN
  IF v = -1 THEN entries ELSE InterruptSet(entries, v, priority, handler)

\* interrupt_handler (lines 36-38): the handler a delivered vector runs,
\* none when its entry is free.
InterruptHandler(entries, vector) ==
  IF ~entries[vector].free THEN entries[vector].handler ELSE NoHandler

\* The reference the scan is checked against (spec 4.4): the lowest free
\* vector at or above priority * 16, or -1.
LowestFree(entries, priority) ==
  LET free == {v \in Vectors : v >= priority * CLASS /\ entries[v].free} IN
  IF free = {} THEN -1 ELSE CHOOSE v \in free : \A u \in free : v <= u
=============================================================================

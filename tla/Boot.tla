-------------------------------- MODULE Boot --------------------------------
(***************************************************************************)
(* The boot path of src/kernel/src/kernel.c on the one CPU it runs on:     *)
(* kmain brings up its collaborators, hands the MADT, when ACPI has one,  *)
(* to apic_initialize (module Apic), enables interrupts and idles in a    *)
(* hlt loop.  Around it the hardware raises ISA IRQs, delivers them       *)
(* through the IOAPIC and LAPIC (or the 8259 PIC when there is no MADT),  *)
(* and may raise a CPU exception, which exception_unhandled               *)
(* (arch/amd64/exception.c) reports before panic halts the CPU.           *)
(*                                                                         *)
(* The collaborators outside src/ (framebuffer, GDT, PMM, VMM, heap, ACPI, *)
(* IDT, PIT, keyboard, the IRQ dispatcher) are steps with no state of      *)
(* their own here; the dispatcher runs a handler with interrupts off and  *)
(* calls apic_eoi on its return (spec 4.4).                                *)
(***************************************************************************)
EXTENDS Apic

CONSTANTS
  Platforms,       \* the machines booted: [bsp |-> LAPIC id of the CPU, madt |-> MADT or NoMadt]
  NoMadt,          \* acpi_find_table found no "APIC" table
  IsaIrqs,         \* the IRQ lines devices raise
  Faults,          \* the exception vectors the hardware may raise
  FirmwareRedtbl,  \* the redirection entries the firmware leaves behind
  ExceptionNames,  \* g_exception_messages, as a sequence
  Garbage,         \* what a read past g_exception_messages yields
  None

VARIABLES
  platform,   \* the machine (fixed)
  firmware,   \* the redirection table as the firmware left it (ghost, fixed)
  pc,         \* "kmain" | "walk" | "idt" | "devices" | "idle" | "halted"
  intr,       \* RFLAGS.IF
  picEnabled, \* the 8259 PIC delivers IRQs
  pending,    \* IRQ lines raised and not yet delivered
  handling,   \* the vector whose handler runs, or None
  report      \* what exception_unhandled printed, or None

bootVars == <<platform, firmware, pc, intr, picEnabled, pending, handling, report>>
vars == <<apicVars, bootVars>>

madt == platform.madt

Init ==
  /\ platform \in Platforms
  /\ firmware \in FirmwareRedtbl
  /\ ioredtbl = firmware
  /\ lapic = [id |-> platform.bsp * 2^24, svr |-> 255, isr |-> {}]
  /\ gLapic = 0
  /\ nbytes = 0 /\ off = 0 /\ lapicAddress = 0 /\ ioapicAddress = 0
  /\ coreCount = 0 /\ lapicIds = <<>>
  /\ pc = "kmain"
  /\ intr = FALSE
  /\ picEnabled = TRUE
  /\ pending = {} /\ handling = None /\ report = None

(***************************************************************************)
(* kmain, lines 27-86: the collaborators come up in order, then with an   *)
(* APIC table the PIC is disabled and apic_initialize starts.             *)
(***************************************************************************)
Kmain ==
  /\ pc = "kmain"
  /\ \/ /\ madt = NoMadt
        /\ pc' = "idt"
        /\ UNCHANGED <<apicVars, picEnabled>>
     \/ /\ madt # NoMadt
        /\ picEnabled' = FALSE
        /\ ApicInitialize(madt)
        /\ pc' = "walk"
  /\ UNCHANGED <<platform, firmware, intr, pending, handling, report>>

ApicWalk ==
  /\ pc = "walk"
  /\ ApicWalkRecord(madt)
  /\ UNCHANGED bootVars

ApicDone ==
  /\ pc = "walk"
  /\ ApicFinish
  /\ pc' = "idt"
  /\ UNCHANGED <<platform, firmware, intr, picEnabled, pending, handling, report>>

\* Lines 87-88: idt_initialize, then sti.
Sti ==
  /\ pc = "idt"
  /\ intr' = TRUE
  /\ pc' = "devices"
  /\ UNCHANGED <<apicVars, platform, firmware, picEnabled, pending, handling, report>>

\* Lines 90-95: the PIT and keyboard drivers, the prompt, the hlt loop.
DevicesInit ==
  /\ pc = "devices"
  /\ pc' = "idle"
  /\ UNCHANGED <<apicVars, platform, firmware, intr, picEnabled, pending, handling, report>>

-----------------------------------------------------------------------------
(***************************************************************************)
(* The hardware.  A device raises an IRQ line.  With the PIC on, it is    *)
(* delivered at vector 32 + irq (pic8259_remap).  Otherwise the IOAPIC    *)
(* sends it when its entry is unmasked, as a fixed, physical-mode message *)
(* to the entry's destination; the LAPIC takes it when the destination is *)
(* its id, it is software-enabled and the vector's priority class is     *)
(* above every in-service vector's, and no CPU takes it otherwise.        *)
(***************************************************************************)
Raise(irq) ==
  /\ irq \notin pending
  /\ pending' = pending \cup {irq}
  /\ UNCHANGED <<apicVars, platform, firmware, pc, intr, picEnabled, handling, report>>

Entry(irq) == [low |-> ioredtbl[16 + 2 * irq], high |-> ioredtbl[17 + 2 * irq]]
Unmasked(irq) == (Entry(irq).low \div 2^16) % 2 = 0
Destination(irq) == Entry(irq).high
Accepts(v) == (lapic.svr \div 256) % 2 = 1 /\ \A w \in lapic.isr : v \div 16 > w \div 16

Deliver(irq) ==
  /\ irq \in pending /\ intr
  /\ \/ /\ picEnabled
        /\ handling' = 32 + irq
        /\ UNCHANGED lapic
     \/ /\ ~picEnabled /\ Unmasked(irq)
        /\ Destination(irq) = LapicId(lapic.id)
        /\ Accepts(Entry(irq).low % 256)
        /\ handling' = Entry(irq).low % 256
        /\ lapic' = [lapic EXCEPT !.isr = @ \cup {Entry(irq).low % 256}]
  /\ intr' = FALSE
  /\ pending' = pending \ {irq}
  /\ UNCHANGED <<nbytes, off, lapicAddress, ioapicAddress, coreCount, lapicIds, gLapic, ioredtbl>>
  /\ UNCHANGED <<platform, firmware, pc, picEnabled, report>>

Lose(irq) ==
  /\ irq \in pending /\ ~picEnabled /\ Unmasked(irq)
  /\ Destination(irq) # LapicId(lapic.id)
  /\ pending' = pending \ {irq}
  /\ UNCHANGED <<apicVars, platform, firmware, pc, intr, picEnabled, handling, report>>

\* The handler returns through the dispatcher: apic_eoi, then iretq.
HandlerReturn ==
  /\ handling # None
  /\ lapic' = ApicEoi(gLapic, lapic, handling)
  /\ handling' = None
  /\ intr' = TRUE
  /\ UNCHANGED <<nbytes, off, lapicAddress, ioapicAddress, coreCount, lapicIds, gLapic, ioredtbl>>
  /\ UNCHANGED <<platform, firmware, pc, picEnabled, pending, report>>

(***************************************************************************)
(* A CPU exception in the hlt loop (an NMI or machine check; the code      *)
(* modelled here raises none itself): exception_unhandled (exception.c    *)
(* lines 39-72) prints the CPU's LAPIC id and the vector's name, read     *)
(* from g_exception_messages without a bound, and panic (kernel.c lines   *)
(* 99-103) prints, clears IF and halts.                                    *)
(***************************************************************************)
ExceptionMessage(intNo) ==
  IF intNo < Len(ExceptionNames) THEN ExceptionNames[intNo + 1] ELSE Garbage

Fault(v) ==
  /\ pc = "idle" /\ handling = None
  /\ report' = [cpu |-> LapicId(lapic.id), message |-> ExceptionMessage(v)]
  /\ intr' = FALSE
  /\ pc' = "halted"
  /\ UNCHANGED <<apicVars, platform, firmware, picEnabled, pending, handling>>

Next ==
  \/ Kmain \/ ApicWalk \/ ApicDone \/ Sti \/ DevicesInit
  \/ HandlerReturn
  \/ \E irq \in IsaIrqs : Raise(irq) \/ Deliver(irq) \/ Lose(irq)
  \/ \E v \in Faults : Fault(v)

\* kmain runs to its hlt loop unless an exception stops it, and a handler
\* that runs returns.
Spec ==
  /\ Init /\ [][Next]_vars
  /\ WF_vars(Kmain \/ ApicWalk \/ ApicDone \/ Sti \/ DevicesInit)
  /\ WF_vars(HandlerReturn)
-----------------------------------------------------------------------------
(***************************************************************************)
(* Properties.                                                             *)
(***************************************************************************)
\* The vectors kmain's devices expect: IRQ 2 (the PIT), 1 (the keyboard) and
\* 12 (the mouse) at 32, 33 and 44.
IrqVector == (2 :> 32) @@ (1 :> 33) @@ (12 :> 44)

TypeOK ==
  /\ pc \in {"kmain", "walk", "idt", "devices", "idle", "halted"}
  /\ intr \in BOOLEAN /\ picEnabled \in BOOLEAN
  /\ pending \subseteq IsaIrqs
  /\ handling \in 0..255 \cup {None}
  /\ lapic.isr \subseteq 32..255
  /\ \A irq \in DOMAIN IrqVector :
       ioredtbl[16 + 2 * irq] \in 0..(LOW_WORD - 1) /\ ioredtbl[17 + 2 * irq] \in 0..255
  /\ coreCount \in 0..255
  /\ report \in {None} \cup [cpu : 0..255, message : Range(ExceptionNames) \cup {Garbage}]

\* What the MADT says, read off the table rather than walked: the last
\* LAPIC-address override or else the header's address, the last IOAPIC's
\* address, and the LAPIC ids in table order.
ExpectedLapicAddress(m) ==
  LET k == SelectLastInSeq(m.records, LAMBDA r : r.type = LAPIC_ADDRESS) IN
  IF k = 0 THEN m.lapicAddress ELSE m.records[k].address
ExpectedIoapicAddress(m) ==
  LET k == SelectLastInSeq(m.records, LAMBDA r : r.type = IOAPIC) IN
  IF k = 0 THEN 0 ELSE m.records[k].address
ExpectedLapicIds(m) ==
  LET ls == SelectSeq(m.records, LAMBDA r : r.type = LAPIC) IN [k \in 1..Len(ls) |-> ls[k].id]

\* When apic_initialize's record loop (apic.c:55-84) is done, stepping by
\* each record's length field, it has seen every record exactly once: the
\* addresses and cores it collected are what the table lists.
MadtParsed ==
  (madt # NoMadt /\ pc \notin {"kmain", "walk"}) =>
    /\ lapicAddress = ExpectedLapicAddress(madt)
    /\ ioapicAddress = ExpectedIoapicAddress(madt)
    /\ coreCount = Len(ExpectedLapicIds(madt)) % 256
    /\ \A k \in 1..Len(ExpectedLapicIds(madt)) : lapicIds[k - 1] = ExpectedLapicIds(madt)[k]

\* After apic_initialize, each routed IRQ's redirection entry, as the
\* three read-modify-writes of ioapic_set_irq (apic.c:37-43) leave it, is
\* unmasked, fixed-delivery, physical-mode, carries its vector, and keeps
\* every other bit (polarity, trigger mode, status) the firmware set.  The
\* destination byte is not part of this: see the hazard at apic.c:34.
IsaIrqsRouted ==
  (madt # NoMadt /\ pc \notin {"kmain", "walk"}) =>
    \A irq \in DOMAIN IrqVector :
      LET lo == ioredtbl[16 + 2 * irq]
          fw == firmware[16 + 2 * irq]
      IN /\ lo % 256 = IrqVector[irq]
         /\ (lo \div 256) % 8 = 0 /\ Bit(lo, 11) = 0 /\ Bit(lo, 16) = 0
         /\ \A i \in (0..16) \ (0..11 \cup {16}) : Bit(lo, i) = Bit(fw, i)

\* exception_unhandled's report names the CPU that took the exception:
\* lapic_id extracts the id from the top byte of the LAPIC ID register.
ExceptionReportsCpu == report # None => report.cpu = platform.bsp

\* Every interrupt the LAPIC takes is retired from its in-service register:
\* apic_eoi finds the vector's ISR bit (register vector / 32, bit
\* vector % 32) and writes EOI, so the LAPIC goes on taking interrupts of
\* that class.
AcceptedIrqRetired ==
  \A v \in Range(IrqVector) : v \in lapic.isr ~> v \notin lapic.isr

\* kmain gets through apic_initialize's walk of the MADT to its hlt loop.
KmainReachesIdle == <>(pc = "idle")

=============================================================================

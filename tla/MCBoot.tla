------------------------------- MODULE MCBoot -------------------------------
(***************************************************************************)
(* Boot instantiated for TLC: a BSP with LAPIC id 0 or 1, booted without   *)
(* a MADT or with one of two tables; the firmware leaves the redirection   *)
(* entries masked, with or without other bits set.                        *)
(***************************************************************************)
EXTENDS Boot, TLC

\* madt_record_type_t (apic.h:13-21) and the record sizes of the ACPI MADT.
MCLAPIC == 0
MCIOAPIC == 1
SOURCE_OVERRIDE == 2
NMI == 4
MCLAPIC_ADDRESS == 5

\* Physical addresses, as names: the LAPIC at 0xFEE00000, the same LAPIC
\* as a 64-bit address override gives it, and the IOAPIC at 0xFEC00000.
LapicPhys == 1
LapicMoved == 2
IoapicPhys == 3

Rec(t, len, id, a) == [type |-> t, length |-> len, id |-> id, address |-> a]
LapicRec(id) == Rec(MCLAPIC, 8, id, 0)
IoapicRec(a) == Rec(MCIOAPIC, 12, 0, a)
OverrideRec == Rec(SOURCE_OVERRIDE, 10, 0, 0)
NmiRec == Rec(NMI, 6, 0, 0)
LapicAddressRec(a) == Rec(MCLAPIC_ADDRESS, 12, 0, a)

Madt(a, recs) ==
  [length |-> 44 + FoldLeft(LAMBDA n, r : n + r.length, 0, recs), lapicAddress |-> a, records |-> recs]

\* One CPU with an IOAPIC and a source override; or two CPUs, an NMI
\* record and a LAPIC address override before the IOAPIC.
MCTables(b) ==
  {NoMadt,
   Madt(LapicPhys, <<LapicRec(b), IoapicRec(IoapicPhys), OverrideRec>>),
   Madt(LapicPhys, <<LapicRec(b), LapicRec(1 - b), NmiRec, LapicAddressRec(LapicMoved), IoapicRec(IoapicPhys)>>)}
MCPlatforms == UNION {{[bsp |-> b, madt |-> t] : t \in MCTables(b)} : b \in {0, 1}}

\* IOAPIC entries after reset are masked (bit 16); firmware may also leave
\* level trigger, active-low polarity, a delivery mode and a vector set,
\* and a destination (3) in the high word.
MCFirmwareRedtbl ==
  {[i \in {18, 19, 20, 21, 40, 41} |-> IF i % 2 = 0 THEN lo ELSE hi] :
     lo \in {65536, 65536 + 32768 + 8192 + 1024 + 7}, hi \in {0, 3}}

MCExceptionNames ==
  <<"Division by Zero", "Debug", "Non-Maskable Interrupt", "Breakpoint", "Overflow",
    "Out of Bounds", "Invalid Opcode", "No Coprocessor", "Double Fault",
    "Coprocessor Segment Overrun", "Bat TSS", "Segment not Present", "Stack Fault",
    "General Protection Fault", "Page Fault", "Unknown Interrupt", "Coprocessor Fault",
    "Alignment Check", "Reserved", "Reserved", "Reserved", "Reserved", "Reserved",
    "Reserved", "Reserved", "Reserved", "Reserved", "Reserved", "Reserved", "Reserved",
    "Reserved">>
====

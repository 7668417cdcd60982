-------------------------------- MODULE Apic --------------------------------
(***************************************************************************)
(* The APIC set-up of src/kernel/src/cpu/apic.c: apic_initialize walks the *)
(* MADT records, then enables the local APIC and routes three ISA IRQs     *)
(* through the IOAPIC; apic_eoi retires an interrupt.  The devices are     *)
(* modelled by the registers the code touches: the LAPIC's ID, spurious-   *)
(* vector (SVR) and in-service (ISR) registers, and the IOAPIC's          *)
(* redirection table.  The bit operations are arithmetic on fields, with  *)
(* no recursion, as TLC evaluates them inside ENABLED.  A redirection      *)
(* entry's low word is kept at the 17   *)
(* bits that are defined (bits 17-31 are reserved and read as zero), its  *)
(* high word as its destination byte (bits 24-31; the rest is reserved).  *)
(* A MADT is a record of the    *)
(* header's length and local_apic_address and its records in table order; *)
(* a record keeps the fields the switch reads (type, length, apic id,     *)
(* address).  Printing is left out.                                       *)
(***************************************************************************)
EXTENDS Integers, SequencesExt

CONSTANTS
  LAPIC, IOAPIC, LAPIC_ADDRESS,  \* madt_record_type_t values the switch acts on
  MADT_HEADER_SIZE               \* sizeof(madt_header_t)

VARIABLES
  nbytes,         \* the walk's bytes left
  off,            \* current_record, as a byte offset from the first record
  lapicAddress,   \* lapic_address
  ioapicAddress,  \* ioapic_address
  coreCount,      \* core_count (uint8_t)
  lapicIds,       \* lapic_ids, as the entries written so far
  gLapic,         \* g_lapic: 0 until apic_initialize maps the LAPIC
  lapic,          \* the LAPIC: [id |-> ID register, svr |-> SVR, isr |-> in-service vectors]
  ioredtbl        \* the IOAPIC registers apic_initialize reaches

apicVars == <<nbytes, off, lapicAddress, ioapicAddress, coreCount, lapicIds, gLapic, lapic, ioredtbl>>

LOW_WORD == 2^17

\* The byte offset of record k: the lengths of the records before it.
RecordStart(m, k) == FoldLeft(LAMBDA a, r : a + r.length, 0, SubSeq(m.records, 1, k - 1))

\* The record current_record points at: the first one starting at off.
\* Memory past the table reads as zero bytes: a type-0 record of length 0.
RecordAt(m, o) ==
  LET ks == {k \in DOMAIN m.records : RecordStart(m, k) = o} IN
  IF ks = {} THEN [type |-> 0, length |-> 0, id |-> 0, address |-> 0]
  ELSE m.records[CHOOSE k \in ks : \A j \in ks : k <= j]

(***************************************************************************)
(* The local APIC's registers as apic.c addresses them, g_lapic[index*4]:  *)
(* index 2 is the ID register (the id in bits 24-31), 0xB the EOI         *)
(* register, 0xF the SVR and 0x10..0x17 the in-service bits of vectors   *)
(* 32*(index-0x10) up.  A write to EOI retires the highest in-service     *)
(* vector.                                                                 *)
(***************************************************************************)
Bit(x, i) == (x \div 2^i) % 2

\* An in-service register, as the set of its bits that are set.
IsrRegister(isr, i) == {v % 32 : v \in {w \in isr : w \div 32 = i}}

LapicRead(l, index) ==
  CASE index = 2 -> l.id
    [] index = 15 -> l.svr
    [] index \in 16..23 -> IsrRegister(l.isr, index - 16)
    [] OTHER -> {}

LapicWrite(l, index, data) ==
  CASE index = 11 /\ l.isr # {} -> [l EXCEPT !.isr = @ \ {Max(l.isr)}]
    [] index = 15 -> [l EXCEPT !.svr = data]
    [] OTHER -> l

\* x &= ~(((1 << width) - 1) << lo): the masks of ioapic_set_irq are
\* contiguous fields.
ClearField(x, lo, width) == x - ((x \div 2^lo) % 2^width) * 2^lo

\* x | v for a byte v: the low byte of x or-ed with v (for a vector or-ed
\* into a field that was not cleared).
OrByte(x, v) ==
  LET b == x % 256
      o(i) == 2^i * ((Bit(b, i) + Bit(v, i) + Bit(b, i) * Bit(v, i)) % 2)
  IN (x - b) + o(0) + o(1) + o(2) + o(3) + o(4) + o(5) + o(6) + o(7)

(***************************************************************************)
(* ioapic_set_irq (lines 28-44): read-modify-write the high word, then     *)
(* clear the mask, destination-mode, delivery-mode and vector fields of   *)
(* the low word and set the vector.  high_data &= ~0xFF000000 clears the  *)
(* destination byte and high_data |= apic_id << 24 puts the low byte of   *)
(* the uint64_t apic_id there: the rest of apic_id << 24 falls off the    *)
(* uint32_t high_data.  Once the vector byte is cleared, or-ing in the    *)
(* vector (a byte) is adding it.                                           *)
(***************************************************************************)
IoapicSetIrqWide(regs, irq, apicId, vector) ==
  LET lowIrq == 16 + irq * 2
      low == regs[lowIrq]
      lowData == ClearField(ClearField(ClearField(ClearField(low, 16, 1), 11, 1), 8, 3), 0, 8) + vector
  IN [regs EXCEPT ![lowIrq + 1] = apicId, ![lowIrq] = lowData]
IoapicSetIrqKeepVector(regs, irq, apicId, vector) ==
  LET lowIrq == 16 + irq * 2
      low == regs[lowIrq]
      lowData == OrByte(ClearField(ClearField(ClearField(low, 16, 1), 11, 1), 8, 3), vector)
  IN [regs EXCEPT ![lowIrq + 1] = apicId % 256, ![lowIrq] = lowData]
IoapicSetIrq(regs, irq, apicId, vector) ==
  LET lowIrq == 16 + irq * 2
      highIrq == lowIrq + 1
      low == regs[lowIrq]
      lowData == ClearField(ClearField(ClearField(ClearField(low, 16, 1), 11, 1), 8, 3), 0, 8) + vector
  IN [regs EXCEPT ![highIrq] = apicId % 256, ![lowIrq] = lowData]

\* apic_initialize, lines 47-54: the header's LAPIC address, no IOAPIC yet,
\* no cores, and the record bytes after the header.
ApicInitialize(m) ==
  /\ lapicAddress' = m.lapicAddress
  /\ ioapicAddress' = 0
  /\ coreCount' = 0
  /\ lapicIds' = <<>>
  /\ nbytes' = m.length - MADT_HEADER_SIZE
  /\ off' = 0
  /\ UNCHANGED <<gLapic, lapic, ioredtbl>>

ApicWalkRecordNoOverride(m) ==
  LET r == RecordAt(m, off) IN
  /\ nbytes > 0
  /\ IF r.type = LAPIC
       THEN /\ lapicIds' = (coreCount :> r.id) @@ lapicIds
            /\ coreCount' = (coreCount + 1) % 256
       ELSE UNCHANGED <<lapicIds, coreCount>>
  /\ ioapicAddress' = IF r.type = IOAPIC THEN r.address ELSE ioapicAddress
  /\ nbytes' = nbytes - r.length
  /\ off' = off + r.length
  /\ UNCHANGED <<lapicAddress, gLapic, lapic, ioredtbl>>
ApicWalkRecordSkipOther(m) ==
  LET r == RecordAt(m, off) IN
  /\ nbytes > 0
  /\ IF r.type \notin {LAPIC, IOAPIC, LAPIC_ADDRESS}
       THEN UNCHANGED apicVars
       ELSE /\ IF r.type = LAPIC
                 THEN /\ lapicIds' = (coreCount :> r.id) @@ lapicIds
                      /\ coreCount' = (coreCount + 1) % 256
                 ELSE UNCHANGED <<lapicIds, coreCount>>
            /\ ioapicAddress' = IF r.type = IOAPIC THEN r.address ELSE ioapicAddress
            /\ lapicAddress' = IF r.type = LAPIC_ADDRESS THEN r.address ELSE lapicAddress
            /\ nbytes' = nbytes - r.length
            /\ off' = off + r.length
            /\ UNCHANGED <<gLapic, lapic, ioredtbl>>

\* One pass of the loop of lines 55-84 over the record at off.
ApicWalkRecord(m) ==
  LET r == RecordAt(m, off) IN
  /\ nbytes > 0
  /\ IF r.type = LAPIC
       THEN /\ lapicIds' = (coreCount :> r.id) @@ lapicIds
            /\ coreCount' = (coreCount + 1) % 256
       ELSE UNCHANGED <<lapicIds, coreCount>>
  /\ ioapicAddress' = IF r.type = IOAPIC THEN r.address ELSE ioapicAddress
  /\ lapicAddress' = IF r.type = LAPIC_ADDRESS THEN r.address ELSE lapicAddress
  /\ nbytes' = nbytes - r.length
  /\ off' = off + r.length
  /\ UNCHANGED <<gLapic, lapic, ioredtbl>>

\* Lines 86-100, once the loop ends: map the LAPIC, enable it with
\* spurious vector 0xFF, and route IRQs 2, 1 and 12 to vectors 32, 33 and
\* 44 at the APIC id read from the ID register.  The IOAPIC is reached at
\* the address the MADT gave.
ApicFinish ==
  /\ nbytes <= 0
  /\ gLapic' = lapicAddress
  /\ LET l == LapicWrite(lapic, 15, 256 + 255)
         id == LapicRead(l, 2)
     IN /\ lapic' = l
        /\ LET r2 == IoapicSetIrq(ioredtbl, 2, id, 32)
               r1 == IoapicSetIrq(r2, 1, id, 33)
           IN ioredtbl' = IoapicSetIrq(r1, 12, id, 44)
  /\ UNCHANGED <<nbytes, off, lapicAddress, ioapicAddress, coreCount, lapicIds>>

\* apic_eoi (lines 103-112): nothing before the LAPIC is mapped; otherwise
\* write EOI when the vector's in-service bit is set.
ApicEoiSwapped(g, l, vector) ==
  IF g = 0 THEN l
  ELSE IF vector \div 32 \in LapicRead(l, 16 + (vector % 32)) THEN LapicWrite(l, 11, 1) ELSE l
ApicEoi(g, l, vector) ==
  IF g = 0 THEN l
  ELSE LET registerIndex == vector \div 32
           index == vector % 32
       IN IF index \in LapicRead(l, 16 + registerIndex) THEN LapicWrite(l, 11, 1) ELSE l

\* lapic_id (src/kernel/src/arch/x86_64/lapic.c:35-37): the ID register's
\* top byte.
LapicIdUnshifted(idReg) == idReg % 256
LapicId(idReg) == (idReg \div 2^24) % 256
=============================================================================

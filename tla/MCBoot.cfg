\* kmain on one CPU, with and without a MADT, IRQs 1, 2 and 12 raised
\* at any time, and a machine check or an exception on vector 31 in the
\* hlt loop.
CONSTANTS
  LAPIC <- MCLAPIC
  IOAPIC <- MCIOAPIC
  LAPIC_ADDRESS <- MCLAPIC_ADDRESS
  MADT_HEADER_SIZE = 44
  Platforms <- MCPlatforms
  NoMadt = NoMadt
  IsaIrqs = {1, 2, 12}
  Faults = {18, 31}
  FirmwareRedtbl <- MCFirmwareRedtbl
  ExceptionNames <- MCExceptionNames
  Garbage = Garbage
  None = None

SPECIFICATION Spec
\* panic halts the CPU for good.
CHECK_DEADLOCK FALSE
INVARIANTS TypeOK MadtParsed IsaIrqsRouted ExceptionReportsCpu
PROPERTIES AcceptedIrqRetired KmainReachesIdle

\* One CPU maps anonymous and direct regions of the user space, unmaps
\* them and faults in the boot heap; the abstract view is each page's type.
CONSTANTS
  CPUs = {c1}
  MapCPUs = {c1}
  FaultCPUs = {c1}
  U = U
  G = G
  ASes = {U, G}
  Global = G
  NoAS = NoAS
  Start <- MCStart
  End <- MCEnd
  SlotsPerPage = 3
  MaxFrames = 5
  MapASes = {U}
  Hints <- MCHints
  Lengths = {1, 2}
  FlagSets <- MCFlagSetsNoZero
  Anon = Anon
  Direct = Direct
  Types = {Anon, Direct}
  PhysBases = {100}
  UnmapRanges <- MCUnmapRanges
  FaultPages = {5, 6}
  Boot <- MCBoot

SPECIFICATION Spec
\* A CPU that dereferences the NULL page the PMM returns halts for good.
CHECK_DEADLOCK FALSE

PROPERTIES RefinesTypeSpec

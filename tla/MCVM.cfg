\* Two CPUs map and unmap anonymous regions of the user space; one of them
\* also faults in the boot heap of the global space.
CONSTANTS
  CPUs = {c1, c2}
  MapCPUs = {c1, c2}
  FaultCPUs = {c2}
  U = U
  G = G
  ASes = {U, G}
  Global = G
  NoAS = NoAS
  Start <- MCStart
  End <- MCEnd
  SlotsPerPage = 3
  MaxFrames = 5
  MapASes = {U}
  Hints <- MCAlignedHint
  Lengths = {1, 2}
  FlagSets <- MCFlagSetsNoZero
  Anon = Anon
  Direct = Direct
  Types = {Anon}
  PhysBases = {100}
  UnmapRanges <- MCUnmapRanges
  FaultPages = {5, 6}
  Boot <- MCBoot

SPECIFICATION Spec
\* A CPU that dereferences the NULL page the PMM returns halts for good.
CHECK_DEADLOCK FALSE
INVARIANTS TypeOK RegionsDisjoint DescriptorsAccounted MappedInRegion

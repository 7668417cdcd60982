\* One CPU maps zero-filled anonymous and direct regions and splits them.
CONSTANTS
  CPUs = {c1}
  MapCPUs = {c1}
  FaultCPUs = {}
  U = U
  G = G
  ASes = {U, G}
  Global = G
  NoAS = NoAS
  Start <- MCStart
  End <- MCEnd
  SlotsPerPage = 3
  MaxFrames = 5
  MapASes = {U}
  Hints <- MCAlignedHint
  Lengths = {1, 2, 3}
  FlagSets <- MCFlagSets
  Anon = Anon
  Direct = Direct
  Types = {Anon, Direct}
  PhysBases = {100}
  UnmapRanges <- MCUnmapRanges
  FaultPages = {5, 6}
  Boot <- MCBoot

SPECIFICATION Spec
\* A CPU that dereferences the NULL page the PMM returns halts for good.
CHECK_DEADLOCK FALSE
PROPERTIES RefinesBackingSpec

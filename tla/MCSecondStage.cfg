SPECIFICATION StageSpec
CONSTANTS
  EntryWords = 3
  SectorWords = 9
  FirstCluster = 3
  FatWords = 6
  KernelChains <- MCKernelChains
  MaxReports = 5
  ModeLists <- MCModeLists
  Wanted <- MCWanted
CHECK_DEADLOCK FALSE
INVARIANTS
  MapRight
  ModeRight
PROPERTIES
  StageEnds

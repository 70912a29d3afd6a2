SPECIFICATION FairSpec
CONSTANTS
  PMM_BLOCK_SIZE = 2
  PMM_BLOCKS_PER_BYTE = 3
  TotalMemory = 22
  Regions <- MCRegions
  Requests <- MCRequests
  MaxRegionCalls = 3
INVARIANTS
  TypeOK
  AllocationsExclusive
  SmallRequestsFirstFit
  AlignedRunsFound
  StrayWritesBounded
  SearchInvariant
PROPERTIES
  Conservation
  CounterKeepsPace
  CallsReturn
  AllocatorSpec

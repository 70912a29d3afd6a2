SPECIFICATION Spec
CONSTANTS
  Blocks <- MCBlocks
  FreeAtBoot <- MCFreeAtBoot
  IdentityBlocks = 10
  TopBit = 16
  Pages <- MCPages
  Devices <- MCDevices
CONSTRAINTS
  OneTranslation
  NotAllHigh
CHECK_DEADLOCK FALSE
INVARIANTS
  
  StaleOnlyUnflushed

  

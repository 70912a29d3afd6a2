SPECIFICATION FairSpec
CONSTANTS
  Typed <- MCTyped
  BiosModes <- MCPollingBios
  Synchronous = TRUE
  QuietBoot = TRUE
CHECK_DEADLOCK FALSE
INVARIANTS
  HandledInOrder
PROPERTIES
  QuietBootServesAll

SPECIFICATION FairSpec
CONSTANTS
  Typed <- MCTypedAnyTime
  BiosModes <- MCBiosModes
  Synchronous = FALSE
  QuietBoot = FALSE
CHECK_DEADLOCK FALSE
INVARIANTS
  TypeOK
  NeverLost
  ServiceEnds
  NeverPanics
PROPERTIES
  InitReachesUnmask

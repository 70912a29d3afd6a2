SPECIFICATION Spec
CONSTANTS
  Typed <- MCTyped
  BiosModes <- MCPollingBios
  Synchronous = FALSE
  QuietBoot = TRUE
CHECK_DEADLOCK FALSE
INVARIANTS
  ConfigurationByteRead

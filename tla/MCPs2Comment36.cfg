SPECIFICATION Spec
CONSTANTS
  Typed <- MCTyped
  BiosModes <- MCBiosModes
  Synchronous = FALSE
  QuietBoot = FALSE
CHECK_DEADLOCK FALSE
INVARIANTS
  IrqsDisabledForNow

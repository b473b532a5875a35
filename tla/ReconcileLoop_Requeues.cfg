SPECIFICATION FairSpec
CONSTANTS
  Cleanup = TRUE
  MaxEdits = 2
  MaxFaults = 1
INVARIANTS
  TypeOK
  NeverForgotten
PROPERTIES
  SpecConverges
  ManifestConverges
  ReadyConverges
  PausedConverges
  DeletionCarriedOut
  Settles
  EditsKept
CHECK_DEADLOCK FALSE

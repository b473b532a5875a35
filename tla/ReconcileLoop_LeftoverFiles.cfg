SPECIFICATION Spec
CONSTANTS
  Cleanup = FALSE
  MaxEdits = 1
  MaxFaults = 0
INVARIANTS
  NoKopsFilesOnDestroy
CHECK_DEADLOCK FALSE

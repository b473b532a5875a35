SPECIFICATION Spec
CONSTANTS
  Pools = {1}
  KCP = KCP
  MaxFaults = 0
INVARIANTS
  NothingOrphaned

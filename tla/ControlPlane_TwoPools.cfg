SPECIFICATION Spec
CONSTANTS
  Pools = {1, 2}
  KCP = KCP
  MaxFaults = 0
PROPERTIES
  PoolHeld

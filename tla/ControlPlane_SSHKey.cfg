SPECIFICATION Spec
CONSTANTS
  Pools = {1}
  KCP = KCP
  MaxFaults = 1
INVARIANTS
  SSHKeyInState

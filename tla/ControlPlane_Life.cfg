SPECIFICATION FairSpec
CONSTANTS
  KCP = kcp
  Pools = {1}
  MaxFaults = 2
INVARIANTS
  TypeOK
  StateOutlivesCloud
PROPERTIES
  CleanForGood
  
  
  DeletionCompletes
  PoolDeletionCompletes
  InstanceGroupsConverge

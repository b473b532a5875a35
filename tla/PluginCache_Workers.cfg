SPECIFICATION FairSpec
CONSTANTS
  plain = plain
  ocean1 = ocean1
  ocean2 = ocean2
  aws = aws
  spotinst = spotinst
  Clusters = {plain, ocean1, ocean2}
  Providers = {aws, spotinst}
  Aws = aws
  Needs <- MCNeeds
  None = None
  MaxRetries = 2
  MaxFaults = 1
INVARIANTS
  TypeOK
  InitDelivers
PROPERTIES
  LostOnlyToCleaning
  AwsNotOverwritten
  CallsReturn
  AwsHeals
  EveryoneRuns

SPECIFICATION Spec
CONSTANTS
  n1 = n1
  v1 = v1
  v2 = v2
  None = None
  Names = {n1}
  Values = {v1}
  MaxFaults = 1
INVARIANT ReadyMeansReconciled

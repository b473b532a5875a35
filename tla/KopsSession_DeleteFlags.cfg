SPECIFICATION Spec
CONSTANTS
  a = a
  b = b
  Workers = {w1, w2}
  KCPs = {a, b}
  NoKCP = NoKCP
  NoWorker = NoWorker
  SpotinstKCPs = {a}
  FeatureFlags <- MCFeatureFlags
  KarpenterKCPs = {b}
INVARIANTS
  SpotinstWhenEnabled

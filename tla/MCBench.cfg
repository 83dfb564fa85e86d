CONSTANTS
  c1 = c1
  c2 = c2
  c3 = c3
  None = None
  max_signing_sets_per_proposal = 3
  Client <- MCClient
  SigningSets <- MCSigningSets
  Configs <- MCConfigs
SPECIFICATION Spec
INVARIANTS NoPanic
PROPERTY TestsComplete
CHECK_DEADLOCK FALSE

SPECIFICATION FairSpec
CONSTANTS
  JobId = {j1, j2}
  Timeout = 2
  FirstSession = 0
  MaxSession = 1
INVARIANTS LockHasOwner OneKeygen
PROPERTIES NextKeygenRuns

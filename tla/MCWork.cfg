SPECIFICATION WorkSpec
CONSTANTS
  Hash = {h1, h2}
  Ssid = {0, 1}
  Message = {m1}
  SIGN_TIMEOUT = 2
  Tolerance = 1
  MaxTasks = 1
  MaxEnqueued = 1
  MaxBlockNumber = 2
  MaxSession = 1
  MaxJobs = 3
SYMMETRY Names
CHECK_DEADLOCK FALSE
INVARIANTS NoneWaits
PROPERTIES StoredUntilUsed

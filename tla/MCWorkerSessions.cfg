\* Rotations, forced set changes, restarts and syncing; the run stops at MaxBlock.
CONSTANTS
  a = a
  b = b
  c = c
  None = None
  Node = {a, b, c}
  Me = a
  AuthoritySets <- TwoSets
  MaxBlock = 6
SPECIFICATION WorkerSpec
CHECK_DEADLOCK FALSE
INVARIANTS
  FollowsSessions

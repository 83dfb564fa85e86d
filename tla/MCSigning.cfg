\* Three nodes, two keys, three batches, the third a refresh.
CONSTANTS
  n1 = n1
  n2 = n2
  n3 = n3
  Node = {n1, n2, n3}
  Batch = {1, 2, 3}
  Forced = {3}
  Key = {1, 2}
  Sets <- MCSets
  Threshold <- MCThreshold
  SIGN_TIMEOUT = 3
  Tolerance = 2
  MaxEnqueued = 1
  MaxRestarts = 1
  Scenes <- MCScenes
SPECIFICATION FairSpec
PROPERTIES OneJob OnlyKeptSetsPanic EventuallySigned

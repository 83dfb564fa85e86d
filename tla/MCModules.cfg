\* A keygen or a signing with repeated deliveries, a failure and a shutdown, or of
\* FROST; every run ends.
CONSTANTS
  p1 = p1
  p2 = p2
  Party = {p1, p2}
  Rounds = 2
  Failing = {p2}
  Stoppable = {p1}
  EarlierFrom = {p2}
  Kinds = {"keygen", "signing"}
  Gossips <- Gossiping
  FrostCourses <- Runs
  None = None
SPECIFICATION ModulesSpec
CHECK_DEADLOCK FALSE
INVARIANTS
  KeyAgrees
  SignatureByAll
  HandledOnce
  FlushedAtEnd
PROPERTIES
  AllComplete
  AllSign

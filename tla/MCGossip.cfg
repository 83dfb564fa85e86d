\* One message, a line of three nodes, each link opened twice.
CONSTANTS
  n1 = n1
  n2 = n2
  n3 = n3
  a1 = a1
  a2 = a2
  a3 = a3
  Nobody = Nobody
  Node = {n1, n2, n3}
  Authority = {a1, a2, a3}
  AuthorityOf <- OwnAuthority
  Link <- Line
  SignedMessage = {1}
  Author <- FromEnd
  Recipient <- ToEnd
  MAX_KNOWN_MESSAGES = 3
  MAX_DUPLICATED_MESSAGES_PER_PEER = 1
  MaxOpened = 2
SPECIFICATION FairSpec
INVARIANTS AuthorityIsPeer
PROPERTIES ReachesAll
CHECK_DEADLOCK FALSE

CONSTANTS
  a1 = a1
  a2 = a2
  a3 = a3
  Authority = {a1, a2, a3}
  None = None
  GenesisAuthorities = {a1, a2, a3}
  GenesisSignature = 1
  GenesisKeygen = 2
  ValidatorSets = {{a1, a2}, {a1, a2, a3}}
  Period = 1
  Offset = 1
  KeygenRetry = 1
  UnsignedInterval = 1
  KeygenJailSentence = 1
  SigningJailSentence = 1
  InitialReputation = 1
  ReputationIncrement = 1
  DecayPercentage = 50
  MaxUsedSignatures = 1
  Courses <- MCCourses
SPECIFICATION Spec
SYMMETRY Symmetry
INVARIANTS
  KeysMatchSets
  SharesMatch
  EnoughSigners
  HistoryIsChain
  RefreshAccounted
  NextPartiesSound
PROPERTIES
  ActiveDKGStable
  RotationCertified

\* Two anchor updates that are voted on and a refresh, batched by twos.
CONSTANTS
  evm = evm
  local = local
  other = other
  none = none
  u1 = u1
  u2 = u2
  f1 = f1
  r1 = r1
  r2 = r2
  r3 = r3
  res = res
  a1 = a1
  a2 = a2
  a3 = a3
  None = None
  Account = {a1, a2, a3}
  Proposal = {u1, u2}
  Chain = {local, evm, other}
  ResourceId = {res}
  ChainOf <- MCChainOf
  ResourceOf <- MCResourceOf
  ChainIdentifier = local
  GenesisProposers = {a1, a2, a3}
  ProposerSets = {{a1, a2, a3}, {a1, a2}, {a3}}
  GenesisChains = {evm}
  GenesisResources = {res}
  ProposalLifetime = 2
  MaxVotes = 2
  MaxBlock = 3
  Refresh <- MCRefresh
  Courses <- MCCourses
  Link <- MCLink
  HandlerChainOf <- MCHandlerChainOf
  NoChain = none
  Authorities <- MCAuthorities
  MaxProposalsPerBatch = 2
  UnsignedProposalExpiry = 0
  MaxBatchId = 2
  MaxKey = 2
  MaxSubmissions = 2
  Resource = {r1, r2, r3}
  Info = {none}
  Default = none
  MaxResources = 3
  MaxBridgeIndex = 1
SPECIFICATION RuntimeSpec
INVARIANTS HandledOnce
PROPERTIES
  SettledStays
  RejectedOnlyWhenLost
  LastVoteDecides
  

\* A proposal of a chain and two refreshes, two authorities and an old and a new key.
CONSTANTS
  evm = evm
  none = none
  p1 = p1
  r1 = r1
  r2 = r2
  None = None
  Proposal = {p1, r1, r2}
  Refresh = {r1, r2}
  Chain = {evm, none}
  ChainOf <- MCChainOf
  Authorities <- MCAuthorities
  MaxProposalsPerBatch = 1
  UnsignedProposalExpiry = 1
  MaxBatchId = 2
  MaxBlock = 5
  MaxKey = 2
  MaxSubmissions = 1
SPECIFICATION Spec
SYMMETRY MCSymmetry
INVARIANTS BatchIdsFresh
 

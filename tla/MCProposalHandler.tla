-------------------------- MODULE MCProposalHandler --------------------------
(* Instances of ProposalHandler for TLC. *)
EXTENDS ProposalHandler, TLC

CONSTANTS evm, none,      \* chains; a refresh has TypedChainId::None
          p1, r1, r2

MCChainOf ==
  [p \in Proposal |-> IF p \in Refresh THEN none ELSE evm]

MCAuthorities == <<1, 2>>

MCSymmetry == Permutations(Refresh)
=============================================================================

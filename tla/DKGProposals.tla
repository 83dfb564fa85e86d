---------------------------- MODULE DKGProposals ----------------------------
(***************************************************************************)
(* pallet-dkg-proposals (pallets/dkg-proposals/src/lib.rs, types.rs): the  *)
(* proposers vote on proposals, and a proposal with enough votes goes to   *)
(* the proposal handler.  A proposal stands for the pair of its nonce and  *)
(* its bytes, the key of Votes; the vectors of voters are sets, for no     *)
(* account enters one twice.  VotingKeys changes with Proposers only and   *)
(* is left out.  A dispatch error rolls the whole call back, the vote      *)
(* included, so a failing call is no step.                                 *)
(***************************************************************************)
EXTENDS Integers, FiniteSets

CONSTANTS
  Account,              \* accounts that may be proposers
  Proposal,             \* proposals that are voted on
  Chain, ResourceId,    \* typed chain ids and resource ids
  ChainOf, ResourceOf,  \* what decoding a proposal gives
  ChainIdentifier,      \* the id of this chain
  GenesisProposers,
  ProposerSets,         \* authority sets that follow
  GenesisChains, GenesisResources,
  ProposalLifetime,
  MaxVotes,             \* bound of the vectors of votes
  MaxBlock              \* bound of the model

ASSUME ProposalAssumption ==
  /\ ChainOf \in [Proposal -> Chain]
  /\ ResourceOf \in [Proposal -> ResourceId]

ASSUME ProposerAssumption ==
  /\ ProposerSets \subseteq SUBSET Account
  /\ GenesisProposers \in SUBSET Account
  /\ IsFiniteSet(GenesisProposers)
  /\ \A S \in ProposerSets : IsFiniteSet(S)
  /\ GenesisChains \subseteq Chain
  /\ GenesisResources \subseteq ResourceId

ASSUME VotingAssumption ==
  /\ ProposalLifetime \in Nat
  /\ MaxVotes \in Nat
  /\ MaxBlock \in Nat

VARIABLES
  block,
  ProposerThreshold, Proposers, ProposerCount,
  ChainNonces,          \* whitelisted chains
  Resources,            \* registered resources
  Votes,                \* proposal -> ProposalVotes
  handled               \* how often the handler was given each proposal

config == <<ChainNonces, Resources>>
electorate == <<ProposerThreshold, Proposers, ProposerCount>>
ballot == <<Votes, handled>>
vars == <<block, config, electorate, ballot>>

ProposalVotes ==
  [votes_for : SUBSET Account, votes_against : SUBSET Account,
   status : {"Initiated", "Approved", "Rejected"}, expiry : Nat]
-----------------------------------------------------------------------------
(* types.rs *)

is_complete(votes) == votes.status # "Initiated"

has_voted(votes, who) == who \in votes.votes_for \cup votes.votes_against

is_expired(votes) == votes.expiry <= block

\* Mutant: a rejection is one vote early.
CompleteEarly(votes) ==
  [votes EXCEPT !.status =
     IF Cardinality(votes.votes_for) >= ProposerThreshold THEN "Approved"
     ELSE IF /\ ProposerCount >= ProposerThreshold
             /\ Cardinality(votes.votes_against) + ProposerThreshold
                  >= ProposerCount
          THEN "Rejected" ELSE @]

\* Mutant: an approval is one vote late.
CompleteLate(votes) ==
  [votes EXCEPT !.status =
     IF Cardinality(votes.votes_for) > ProposerThreshold THEN "Approved"
     ELSE IF /\ ProposerCount >= ProposerThreshold
             /\ Cardinality(votes.votes_against) + ProposerThreshold
                  > ProposerCount
          THEN "Rejected" ELSE @]

try_to_complete(votes) ==
  [votes EXCEPT !.status =
     IF Cardinality(votes.votes_for) >= ProposerThreshold THEN "Approved"
     ELSE IF /\ ProposerCount >= ProposerThreshold
             /\ Cardinality(votes.votes_against) + ProposerThreshold
                  > ProposerCount
          THEN "Rejected" ELSE @]
-----------------------------------------------------------------------------
(* Genesis: the authorities of the genesis session become the proposers. *)

Init ==
  /\ block = 1
  /\ ProposerThreshold = 1
  /\ Proposers = GenesisProposers
  /\ ProposerCount = Cardinality(GenesisProposers)
  /\ ChainNonces = GenesisChains
  /\ Resources = GenesisResources
  /\ Votes = [p \in {} |-> {}]
  /\ handled = [p \in Proposal |-> 0]

NewBlock ==
  /\ block < MaxBlock
  /\ block' = block + 1
  /\ UNCHANGED <<config, electorate, ballot>>
-----------------------------------------------------------------------------
(* Calls of the admin origin *)

set_threshold(threshold) ==
  /\ threshold > 0
  /\ threshold <= Cardinality(Proposers)
  /\ ProposerThreshold' = threshold
  /\ UNCHANGED <<block, config, Proposers, ProposerCount, ballot>>

set_resource(id) ==
  /\ Resources' = Resources \cup {id}
  /\ UNCHANGED <<block, ChainNonces, electorate, ballot>>

remove_resource(id) ==
  /\ Resources' = Resources \ {id}
  /\ UNCHANGED <<block, ChainNonces, electorate, ballot>>

whitelist_chain(chain_id) ==
  /\ chain_id # ChainIdentifier
  /\ chain_id \notin ChainNonces
  /\ ChainNonces' = ChainNonces \cup {chain_id}
  /\ UNCHANGED <<block, Resources, electorate, ballot>>
-----------------------------------------------------------------------------
(* Votes *)

\* The entry of Votes, or the one that commit_vote creates.
VotesOf(prop) ==
  IF prop \in DOMAIN Votes
  THEN Votes[prop]
  ELSE [votes_for |-> {}, votes_against |-> {}, status |-> "Initiated",
        expiry |-> block + ProposalLifetime]

\* What acknowledge_proposal, reject_proposal and commit_vote ask of a vote.
MayVote(who, prop) ==
  /\ who \in Proposers
  /\ ChainOf[prop] \in ChainNonces
  /\ ResourceOf[prop] \in Resources
  /\ ~is_complete(VotesOf(prop))
  /\ ~is_expired(VotesOf(prop))
  /\ ~has_voted(VotesOf(prop), who)

\* The entry is written whatever its status; an approved proposal goes to the
\* handler, whose error would undo the call.
try_resolve_proposal(prop, votes) ==
  LET resolved == try_to_complete(votes)
  IN  /\ Votes' = [p \in DOMAIN Votes \cup {prop} |->
                     IF p = prop THEN resolved ELSE Votes[p]]
      /\ handled' = IF resolved.status = "Approved"
                    THEN [handled EXCEPT ![prop] = @ + 1] ELSE handled
      /\ UNCHANGED <<block, config, electorate>>

acknowledge_proposal(who, prop) ==
  /\ MayVote(who, prop)
  /\ Cardinality(VotesOf(prop).votes_for) < MaxVotes
  /\ try_resolve_proposal(
       prop, [VotesOf(prop) EXCEPT !.votes_for = @ \cup {who}])

reject_proposal(who, prop) ==
  /\ MayVote(who, prop)
  /\ Cardinality(VotesOf(prop).votes_against) < MaxVotes
  /\ try_resolve_proposal(
       prop, [VotesOf(prop) EXCEPT !.votes_against = @ \cup {who}])

\* Mutant: decided proposals are evaluated again.
EvalCompleted(prop) ==
  /\ prop \in DOMAIN Votes
  /\ ~is_expired(Votes[prop])
  /\ try_resolve_proposal(prop, Votes[prop])

\* Mutant: expired proposals are evaluated.
EvalExpired(prop) ==
  /\ prop \in DOMAIN Votes
  /\ ~is_complete(Votes[prop])
  /\ try_resolve_proposal(prop, Votes[prop])

\* Any account may ask; neither chain nor resource is looked at again.
eval_vote_state(prop) ==
  /\ prop \in DOMAIN Votes
  /\ ~is_complete(Votes[prop])
  /\ ~is_expired(Votes[prop])
  /\ try_resolve_proposal(prop, Votes[prop])

\* Called by change_authorities of the metadata pallet.  The threshold stays.
on_authority_set_changed(authorities) ==
  /\ ProposerCount' = Cardinality(authorities)
  /\ Proposers' = authorities
  /\ UNCHANGED <<block, config, ProposerThreshold, ballot>>
-----------------------------------------------------------------------------
Admin ==
  \/ \E t \in 0 .. Cardinality(Proposers) : set_threshold(t)
  \/ \E id \in ResourceId : set_resource(id) \/ remove_resource(id)
  \/ \E c \in Chain : whitelist_chain(c)

Voting ==
  \E prop \in Proposal :
    \/ \E who \in Account :
         acknowledge_proposal(who, prop) \/ reject_proposal(who, prop)
    \/ eval_vote_state(prop)

Next ==
  \/ NewBlock
  \/ Admin
  \/ Voting
  \/ \E S \in ProposerSets : on_authority_set_changed(S)

Spec == Init /\ [][Next]_vars
-----------------------------------------------------------------------------
(* Properties *)

\* The storage items have the types of their declarations, and a threshold of
\* zero, which would approve anything, is never set.
TypeOK ==
  /\ block \in Nat
  /\ ProposerThreshold \in Nat \ {0}
  /\ Proposers \subseteq Account
  /\ ProposerCount \in Nat
  /\ ChainNonces \subseteq Chain
  /\ Resources \subseteq ResourceId
  /\ DOMAIN Votes \subseteq Proposal
  /\ \A p \in DOMAIN Votes : Votes[p] \in ProposalVotes
  /\ handled \in [Proposal -> Nat]

\* The handler is given a proposal when it is approved and never again,
\* whatever votes and evaluations follow (finalize_execution).
HandledOnce ==
  \A p \in Proposal :
    handled[p] = IF p \in DOMAIN Votes /\ Votes[p].status = "Approved"
                 THEN 1 ELSE 0

\* No account speaks twice on a proposal, through any changes of the set
\* that take it out and bring it back (commit_vote, has_voted).
OneVoiceEach ==
  \A p \in DOMAIN Votes : Votes[p].votes_for \cap Votes[p].votes_against = {}

\* A decided or expired proposal stays as it is: no vote, evaluation, new
\* threshold or new set of proposers reopens it.
SettledStays ==
  [][\A p \in DOMAIN Votes :
       is_complete(Votes[p]) \/ is_expired(Votes[p]) =>
         p \in DOMAIN Votes' /\ Votes'[p] = Votes[p]]_vars

\* A rejection is only spoken when approval is out of reach: with all votes
\* against by accounts that are still proposers, the others are too few.
RejectedOnlyWhenLost ==
  [][\A p \in DOMAIN Votes' :
       (/\ Votes'[p].status = "Rejected"
        /\ ~(p \in DOMAIN Votes /\ Votes[p].status = "Rejected")
        /\ Votes'[p].votes_against \subseteq Proposers) =>
          Cardinality(Proposers \ Votes'[p].votes_against)
            < ProposerThreshold]_vars

\* The last vote decides: when a vote leaves no proposer who has not voted, and
\* the threshold is one the set can reach, the proposal is decided.
LastVoteDecides ==
  [][\A p \in DOMAIN Votes' :
       (/\ p \in DOMAIN Votes => Votes'[p] # Votes[p]
        /\ Proposers \subseteq Votes'[p].votes_for \cup Votes'[p].votes_against
        /\ ProposerThreshold <= Cardinality(Proposers)) =>
          is_complete(Votes'[p])]_vars
=============================================================================

-------------------------- MODULE PalletProofs ------------------------------
(***************************************************************************)
(* What TLAPS proves of two pallets that decide by themselves: of          *)
(* pallet-dkg-proposals, for all accounts, proposals, proposer sets and    *)
(* bounds; and of pallet-bridge-registry, for all resources and bounds,    *)
(* that the two maps of the registry agree, bridges are the connected      *)
(* components of the updates, and updates never move a resource.           *)
(***************************************************************************)
EXTENDS DKGProposals, BridgeRegistry, FiniteSetTheorems, TLAPS
-----------------------------------------------------------------------------
(* Proposals *)

\* The count that decides a vote is that of the proposers it is about.
ElectorateSound ==
  /\ IsFiniteSet(Proposers)
  /\ ProposerCount = Cardinality(Proposers)

FiniteVotes ==
  \A p \in DOMAIN Votes : /\ IsFiniteSet(Votes[p].votes_for)
                          /\ IsFiniteSet(Votes[p].votes_against)

\* The inductive invariant.
Inv == TypeOK /\ HandledOnce /\ OneVoiceEach /\ ElectorateSound /\ FiniteVotes

\* The handler has not seen the votes that are about to be resolved, they are
\* typed and finite, and nobody is on both sides.
Resolvable(prop, votes) ==
  /\ votes \in ProposalVotes
  /\ votes.status = "Initiated"
  /\ votes.votes_for \cap votes.votes_against = {}
  /\ IsFiniteSet(votes.votes_for)
  /\ IsFiniteSet(votes.votes_against)
  /\ handled[prop] = 0

\* try_to_complete sets the status and nothing else.
LEMMA CompleteKeeps ==
  ASSUME NEW votes \in ProposalVotes
  PROVE  LET resolved == try_to_complete(votes)
         IN  /\ resolved \in ProposalVotes
             /\ resolved.votes_for = votes.votes_for
             /\ resolved.votes_against = votes.votes_against
             /\ resolved.expiry = votes.expiry
  BY DEF try_to_complete, ProposalVotes

\* Resolving a proposal whose votes are sound keeps the invariant.
LEMMA ResolveKeepsInv ==
  ASSUME Inv, NEW prop \in Proposal, NEW votes,
         Resolvable(prop, votes), try_resolve_proposal(prop, votes)
  PROVE  Inv'
<1> DEFINE resolved == try_to_complete(votes)
<1>1. /\ resolved \in ProposalVotes
      /\ resolved.votes_for = votes.votes_for
      /\ resolved.votes_against = votes.votes_against
  BY CompleteKeeps DEF Resolvable
<1> HIDE DEF resolved
<1>2. /\ Votes' = [p \in DOMAIN Votes \cup {prop} |->
                     IF p = prop THEN resolved ELSE Votes[p]]
      /\ handled' = IF resolved.status = "Approved"
                    THEN [handled EXCEPT ![prop] = @ + 1] ELSE handled
      /\ UNCHANGED <<block, config, electorate>>
  BY DEF try_resolve_proposal, resolved
<1>3. TypeOK'
  BY <1>1, <1>2 DEF Inv, TypeOK, config, electorate
<1>4. HandledOnce'
  BY <1>1, <1>2 DEF Inv, TypeOK, HandledOnce, Resolvable, ProposalVotes
<1>5. OneVoiceEach'
  BY <1>1, <1>2 DEF Inv, OneVoiceEach, Resolvable
<1>6. ElectorateSound'
  BY <1>2 DEF Inv, ElectorateSound, electorate
<1>7. FiniteVotes'
  BY <1>1, <1>2 DEF Inv, FiniteVotes, Resolvable
<1> QED
  BY <1>3, <1>4, <1>5, <1>6, <1>7 DEF Inv

\* A proposal that may be resolved has votes that are sound.
LEMMA OpenIsResolvable ==
  ASSUME Inv, NEW prop \in Proposal, ~is_complete(VotesOf(prop))
  PROVE  Resolvable(prop, VotesOf(prop))
<1>1. CASE prop \in DOMAIN Votes
  BY <1>1 DEF Inv, TypeOK, HandledOnce, OneVoiceEach, FiniteVotes, VotesOf,
              Resolvable, is_complete, ProposalVotes
<1>2. CASE prop \notin DOMAIN Votes
  <2>1. block + ProposalLifetime \in Nat
    BY VotingAssumption DEF Inv, TypeOK
  <2>2. handled[prop] = 0
    BY <1>2 DEF Inv, HandledOnce
  <2> QED
    BY <1>2, <2>1, <2>2, FS_EmptySet
       DEF VotesOf, Resolvable, ProposalVotes
<1> QED
  BY <1>1, <1>2

\* Adding the vote of an account that has not voted keeps the votes sound.
LEMMA VoteIsResolvable ==
  ASSUME Inv, NEW prop \in Proposal, NEW who \in Account, MayVote(who, prop)
  PROVE  /\ Resolvable(prop,
              [VotesOf(prop) EXCEPT !.votes_for = @ \cup {who}])
         /\ Resolvable(prop,
              [VotesOf(prop) EXCEPT !.votes_against = @ \cup {who}])
<1> DEFINE votes == VotesOf(prop)
<1>1. Resolvable(prop, votes)
  BY OpenIsResolvable DEF MayVote
<1>2. who \notin votes.votes_for /\ who \notin votes.votes_against
  BY DEF MayVote, has_voted
<1> HIDE DEF votes
<1>3. /\ IsFiniteSet(votes.votes_for \cup {who})
      /\ IsFiniteSet(votes.votes_against \cup {who})
  BY <1>1, FS_AddElement DEF Resolvable
<1>4. Resolvable(prop, [votes EXCEPT !.votes_for = @ \cup {who}])
  BY <1>1, <1>2, <1>3 DEF Resolvable, ProposalVotes
<1>5. Resolvable(prop, [votes EXCEPT !.votes_against = @ \cup {who}])
  BY <1>1, <1>2, <1>3 DEF Resolvable, ProposalVotes
<1> QED
  BY <1>4, <1>5 DEF votes

\* Every step keeps the invariant.
LEMMA NextKeepsInv ==
  ASSUME Inv, [Next]_vars
  PROVE  Inv'
<1> USE DEF config, electorate, ballot
<1>1. ASSUME UNCHANGED ballot, UNCHANGED <<Proposers, ProposerCount>>, TypeOK'
      PROVE  Inv'
  BY <1>1 DEF Inv, HandledOnce, OneVoiceEach, ElectorateSound, FiniteVotes
<1>2. CASE NewBlock
  BY <1>1, <1>2 DEF Inv, TypeOK, NewBlock
<1>3. ASSUME NEW t \in 0 .. Cardinality(Proposers), set_threshold(t)
      PROVE  Inv'
  <2>1. Cardinality(Proposers) \in Nat
    BY FS_CardinalityType DEF Inv, ElectorateSound
  <2> QED
    BY <1>1, <1>3, <2>1 DEF Inv, TypeOK, set_threshold
<1>4. ASSUME NEW id \in ResourceId, set_resource(id) \/ remove_resource(id)
      PROVE  Inv'
  BY <1>1, <1>4 DEF Inv, TypeOK, set_resource, remove_resource
<1>5. ASSUME NEW c \in Chain, whitelist_chain(c)
      PROVE  Inv'
  BY <1>1, <1>5 DEF Inv, TypeOK, whitelist_chain
<1>6. ASSUME NEW prop \in Proposal, NEW who \in Account,
             acknowledge_proposal(who, prop) \/ reject_proposal(who, prop)
      PROVE  Inv'
  BY <1>6, VoteIsResolvable, ResolveKeepsInv
     DEF acknowledge_proposal, reject_proposal
<1>7. ASSUME NEW prop \in Proposal, eval_vote_state(prop)
      PROVE  Inv'
  <2>1. VotesOf(prop) = Votes[prop]
    BY <1>7 DEF eval_vote_state, VotesOf
  <2> QED
    BY <1>7, <2>1, OpenIsResolvable, ResolveKeepsInv DEF eval_vote_state
<1>8. ASSUME NEW S \in ProposerSets, on_authority_set_changed(S)
      PROVE  Inv'
  <2>1. IsFiniteSet(S) /\ Cardinality(S) \in Nat /\ S \subseteq Account
    BY ProposerAssumption, FS_CardinalityType
  <2> QED
    BY <1>8, <2>1 DEF on_authority_set_changed, Inv, TypeOK, HandledOnce,
                      OneVoiceEach, ElectorateSound, FiniteVotes
<1>9. CASE UNCHANGED vars
  BY <1>1, <1>9 DEF Inv, TypeOK, vars
<1> QED
  BY <1>2, <1>3, <1>4, <1>5, <1>6, <1>7, <1>8, <1>9
     DEF Next, Admin, Voting

\* The inductive invariant holds in every reachable state.
THEOREM Invariance == Spec => []Inv
<1>1. Init => Inv
  <2>1. Cardinality(GenesisProposers) \in Nat
    BY ProposerAssumption, FS_CardinalityType
  <2> QED
    BY <2>1, ProposerAssumption
       DEF Init, Inv, TypeOK, HandledOnce, OneVoiceEach, ElectorateSound,
           FiniteVotes
<1>2. Inv /\ [Next]_vars => Inv'
  BY NextKeepsInv
<1> QED
  BY <1>1, <1>2, PTL DEF Spec

\* The storage items keep their types, the threshold stays positive.
THEOREM TypeCorrect == Spec => []TypeOK
  BY Invariance, PTL DEF Inv

\* finalize_execution hands a proposal over exactly when it is approved, once.
THEOREM HandledExactlyOnce == Spec => []HandledOnce
  BY Invariance, PTL DEF Inv

\* No account ever votes on both sides of a proposal (commit_vote).
THEOREM VoicesApart == Spec => []OneVoiceEach
  BY Invariance, PTL DEF Inv

-----------------------------------------------------------------------------
\* An entry of Votes changes, or appears, only by resolving a proposal that was
\* neither decided nor expired.
LEMMA ChangedByResolving ==
  ASSUME Inv, [Next]_vars, NEW p \in DOMAIN Votes',
         p \in DOMAIN Votes => Votes'[p] # Votes[p]
  PROVE  /\ UNCHANGED <<block, electorate>>
         /\ p \in DOMAIN Votes =>
              ~is_complete(Votes[p]) /\ ~is_expired(Votes[p])
         /\ \E votes : /\ Resolvable(p, votes)
                       /\ Votes'[p] = try_to_complete(votes)
<1> DEFINE Goal == /\ UNCHANGED <<block, electorate>>
                   /\ p \in DOMAIN Votes =>
                        ~is_complete(Votes[p]) /\ ~is_expired(Votes[p])
                   /\ \E votes : /\ Resolvable(p, votes)
                                 /\ Votes'[p] = try_to_complete(votes)
<1>1. ASSUME NEW prop \in Proposal, NEW votes, Resolvable(prop, votes),
             ~is_complete(VotesOf(prop)), ~is_expired(VotesOf(prop)),
             try_resolve_proposal(prop, votes)
      PROVE  Goal
  <2>1. /\ DOMAIN Votes' = DOMAIN Votes \cup {prop}
        /\ Votes'[p] = IF p = prop THEN try_to_complete(votes) ELSE Votes[p]
        /\ UNCHANGED <<block, electorate>>
    BY <1>1 DEF try_resolve_proposal
  <2>2. p = prop
    BY <2>1
  <2>3. p \in DOMAIN Votes => VotesOf(p) = Votes[p]
    BY DEF VotesOf
  <2> QED
    BY <1>1, <2>1, <2>2, <2>3
<1>2. ASSUME NEW prop \in Proposal, NEW who \in Account,
             acknowledge_proposal(who, prop) \/ reject_proposal(who, prop)
      PROVE  Goal
  <2>1. MayVote(who, prop)
    BY <1>2 DEF acknowledge_proposal, reject_proposal
  <2> QED
    BY <1>1, <1>2, <2>1, VoteIsResolvable
       DEF acknowledge_proposal, reject_proposal, MayVote
<1>3. ASSUME NEW prop \in Proposal, eval_vote_state(prop)
      PROVE  Goal
  <2>1. VotesOf(prop) = Votes[prop]
    BY <1>3 DEF eval_vote_state, VotesOf
  <2> QED
    BY <1>1, <1>3, <2>1, OpenIsResolvable DEF eval_vote_state
<1>4. CASE UNCHANGED Votes
  BY <1>4
<1> HIDE DEF Goal
<1>5. Goal
  BY <1>2, <1>3, <1>4
     DEF Next, Admin, Voting, NewBlock, set_threshold, set_resource,
         remove_resource, whitelist_chain, on_authority_set_changed, vars,
         ballot
<1> QED
  BY <1>5 DEF Goal

\* No step takes an entry of Votes away.
LEMMA VotesGrow ==
  ASSUME [Next]_vars
  PROVE  DOMAIN Votes \subseteq DOMAIN Votes'
<1>1. ASSUME NEW prop, NEW votes, try_resolve_proposal(prop, votes)
      PROVE  DOMAIN Votes \subseteq DOMAIN Votes'
  BY <1>1 DEF try_resolve_proposal
<1>2. CASE UNCHANGED Votes
  BY <1>2
<1> QED
  BY <1>1, <1>2, Zenon
     DEF Next, Admin, Voting, NewBlock, set_threshold, set_resource,
         remove_resource, whitelist_chain, on_authority_set_changed, vars,
         ballot, acknowledge_proposal, reject_proposal, eval_vote_state

\* A decided or expired proposal is never touched again.
THEOREM SettledForGood == Spec => SettledStays
<1>1. ASSUME Inv, [Next]_vars, NEW p \in DOMAIN Votes,
             is_complete(Votes[p]) \/ is_expired(Votes[p])
      PROVE  p \in DOMAIN Votes' /\ Votes'[p] = Votes[p]
  BY <1>1, VotesGrow, ChangedByResolving
<1>2. Inv /\ [Next]_vars =>
        [\A p \in DOMAIN Votes :
           is_complete(Votes[p]) \/ is_expired(Votes[p]) =>
             p \in DOMAIN Votes' /\ Votes'[p] = Votes[p]]_vars
  BY <1>1
<1> QED
  BY <1>2, Invariance, PTL DEF Spec, SettledStays

\* try_to_complete rejects only what the proposers left can no longer approve.
THEOREM RejectionsSound == Spec => RejectedOnlyWhenLost
<1>1. ASSUME Inv, [Next]_vars, NEW p \in DOMAIN Votes',
             Votes'[p].status = "Rejected",
             ~(p \in DOMAIN Votes /\ Votes[p].status = "Rejected"),
             Votes'[p].votes_against \subseteq Proposers
      PROVE  Cardinality(Proposers \ Votes'[p].votes_against)
               < ProposerThreshold
  <2>1. p \in DOMAIN Votes => Votes'[p] # Votes[p]
    BY <1>1
  <2>2. PICK votes : /\ Resolvable(p, votes)
                     /\ Votes'[p] = try_to_complete(votes)
    BY <1>1, <2>1, ChangedByResolving
  <2> DEFINE A == votes.votes_against
  <2>3. Votes'[p].votes_against = A
    BY <2>2, CompleteKeeps DEF Resolvable
  <2>4. Cardinality(A) + ProposerThreshold > ProposerCount
    BY <1>1, <2>2 DEF try_to_complete, Resolvable, ProposalVotes
  <2>5. /\ IsFiniteSet(Proposers) /\ IsFiniteSet(A)
        /\ ProposerCount = Cardinality(Proposers)
    BY <1>1, <2>2 DEF Inv, ElectorateSound, Resolvable
  <2>6. Cardinality(Proposers \ A)
          = Cardinality(Proposers) - Cardinality(Proposers \cap A)
    BY <2>5, FS_Difference, Zenon
  <2>7. Proposers \cap A = A
    BY <1>1, <2>3
  <2>8. /\ Cardinality(A) \in Nat /\ Cardinality(Proposers) \in Nat
        /\ ProposerThreshold \in Nat
    BY <1>1, <2>5, FS_CardinalityType DEF Inv, TypeOK
  <2> HIDE DEF A
  <2>9. Cardinality(Proposers \ A) = Cardinality(Proposers) - Cardinality(A)
    BY <2>6, <2>7
  <2>10. Cardinality(Proposers \ A) < ProposerThreshold
    BY <2>4, <2>5, <2>8, <2>9
  <2> QED
    BY <2>3, <2>10
<1>2. Inv /\ [Next]_vars =>
        [\A p \in DOMAIN Votes' :
           (/\ Votes'[p].status = "Rejected"
            /\ ~(p \in DOMAIN Votes /\ Votes[p].status = "Rejected")
            /\ Votes'[p].votes_against \subseteq Proposers) =>
              Cardinality(Proposers \ Votes'[p].votes_against)
                < ProposerThreshold]_vars
  BY <1>1
<1> QED
  BY <1>2, Invariance, PTL DEF Spec, RejectedOnlyWhenLost

\* When the last proposer has voted and the threshold can be reached, the
\* proposal is decided: the two tests of try_to_complete leave no gap.
THEOREM EveryoneVotedDecides == Spec => LastVoteDecides
<1>1. ASSUME Inv, [Next]_vars, NEW p \in DOMAIN Votes',
             p \in DOMAIN Votes => Votes'[p] # Votes[p],
             Proposers \subseteq Votes'[p].votes_for
                                  \cup Votes'[p].votes_against,
             ProposerThreshold <= Cardinality(Proposers),
             ~is_complete(Votes'[p])
      PROVE  FALSE
  <2>2. PICK votes : /\ Resolvable(p, votes)
                     /\ Votes'[p] = try_to_complete(votes)
    BY <1>1, ChangedByResolving
  <2> DEFINE F == votes.votes_for
             A == votes.votes_against
  <2>3. Votes'[p].votes_for = F /\ Votes'[p].votes_against = A
    BY <2>2, CompleteKeeps DEF Resolvable
  <2>4. /\ IsFiniteSet(Proposers) /\ IsFiniteSet(A) /\ IsFiniteSet(F)
        /\ ProposerCount = Cardinality(Proposers)
    BY <1>1, <2>2 DEF Inv, ElectorateSound, Resolvable
  <2>5. /\ Cardinality(A) \in Nat /\ Cardinality(Proposers) \in Nat
        /\ Cardinality(F) \in Nat /\ ProposerThreshold \in Nat
    BY <1>1, <2>4, FS_CardinalityType DEF Inv, TypeOK
  <2>6. /\ ~(Cardinality(F) >= ProposerThreshold)
        /\ ~(/\ ProposerCount >= ProposerThreshold
             /\ Cardinality(A) + ProposerThreshold > ProposerCount)
    BY <1>1, <2>2 DEF try_to_complete, Resolvable, ProposalVotes, is_complete
  <2>7. /\ IsFiniteSet(F \cup A)
        /\ Cardinality(F \cup A)
             = Cardinality(F) + Cardinality(A) - Cardinality(F \cap A)
    BY <2>4, FS_Union
  <2>8. F \cap A = {} /\ Cardinality({}) = 0
    BY <2>2, FS_EmptySet DEF Resolvable
  <2>9. Cardinality(Proposers) <= Cardinality(F \cup A)
    BY <1>1, <2>3, <2>7, FS_Subset
  <2> HIDE DEF F, A
  <2> QED
    BY <1>1, <2>4, <2>5, <2>6, <2>7, <2>8, <2>9
<1>2. Inv /\ [Next]_vars =>
        [\A p \in DOMAIN Votes' :
           (/\ p \in DOMAIN Votes => Votes'[p] # Votes[p]
            /\ Proposers \subseteq Votes'[p].votes_for
                                    \cup Votes'[p].votes_against
            /\ ProposerThreshold <= Cardinality(Proposers)) =>
              is_complete(Votes'[p])]_vars
  BY <1>1
<1> QED
  BY <1>2, Invariance, PTL DEF Spec, LastVoteDecides
-----------------------------------------------------------------------------
(* Bridges *)

RegistryInv == RegistryTypeOK /\ MapsAgree /\ LinkedShare /\ BridgesAreComponents

\* Only NewBridge and JoinBridge write an index: they give i, not 0, to the
\* resources of new, which had none.  The next lemmas hold of both.
Assigns(new, i) ==
  /\ i \in Index /\ i # 0
  /\ new \subseteq Resource
  /\ \A r \in new : ResourceToBridgeIndex[r] = 0
  /\ ResourceToBridgeIndex' =
       [r \in Resource |-> IF r \in new THEN i ELSE ResourceToBridgeIndex[r]]

\* A link of src and dest gives i to those of the two that had no index; if
\* somebody had i before, one of the two had.
Links(src, dest, new, i) ==
  /\ Assigns(new, i)
  /\ new \subseteq {src, dest}
  /\ \A r \in {src, dest} : r \in new \/ ResourceToBridgeIndex[r] = i
  /\ reset = {} => \A r \in Resource :
       ResourceToBridgeIndex[r] = i =>
         \E q \in {src, dest} : ResourceToBridgeIndex[q] = i
  /\ linked' = IF reset # {} THEN linked ELSE linked \cup {{src, dest}}
  /\ UNCHANGED reset

\* A new link only adds connections.
LEMMA ConnectedMonotone ==
  ASSUME linked \subseteq linked', NEW r, NEW s, Connected(r, s)
  PROVE  Connected(r, s)'
BY DEF Connected

\* Assigning an index to the ends of a new link keeps LinkedShare.
LEMMA AssignKeepsLinked ==
  ASSUME RegistryInv, NEW new, NEW i, Assigns(new, i),
         0 \in DOMAIN Bridges' => Bridges'[0].resource_ids = << >>,
         NEW src \in Resource, NEW dest \in Resource,
         \A r \in {src, dest} : r \in new \/ ResourceToBridgeIndex[r] = i,
         linked' \subseteq linked \cup {{src, dest}}
  PROVE  LinkedShare'
<1>1. \A pair \in linked : \A r \in pair :
        r \in Resource /\ ResourceToBridgeIndex'[r] = ResourceToBridgeIndex[r]
  BY DEF RegistryInv, RegistryTypeOK, LinkedShare, Assigns
<1>2. \A r \in {src, dest} : ResourceToBridgeIndex'[r] = i
  BY DEF Assigns
<1>3. i # 0
  BY DEF Assigns
<1> QED  BY <1>1, <1>2, <1>3 DEF RegistryInv, LinkedShare

\* Resources with no bridge get index i from a link: bridges stay components.
\* Either nobody had i before, or one end of the link had.
LEMMA AssignKeepsComponents ==
  ASSUME RegistryInv, NEW src \in Resource, NEW dest \in Resource, NEW new, NEW i,
         Links(src, dest, new, i), LinkedShare', RegistryTypeOK'
  PROVE  BridgesAreComponents'
<1> SUFFICES ASSUME reset' = {},
                    NEW r \in Resource, NEW s \in Resource,
                    ResourceToBridgeIndex'[r] # 0,
                    ResourceToBridgeIndex'[s] # 0
             PROVE  ResourceToBridgeIndex'[r] = ResourceToBridgeIndex'[s]
                      <=> Connected(r, s)'
  BY DEF BridgesAreComponents
<1>1. linked' = linked \cup {{src, dest}} /\ reset = {} /\ Assigns(new, i)
  BY DEF Links
<1>2. Connected(src, dest)' /\ Connected(dest, src)'
  <2>1. {src, dest} \in linked'
    BY <1>1
  <2>2. \A S : {src, dest} \subseteq S \/ {src, dest} \cap S = {}
                => (src \in S <=> dest \in S)
    OBVIOUS
  <2> QED  BY <2>1, <2>2 DEF Connected
<1>3. \A x, y \in Resource : Connected(x, y) => Connected(x, y)'
  BY <1>1, ConnectedMonotone
<1>4. \A x, y \in Resource :
        ResourceToBridgeIndex[x] # 0
          /\ ResourceToBridgeIndex[x] = ResourceToBridgeIndex[y]
        => Connected(x, y)
  BY <1>1 DEF RegistryInv, BridgesAreComponents
<1>5. \A x \in Resource : Connected(x, x)'
  BY DEF Connected
<1>6. \A x, y, z \in Resource :
        Connected(x, y)' /\ Connected(y, z)' => Connected(x, z)'
  BY DEF Connected
<1>7. \A x \in Resource : ResourceToBridgeIndex'[x] = i =>
        Connected(x, src)' /\ Connected(src, x)'
  <2> SUFFICES ASSUME NEW x \in Resource, ResourceToBridgeIndex'[x] = i
               PROVE  Connected(x, src)' /\ Connected(src, x)'
    OBVIOUS
  <2>1. CASE x \in new
    BY <2>1, <1>2, <1>5 DEF Links
  <2>2. CASE x \notin new
    <3>1. ResourceToBridgeIndex[x] = i /\ i # 0
      BY <1>1, <2>2 DEF Assigns
    <3>2. PICK q \in {src, dest} : ResourceToBridgeIndex[q] = i
      BY <1>1, <3>1 DEF Links
    <3>3. Connected(x, q)' /\ Connected(q, x)'
      BY <1>3, <1>4, <3>1, <3>2
    <3>4. Connected(q, src)' /\ Connected(src, q)'
      BY <1>2, <1>5, <3>2
    <3> QED  BY <1>6, <3>2, <3>3, <3>4
  <2> QED  BY <2>1, <2>2
<1>8. ASSUME ResourceToBridgeIndex'[r] = ResourceToBridgeIndex'[s]
      PROVE  Connected(r, s)'
  <2>1. CASE ResourceToBridgeIndex'[r] = i
    BY <1>6, <1>7, <1>8, <2>1, Zenon
  <2>2. CASE ResourceToBridgeIndex'[r] # i
    <3>1. /\ ResourceToBridgeIndex[r] = ResourceToBridgeIndex[s]
          /\ ResourceToBridgeIndex[r] # 0
      BY <1>1, <1>8, <2>2 DEF Assigns
    <3> QED  BY <1>3, <1>4, <3>1
  <2> QED  BY <2>1, <2>2
<1>9. ASSUME Connected(r, s)'
      PROVE  ResourceToBridgeIndex'[r] = ResourceToBridgeIndex'[s]
  <2> DEFINE S == {x \in Resource :
                     ResourceToBridgeIndex'[x] = ResourceToBridgeIndex'[r]}
  <2>1. S \in SUBSET Resource /\ r \in S
    OBVIOUS
  <2>2. \A pair \in linked' : pair \subseteq Resource
    BY DEF RegistryTypeOK
  <2>3. \A pair \in linked' : pair \subseteq S \/ pair \cap S = {}
    BY <2>2 DEF LinkedShare
  <2> HIDE DEF S
  <2>4. s \in S
    BY <1>9, <2>1, <2>3 DEF Connected
  <2> QED  BY <2>4 DEF S
<1> QED  BY <1>8, <1>9

\* What a list holds after a push.
LEMMA MembersOfAppend ==
  ASSUME NEW m \in Metadata, NEW r \in Resource
  PROVE  /\ Append(m.resource_ids, r) \in Seq(Resource)
         /\ Len(Append(m.resource_ids, r)) = Len(m.resource_ids) + 1
         /\ Members([m EXCEPT !.resource_ids = Append(@, r)])
              = Members(m) \cup {r}
<1> DEFINE q == m.resource_ids
           n == [m EXCEPT !.resource_ids = Append(@, r)]
<1>1. q \in Seq(Resource) /\ n.resource_ids = Append(q, r)
  BY DEF Metadata
<1>2. /\ Len(Append(q, r)) = Len(q) + 1
      /\ Append(q, r)[Len(q) + 1] = r
      /\ \A j \in 1 .. Len(q) : Append(q, r)[j] = q[j]
      /\ Len(q) \in Nat
      /\ Append(q, r) \in Seq(Resource)
  BY <1>1
<1> HIDE DEF n
<1>3. \A x : x \in Members(n) <=> \E j \in 1 .. Len(q) + 1 : x = Append(q, r)[j]
  BY <1>1, <1>2 DEF Members
<1>4. \A x : x \in Members(m) <=> \E j \in 1 .. Len(q) : x = q[j]
  BY DEF Members
<1>5. \A j \in 1 .. Len(q) + 1 : j \in 1 .. Len(q) \/ j = Len(q) + 1
  BY <1>2
<1>6. \A j \in 1 .. Len(q) : j \in 1 .. Len(q) + 1
  BY <1>2
<1>7. Len(q) + 1 \in 1 .. Len(q) + 1
  BY <1>2
<1> HIDE DEF q
<1>8. \A x : x \in Members(n) <=> x \in Members(m) \/ x = r
  BY <1>2, <1>3, <1>4, <1>5, <1>6, <1>7
<1> QED  BY <1>2, <1>8 DEF n, q

\* Two fresh resources found a bridge.
LEMMA NewBridgeKeepsInv ==
  ASSUME RegistryInv, NEW src \in Resource, NEW dest \in Resource,
         ResourceToBridgeIndex[src] = 0, ResourceToBridgeIndex[dest] = 0,
         NextBridgeIndex <= MaxBridgeIndex, NewBridge(src, dest),
         linked' = IF reset # {} THEN linked ELSE linked \cup {{src, dest}},
         UNCHANGED reset
  PROVE  RegistryInv'
<1> DEFINE i == NextBridgeIndex
           m == [resource_ids |-> <<src, dest>>, info |-> Default]
<1>1. i \in Nat /\ i >= 1 /\ i \in Index /\ NextBridgeIndex' = i + 1
  BY RegistryAssumption DEF RegistryInv, RegistryTypeOK, Index, NewBridge
<1>2. /\ m \in Metadata /\ Len(m.resource_ids) = 2
      /\ Members(m) = {src, dest}
  BY RegistryAssumption DEF Metadata, Members
<1>3. Assigns({src, dest}, i)
  <2>1. ResourceToBridgeIndex \in [Resource -> Index]
    BY DEF RegistryInv, RegistryTypeOK
  <2>2. ResourceToBridgeIndex' =
          [r \in Resource |-> IF r \in {src, dest} THEN i
                             ELSE ResourceToBridgeIndex[r]]
    BY <2>1, Zenon DEF NewBridge
  <2>3. i # 0
    BY <1>1
  <2> HIDE DEF i, m
  <2> QED  BY <1>1, <2>2, <2>3 DEF Assigns
<1>4. /\ DOMAIN Bridges' = DOMAIN Bridges \cup {i}
      /\ Bridges'[i] = m
      /\ \A j \in DOMAIN Bridges : j # i => Bridges'[j] = Bridges[j]
  BY DEF NewBridge, Put
<1> HIDE DEF i, m
<1>5. RegistryTypeOK'
  <2>1. NextBridgeIndex' \in 1 .. MaxBridgeIndex + 1
    BY <1>1, RegistryAssumption DEF i
  <2>2. ResourceToBridgeIndex' \in [Resource -> Index]
    BY <1>3 DEF Assigns, RegistryInv, RegistryTypeOK
  <2>3. DOMAIN Bridges' \subseteq Index
    BY <1>1, <1>4 DEF RegistryInv, RegistryTypeOK
  <2>4. \A j \in DOMAIN Bridges' :
          Bridges'[j] \in Metadata /\ Len(Bridges'[j].resource_ids) <= MaxResources
    BY <1>2, <1>4, RegistryAssumption, Zenon DEF RegistryInv, RegistryTypeOK
  <2>5. linked' \subseteq SUBSET Resource /\ reset' \subseteq Resource
    BY DEF RegistryInv, RegistryTypeOK
  <2> QED  BY <2>1, <2>2, <2>3, <2>4, <2>5 DEF RegistryTypeOK
<1>6. LinkedShare'
  <2>1. 0 \in DOMAIN Bridges' => Bridges'[0].resource_ids = << >>
    BY <1>1, <1>4 DEF RegistryInv, LinkedShare
  <2> QED  BY <1>3, <2>1, AssignKeepsLinked
<1>7. \A r \in Resource : reset = {} => ResourceToBridgeIndex[r] < i \/ ResourceToBridgeIndex[r] = 0
  BY DEF i, RegistryInv, MapsAgree
<1>8. MapsAgree'
  <2>1. \A j \in DOMAIN Bridges : \A r \in Members(Bridges[j]) \ reset :
          r \notin {src, dest}
    <3> SUFFICES ASSUME NEW j \in DOMAIN Bridges,
                        NEW r \in Members(Bridges[j]), r \notin reset,
                        r \in {src, dest}
                 PROVE  FALSE
      OBVIOUS
    <3>1. j = 0
      BY DEF RegistryInv, MapsAgree
    <3> QED  BY <3>1 DEF RegistryInv, LinkedShare, Members
  <2>2. ASSUME NEW j \in DOMAIN Bridges', NEW r \in Members(Bridges'[j]) \ reset'
        PROVE  ResourceToBridgeIndex'[r] = j
    <3>1. CASE j = i
      BY <1>2, <1>3, <1>4, <3>1, <2>2 DEF Assigns
    <3>2. CASE j # i
      <4>1. /\ j \in DOMAIN Bridges /\ r \in Members(Bridges[j]) \ reset
            /\ ResourceToBridgeIndex[r] = j
        BY <1>4, <3>2 DEF RegistryInv, MapsAgree, Members
      <4>2. r \in Resource
        BY <4>1 DEF RegistryInv, RegistryTypeOK, Metadata, Members
      <4> QED  BY <4>1, <4>2, <2>1, <1>3 DEF Assigns
    <3> QED  BY <3>1, <3>2
  <2>3. ASSUME reset' = {}, NEW r \in Resource, ResourceToBridgeIndex'[r] # 0
        PROVE  LET j == ResourceToBridgeIndex'[r]
               IN  /\ j < NextBridgeIndex'
                   /\ j \in DOMAIN Bridges'
                   /\ \/ r \in Members(Bridges'[j])
                      \/ Len(Bridges'[j].resource_ids) = MaxResources
    <3>1. CASE r \in {src, dest}
      <4>1. ResourceToBridgeIndex'[r] = i
        BY <1>3, <3>1 DEF Assigns
      <4> QED  BY <1>1, <1>2, <1>4, <3>1, <4>1
    <3>2. CASE r \notin {src, dest}
      <4> DEFINE j == ResourceToBridgeIndex[r]
      <4>1. ResourceToBridgeIndex'[r] = j /\ j # 0
        BY <1>3, <3>2, <2>3 DEF Assigns
      <4>2. /\ j < i /\ j \in DOMAIN Bridges /\ j \in Nat
            /\ \/ r \in Members(Bridges[j])
               \/ Len(Bridges[j].resource_ids) = MaxResources
        BY <2>3, <4>1 DEF i, RegistryInv, MapsAgree, RegistryTypeOK, Index
      <4> HIDE DEF j
      <4>3. j # i /\ j < i + 1
        BY <1>1, <4>2
      <4> QED  BY <1>1, <1>4, <4>1, <4>2, <4>3 DEF Members
    <3> QED  BY <3>1, <3>2
  <2> QED  BY <2>2, <2>3 DEF MapsAgree
<1>9. \A r \in Resource : reset = {} => ResourceToBridgeIndex[r] # i
  BY <1>1, <1>7 DEF RegistryInv, RegistryTypeOK, Index
<1>10. BridgesAreComponents'
  <2>1. Links(src, dest, {src, dest}, i)
    BY <1>3, <1>9 DEF Links
  <2> QED  BY <1>5, <1>6, <2>1, AssignKeepsComponents
<1> QED  BY <1>5, <1>6, <1>8, <1>10 DEF RegistryInv

\* A fresh resource joins the bridge of another one, other.
LEMMA JoinBridgeKeepsInv ==
  ASSUME RegistryInv, NEW r \in Resource, NEW other \in Resource,
         ResourceToBridgeIndex[r] = 0, ResourceToBridgeIndex[other] # 0,
         JoinBridge(r, ResourceToBridgeIndex[other]),
         linked' = IF reset # {} THEN linked ELSE linked \cup {{r, other}},
         UNCHANGED reset
  PROVE  RegistryInv'
<1> DEFINE i == ResourceToBridgeIndex[other]
<1>1. i \in Index /\ i # 0 /\ Assigns({r}, i) /\ UNCHANGED NextBridgeIndex
  BY Zenon DEF Assigns, JoinBridge, RegistryInv, RegistryTypeOK
<1>2. \/ UNCHANGED Bridges /\ (i \in DOMAIN Bridges =>
                               Len(Bridges[i].resource_ids) >= MaxResources)
      \/ /\ i \in DOMAIN Bridges /\ Len(Bridges[i].resource_ids) < MaxResources
         /\ Bridges' = [Bridges EXCEPT ![i].resource_ids = Append(@, r)]
  BY DEF JoinBridge
<1> HIDE DEF i
<1>3. \A j \in DOMAIN Bridges : Bridges[j] \in Metadata
  BY DEF RegistryInv, RegistryTypeOK
<1>4. /\ DOMAIN Bridges' = DOMAIN Bridges
      /\ \A j \in DOMAIN Bridges : j # i => Bridges'[j] = Bridges[j]
  BY <1>2
<1>5. \A j \in DOMAIN Bridges :
        /\ Bridges'[j] \in Metadata
        /\ Len(Bridges'[j].resource_ids) <= MaxResources
        /\ Members(Bridges[j]) \subseteq Members(Bridges'[j])
        /\ Members(Bridges'[j]) \subseteq Members(Bridges[j]) \cup {r}
        /\ Len(Bridges[j].resource_ids) = MaxResources
             => Len(Bridges'[j].resource_ids) = MaxResources
        /\ j = i => \/ r \in Members(Bridges'[j])
                    \/ Len(Bridges'[j].resource_ids) = MaxResources
        /\ j # i => Members(Bridges'[j]) = Members(Bridges[j])
  <2> SUFFICES ASSUME NEW j \in DOMAIN Bridges
               PROVE  /\ Bridges'[j] \in Metadata
                      /\ Len(Bridges'[j].resource_ids) <= MaxResources
                      /\ Members(Bridges[j]) \subseteq Members(Bridges'[j])
                      /\ Members(Bridges'[j]) \subseteq Members(Bridges[j]) \cup {r}
                      /\ Len(Bridges[j].resource_ids) = MaxResources
                           => Len(Bridges'[j].resource_ids) = MaxResources
                      /\ j = i => \/ r \in Members(Bridges'[j])
                                  \/ Len(Bridges'[j].resource_ids) = MaxResources
                      /\ j # i => Members(Bridges'[j]) = Members(Bridges[j])
    OBVIOUS
  <2>1. Bridges[j] \in Metadata /\ Len(Bridges[j].resource_ids) \in Nat
        /\ Len(Bridges[j].resource_ids) <= MaxResources /\ MaxResources \in Nat
    BY RegistryAssumption DEF RegistryInv, RegistryTypeOK, Metadata
  <2>2. CASE Bridges'[j] = Bridges[j] /\ (j # i \/ Len(Bridges[j].resource_ids) >= MaxResources)
    BY <2>1, <2>2 DEF Members
  <2>3. CASE /\ j = i /\ Len(Bridges[i].resource_ids) < MaxResources
             /\ Bridges' = [Bridges EXCEPT ![i].resource_ids = Append(@, r)]
    <3> DEFINE m == Bridges[j]
    <3>1. Bridges'[j] = [m EXCEPT !.resource_ids = Append(@, r)]
      BY <2>3
    <3>2. Bridges'[j].resource_ids = Append(m.resource_ids, r)
      BY <3>1, <2>1 DEF Metadata
    <3>3. /\ Append(m.resource_ids, r) \in Seq(Resource)
          /\ Len(Append(m.resource_ids, r)) = Len(m.resource_ids) + 1
          /\ Members([m EXCEPT !.resource_ids = Append(@, r)])
               = Members(m) \cup {r}
      BY <2>1, MembersOfAppend
    <3>4. Bridges'[j] \in Metadata
      BY <2>1, <3>1, <3>3, Zenon DEF Metadata
    <3>5. Len(Bridges'[j].resource_ids) <= MaxResources
          /\ Len(Bridges[j].resource_ids) # MaxResources
      BY <2>1, <2>3, <3>2, <3>3
    <3>6. Members(Bridges'[j]) = Members(Bridges[j]) \cup {r}
      BY <3>1, <3>3
    <3> QED  BY <2>3, <3>4, <3>5, <3>6, Zenon
  <2> QED  BY <1>2, <1>4, <2>2, <2>3
<1>6. RegistryTypeOK'
  <2>1. ResourceToBridgeIndex' \in [Resource -> Index]
    BY <1>1 DEF Assigns, RegistryInv, RegistryTypeOK
  <2> QED  BY <1>1, <1>4, <1>5, <2>1 DEF RegistryInv, RegistryTypeOK
<1>7. LinkedShare'
  <2>1. 0 \in DOMAIN Bridges' => Bridges'[0].resource_ids = << >>
    BY <1>1, <1>4 DEF RegistryInv, LinkedShare
  <2> QED  BY <1>1, <2>1, AssignKeepsLinked DEF i
<1>8. MapsAgree'
  <2>1. ASSUME NEW j \in DOMAIN Bridges', NEW x \in Members(Bridges'[j]) \ reset'
        PROVE  ResourceToBridgeIndex'[x] = j
    <3>1. CASE x = r
      <4>1. CASE r \in Members(Bridges[j])
        <5>1. j = 0
          BY <1>4, <2>1, <3>1, <4>1 DEF RegistryInv, MapsAgree
        <5> QED  BY <1>4, <4>1, <5>1 DEF RegistryInv, LinkedShare, Members
      <4>2. CASE r \notin Members(Bridges[j])
        <5>1. j = i
          BY <1>4, <1>5, <2>1, <3>1, <4>2
        <5> QED  BY <1>1, <3>1, <5>1 DEF Assigns
      <4> QED  BY <4>1, <4>2
    <3>2. CASE x # r
      <4>1. j \in DOMAIN Bridges /\ x \in Members(Bridges[j]) \ reset
        BY <1>4, <1>5, <2>1, <3>2
      <4>2. x \in Resource /\ ResourceToBridgeIndex[x] = j
        BY <4>1 DEF RegistryInv, RegistryTypeOK, MapsAgree, Metadata, Members
      <4> QED  BY <1>1, <3>2, <4>2 DEF Assigns
    <3> QED  BY <3>1, <3>2
  <2>2. ASSUME reset' = {}, NEW x \in Resource, ResourceToBridgeIndex'[x] # 0
        PROVE  LET j == ResourceToBridgeIndex'[x]
               IN  /\ j < NextBridgeIndex'
                   /\ j \in DOMAIN Bridges'
                   /\ \/ x \in Members(Bridges'[j])
                      \/ Len(Bridges'[j].resource_ids) = MaxResources
    <3>1. i < NextBridgeIndex /\ i \in DOMAIN Bridges
      BY <1>1, <2>2 DEF i, RegistryInv, MapsAgree
    <3>2. CASE x = r
      <4>1. ResourceToBridgeIndex'[x] = i
        BY <1>1, <3>2 DEF Assigns
      <4> QED  BY <1>1, <1>4, <1>5, <3>1, <3>2, <4>1
    <3>3. CASE x # r
      <4> DEFINE j == ResourceToBridgeIndex[x]
      <4>1. ResourceToBridgeIndex'[x] = j /\ j # 0
        BY <1>1, <2>2, <3>3 DEF Assigns
      <4>2. /\ j < NextBridgeIndex /\ j \in DOMAIN Bridges
            /\ \/ x \in Members(Bridges[j])
               \/ Len(Bridges[j].resource_ids) = MaxResources
        BY <2>2, <4>1 DEF RegistryInv, MapsAgree
      <4> HIDE DEF j
      <4> QED  BY <1>1, <1>4, <1>5, <4>1, <4>2
    <3> QED  BY <3>2, <3>3
  <2> QED  BY <2>1, <2>2 DEF MapsAgree
<1>9. BridgesAreComponents'
  <2>1. Links(r, other, {r}, i)
    BY <1>1 DEF i, Links
  <2> QED  BY <1>6, <1>7, <2>1, AssignKeepsComponents
<1> QED  BY <1>6, <1>7, <1>8, <1>9 DEF RegistryInv

\* The invariant does not speak of the result.
LEMMA SameKeepsInv ==
  ASSUME RegistryInv, UNCHANGED <<storage, linked, reset>>
  PROVE  RegistryInv'
<1> USE DEF storage
<1>1. RegistryTypeOK'
  BY DEF RegistryInv, RegistryTypeOK
<1>2. MapsAgree'
  BY DEF RegistryInv, MapsAgree, Members
<1>3. LinkedShare'
  BY DEF RegistryInv, LinkedShare
<1>4. BridgesAreComponents'
  <2>1. \A r, s \in Resource : Connected(r, s)' <=> Connected(r, s)
    BY DEF Connected
  <2> QED  BY <2>1 DEF RegistryInv, BridgesAreComponents
<1> QED  BY <1>1, <1>2, <1>3, <1>4 DEF RegistryInv

\* Every call keeps the invariant.
LEMMA RegistryKeepsInv == RegistryInv /\ [RegistryNext]_registryVars => RegistryInv'
<1> SUFFICES ASSUME RegistryInv, [RegistryNext]_registryVars PROVE RegistryInv'
  OBVIOUS
<1>1. ASSUME NEW i \in Index, NEW info \in Info, set_metadata(i, info)
      PROVE  RegistryInv'
  <2> DEFINE old == IF i \in DOMAIN Bridges
                    THEN Bridges[i].resource_ids ELSE << >>
             m == [resource_ids |-> old, info |-> info]
  <2>1. /\ DOMAIN Bridges' = DOMAIN Bridges \cup {i}
        /\ Bridges'[i] = m
        /\ \A j \in DOMAIN Bridges : j # i => Bridges'[j] = Bridges[j]
        /\ UNCHANGED <<NextBridgeIndex, ResourceToBridgeIndex, linked, reset>>
    BY <1>1 DEF set_metadata, Put
  <2>2. /\ old \in Seq(Resource) /\ Len(old) <= MaxResources
        /\ i \in DOMAIN Bridges => old = Bridges[i].resource_ids
        /\ i \notin DOMAIN Bridges => old = << >>
    BY RegistryAssumption DEF RegistryInv, RegistryTypeOK, Metadata
  <2> HIDE DEF old
  <2>3. m \in Metadata /\ m.resource_ids = old
    BY <2>2 DEF Metadata
  <2> HIDE DEF m
  <2>4. \A j \in DOMAIN Bridges' :
          /\ Bridges'[j] \in Metadata
          /\ Len(Bridges'[j].resource_ids) <= MaxResources
          /\ j \in DOMAIN Bridges
               => Bridges'[j].resource_ids = Bridges[j].resource_ids
          /\ j \notin DOMAIN Bridges => Bridges'[j].resource_ids = << >>
    BY <2>1, <2>2, <2>3 DEF RegistryInv, RegistryTypeOK
  <2>5. RegistryTypeOK'
    BY <2>1, <2>4 DEF RegistryInv, RegistryTypeOK
  <2>6. \A j \in DOMAIN Bridges' :
          /\ j \in DOMAIN Bridges => Members(Bridges'[j]) = Members(Bridges[j])
          /\ j \notin DOMAIN Bridges => Members(Bridges'[j]) = {}
    BY <2>4 DEF Members
  <2>7. MapsAgree'
    BY <2>1, <2>4, <2>6 DEF RegistryInv, MapsAgree
  <2>8. LinkedShare'
    BY <2>1, <2>4 DEF RegistryInv, LinkedShare
  <2>9. BridgesAreComponents'
    BY <2>1 DEF RegistryInv, BridgesAreComponents, Connected
  <2> QED  BY <2>5, <2>7, <2>8, <2>9 DEF RegistryInv
<1>2. ASSUME NEW rids \in (SUBSET Resource) \ {{}}, NEW i \in Index,
             force_reset_indices(rids, i)
      PROVE  RegistryInv'
  <2>1. /\ ResourceToBridgeIndex' =
             [r \in Resource |-> IF r \in rids THEN i
                                ELSE ResourceToBridgeIndex[r]]
        /\ reset' = reset \cup rids /\ linked' = {}
        /\ UNCHANGED <<NextBridgeIndex, Bridges>>
    BY <1>2 DEF force_reset_indices
  <2>2. RegistryTypeOK'
    BY <2>1 DEF RegistryInv, RegistryTypeOK
  <2>3. reset' # {}
    BY <2>1
  <2>4. MapsAgree'
    <3>1. \A j \in DOMAIN Bridges : Members(Bridges[j]) \subseteq Resource
      BY DEF RegistryInv, RegistryTypeOK, Metadata, Members
    <3> QED  BY <2>1, <2>3, <3>1 DEF RegistryInv, MapsAgree, Members
  <2>5. LinkedShare'
    BY <2>1 DEF RegistryInv, LinkedShare
  <2>6. BridgesAreComponents'
    BY <2>3 DEF BridgesAreComponents
  <2> QED  BY <2>2, <2>4, <2>5, <2>6 DEF RegistryInv
<1>3. ASSUME NEW src \in Resource, NEW dest \in Resource,
             on_signed_proposal(src, dest)
      PROVE  RegistryInv'
  <2> DEFINE s == ResourceToBridgeIndex[src]
             d == ResourceToBridgeIndex[dest]
             grown == IF reset # {} THEN linked ELSE linked \cup {{src, dest}}
  <2>1. CASE s = 0 /\ d = 0
    <3>1. /\ NextBridgeIndex <= MaxBridgeIndex /\ NewBridge(src, dest)
          /\ linked' = grown /\ UNCHANGED reset
      BY <1>3, <2>1 DEF on_signed_proposal, NewBridge
    <3> QED  BY <2>1, <3>1, NewBridgeKeepsInv, Zenon
  <2>2. CASE s = 0 /\ d # 0
    <3>1. JoinBridge(src, d) /\ linked' = grown /\ UNCHANGED reset
      BY <1>3, <2>2 DEF on_signed_proposal, JoinBridge
    <3> QED  BY <2>2, <3>1, JoinBridgeKeepsInv
  <2>3. CASE s # 0 /\ d = 0
    <3>1. JoinBridge(dest, s) /\ linked' = grown /\ UNCHANGED reset
      BY <1>3, <2>3 DEF on_signed_proposal, JoinBridge
    <3>2. {src, dest} = {dest, src}
      OBVIOUS
    <3> QED  BY <2>3, <3>1, <3>2, JoinBridgeKeepsInv, Zenon
  <2>4. CASE s # 0 /\ d # 0 /\ s = d
    <3>1. UNCHANGED <<storage, reset>> /\ linked' = grown
      BY <1>3, <2>4 DEF on_signed_proposal, BothAssigned
    <3>2. RegistryTypeOK' /\ MapsAgree'
      BY <3>1 DEF RegistryInv, RegistryTypeOK, MapsAgree, Members, storage
    <3> DEFINE new == {}
    <3>3. Assigns(new, s)
      BY <2>4, <3>1 DEF Assigns, RegistryInv, RegistryTypeOK, storage
    <3>4. /\ 0 \in DOMAIN Bridges' => Bridges'[0].resource_ids = << >>
          /\ \A r \in {src, dest} : r \in new \/ ResourceToBridgeIndex[r] = s
      BY <2>4, <3>1 DEF RegistryInv, LinkedShare, storage
    <3> HIDE DEF new, s
    <3>5. LinkedShare'
      BY <3>1, <3>3, <3>4, AssignKeepsLinked
    <3>6. Links(src, dest, new, s)
      BY <2>4, <3>1, <3>3, <3>4 DEF Links, new, s
    <3>7. BridgesAreComponents'
      BY <3>2, <3>5, <3>6, AssignKeepsComponents
    <3> QED  BY <3>2, <3>5, <3>7 DEF RegistryInv
  <2>5. CASE s # 0 /\ d # 0 /\ s # d
    <3>1. UNCHANGED <<storage, linked, reset>>
      BY <1>3, <2>5 DEF on_signed_proposal, BothAssigned
    <3> QED  BY <3>1, SameKeepsInv
  <2> QED  BY <2>1, <2>2, <2>3, <2>4, <2>5
<1>4. CASE UNCHANGED registryVars
  BY <1>4, SameKeepsInv DEF registryVars
<1> QED  BY <1>1, <1>2, <1>3, <1>4 DEF RegistryNext

\* The invariant holds in every state.
THEOREM RegistryInvariance == RegistrySpec => []RegistryInv
<1>1. RegistryInit => RegistryInv
  BY RegistryAssumption
     DEF RegistryInit, RegistryInv, RegistryTypeOK, MapsAgree, LinkedShare, BridgesAreComponents, Index
<1> QED  BY <1>1, RegistryKeepsInv, PTL DEF RegistrySpec

\* Storage keeps its types and a bridge keeps to its bound.
THEOREM RegistryTypes == RegistrySpec => []RegistryTypeOK
<1>1. RegistryInv => RegistryTypeOK
  BY DEF RegistryInv
<1> QED  BY <1>1, RegistryInvariance, PTL

\* Bridges and ResourceToBridgeIndex agree (on_signed_proposal).
THEOREM RegistryConsistent == RegistrySpec => []MapsAgree
<1>1. RegistryInv => MapsAgree
  BY DEF RegistryInv
<1> QED  BY <1>1, RegistryInvariance, PTL

\* Bridges are the connected components of the updates.
THEOREM BridgesFromUpdates == RegistrySpec => []BridgesAreComponents
<1>1. RegistryInv => BridgesAreComponents
  BY DEF RegistryInv
<1> QED  BY <1>1, RegistryInvariance, PTL

\* Updates never move a resource from one bridge to another.
THEOREM NeverMoved == RegistrySpec => AssignedStays
<1>1. ASSUME RegistryInv, [RegistryNext]_registryVars, NEW r \in Resource
      PROVE  \/ ResourceToBridgeIndex[r] = 0
             \/ ResourceToBridgeIndex'[r] = ResourceToBridgeIndex[r]
             \/ r \in reset'
  <2>1. ASSUME NEW rids \in SUBSET Resource, NEW i, force_reset_indices(rids, i)
        PROVE  ResourceToBridgeIndex'[r] = ResourceToBridgeIndex[r]
                 \/ r \in reset'
    BY <2>1 DEF force_reset_indices
  <2>2. ASSUME NEW src \in Resource, NEW dest \in Resource,
               on_signed_proposal(src, dest)
        PROVE  \/ ResourceToBridgeIndex[r] = 0
               \/ ResourceToBridgeIndex'[r] = ResourceToBridgeIndex[r]
    BY <1>1, <2>2 DEF on_signed_proposal, NewBridge, JoinBridge, BothAssigned,
       storage, RegistryInv, RegistryTypeOK
  <2> QED
    BY <1>1, <2>1, <2>2, Zenon DEF RegistryNext, set_metadata, registryVars,
           storage
<1>2. RegistryInv /\ [RegistryNext]_registryVars =>
        [\A r \in Resource :
           \/ ResourceToBridgeIndex[r] = 0
           \/ ResourceToBridgeIndex'[r] = ResourceToBridgeIndex[r]
           \/ r \in reset']_registryVars
  BY <1>1
<1> QED  BY <1>2, RegistryInvariance, PTL DEF RegistrySpec, AssignedStays
=============================================================================

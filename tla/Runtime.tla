------------------------------ MODULE Runtime ------------------------------
(***************************************************************************)
(* The pallets as the runtime wires them (standalone/runtime/src/lib.rs):  *)
(* what the proposals pallet approves goes to the proposal handler in the  *)
(* same call, a batch that the handler accepts goes to the bridge registry *)
(* and to the metadata pallet, one proposal after the other, and the end   *)
(* of a session changes the proposers and, if the next key is signed, the  *)
(* key that batches must be signed with.                                   *)
(*                                                                         *)
(* The metadata pallet is the part of it that the others see.  Offences,   *)
(* and root's calls of the registry, are left to the modules of these.     *)
(***************************************************************************)
EXTENDS DKGProposals, Sequences

CONSTANTS
  Refresh,                \* key -> the refresh proposal to its successor
  Courses,                \* who acts, in each of the instances
  Link,                   \* anchor update -> <<source, target>>
  HandlerChainOf, NoChain, None,
  Authorities, MaxProposalsPerBatch, UnsignedProposalExpiry, MaxBatchId,
  MaxKey, MaxSubmissions,
  Resource, Info, Default, MaxResources, MaxBridgeIndex

VARIABLES
  \* of the proposal handler
  UnsignedProposals, UnsignedProposalQueue, NextBatchId, SignedProposals,
  offences, dkgKey, signing_jobs, offchain, pool, submitted, dropped,
  \* of the bridge registry
  NextBridgeIndex, Bridges, ResourceToBridgeIndex, result, linked, reset,
  \* of the metadata pallet
  RefreshInProgress, NextPublicKeySignature,
  \* the call being executed: signed proposals still to be handed on
  calling,
  \* a member of Courses
  course

Refreshes == {Refresh[k] : k \in DOMAIN Refresh}

Handler == INSTANCE ProposalHandler WITH
             Proposal <- Proposal \cup Refreshes, Refresh <- Refreshes,
             ChainOf <- HandlerChainOf, Chain <- Chain \cup {NoChain}
Registry == INSTANCE BridgeRegistry

votingVars == vars
handlerVars == <<UnsignedProposals, UnsignedProposalQueue, NextBatchId,
                 SignedProposals, offences, dkgKey, signing_jobs, offchain,
                 pool, submitted, dropped>>
registryVars == <<NextBridgeIndex, Bridges, ResourceToBridgeIndex, result,
                  linked, reset>>
metadataVars == <<RefreshInProgress, NextPublicKeySignature>>
runtimeVars == <<votingVars, handlerVars, registryVars, metadataVars, calling,
                 course>>
voting == <<config, electorate, ballot>>

RuntimeInit ==
  /\ Init
  /\ Handler!Init
  /\ Registry!RegistryInit
  /\ RefreshInProgress = FALSE /\ NextPublicKeySignature = FALSE
  /\ calling = << >>
  /\ course \in Courses
-----------------------------------------------------------------------------
(* Proposals pallet *)

\* finalize_execution: the handler is called in the call that approves, and
\* its error undoes that call.
Vote ==
  /\ Voting
  /\ DOMAIN Votes' \subseteq course.voted
  /\ \A p \in DOMAIN Votes' :
       Votes'[p].votes_for \cup Votes'[p].votes_against \subseteq course.voters
  /\ \/ handled' = handled /\ UNCHANGED handlerVars
     \/ \E p \in Proposal : /\ handled'[p] # handled[p]
                            /\ Handler!handle_unsigned_proposal(p)
  /\ UNCHANGED <<registryVars, metadataVars, calling, course>>

Administer ==
  /\ course.admin
  /\ Admin
  /\ UNCHANGED <<handlerVars, registryVars, metadataVars, calling, course>>
-----------------------------------------------------------------------------
(* Metadata pallet *)

\* on_initialize, with a next key: the same proposal as before, if a session
\* ended since.
do_refresh ==
  /\ course.signing
  /\ dkgKey \in DOMAIN Refresh
  /\ ~NextPublicKeySignature /\ ~RefreshInProgress
  /\ Handler!handle_unsigned_proposal(Refresh[dkgKey])
  /\ RefreshInProgress' = TRUE
  /\ UNCHANGED <<voting, registryVars, NextPublicKeySignature, calling, course>>

\* At the end of a session the proposers change, the key only if its successor
\* is signed.
change_authorities(S) ==
  /\ on_authority_set_changed(S)
  /\ RefreshInProgress' = FALSE
  /\ NextPublicKeySignature' = FALSE
  /\ IF NextPublicKeySignature THEN Handler!RotateKey ELSE UNCHANGED handlerVars
  /\ UNCHANGED <<registryVars, calling, course>>
-----------------------------------------------------------------------------
(* Proposal handler *)

\* Calls and steps of the handler and of its nodes that end there.
HandlerAlone ==
  /\ \/ \E p \in course.forced : Handler!force_submit_unsigned_proposal(p)
     \/ \E k \in DOMAIN UnsignedProposalQueue :
          \/ Handler!force_remove_unsigned_proposal_batch(k[1], k[2])
          \/ course.signing /\ Handler!StartSigning(k)
     \/ \E n \in Handler!Node :
          \/ \E batch \in signing_jobs : Handler!SaveSigned(n, batch)
          \/ Handler!submit_signed_proposal_onchain(n)
     \/ \E made \in SUBSET DOMAIN UnsignedProposals :
          \E ids \in Handler!BatchesFor(made),
             removed \in SUBSET Handler!Expired :
               Handler!EndBlock(made, ids, removed)
  /\ UNCHANGED <<voting, registryVars, metadataVars, calling, course>>

\* Mutant: the proposals are handed on without the batch being accepted.
HandOnAnyway(tx) ==
  /\ Handler!submit_signed_proposals(tx)
  /\ calling' = tx.batch.proposals
  /\ UNCHANGED <<voting, registryVars, metadataVars, course>>

\* The proposals of an accepted batch are then handed on in their order.
submit_signed_proposals(tx) ==
  LET key == <<HandlerChainOf[Head(tx.batch.proposals)], tx.batch.batch_id>>
  IN  /\ Handler!submit_signed_proposals(tx)
      /\ calling' = IF key \in DOMAIN SignedProposals' \ DOMAIN SignedProposals
                    THEN tx.batch.proposals ELSE << >>
      /\ UNCHANGED <<voting, registryVars, metadataVars, course>>

\* OnSignedProposal for (BridgeRegistry, DKG): each looks at its own kind.  The
\* results are ignored.
on_signed_proposal ==
  LET prop == Head(calling)
  IN  /\ calling' = Tail(calling)
      /\ IF prop \in DOMAIN Link
         THEN Registry!on_signed_proposal(Link[prop][1], Link[prop][2])
         ELSE UNCHANGED registryVars
      /\ NextPublicKeySignature' =
           \/ NextPublicKeySignature
           \/ dkgKey \in DOMAIN Refresh /\ prop = Refresh[dkgKey]
      /\ UNCHANGED <<votingVars, handlerVars, RefreshInProgress, course>>
-----------------------------------------------------------------------------
RuntimeHorizon == block = MaxBlock /\ UNCHANGED runtimeVars

RuntimeNext ==
  \/ /\ calling = << >>
     /\ \/ Vote \/ Administer
        \/ do_refresh \/ \E S \in course.sets : change_authorities(S)
        \/ HandlerAlone \/ \E tx \in pool : submit_signed_proposals(tx)
        \/ RuntimeHorizon
  \/ calling # << >> /\ on_signed_proposal

RuntimeSpec == RuntimeInit /\ [][RuntimeNext]_runtimeVars
-----------------------------------------------------------------------------
(* Properties *)

\* How often a proposal is in the sequences of a map.
Times(p, map) ==
  Cardinality({at \in (DOMAIN map) \X (1 .. MaxProposalsPerBatch) :
                 /\ at[2] \in DOMAIN map[at[1]]
                 /\ map[at[1]][at[2]] = p})

Lifecycle == INSTANCE ProposalLifecycle WITH
  Proposal <- Proposal \cup Refreshes,
  Voted <- Proposal,
  Link <- [p \in DOMAIN Link |-> {Link[p][1], Link[p][2]}],
  verdict <- [p \in Proposal |->
                CASE VotesOf(p).status = "Initiated" -> "open"
                  [] VotesOf(p).status = "Approved" -> "approved"
                  [] VotesOf(p).status = "Rejected" -> "rejected"],
  waiting <- [p \in Proposal \cup Refreshes |->
                Times(p, UnsignedProposals)
                + Times(p, [k \in DOMAIN UnsignedProposalQueue |->
                              UnsignedProposalQueue[k].proposals])],
  signed <- [p \in Proposal \cup Refreshes |->
               Times(p, [k \in DOMAIN SignedProposals |->
                           SignedProposals[k].proposals])],
  bridged <- linked

\* The pallets together keep the promise of ProposalLifecycle: one decision for
\* each proposal, one way out for each time it was let in (staged, batched,
\* signed, expired, purged or removed), no bridge from anything unsigned.
KeepsLifecycle == Lifecycle!Spec
=============================================================================

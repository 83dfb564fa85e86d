-------------------------- MODULE ProposalHandler --------------------------
(***************************************************************************)
(* pallet-dkg-proposal-handler (pallets/dkg-proposal-handler/src): staged  *)
(* proposals become batches, batches are signed by the nodes, and the      *)
(* offchain workers bring the signed batches back on chain.                *)
(*                                                                         *)
(* A proposal is a model value with the chain and the kind that decoding   *)
(* gives it.  The data of a batch is its sequence of proposals.  A key is  *)
(* the number of the DKG that holds it.  A dispatch error rolls the call   *)
(* back.  Weights limit what on_idle does: it may stop after any part.     *)
(***************************************************************************)
EXTENDS Integers, FiniteSets, Sequences, FiniteSetsExt

CONSTANTS
  Proposal,
  Chain,                  \* typed chain ids
  ChainOf,                \* decode_proposal_identifier(..).typed_chain_id
  Refresh,                \* the proposals of kind Refresh
  None,
  Authorities,            \* CurrentAuthoritiesAccounts, in their order
  MaxProposalsPerBatch,
  UnsignedProposalExpiry,
  MaxBatchId,             \* largest value of BatchId
  MaxBlock, MaxKey, MaxSubmissions  \* bounds of the model

ASSUME HandlerAssumption ==
  /\ IsFiniteSet(Chain)
  /\ ChainOf \in [Proposal -> Chain]
  /\ Refresh \subseteq Proposal
  /\ Authorities \in Seq(Nat) /\ Len(Authorities) > 0
  /\ MaxProposalsPerBatch \in Nat \ {0}
  /\ UnsignedProposalExpiry \in Nat
  /\ MaxBatchId \in Nat
  /\ MaxBlock \in Nat /\ MaxKey \in Nat /\ MaxSubmissions \in Nat

Node == {Authorities[i] : i \in 1 .. Len(Authorities)}

VARIABLES
  block,
  UnsignedProposals,      \* chain -> staged proposals, absent when empty
  UnsignedProposalQueue,  \* <<chain, batch id>> -> batch
  NextBatchId,
  SignedProposals,        \* <<chain, batch id>> -> signed batch
  offences,               \* offences reported against the validators
  dkgKey,                 \* metadata pallet: the active key
  signing_jobs,           \* nodes: signing jobs, started on a queued batch
  offchain,               \* nodes: OFFCHAIN_SIGNED_PROPOSALS of each
  pool,                   \* signed transactions not yet in a block
  submitted,              \* how often each proposal was submitted
  dropped                 \* how often it was expired, purged or removed

chainState == <<UnsignedProposals, UnsignedProposalQueue, NextBatchId,
                SignedProposals, dropped>>
nodeState == <<signing_jobs, offchain>>
vars == <<block, chainState, offences, dkgKey, nodeState, pool, submitted>>
-----------------------------------------------------------------------------
Drop(map, keys) == [k \in DOMAIN map \ keys |-> map[k]]

Put(map, k, v) ==
  [x \in DOMAIN map \cup {k} |-> IF x = k THEN v ELSE map[x]]

Occurrences(p, proposals) ==
  Cardinality({i \in 1 .. Len(proposals) : proposals[i] = p})

\* The proposals are those that decode.  The key, a kind and a nonce, tells the
\* proposals of a chain apart and stands for the proposal.
decode_proposal_identifier(prop) ==
  [key |-> prop, typed_chain_id |-> ChainOf[prop]]

HasRefresh(proposals) == \E i \in 1 .. Len(proposals) : proposals[i] \in Refresh

Staged(chain) ==
  IF chain \in DOMAIN UnsignedProposals THEN UnsignedProposals[chain]
                                        ELSE << >>

\* dropped, when these batches leave the queue without a signature.
DroppedWith(keys) ==
  [p \in Proposal |->
     dropped[p] + MapThenSumSet(
       LAMBDA k : Occurrences(p, UnsignedProposalQueue[k].proposals), keys)]

Init ==
  /\ block = 1
  /\ UnsignedProposals = [c \in {} |-> << >>]
  /\ UnsignedProposalQueue = [k \in {} |-> {}]
  /\ NextBatchId = 0
  /\ SignedProposals = [k \in {} |-> {}]
  /\ offences = {}
  /\ dkgKey = 1
  /\ signing_jobs = {}
  /\ offchain = [n \in Node |-> None]
  /\ pool = {}
  /\ submitted = [p \in Proposal |-> 0]
  /\ dropped = [p \in Proposal |-> 0]
-----------------------------------------------------------------------------
(* Unsigned proposals *)

\* Mutant: the id of a full batch is not counted.
StoreSameId(prop) ==
  LET chain == ChainOf[prop]
      staged == Staged(chain)
      full == Len(staged) = MaxProposalsPerBatch
  IN  /\ UnsignedProposalQueue' =
           IF full
           THEN Put(UnsignedProposalQueue, <<chain, NextBatchId>>,
                    [proposals |-> staged, timestamp |-> block])
           ELSE UnsignedProposalQueue
      /\ UnsignedProposals' =
           Put(UnsignedProposals, chain,
               IF full THEN <<prop>> ELSE Append(staged, prop))
      /\ UNCHANGED NextBatchId

generate_next_batch_id ==
  /\ NextBatchId < MaxBatchId
  /\ NextBatchId' = NextBatchId + 1

create_batch_and_add_to_storage(proposals, chain) ==
  /\ generate_next_batch_id
  /\ UnsignedProposalQueue' =
       Put(UnsignedProposalQueue, <<chain, NextBatchId>>,
           [proposals |-> proposals, timestamp |-> block])

\* A full staging area becomes a batch, and the proposal starts the next one.
store_unsigned_proposal(prop) ==
  LET chain == ChainOf[prop]
      staged == Staged(chain)
  IN  IF Len(staged) = MaxProposalsPerBatch
      THEN /\ create_batch_and_add_to_storage(staged, chain)
           /\ UnsignedProposals' = Put(UnsignedProposals, chain, <<prop>>)
      ELSE /\ UnsignedProposals' =
                Put(UnsignedProposals, chain, Append(staged, prop))
           /\ UNCHANGED <<UnsignedProposalQueue, NextBatchId>>

\* Called by the proposals and the metadata pallet.
handle_unsigned_proposal(prop) ==
  /\ submitted[prop] < MaxSubmissions
  /\ store_unsigned_proposal(prop)
  /\ submitted' = [submitted EXCEPT ![prop] = @ + 1]
  /\ UNCHANGED <<block, SignedProposals, dropped, offences, dkgKey,
                 nodeState, pool>>

\* Root's proposals, unsigned ones, go the same way.
force_submit_unsigned_proposal(prop) == handle_unsigned_proposal(prop)

force_remove_unsigned_proposal_batch(chain, batch_id) ==
  /\ <<chain, batch_id>> \in DOMAIN UnsignedProposalQueue
  /\ UnsignedProposalQueue' =
       Drop(UnsignedProposalQueue, {<<chain, batch_id>>})
  /\ dropped' = DroppedWith({<<chain, batch_id>>})
  /\ UNCHANGED <<block, UnsignedProposals, NextBatchId, SignedProposals,
                 offences, dkgKey, nodeState, pool, submitted>>
-----------------------------------------------------------------------------
(* on_idle, at the end of a block *)

\* on_idle_create_proposal_batches for the staged chains in made: they get the
\* next batch ids in some order.
BatchesFor(made) ==
  {ids \in [made -> NextBatchId .. NextBatchId + Cardinality(made) - 1] :
     \A c, d \in made : ids[c] = ids[d] => c = d}

\* Batches that on_idle_remove_expired_batches takes to have expired, with
\* the batches just made, which are never old enough, left out.
Expired ==
  {k \in DOMAIN UnsignedProposalQueue :
     /\ Head(UnsignedProposalQueue[k].proposals) \notin Refresh
     /\ block - UnsignedProposalQueue[k].timestamp > UnsignedProposalExpiry}

\* generate_next_batch_id succeeds for each of them.
IdsLeft(made) == NextBatchId + Cardinality(made) <= MaxBatchId

\* Weight runs out after the chains in made or, if these are all (or ids have
\* run out), after the batches in removed.
on_idle(made, ids, removed) ==
  /\ made \in SUBSET DOMAIN UnsignedProposals
  /\ IdsLeft(made)
  /\ removed \in SUBSET Expired
  /\ removed # {} => \/ made = DOMAIN UnsignedProposals
                     \/ NextBatchId + Cardinality(made) = MaxBatchId
  /\ block % 2 # 0 => made = {} /\ removed = {}
  /\ ids \in BatchesFor(made)
  /\ LET new == {<<c, ids[c]>> : c \in made}
     IN  UnsignedProposalQueue' =
           [k \in (DOMAIN UnsignedProposalQueue \ removed) \cup new |->
              IF k \in new
              THEN [proposals |-> UnsignedProposals[k[1]],
                    timestamp |-> block]
              ELSE UnsignedProposalQueue[k]]
  /\ dropped' = DroppedWith(removed)
  /\ NextBatchId' = NextBatchId + Cardinality(made)
  /\ UnsignedProposals' = Drop(UnsignedProposals, made)
  /\ UNCHANGED SignedProposals

EndBlock(made, ids, removed) ==
  /\ block < MaxBlock
  /\ on_idle(made, ids, removed)
  /\ block' = block + 1
  /\ UNCHANGED <<offences, dkgKey, nodeState, pool, submitted>>
-----------------------------------------------------------------------------
(* Signed proposals *)

ensure_signed_by_dkg(batch) == batch.signer = dkgKey

\* Mutant of SignedAccepted: the queue is not consulted.
AcceptUnqueued(batch, key) == key \notin DOMAIN SignedProposals

\* The conditions of handle_signed_proposal_batch.
SignedAccepted(batch, key) ==
  /\ key \in DOMAIN UnsignedProposalQueue
  /\ key \notin DOMAIN SignedProposals

\* The refresh batches that go with an accepted refresh; the loop looks at all
\* chains and removes under the chain of the accepted batch.
PurgedWith(batch, key) ==
  IF ~HasRefresh(batch.proposals) THEN {}
  ELSE {k \in DOMAIN UnsignedProposalQueue \ {key} :
          /\ k[1] = key[1]
          /\ \E other \in DOMAIN UnsignedProposalQueue \ {key} :
               /\ other[2] = k[2]
               /\ HasRefresh(UnsignedProposalQueue[other].proposals)}

\* The results of the signed proposal handlers are ignored.
handle_signed_proposal_batch(batch) ==
  LET key == <<ChainOf[Head(batch.proposals)], batch.batch_id>>
      purged == PurgedWith(batch, key)
  IN  /\ SignedProposals' = Put(SignedProposals, key, batch)
      /\ UnsignedProposalQueue' = Drop(UnsignedProposalQueue, {key} \cup purged)
      /\ dropped' = DroppedWith(purged)

\* A transaction carries one batch, for the nodes store one (see SaveSigned).
\* A batch signed by another key is skipped, one that is not accepted fails
\* the transaction; either way the chain is as before.
submit_signed_proposals(tx) ==
  LET key == <<ChainOf[Head(tx.batch.proposals)], tx.batch.batch_id>>
  IN  /\ tx \in pool
      /\ pool' = pool \ {tx}
      /\ IF ensure_signed_by_dkg(tx.batch) /\ SignedAccepted(tx.batch, key)
         THEN handle_signed_proposal_batch(tx.batch)
         ELSE UNCHANGED <<SignedProposals, UnsignedProposalQueue, dropped>>
      /\ UNCHANGED <<block, UnsignedProposals, NextBatchId, offences, dkgKey,
                     nodeState, submitted>>

\* Against the current validators; the result is ignored.
report_offence(type, batch) ==
  offences' = offences \cup {[type |-> type, batch |-> batch]}

\* The comparison is of identifiers, not of chains: two proposals of a chain
\* differ in their key.
submit_dkg_signing_offence(batch) ==
  LET common == decode_proposal_identifier(Head(batch.proposals))
      chain == common.typed_chain_id
      malformed == \E i \in 1 .. Len(batch.proposals) :
                     decode_proposal_identifier(batch.proposals[i]) # common
      known == \/ <<chain, batch.batch_id>> \in DOMAIN SignedProposals
               \/ \E k \in DOMAIN SignedProposals :
                    /\ k[1] = chain
                    /\ SignedProposals[k].proposals = batch.proposals
               \/ \E k \in DOMAIN UnsignedProposalQueue :
                    /\ k[1] = chain
                    /\ UnsignedProposalQueue[k].proposals = batch.proposals
  IN  /\ ensure_signed_by_dkg(batch)
      /\ malformed \/ ~known
      /\ report_offence(IF malformed THEN "SignedMalformedProposal"
                                     ELSE "SignedProposalNotInQueue", batch)
      /\ UNCHANGED <<block, chainState, dkgKey, nodeState, pool, submitted>>
-----------------------------------------------------------------------------
(* Offchain worker *)

\* The authority whose turn it is; everybody's in block 0.
get_expected_signer(n) ==
  \/ block = 0
  \/ n = Authorities[(block % Len(Authorities)) + 1]

is_not_existing_proposal_batch(batch) ==
  <<ChainOf[Head(batch.proposals)], batch.batch_id>>
    \notin DOMAIN SignedProposals

get_next_offchain_signed_proposals(n) == {offchain[n]} \ {None}

\* The stored batch stays where it is.
submit_signed_proposal_onchain(n) ==
  /\ get_expected_signer(n)
  /\ get_next_offchain_signed_proposals(n) # {}
  /\ is_not_existing_proposal_batch(offchain[n])
  /\ pool' = pool \cup {[from |-> n, batch |-> offchain[n]]}
  /\ UNCHANGED <<block, chainState, offences, dkgKey, nodeState, submitted>>
-----------------------------------------------------------------------------
(* The nodes and the metadata pallet, as this pallet sees them *)

\* A signing job starts on a batch of the queue, with the active key.
StartSigning(key) ==
  /\ key \in DOMAIN UnsignedProposalQueue
  /\ signing_jobs' = signing_jobs \cup {[batch_id |-> key[2], signer |-> dkgKey,
                         proposals |-> UnsignedProposalQueue[key].proposals]}
  /\ UNCHANGED <<block, chainState, offences, dkgKey, offchain, pool,
                 submitted>>

\* save_signed_proposals_in_storage: the list of the batches just signed, which
\* is always a single one, replaces the stored list.
SaveSigned(n, batch) ==
  /\ batch \in signing_jobs
  /\ offchain' = [offchain EXCEPT ![n] = batch]
  /\ UNCHANGED <<block, chainState, offences, dkgKey, signing_jobs, pool,
                 submitted>>

RotateKey ==
  /\ dkgKey < MaxKey
  /\ dkgKey' = dkgKey + 1
  /\ UNCHANGED <<block, chainState, offences, nodeState, pool, submitted>>
-----------------------------------------------------------------------------
\* The model ends with the last block.
Horizon == block = MaxBlock /\ UNCHANGED vars

Calls ==
  \/ \E p \in Proposal : \/ handle_unsigned_proposal(p)
                          \/ force_submit_unsigned_proposal(p)
  \/ \E k \in DOMAIN UnsignedProposalQueue :
        force_remove_unsigned_proposal_batch(k[1], k[2])
  \/ \E tx \in pool : submit_signed_proposals(tx)
  \/ \E batch \in signing_jobs : submit_dkg_signing_offence(batch)

Nodes ==
  \/ \E k \in DOMAIN UnsignedProposalQueue : StartSigning(k)
  \/ \E n \in Node : \/ \E batch \in signing_jobs : SaveSigned(n, batch)
                     \/ submit_signed_proposal_onchain(n)
  \/ RotateKey

Next ==
  \/ Calls
  \/ Nodes
  \/ \E made \in SUBSET DOMAIN UnsignedProposals :
       \E ids \in BatchesFor(made), removed \in SUBSET Expired :
          EndBlock(made, ids, removed)
  \/ Horizon

Spec == Init /\ [][Next]_vars
-----------------------------------------------------------------------------
(* Properties *)

\* A batch id is given out once: queued, signed and being signed, all ids are
\* below NextBatchId, and no two batches of any chains share one.
BatchIdsFresh ==
  /\ \A k \in DOMAIN UnsignedProposalQueue \cup DOMAIN SignedProposals :
       k[2] < NextBatchId
  /\ \A j \in signing_jobs : j.batch_id < NextBatchId
  /\ \A k, l \in DOMAIN UnsignedProposalQueue \cup DOMAIN SignedProposals :
       k[2] = l[2] => k = l

\* The inductive invariant behind the properties below: a job signs
\* what the queue holds under its id, if the queue still holds that id, and
\* whatever the nodes store or send comes from a job.
JobsMatchQueue ==
  /\ \A j \in signing_jobs : \A k \in DOMAIN UnsignedProposalQueue :
       k[2] = j.batch_id => UnsignedProposalQueue[k].proposals = j.proposals
  /\ \A n \in Node : offchain[n] # None => offchain[n] \in signing_jobs
  /\ \A tx \in pool : tx.batch \in signing_jobs

\* What is stored as signed is what was queued under its chain and id, although
\* the pallet compares neither: jobs outlive their batch's expiry or removal
\* and their results arrive late, but an id is never given out again.
SignedMatchesQueue ==
  [][\A k \in DOMAIN SignedProposals' \ DOMAIN SignedProposals :
       /\ k \in DOMAIN UnsignedProposalQueue
       /\ SignedProposals'[k].proposals = UnsignedProposalQueue[k].proposals
    ]_vars

\* A signed batch is final: it is not replaced by another node's copy or by a
\* copy signed with a later key, and it leaves the queue for good, however
\* many jobs for it are under way.
SignedStays ==
  [][\A k \in DOMAIN SignedProposals :
       /\ k \in DOMAIN SignedProposals'
       /\ SignedProposals'[k] = SignedProposals[k]
       /\ k \notin DOMAIN UnsignedProposalQueue'
    ]_vars

Ledger == INSTANCE BatchLedger WITH
  next <- NextBatchId,
  queue <- [k \in DOMAIN UnsignedProposalQueue |->
              UnsignedProposalQueue[k].proposals],
  signed <- [k \in DOMAIN SignedProposals |-> SignedProposals[k].proposals]

\* The pallet, with nodes that sign late, with other keys and more than once,
\* keeps the promise of BatchLedger.
KeepsLedger == Ledger!Spec
=============================================================================

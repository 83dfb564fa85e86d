---------------------------- MODULE QueueProofs -----------------------------
(***************************************************************************)
(* What waits for a signature, on the chain and in a node.  The proposal   *)
(* handler gives out each batch id once, what it stores as signed is what  *)
(* was queued, and that is final: for all proposals, chains, authorities   *)
(* and bounds.  The work manager leaves no message of a protocol behind,   *)
(* for any number of tasks, signing sets, messages, jobs and blocks, any   *)
(* room for jobs and any tolerance.                                        *)
(***************************************************************************)
EXTENDS ProposalHandler, WorkManager, FiniteSetTheorems, SequenceTheorems,
        TLAPS
-----------------------------------------------------------------------------
(* The proposal handler *)

\* The part of the type invariant that the argument needs.
Shape ==
  /\ NextBatchId \in Nat
  /\ DOMAIN UnsignedProposals \subseteq Chain
  /\ DOMAIN UnsignedProposalQueue \subseteq Chain \X Nat
  /\ DOMAIN SignedProposals \subseteq Chain \X Nat
  /\ \A j \in signing_jobs : j.batch_id \in Nat
  /\ DOMAIN offchain = Node

\* Signed batches have left the queue.
SignedLeft == DOMAIN UnsignedProposalQueue \cap DOMAIN SignedProposals = {}

Inv == Shape /\ BatchIdsFresh /\ SignedLeft /\ JobsMatchQueue

\* Batches only leave the queue, or move to the signed ones: the invariant
\* stays (force_remove_unsigned_proposal_batch, submit_signed_proposals).
LEMMA LeavingKeepsInv ==
  ASSUME Inv,
         DOMAIN UnsignedProposalQueue' \subseteq DOMAIN UnsignedProposalQueue,
         \A k \in DOMAIN UnsignedProposalQueue' :
            UnsignedProposalQueue'[k] = UnsignedProposalQueue[k],
         DOMAIN SignedProposals' \subseteq
            DOMAIN SignedProposals \cup DOMAIN UnsignedProposalQueue,
         DOMAIN UnsignedProposalQueue' \cap DOMAIN SignedProposals' = {},
         pool' \subseteq pool,
         UNCHANGED <<UnsignedProposals, NextBatchId, signing_jobs, offchain>>
  PROVE  Inv'
<1>1. Shape'
  BY DEF Inv, Shape
<1>2. BatchIdsFresh'
  BY DEF Inv, BatchIdsFresh
<1>3. JobsMatchQueue'
  BY DEF Inv, JobsMatchQueue
<1> QED  BY <1>1, <1>2, <1>3, Zenon DEF Inv, SignedLeft

\* New batches take unused ids and leave the other batches as they are: the
\* invariant stays (store_unsigned_proposal, on_idle).
LEMMA EnteringKeepsInv ==
  ASSUME Inv,
         NEW new,
         new \subseteq Chain \X Nat,
         NextBatchId' \in Nat, NextBatchId' >= NextBatchId,
         \A k \in new : NextBatchId <= k[2] /\ k[2] < NextBatchId',
         \A k, l \in new : k[2] = l[2] => k = l,
         DOMAIN UnsignedProposalQueue' \subseteq
            DOMAIN UnsignedProposalQueue \cup new,
         \A k \in DOMAIN UnsignedProposalQueue' \ new :
            UnsignedProposalQueue'[k] = UnsignedProposalQueue[k],
         DOMAIN UnsignedProposals' \subseteq Chain,
         UNCHANGED <<SignedProposals, signing_jobs, offchain, pool>>
  PROVE  Inv'
<1>1. Shape'
  BY DEF Inv, Shape
<1>2. \A k \in DOMAIN UnsignedProposalQueue \cup DOMAIN SignedProposals :
        k[2] \in Nat /\ k[2] < NextBatchId
  BY DEF Inv, Shape, BatchIdsFresh
<1>3. \A k \in new : k[2] \in Nat /\ NextBatchId \in Nat
  BY DEF Inv, Shape
<1>4. \A k \in new, l \in DOMAIN UnsignedProposalQueue \cup DOMAIN SignedProposals :
        k[2] # l[2]
  BY <1>2, <1>3
<1>5. BatchIdsFresh'
  <2>1. \A k \in DOMAIN UnsignedProposalQueue' \cup DOMAIN SignedProposals' :
          k[2] < NextBatchId'
    <3>1. NextBatchId \in Nat
      BY DEF Inv, Shape
    <3>2. \A k \in DOMAIN UnsignedProposalQueue \cup DOMAIN SignedProposals :
            k[2] < NextBatchId'
      BY <1>2, <3>1
    <3> QED  BY <3>2
  <2>2. \A j \in signing_jobs' : j.batch_id < NextBatchId'
    <3>1. \A j \in signing_jobs : j.batch_id \in Nat /\ j.batch_id < NextBatchId
      BY DEF Inv, Shape, BatchIdsFresh
    <3>2. NextBatchId \in Nat
      BY DEF Inv, Shape
    <3> QED  BY <3>1, <3>2
  <2>3. \A k, l \in DOMAIN UnsignedProposalQueue' \cup DOMAIN SignedProposals' :
          k[2] = l[2] => k = l
    BY <1>4 DEF Inv, BatchIdsFresh
  <2> QED  BY <2>1, <2>2, <2>3, Zenon DEF BatchIdsFresh
<1>6. JobsMatchQueue'
  <2>1. \A j \in signing_jobs, k \in new : k[2] # j.batch_id
    BY <1>3 DEF Inv, Shape, BatchIdsFresh
  <2> QED  BY <2>1 DEF Inv, JobsMatchQueue
<1>7. SignedLeft'
  BY <1>4 DEF Inv, SignedLeft
<1> QED  BY <1>1, <1>5, <1>6, <1>7, Zenon DEF Inv

\* The invariant speaks of these variables only.
LEMMA StutterKeepsInv ==
  ASSUME Inv, UNCHANGED <<chainState, nodeState, pool>>
  PROVE  Inv'
BY DEF Inv, Shape, BatchIdsFresh, SignedLeft, JobsMatchQueue, chainState,
   nodeState

\* Every step of the pallet and of the nodes keeps the invariant.
LEMMA NextKeepsInv == Inv /\ [Next]_vars => Inv'
<1> SUFFICES ASSUME Inv, [Next]_vars PROVE Inv'
  OBVIOUS
<1> USE DEF nodeState
<1>1. ASSUME NEW p \in Proposal, handle_unsigned_proposal(p) PROVE Inv'
  <2> DEFINE chain == ChainOf[p]
  <2>1. chain \in Chain /\ NextBatchId \in Nat
    BY HandlerAssumption, Zenon DEF Inv, Shape
  <2>2. CASE Len(Staged(chain)) = MaxProposalsPerBatch
    <3> DEFINE new == {<<chain, NextBatchId>>}
    <3>1. /\ NextBatchId' = NextBatchId + 1
          /\ DOMAIN UnsignedProposalQueue' = DOMAIN UnsignedProposalQueue \cup new
          /\ \A k \in DOMAIN UnsignedProposalQueue' \ new :
               UnsignedProposalQueue'[k] = UnsignedProposalQueue[k]
          /\ DOMAIN UnsignedProposals' = DOMAIN UnsignedProposals \cup {chain}
          /\ UNCHANGED <<SignedProposals, signing_jobs, offchain, pool>>
      BY <1>1, <2>2, Zenon DEF handle_unsigned_proposal,
             store_unsigned_proposal, Put,
         create_batch_and_add_to_storage, generate_next_batch_id
    <3>2. /\ new \subseteq Chain \X Nat
          /\ \A k \in new : k[2] = NextBatchId
          /\ \A k, l \in new : k = l
      BY <2>1
    <3>3. DOMAIN UnsignedProposals' \subseteq Chain
      BY <2>1, <3>1, Zenon DEF Inv, Shape
    <3>4. NextBatchId' \in Nat /\ NextBatchId' > NextBatchId
      BY <2>1, <3>1
    <3> HIDE DEF new
    <3> QED  BY <2>1, <3>1, <3>2, <3>3, <3>4, EnteringKeepsInv
  <2>3. CASE Len(Staged(chain)) # MaxProposalsPerBatch
    <3>1. /\ DOMAIN UnsignedProposals' = DOMAIN UnsignedProposals \cup {chain}
          /\ UNCHANGED <<UnsignedProposalQueue, NextBatchId, SignedProposals,
                         signing_jobs, offchain, pool>>
      BY <1>1, <2>3 DEF handle_unsigned_proposal, store_unsigned_proposal, Put
    <3> QED
      BY <2>1, <3>1, Zenon DEF Inv, Shape, BatchIdsFresh, SignedLeft,
             JobsMatchQueue
  <2> QED  BY <2>2, <2>3, Zenon
<1>2. ASSUME NEW c, NEW i, force_remove_unsigned_proposal_batch(c, i) PROVE Inv'
  <2>1. /\ DOMAIN UnsignedProposalQueue' =
             DOMAIN UnsignedProposalQueue \ {<<c, i>>}
        /\ \A k \in DOMAIN UnsignedProposalQueue' :
             UnsignedProposalQueue'[k] = UnsignedProposalQueue[k]
        /\ UNCHANGED <<UnsignedProposals, NextBatchId, SignedProposals,
                       signing_jobs, offchain, pool>>
    BY <1>2 DEF force_remove_unsigned_proposal_batch, Drop
  <2>2. DOMAIN UnsignedProposalQueue' \cap DOMAIN SignedProposals' = {}
    BY <2>1 DEF Inv, SignedLeft
  <2> QED  BY <2>1, <2>2, LeavingKeepsInv, Zenon
<1>3. ASSUME NEW tx, submit_signed_proposals(tx) PROVE Inv'
  <2> DEFINE key == <<ChainOf[Head(tx.batch.proposals)], tx.batch.batch_id>>
             accepted == ensure_signed_by_dkg(tx.batch)
                           /\ SignedAccepted(tx.batch, key)
  <2>1. CASE accepted
    <3>1. key \in DOMAIN UnsignedProposalQueue
      BY <2>1, Zenon DEF SignedAccepted
    <3> HIDE DEF accepted
    <3>2. /\ DOMAIN UnsignedProposalQueue' =
               DOMAIN UnsignedProposalQueue
                 \ ({key} \cup PurgedWith(tx.batch, key))
          /\ \A k \in DOMAIN UnsignedProposalQueue' :
               UnsignedProposalQueue'[k] = UnsignedProposalQueue[k]
          /\ DOMAIN SignedProposals' = DOMAIN SignedProposals \cup {key}
          /\ pool' \subseteq pool
          /\ UNCHANGED <<UnsignedProposals, NextBatchId, signing_jobs,
                         offchain>>
      BY <1>3, <2>1 DEF submit_signed_proposals, accepted,
         handle_signed_proposal_batch, Drop, Put
    <3> HIDE DEF key
    <3>3. DOMAIN UnsignedProposalQueue' \cap DOMAIN SignedProposals' = {}
      BY <3>2, Zenon DEF Inv, SignedLeft
    <3> QED  BY <3>1, <3>2, <3>3, LeavingKeepsInv, Zenon
  <2>2. CASE ~accepted
    <3>1. /\ UNCHANGED <<UnsignedProposals, UnsignedProposalQueue, NextBatchId,
                         SignedProposals, signing_jobs, offchain>>
          /\ pool' \subseteq pool
      BY <1>3, <2>2, Zenon DEF submit_signed_proposals
    <3> QED  BY <3>1 DEF Inv, Shape, BatchIdsFresh, SignedLeft, JobsMatchQueue
  <2> QED  BY <2>1, <2>2, Zenon
<1>4. ASSUME NEW batch, submit_dkg_signing_offence(batch) PROVE Inv'
  BY <1>4, StutterKeepsInv DEF submit_dkg_signing_offence
<1>5. ASSUME NEW key, StartSigning(key) PROVE Inv'
  <2> DEFINE job == [batch_id |-> key[2], signer |-> dkgKey,
                     proposals |-> UnsignedProposalQueue[key].proposals]
  <2>1. /\ key \in DOMAIN UnsignedProposalQueue
        /\ signing_jobs' = signing_jobs \cup {job}
        /\ UNCHANGED <<UnsignedProposals, UnsignedProposalQueue, NextBatchId,
                       SignedProposals, offchain, pool>>
    BY <1>5 DEF StartSigning, chainState
  <2>2. job.batch_id = key[2]
        /\ job.proposals = UnsignedProposalQueue[key].proposals
    OBVIOUS
  <2> HIDE DEF job
  <2>3. Shape'
    BY <2>1, <2>2, Zenon DEF Inv, Shape
  <2>4. BatchIdsFresh'
    BY <2>1, <2>2, Zenon DEF Inv, BatchIdsFresh
  <2>5. JobsMatchQueue'
    <3>1. \A k \in DOMAIN UnsignedProposalQueue : k[2] = key[2] => k = key
      BY <2>1, Zenon DEF Inv, BatchIdsFresh
    <3> QED  BY <2>1, <2>2, <3>1 DEF Inv, JobsMatchQueue
  <2> QED  BY <2>1, <2>3, <2>4, <2>5, Zenon DEF Inv, SignedLeft
<1>6. ASSUME NEW n \in Node, NEW batch, SaveSigned(n, batch) PROVE Inv'
  BY <1>6, Zenon DEF SaveSigned, Inv, Shape, BatchIdsFresh, SignedLeft,
         JobsMatchQueue,
     chainState
<1>7. ASSUME NEW n \in Node, submit_signed_proposal_onchain(n) PROVE Inv'
  BY <1>7 DEF submit_signed_proposal_onchain, Inv, Shape, BatchIdsFresh,
     SignedLeft, JobsMatchQueue, chainState, get_next_offchain_signed_proposals
<1>8. ASSUME NEW made \in SUBSET DOMAIN UnsignedProposals,
             NEW ids \in BatchesFor(made), NEW removed,
             EndBlock(made, ids, removed)
      PROVE  Inv'
  <2> DEFINE new == {<<c, ids[c]>> : c \in made}
  <2>1. made \subseteq Chain /\ NextBatchId \in Nat
    BY DEF Inv, Shape
  <2>2. Cardinality(made) \in Nat
    BY <2>1, FS_Subset, FS_CardinalityType, HandlerAssumption, Zenon
  <2>3. /\ NextBatchId' = NextBatchId + Cardinality(made)
        /\ DOMAIN UnsignedProposalQueue' =
             (DOMAIN UnsignedProposalQueue \ removed) \cup new
        /\ \A k \in DOMAIN UnsignedProposalQueue' \ new :
             UnsignedProposalQueue'[k] = UnsignedProposalQueue[k]
        /\ DOMAIN UnsignedProposals' = DOMAIN UnsignedProposals \ made
        /\ UNCHANGED <<SignedProposals, signing_jobs, offchain, pool>>
    BY <1>8, Zenon DEF EndBlock, on_idle, Drop
  <2>4. \A c \in made : /\ ids[c] \in Nat
                        /\ NextBatchId <= ids[c] /\ ids[c] < NextBatchId'
    BY <2>1, <2>2, <2>3 DEF BatchesFor
  <2>5. \A c, d \in made : ids[c] = ids[d] => c = d
    BY Zenon DEF BatchesFor
  <2>6. /\ new \subseteq Chain \X Nat
        /\ \A k \in new : NextBatchId <= k[2] /\ k[2] < NextBatchId'
    BY <2>1, <2>4
  <2>7. \A k, l \in new : k[2] = l[2] => k = l
    BY <2>5
  <2>8. NextBatchId' \in Nat /\ NextBatchId' >= NextBatchId
    BY <2>1, <2>2, <2>3
  <2>9. DOMAIN UnsignedProposals' \subseteq Chain
    BY <2>3 DEF Inv, Shape
  <2> HIDE DEF new
  <2> QED  BY <2>3, <2>6, <2>7, <2>8, <2>9, EnteringKeepsInv, Zenon
<1>9. CASE RotateKey
  BY <1>9, StutterKeepsInv, Zenon DEF RotateKey
<1>10. CASE UNCHANGED vars
  BY <1>10, StutterKeepsInv DEF vars
<1> QED
  BY <1>1, <1>2, <1>3, <1>4, <1>5, <1>6, <1>7, <1>8, <1>9, <1>10, Zenon
     DEF Next, Calls, Nodes, Horizon, force_submit_unsigned_proposal

\* The invariant holds in every state.
THEOREM Invariance == Spec => []Inv
<1>1. Init => Inv
  BY DEF Init, Inv, Shape, BatchIdsFresh, SignedLeft, JobsMatchQueue
<1> QED  BY <1>1, NextKeepsInv, PTL DEF Spec

\* A batch id is given out once, whatever is removed, purged or expires
\* (generate_next_batch_id).
THEOREM IdsGivenOnce == Spec => []BatchIdsFresh
<1>1. Inv => BatchIdsFresh
  BY DEF Inv
<1> QED  BY <1>1, Invariance, PTL

\* The jobs, the stored results and the transactions agree with the queue, so
\* that a late result never passes for another batch.
THEOREM LateResultsMatch == Spec => []JobsMatchQueue
<1>1. Inv => JobsMatchQueue
  BY DEF Inv
<1> QED  BY <1>1, Invariance, PTL

\* The signed batches change by an accepted transaction only.
LEMMA SignedBySubmission ==
  ASSUME Inv, [Next]_vars
  PROVE  \/ UNCHANGED SignedProposals
         \/ \E batch \in signing_jobs :
              LET key == <<ChainOf[Head(batch.proposals)], batch.batch_id>>
              IN  /\ SignedAccepted(batch, key)
                  /\ SignedProposals' = Put(SignedProposals, key, batch)
<1>1. ASSUME NEW tx \in pool, submit_signed_proposals(tx)
      PROVE  \/ UNCHANGED SignedProposals
             \/ \E batch \in signing_jobs :
                  LET key == <<ChainOf[Head(batch.proposals)], batch.batch_id>>
                  IN  /\ SignedAccepted(batch, key)
                      /\ SignedProposals' = Put(SignedProposals, key, batch)
  BY <1>1, Zenon DEF submit_signed_proposals, handle_signed_proposal_batch, Inv,
     JobsMatchQueue
<1>2. CASE UNCHANGED SignedProposals
  BY <1>2
<1> QED
  BY <1>1, <1>2, Zenon DEF Next, Calls, Nodes, Horizon, vars, chainState,
     handle_unsigned_proposal, force_submit_unsigned_proposal,
     force_remove_unsigned_proposal_batch,
     submit_dkg_signing_offence, StartSigning, SaveSigned, RotateKey,
     submit_signed_proposal_onchain, EndBlock, on_idle

\* What is stored as signed is what was queued under its chain and id
\* (handle_signed_proposal_batch).
THEOREM SignedWasQueued == Spec => SignedMatchesQueue
<1>1. ASSUME Inv, [Next]_vars,
             NEW k \in DOMAIN SignedProposals' \ DOMAIN SignedProposals
      PROVE  /\ k \in DOMAIN UnsignedProposalQueue
             /\ SignedProposals'[k].proposals
                  = UnsignedProposalQueue[k].proposals
  <2>1. PICK batch \in signing_jobs :
          LET key == <<ChainOf[Head(batch.proposals)], batch.batch_id>>
          IN  /\ SignedAccepted(batch, key)
              /\ SignedProposals' = Put(SignedProposals, key, batch)
    BY <1>1, SignedBySubmission, Zenon
  <2>2. /\ k = <<ChainOf[Head(batch.proposals)], batch.batch_id>>
        /\ k \in DOMAIN UnsignedProposalQueue
        /\ SignedProposals'[k] = batch
    BY <2>1, Zenon DEF Put, SignedAccepted
  <2>3. k[2] = batch.batch_id
    BY <2>2, Zenon
  <2> QED  BY <1>1, <2>2, <2>3, Zenon DEF Inv, JobsMatchQueue
<1>2. Inv /\ [Next]_vars =>
        [\A k \in DOMAIN SignedProposals' \ DOMAIN SignedProposals :
           /\ k \in DOMAIN UnsignedProposalQueue
           /\ SignedProposals'[k].proposals
                = UnsignedProposalQueue[k].proposals]_vars
  BY <1>1
<1> QED  BY <1>2, Invariance, PTL DEF Spec, SignedMatchesQueue

\* A signed batch is final: neither replaced nor queued again
\* (CannotOverwriteSignedProposal).
THEOREM SignedIsFinal == Spec => SignedStays
<1>1. ASSUME Inv, [Next]_vars, NEW k \in DOMAIN SignedProposals
      PROVE  /\ k \in DOMAIN SignedProposals'
             /\ SignedProposals'[k] = SignedProposals[k]
             /\ k \notin DOMAIN UnsignedProposalQueue'
  <2>1. k \in DOMAIN SignedProposals' /\ SignedProposals'[k] = SignedProposals[k]
    BY <1>1, SignedBySubmission, Zenon DEF Put, SignedAccepted
  <2>2. Inv'
    BY <1>1, NextKeepsInv, Zenon
  <2> QED  BY <2>1, <2>2, Zenon DEF Inv, SignedLeft
<1>2. Inv /\ [Next]_vars =>
        [\A k \in DOMAIN SignedProposals :
           /\ k \in DOMAIN SignedProposals'
           /\ SignedProposals'[k] = SignedProposals[k]
           /\ k \notin DOMAIN UnsignedProposalQueue']_vars
  BY <1>1
<1> QED  BY <1>2, Invariance, PTL DEF Spec, SignedStays
-----------------------------------------------------------------------------
(* The pallet implements BatchLedger. *)

\* The steps that leave the signed batches alone: others stay or go, and new
\* ones have new ids.
QueueChanges ==
  /\ NextBatchId <= NextBatchId'
  /\ \A k \in DOMAIN UnsignedProposalQueue' :
       \/ /\ k \in DOMAIN UnsignedProposalQueue
          /\ UnsignedProposalQueue'[k] = UnsignedProposalQueue[k]
       \/ NextBatchId <= k[2] /\ k[2] < NextBatchId'
  /\ UNCHANGED SignedProposals

\* The step that signs a batch, and purges others.
BatchSigned ==
  \E batch \in signing_jobs :
    LET key == <<ChainOf[Head(batch.proposals)], batch.batch_id>>
    IN  /\ SignedAccepted(batch, key)
        /\ SignedProposals' = Put(SignedProposals, key, batch)
        /\ key \notin DOMAIN UnsignedProposalQueue'
        /\ \A k \in DOMAIN UnsignedProposalQueue' :
             /\ k \in DOMAIN UnsignedProposalQueue
             /\ UnsignedProposalQueue'[k] = UnsignedProposalQueue[k]
        /\ UNCHANGED NextBatchId

\* Every step is one of the two.
LEMMA StepsOfQueue ==
  ASSUME Inv, [Next]_vars
  PROVE  QueueChanges \/ BatchSigned
<1> USE DEF nodeState
<1>0. NextBatchId \in Nat
  BY DEF Inv, Shape
<1>1. CASE UNCHANGED <<UnsignedProposalQueue, NextBatchId, SignedProposals>>
  BY <1>0, <1>1 DEF QueueChanges
<1>2. ASSUME NEW p \in Proposal, handle_unsigned_proposal(p) PROVE QueueChanges
  <2> DEFINE chain == ChainOf[p]
  <2>1. CASE Len(Staged(chain)) = MaxProposalsPerBatch
    <3>1. /\ NextBatchId' = NextBatchId + 1
          /\ DOMAIN UnsignedProposalQueue' =
               DOMAIN UnsignedProposalQueue \cup {<<chain, NextBatchId>>}
          /\ \A k \in DOMAIN UnsignedProposalQueue' \ {<<chain, NextBatchId>>} :
               UnsignedProposalQueue'[k] = UnsignedProposalQueue[k]
          /\ UNCHANGED SignedProposals
      BY <1>2, <2>1, Zenon DEF handle_unsigned_proposal,
             store_unsigned_proposal, Put,
         create_batch_and_add_to_storage, generate_next_batch_id
    <3> QED  BY <1>0, <3>1 DEF QueueChanges
  <2>2. CASE Len(Staged(chain)) # MaxProposalsPerBatch
    <3>1. UNCHANGED <<UnsignedProposalQueue, NextBatchId, SignedProposals>>
      BY <1>2, <2>2, Zenon DEF handle_unsigned_proposal, store_unsigned_proposal
    <3> QED  BY <1>0, <3>1 DEF QueueChanges
  <2> QED  BY <2>1, <2>2, Zenon
<1>3. ASSUME NEW c, NEW i, force_remove_unsigned_proposal_batch(c, i)
      PROVE  QueueChanges
  BY <1>0, <1>3 DEF force_remove_unsigned_proposal_batch, Drop, QueueChanges
<1>4. ASSUME NEW tx \in pool, submit_signed_proposals(tx)
      PROVE  QueueChanges \/ BatchSigned
  <2> DEFINE key == <<ChainOf[Head(tx.batch.proposals)], tx.batch.batch_id>>
             accepted == ensure_signed_by_dkg(tx.batch)
                           /\ SignedAccepted(tx.batch, key)
  <2>1. CASE accepted
    <3>1. /\ SignedAccepted(tx.batch, key)
          /\ SignedProposals' = Put(SignedProposals, key, tx.batch)
          /\ UnsignedProposalQueue' =
               Drop(UnsignedProposalQueue,
                    {key} \cup PurgedWith(tx.batch, key))
          /\ UNCHANGED NextBatchId
      BY <1>4, <2>1, Zenon DEF submit_signed_proposals,
             handle_signed_proposal_batch
    <3>2. tx.batch \in signing_jobs
      BY Zenon DEF Inv, JobsMatchQueue
    <3> QED  BY <3>1, <3>2, Zenon DEF BatchSigned, Drop
  <2>2. CASE ~accepted
    BY <1>1, <1>4, <2>2, Zenon DEF submit_signed_proposals
  <2> QED  BY <2>1, <2>2
<1>5. ASSUME NEW made \in SUBSET DOMAIN UnsignedProposals,
             NEW ids \in BatchesFor(made), NEW removed,
             EndBlock(made, ids, removed)
      PROVE  QueueChanges
  <2> DEFINE new == {<<c, ids[c]>> : c \in made}
  <2>1. made \subseteq Chain
    BY Zenon DEF Inv, Shape
  <2>2. Cardinality(made) \in Nat
    BY <2>1, FS_Subset, FS_CardinalityType, HandlerAssumption, Zenon
  <2>3. /\ NextBatchId' = NextBatchId + Cardinality(made)
        /\ DOMAIN UnsignedProposalQueue' =
             (DOMAIN UnsignedProposalQueue \ removed) \cup new
        /\ \A k \in DOMAIN UnsignedProposalQueue' \ new :
             UnsignedProposalQueue'[k] = UnsignedProposalQueue[k]
        /\ UNCHANGED SignedProposals
    BY <1>5, Zenon DEF EndBlock, on_idle, Drop
  <2>4. \A c \in made : NextBatchId <= ids[c] /\ ids[c] < NextBatchId'
    BY <1>0, <2>2, <2>3 DEF BatchesFor
  <2>5. \A k \in new : NextBatchId <= k[2] /\ k[2] < NextBatchId'
    BY <2>4
  <2>6. NextBatchId <= NextBatchId'
    BY <1>0, <2>2, <2>3
  <2> HIDE DEF new
  <2> QED  BY <2>3, <2>5, <2>6, Zenon DEF QueueChanges
<1> QED
  BY <1>1, <1>2, <1>3, <1>4, <1>5, Zenon DEF Next, Calls, Nodes, Horizon, vars,
     chainState, force_submit_unsigned_proposal, submit_dkg_signing_offence,
     StartSigning, SaveSigned, RotateKey, submit_signed_proposal_onchain

\* A change of the queue is one of the ledger.
LEMMA ChangesMap ==
  ASSUME Inv, Inv', QueueChanges
  PROVE  Ledger!Change
BY DEF Inv, BatchIdsFresh, QueueChanges, Ledger!Change, Ledger!Kept, Ledger!New

\* A signed batch is signed in the ledger, with the proposals it was queued
\* with.
LEMMA SignatureMaps ==
  ASSUME Inv, BatchSigned
  PROVE  \E k \in DOMAIN UnsignedProposalQueue : Ledger!Sign(k)
<1>1. PICK batch \in signing_jobs :
        LET key == <<ChainOf[Head(batch.proposals)], batch.batch_id>>
        IN  /\ SignedAccepted(batch, key)
            /\ SignedProposals' = Put(SignedProposals, key, batch)
            /\ key \notin DOMAIN UnsignedProposalQueue'
            /\ \A k \in DOMAIN UnsignedProposalQueue' :
                 /\ k \in DOMAIN UnsignedProposalQueue
                 /\ UnsignedProposalQueue'[k] = UnsignedProposalQueue[k]
            /\ UNCHANGED NextBatchId
  BY Zenon DEF BatchSigned
<1> DEFINE key == <<ChainOf[Head(batch.proposals)], batch.batch_id>>
<1>2. /\ key \in DOMAIN UnsignedProposalQueue
      /\ key \notin DOMAIN SignedProposals
      /\ key[2] = batch.batch_id
  BY <1>1, Zenon DEF SignedAccepted
<1>3. UnsignedProposalQueue[key].proposals = batch.proposals
  BY <1>2, Zenon DEF Inv, JobsMatchQueue
<1>4. /\ SignedProposals' = Put(SignedProposals, key, batch)
      /\ key \notin DOMAIN UnsignedProposalQueue'
      /\ \A k \in DOMAIN UnsignedProposalQueue' :
           /\ k \in DOMAIN UnsignedProposalQueue
           /\ UnsignedProposalQueue'[k] = UnsignedProposalQueue[k]
      /\ UNCHANGED NextBatchId
  BY <1>1, Zenon
<1> HIDE DEF key
<1>5. [k \in DOMAIN SignedProposals |-> SignedProposals[k].proposals]' =
        [x \in DOMAIN SignedProposals \cup {key} |->
           IF x = key THEN UnsignedProposalQueue[key].proposals
           ELSE SignedProposals[x].proposals]
  BY <1>3, <1>4, Zenon DEF Put
<1>6. Ledger!Sign(key)
  BY <1>2, <1>4, <1>5, Zenon DEF Ledger!Sign, Ledger!Kept
<1> QED  BY <1>2, <1>6, Zenon

\* The pallet and its nodes implement BatchLedger: whatever expires, is purged
\* or removed while it is signed, batches are numbered once, and what is signed
\* is what was queued, for good.
THEOREM ImplementsLedger == Spec => KeepsLedger
<1>1. Init => Ledger!Init
  BY Zenon DEF Init, Ledger!Init
<1>2. Inv /\ Inv' /\ [Next]_vars => [Ledger!Next]_(Ledger!vars)
  BY StepsOfQueue, ChangesMap, SignatureMaps, Zenon DEF Ledger!Next
<1> QED  BY <1>1, <1>2, Invariance, PTL DEF Spec, KeepsLedger, Ledger!Spec
-----------------------------------------------------------------------------
(* The work manager *)

Status == {"Beginning", "Running", "Complete", "Terminated"}

Job == [attempt : Attempt, inbox : SUBSET Message, status : Status,
        stopped : BOOLEAN]

Types ==
  /\ now \in 0..MaxBlockNumber /\ session \in 0..MaxSession
  /\ jobs \in Seq(Job)
  /\ active_tasks \subseteq JobId
  /\ enqueued_tasks \in Seq(JobId)
  /\ enqueued_messages \subseteq DOMAIN sent
  /\ DOMAIN sent \subseteq Message

\* A job that waits has not begun, does not run elsewhere and waits once.
QueueSound ==
  /\ \A i \in 1..Len(enqueued_tasks) :
       /\ enqueued_tasks[i] \notin active_tasks
       /\ jobs[enqueued_tasks[i]].status = "Beginning"
  /\ \A i, k \in 1..Len(enqueued_tasks) :
       enqueued_tasks[i] = enqueued_tasks[k] => i = k

WorkInv == Types /\ QueueSound /\ NoneWaits
-----------------------------------------------------------------------------
(* Jobs *)

\* Dropping a job changes its handle, and not what it is for.
LEMMA DroppedJob ==
  ASSUME NEW job \in Job
  PROVE  Dropped(job) \in Job /\ Dropped(job).attempt = job.attempt
<1> DEFINE told == [job EXCEPT !.stopped = TRUE]
           status == IF told.status = "Complete" THEN told.status
                     ELSE "Terminated"
<1>1. told \in Job /\ told.attempt = job.attempt
  BY Zenon DEF Job
<1>2. Dropped(job) = [told EXCEPT !.status = status]
  BY Zenon DEF Dropped
<1>3. told.status \in Status
  BY <1>1, Zenon DEF Job
<1>4. status \in Status
  BY <1>3, Zenon DEF Status
<1> HIDE DEF told, status
<1>5. [told EXCEPT !.status = status] \in Job
  BY <1>1, <1>4, Zenon DEF Job
<1>6. [told EXCEPT !.status = status].attempt = told.attempt
  BY <1>1, Zenon DEF Job
<1> QED
  BY <1>1, <1>2, <1>5, <1>6, Zenon

\* deliver_message of a handle that is not done adds to its inbox.
LEMMA GivenJob ==
  ASSUME NEW job \in Job, NEW ms \in SUBSET Message
  PROVE  /\ WithMessages(job, ms) \in Job
         /\ WithMessages(job, ms).attempt = job.attempt
         /\ WithMessages(job, ms).status = job.status
         /\ ~is_done(job) => ms \subseteq WithMessages(job, ms).inbox
<1>1. CASE is_done(job)
  BY <1>1 DEF WithMessages
<1>2. CASE ~is_done(job)
  <2> DEFINE inbox == job.inbox \cup ms
  <2>1. WithMessages(job, ms) = [job EXCEPT !.inbox = inbox]
    BY <1>2, Zenon DEF WithMessages
  <2>2. inbox \in SUBSET Message
    <3>1. job.inbox \in SUBSET Message
      BY Zenon DEF Job
    <3> QED
      BY <3>1
  <2>3. ms \subseteq inbox
    OBVIOUS
  <2> HIDE DEF inbox
  <2>4. [job EXCEPT !.inbox = inbox] \in Job
    BY <2>2, Zenon DEF Job
  <2>5. /\ [job EXCEPT !.inbox = inbox].attempt = job.attempt
        /\ [job EXCEPT !.inbox = inbox].status = job.status
        /\ [job EXCEPT !.inbox = inbox].inbox = inbox
    BY Zenon DEF Job
  <2> QED
    BY <2>1, <2>3, <2>4, <2>5, Zenon
<1> QED
  BY <1>1, <1>2, Zenon

\* A job that starts has the messages that were kept for it and are acceptable.
LEMMA StartedJob ==
  ASSUME DOMAIN sent \subseteq Message, NEW job \in Job,
         NEW ms \in SUBSET DOMAIN sent
  PROVE  /\ Started(job, ms) \in Job
         /\ Started(job, ms).attempt = job.attempt
         /\ ~is_done(job) =>
              \A m \in KeptFor(job.attempt, ms) :
                should_deliver(job.attempt, sent[m]) =>
                  m \in Started(job, ms).inbox
<1> DEFINE given == {m \in KeptFor(job.attempt, ms) :
                       should_deliver(job.attempt, sent[m])}
           with == WithMessages(job, given)
<1>1. given \in SUBSET Message
  BY DEF KeptFor
<1>2. Started(job, ms) = [with EXCEPT !.status = "Running"]
  BY Zenon DEF Started
<1>3. /\ with \in Job /\ with.attempt = job.attempt
      /\ ~is_done(job) => given \subseteq with.inbox
  BY <1>1, GivenJob, Zenon
<1>4. "Running" \in Status
  BY DEF Status
<1> HIDE DEF with
<1>5. [with EXCEPT !.status = "Running"] \in Job
  BY <1>3, <1>4, Zenon DEF Job
<1>6. /\ [with EXCEPT !.status = "Running"].attempt = with.attempt
      /\ [with EXCEPT !.status = "Running"].inbox = with.inbox
  BY <1>3, Zenon DEF Job
<1> QED
  BY <1>2, <1>3, <1>5, <1>6, Zenon

\* Only a message of its task and its signing set is for a job.
LEMMA DeliveredIsKept ==
  ASSUME NEW attempt, NEW ms, NEW m \in ms, should_deliver(attempt, sent[m])
  PROVE  m \in KeptFor(attempt, ms)
  BY DEF should_deliver, KeptFor
-----------------------------------------------------------------------------
(* The steps *)

\* A step that remakes the jobs one by one keeps their number.
LEMMA JobsRemade ==
  ASSUME jobs \in Seq(Job), jobs' \in [JobId -> Job]
  PROVE  jobs' \in Seq(Job) /\ Len(jobs') = Len(jobs) /\ JobId' = JobId
<1>1. Len(jobs) \in Nat
  BY LenProperties, Zenon
<1>2. jobs' \in Seq(Job) /\ Len(jobs') = Len(jobs)
  BY <1>1 DEF JobId
<1> QED
  BY <1>2, Zenon DEF JobId

\* A job is there under its number.
LEMMA JobsType ==
  ASSUME jobs \in Seq(Job)
  PROVE  /\ Len(jobs) \in Nat
         /\ \A j \in JobId : jobs[j] \in Job
  BY LenProperties, ElementOfSeq, Zenon DEF JobId

\* The steps that change neither the tasks' sets nor the store keep what waits.
LEMMA StillNone ==
  ASSUME NoneWaits, active_tasks' \subseteq active_tasks,
         active_tasks \subseteq JobId,
         enqueued_messages' \subseteq enqueued_messages, sent' = sent,
         \A j \in JobId : jobs'[j].attempt = jobs[j].attempt
  PROVE  NoneWaits'
<1> SUFFICES ASSUME NEW j \in active_tasks', NEW m \in enqueued_messages'
             PROVE  ~should_deliver(jobs'[j].attempt, sent'[m])
  BY Zenon DEF NoneWaits, should_deliver, associated_block_id_acceptable
<1>1. ~should_deliver(jobs[j].attempt, sent[m])
  BY DEF NoneWaits
<1> QED
  BY <1>1, Zenon

\* What poll does with the tasks: those it drops were active, those it starts
\* are the first of the queue.
LEMMA PollTasks ==
  ASSUME Types, QueueSound, poll
  PROVE  \E gone \in SUBSET active_tasks, n \in 0..Len(enqueued_tasks) :
           LET start == {enqueued_tasks[i] : i \in 1..n}
               left == enqueued_messages
                         \ UNION {KeptFor(jobs[j].attempt, enqueued_messages) :
                                    j \in start}
           IN  /\ active_tasks' = (active_tasks \ gone) \cup start
               /\ enqueued_tasks' =
                    SubSeq(enqueued_tasks, n + 1, Len(enqueued_tasks))
               /\ jobs' = [j \in JobId |->
                             IF j \in gone THEN Dropped(jobs[j])
                             ELSE IF j \in start
                             THEN Started(jobs[j], enqueued_messages)
                             ELSE jobs[j]]
               /\ enqueued_messages' = left \ Outdated(left)
               /\ UNCHANGED <<now, session, sent>>
<1> DEFINE gone == {j \in active_tasks :
                      has_stalled(jobs[j]) \/ is_done(jobs[j])}
           stay == active_tasks \ gone
           room == IF Cardinality(stay) <= MaxTasks
                   THEN MaxTasks - Cardinality(stay) ELSE 0
           n == IF room <= Len(enqueued_tasks) THEN room
                ELSE Len(enqueued_tasks)
<1>1. gone \in SUBSET active_tasks
  OBVIOUS
<1>2. n \in 0..Len(enqueued_tasks)
  <2>1. IsFiniteSet(stay)
    <3>1. IsFiniteSet(JobId)
      BY LenProperties, FS_Interval DEF Types, JobId
    <3> QED
      BY <3>1, FS_Subset, Zenon DEF Types
  <2>2. Cardinality(stay) \in Nat
    BY <2>1, FS_CardinalityType, Zenon
  <2>3. Len(enqueued_tasks) \in Nat
    BY LenProperties, Zenon DEF Types
  <2> HIDE DEF stay
  <2> QED
    BY <2>2, <2>3, WorkAssumption
<1> QED
  BY <1>1, <1>2, Zenon DEF poll

\* poll: a job that starts takes the messages kept for it out of the store, and
\* has those it should have; it has left the queue.
LEMMA Poll ==
  ASSUME WorkInv, poll
  PROVE  /\ WorkInv'
         /\ \A m \in enqueued_messages \ enqueued_messages' :
              \/ ~associated_block_id_acceptable(now, sent[m].block)
              \/ \E j \in active_tasks' \ active_tasks :
                   /\ jobs'[j].attempt.hash = sent[m].hash
                   /\ jobs'[j].attempt.ssid = sent[m].ssid
                   /\ should_deliver(jobs'[j].attempt, sent[m])
                        => m \in jobs'[j].inbox
<1>t. Types /\ QueueSound /\ NoneWaits
  BY Zenon DEF WorkInv
<1> USE <1>t
<1>p. PICK gone \in SUBSET active_tasks, n \in 0..Len(enqueued_tasks) :
           LET start == {enqueued_tasks[i] : i \in 1..n}
               left == enqueued_messages
                         \ UNION {KeptFor(jobs[j].attempt, enqueued_messages) :
                                    j \in start}
           IN  /\ active_tasks' = (active_tasks \ gone) \cup start
               /\ enqueued_tasks' =
                    SubSeq(enqueued_tasks, n + 1, Len(enqueued_tasks))
               /\ jobs' = [j \in JobId |->
                             IF j \in gone THEN Dropped(jobs[j])
                             ELSE IF j \in start
                             THEN Started(jobs[j], enqueued_messages)
                             ELSE jobs[j]]
               /\ enqueued_messages' = left \ Outdated(left)
               /\ UNCHANGED <<now, session, sent>>
  BY PollTasks, Zenon
<1> DEFINE start == {enqueued_tasks[i] : i \in 1..n}
           kept == UNION {KeptFor(jobs[j].attempt, enqueued_messages) :
                            j \in start}
           left == enqueued_messages \ kept
<1>1. /\ Len(jobs) \in Nat /\ \A j \in JobId : jobs[j] \in Job
      /\ active_tasks \subseteq JobId /\ DOMAIN sent \subseteq Message
      /\ enqueued_messages \in SUBSET DOMAIN sent
  BY JobsType, Zenon DEF Types
<1>2. /\ Len(enqueued_tasks) \in Nat
      /\ \A i \in 1..Len(enqueued_tasks) : enqueued_tasks[i] \in JobId
  BY LenProperties, ElementOfSeq, Zenon DEF Types
<1>3. /\ active_tasks' = (active_tasks \ gone) \cup start
      /\ enqueued_tasks' = SubSeq(enqueued_tasks, n + 1, Len(enqueued_tasks))
      /\ \A j \in JobId : jobs'[j] = IF j \in gone THEN Dropped(jobs[j])
                                     ELSE IF j \in start
                                     THEN Started(jobs[j], enqueued_messages)
                                     ELSE jobs[j]
      /\ DOMAIN jobs' = JobId /\ jobs' = [j \in JobId |-> jobs'[j]]
      /\ enqueued_messages' = left \ Outdated(left)
      /\ now' = now /\ session' = session /\ sent' = sent
  BY <1>p, Zenon
<1>4. /\ start \subseteq JobId /\ start \cap active_tasks = {}
      /\ \A j \in start : ~is_done(jobs[j])
  BY <1>2 DEF QueueSound, is_done
<1>5. \A j \in JobId : jobs'[j] \in Job /\ jobs'[j].attempt = jobs[j].attempt
  <2> TAKE j \in JobId
  <2>1. jobs[j] \in Job
    BY <1>1, Zenon
  <2>2. CASE j \in gone
    BY <1>3, <2>1, <2>2, DroppedJob, Zenon
  <2>3. CASE j \notin gone /\ j \in start
    <3>1. jobs'[j] = Started(jobs[j], enqueued_messages)
      BY <1>3, <2>3, Zenon
    <3>2. /\ Started(jobs[j], enqueued_messages) \in Job
          /\ Started(jobs[j], enqueued_messages).attempt = jobs[j].attempt
      BY <1>1, <2>1, StartedJob, Zenon
    <3> QED
      BY <3>1, <3>2, Zenon
  <2>4. CASE j \notin gone /\ j \notin start
    BY <1>3, <2>1, <2>4, Zenon
  <2> QED
    BY <2>2, <2>3, <2>4, Zenon
<1>6. jobs' \in Seq(Job) /\ JobId' = JobId
  <2>1. jobs' \in [JobId -> Job]
    BY <1>3, <1>5, Zenon
  <2> QED
    BY <2>1, JobsRemade, Zenon DEF Types
<1>7. /\ enqueued_tasks' \in Seq(JobId)
      /\ Len(enqueued_tasks') = Len(enqueued_tasks) - n
      /\ \A i \in 1..Len(enqueued_tasks') :
           enqueued_tasks'[i] = enqueued_tasks[n + i]
  <2>1. CASE n = Len(enqueued_tasks)
    BY <2>1, <1>2, <1>3, SubSeqProperties DEF Types
  <2>2. CASE n < Len(enqueued_tasks)
    BY <2>2, <1>2, <1>3, SubSeqProperties DEF Types
  <2> QED
    BY <1>2, <2>1, <2>2
<1> HIDE DEF start, kept, left
<1>8. Types'
  <2>1. enqueued_messages' \subseteq DOMAIN sent
    BY <1>1, <1>3 DEF left
  <2>2. active_tasks' \subseteq JobId
    BY <1>1, <1>3, <1>4, Zenon
  <2> QED
    BY <1>1, <1>3, <1>6, <1>7, <2>1, <2>2 DEF Types
<1>9. QueueSound'
  <2>1. ASSUME NEW i \in 1..Len(enqueued_tasks')
        PROVE  /\ enqueued_tasks'[i] \notin active_tasks'
               /\ jobs'[enqueued_tasks'[i]].status = "Beginning"
    <3>1. /\ n + i \in 1..Len(enqueued_tasks)
          /\ enqueued_tasks'[i] = enqueued_tasks[n + i]
          /\ n + i \notin 1..n
      BY <1>2, <1>7
    <3>2. enqueued_tasks[n + i] \notin start
      BY <3>1, <1>2 DEF QueueSound, start
    <3>3. /\ enqueued_tasks[n + i] \notin active_tasks
          /\ jobs[enqueued_tasks[n + i]].status = "Beginning"
      BY <3>1, Zenon DEF QueueSound
    <3>4. jobs'[enqueued_tasks[n + i]] = jobs[enqueued_tasks[n + i]]
      BY <1>2, <1>3, <3>1, <3>2, <3>3, Zenon
    <3> QED
      BY <1>3, <3>1, <3>2, <3>3, <3>4, Zenon
  <2>2. ASSUME NEW i \in 1..Len(enqueued_tasks'),
               NEW k \in 1..Len(enqueued_tasks'),
               enqueued_tasks'[i] = enqueued_tasks'[k]
        PROVE  i = k
    <3>1. /\ n + i \in 1..Len(enqueued_tasks)
          /\ n + k \in 1..Len(enqueued_tasks)
          /\ enqueued_tasks[n + i] = enqueued_tasks[n + k]
      BY <1>2, <1>7, <2>2
    <3>2. n + i = n + k
      BY <3>1, Zenon DEF QueueSound
    <3> QED
      BY <1>2, <1>7, <3>2
  <2> QED
    BY <2>1, <2>2, Zenon DEF QueueSound
<1>10. NoneWaits'
  <2> SUFFICES ASSUME NEW j \in active_tasks', NEW m \in enqueued_messages',
                      should_deliver(jobs'[j].attempt, sent'[m])
               PROVE  FALSE
    BY Zenon DEF NoneWaits, should_deliver, associated_block_id_acceptable
  <2>1. j \in JobId /\ m \in enqueued_messages /\ m \notin kept
    BY <1>1, <1>3, <1>4, Zenon DEF left
  <2>2. should_deliver(jobs[j].attempt, sent[m])
    BY <1>3, <1>5, <2>1, Zenon
  <2>3. CASE j \in start
    BY <2>1, <2>2, <2>3, DeliveredIsKept DEF kept
  <2>4. CASE j \in active_tasks
    BY <2>1, <2>2, <2>4, Zenon DEF NoneWaits
  <2> QED
    BY <1>3, <2>3, <2>4, Zenon
<1>11. ASSUME NEW m \in enqueued_messages \ enqueued_messages',
              associated_block_id_acceptable(now, sent[m].block)
       PROVE  \E j \in active_tasks' \ active_tasks :
                /\ jobs'[j].attempt.hash = sent[m].hash
                /\ jobs'[j].attempt.ssid = sent[m].ssid
                /\ should_deliver(jobs'[j].attempt, sent[m])
                     => m \in jobs'[j].inbox
  <2>1. m \in kept
    BY <1>3, <1>11, Zenon DEF left, Outdated
  <2>2. PICK j \in start : m \in KeptFor(jobs[j].attempt, enqueued_messages)
    BY <2>1, Zenon DEF kept
  <2>3. j \in JobId /\ j \notin active_tasks /\ j \in active_tasks'
        /\ ~is_done(jobs[j])
    BY <1>3, <1>4, Zenon
  <2>4. jobs'[j] = Started(jobs[j], enqueued_messages)
    BY <1>3, <2>3, Zenon
  <2>5. should_deliver(jobs[j].attempt, sent[m])
          => m \in Started(jobs[j], enqueued_messages).inbox
    BY <1>1, <2>2, <2>3, StartedJob, Zenon
  <2>6. /\ jobs[j].attempt.hash = sent[m].hash
        /\ jobs[j].attempt.ssid = sent[m].ssid
    BY <2>2, Zenon DEF KeptFor
  <2> QED
    BY <1>5, <2>3, <2>4, <2>5, <2>6, Zenon
<1> QED
  BY <1>8, <1>9, <1>10, <1>11, Zenon DEF WorkInv

\* push_task: a job that is to start at once is treated as poll treats one; any
\* other waits at the end of the queue.
LEMMA PushTask ==
  ASSUME WorkInv, NEW hash \in Hash, NEW ssid \in Ssid,
         NEW force_start \in BOOLEAN, push_task(hash, ssid, force_start)
  PROVE  /\ WorkInv'
         /\ \A m \in enqueued_messages \ enqueued_messages' :
              \E j \in active_tasks' \ active_tasks :
                /\ jobs'[j].attempt.hash = sent[m].hash
                /\ jobs'[j].attempt.ssid = sent[m].ssid
                /\ should_deliver(jobs'[j].attempt, sent[m])
                     => m \in jobs'[j].inbox
<1>t. Types /\ QueueSound /\ NoneWaits
  BY Zenon DEF WorkInv
<1> USE <1>t
<1> DEFINE new == Len(jobs) + 1
           attempt == [hash |-> hash, ssid |-> ssid, session |-> session,
                       block |-> now]
           job == [attempt |-> attempt, inbox |-> {}, status |-> "Beginning",
                   stopped |-> FALSE]
           started == Started(job, enqueued_messages)
<1>1. /\ Len(jobs) \in Nat /\ \A j \in JobId : jobs[j] \in Job
      /\ active_tasks \subseteq JobId /\ DOMAIN sent \subseteq Message
      /\ enqueued_messages \in SUBSET DOMAIN sent /\ jobs \in Seq(Job)
      /\ JobId = 1..Len(jobs)
  BY JobsType, Zenon DEF Types, JobId
<1>2. /\ Len(enqueued_tasks) \in Nat
      /\ \A i \in 1..Len(enqueued_tasks) : enqueued_tasks[i] \in JobId
  BY LenProperties, ElementOfSeq, Zenon DEF Types
<1>3. job \in Job
  <2>1. attempt \in Attempt
    BY Zenon DEF Types, Attempt
  <2>2. "Beginning" \in Status
    BY Zenon DEF Status
  <2> HIDE DEF attempt
  <2> QED
    BY <2>1, <2>2, Zenon DEF Job
<1>4. ~is_done(job) /\ job.attempt = attempt /\ job.status = "Beginning"
  BY Zenon DEF is_done
<1>5. /\ started \in Job /\ started.attempt = attempt
      /\ \A m \in KeptFor(attempt, enqueued_messages) :
           should_deliver(attempt, sent[m]) => m \in started.inbox
  <2> HIDE DEF job, attempt
  <2> QED
    BY <1>1, <1>3, <1>4, StartedJob, Zenon
<1>6. /\ now' = now /\ session' = session /\ sent' = sent
      /\ \/ /\ jobs' = Append(jobs, started)
            /\ active_tasks' = active_tasks \cup {new}
            /\ enqueued_messages' =
                 enqueued_messages \ KeptFor(attempt, enqueued_messages)
            /\ enqueued_tasks' = enqueued_tasks
         \/ /\ jobs' = Append(jobs, job)
            /\ enqueued_tasks' = Append(enqueued_tasks, new)
            /\ active_tasks' = active_tasks
            /\ enqueued_messages' = enqueued_messages
  BY Zenon DEF push_task
<1> HIDE DEF job, attempt, started
<1>7. ASSUME NEW last \in Job, jobs' = Append(jobs, last)
      PROVE  /\ jobs' \in Seq(Job) /\ JobId' = 1..new /\ jobs'[new] = last
             /\ \A j \in JobId : jobs'[j] = jobs[j]
  BY <1>1, <1>7, AppendProperties DEF JobId
<1>8. /\ new \notin active_tasks /\ new \in 1..new /\ JobId \subseteq 1..new
      /\ \A i \in 1..Len(enqueued_tasks) : enqueued_tasks[i] # new
  BY <1>1, <1>2
<1>9. CASE /\ jobs' = Append(jobs, started)
           /\ active_tasks' = active_tasks \cup {new}
           /\ enqueued_messages' =
                enqueued_messages \ KeptFor(attempt, enqueued_messages)
           /\ enqueued_tasks' = enqueued_tasks
  <2>1. /\ jobs' \in Seq(Job) /\ JobId' = 1..new /\ jobs'[new] = started
        /\ \A j \in JobId : jobs'[j] = jobs[j]
    BY <1>5, <1>7, <1>9, Zenon
  <2>2. Types'
    <3>1. enqueued_tasks \in Seq(1..new)
      <4>1. enqueued_tasks \in Seq(JobId)
        BY DEF Types
      <4> QED
        BY <4>1, <1>8, SeqMonotonic, Zenon
    <3>2. active_tasks' \subseteq 1..new
      BY <1>1, <1>8, <1>9, Zenon
    <3> QED
      BY <1>1, <1>6, <1>9, <2>1, <3>1, <3>2, Zenon DEF Types
  <2>3. QueueSound'
    BY <1>2, <1>8, <1>9, <2>1, Zenon DEF QueueSound
  <2>4. NoneWaits'
    <3> SUFFICES ASSUME NEW j \in active_tasks', NEW m \in enqueued_messages',
                        should_deliver(jobs'[j].attempt, sent'[m])
                 PROVE  FALSE
      BY Zenon DEF NoneWaits, should_deliver, associated_block_id_acceptable
    <3>1. CASE j = new
      <4>1. should_deliver(attempt, sent[m])
        BY <1>5, <1>6, <2>1, <3>1, Zenon
      <4> QED
        BY <4>1, <1>9, DeliveredIsKept, Zenon
    <3>2. CASE j \in active_tasks
      <4>1. should_deliver(jobs[j].attempt, sent[m])
        BY <1>1, <1>6, <2>1, <3>2, Zenon
      <4> QED
        BY <4>1, <1>9, <3>2, Zenon DEF NoneWaits
    <3> QED
      BY <1>9, <3>1, <3>2, Zenon
  <2>5. ASSUME NEW m \in enqueued_messages \ enqueued_messages'
        PROVE  \E j \in active_tasks' \ active_tasks :
                 /\ jobs'[j].attempt.hash = sent[m].hash
                 /\ jobs'[j].attempt.ssid = sent[m].ssid
                 /\ should_deliver(jobs'[j].attempt, sent[m])
                      => m \in jobs'[j].inbox
    <3>1. m \in KeptFor(attempt, enqueued_messages)
      BY <1>9, Zenon
    <3>2. attempt.hash = sent[m].hash /\ attempt.ssid = sent[m].ssid
      BY <3>1, Zenon DEF KeptFor
    <3>3. new \in active_tasks' \ active_tasks
      BY <1>8, <1>9, Zenon
    <3> QED
      BY <1>5, <2>1, <3>1, <3>2, <3>3, Zenon
  <2> QED
    BY <2>2, <2>3, <2>4, <2>5, Zenon DEF WorkInv
<1>10. CASE /\ jobs' = Append(jobs, job)
            /\ enqueued_tasks' = Append(enqueued_tasks, new)
            /\ active_tasks' = active_tasks
            /\ enqueued_messages' = enqueued_messages
  <2>1. /\ jobs' \in Seq(Job) /\ JobId' = 1..new /\ jobs'[new] = job
        /\ \A j \in JobId : jobs'[j] = jobs[j]
    BY <1>3, <1>7, <1>10, Zenon
  <2>2. /\ enqueued_tasks' \in Seq(1..new)
        /\ Len(enqueued_tasks') = Len(enqueued_tasks) + 1
        /\ enqueued_tasks'[Len(enqueued_tasks) + 1] = new
        /\ \A i \in 1..Len(enqueued_tasks) :
             enqueued_tasks'[i] = enqueued_tasks[i]
    <3>1. enqueued_tasks \in Seq(1..new)
      <4>1. enqueued_tasks \in Seq(JobId)
        BY Zenon DEF Types
      <4> QED
        BY <4>1, <1>8, SeqMonotonic, Zenon
    <3>2. new \in 1..new
      BY <1>8, Zenon
    <3> HIDE DEF new
    <3> QED
      BY <3>1, <3>2, <1>10, AppendProperties
  <2>3. Types'
    BY <1>1, <1>6, <1>8, <1>10, <2>1, <2>2, Zenon DEF Types
  <2>4. QueueSound'
    BY <1>2, <1>4, <1>8, <1>10, <2>1, <2>2 DEF QueueSound
  <2>5. NoneWaits'
    BY <1>1, <1>6, <1>10, <2>1, StillNone, Zenon
  <2> QED
    BY <1>10, <2>3, <2>4, <2>5, Zenon DEF WorkInv
<1> QED
  BY <1>6, <1>9, <1>10, Zenon

\* clear_enqueued_tasks and force_shutdown_all: the queue is empty after either,
\* and a job they drop is still for the same attempt.
LEMMA Clear ==
  ASSUME WorkInv, NEW gone,
         jobs' = [j \in JobId |-> IF j \in gone THEN Dropped(jobs[j])
                                  ELSE jobs[j]],
         enqueued_tasks' = << >>, active_tasks' \subseteq active_tasks,
         enqueued_messages' \subseteq enqueued_messages,
         UNCHANGED <<now, session, sent>>
  PROVE  WorkInv'
<1>t. Types /\ QueueSound /\ NoneWaits
  BY Zenon DEF WorkInv
<1>1. /\ Len(jobs) \in Nat /\ \A j \in JobId : jobs[j] \in Job
      /\ active_tasks \subseteq JobId
  BY <1>t, JobsType, Zenon DEF Types
<1>2. \A j \in JobId : jobs'[j] \in Job /\ jobs'[j].attempt = jobs[j].attempt
  BY <1>1, DroppedJob, Zenon
<1>3. jobs' \in Seq(Job) /\ JobId' = JobId
  <2>1. jobs' \in [JobId -> Job]
    BY <1>2, Zenon
  <2> QED
    BY <1>t, <2>1, JobsRemade, Zenon DEF Types
<1>4. Types'
  <2>1. enqueued_tasks' \in Seq(JobId')
    OBVIOUS
  <2> QED
    BY <1>t, <1>3, <2>1, Zenon DEF Types
<1>5. QueueSound'
  BY DEF QueueSound
<1>6. NoneWaits'
  BY <1>t, <1>1, <1>2, StillNone, Zenon
<1> QED
  BY <1>4, <1>5, <1>6, Zenon DEF WorkInv

\* A step that changes one job, and not its attempt, keeps the others.
LEMMA JobChanged ==
  ASSUME Types, NEW i \in JobId, NEW job \in Job,
         job.attempt = jobs[i].attempt, jobs' = [jobs EXCEPT ![i] = job]
  PROVE  /\ jobs' \in Seq(Job) /\ JobId' = JobId /\ jobs'[i] = job
         /\ \A j \in JobId : /\ j # i => jobs'[j] = jobs[j]
                             /\ jobs'[j].attempt = jobs[j].attempt
<1>1. jobs \in [JobId -> Job] /\ jobs \in Seq(Job)
  BY JobsType DEF Types, JobId
<1>2. jobs' \in [JobId -> Job]
  BY <1>1, Zenon
<1>3. jobs' \in Seq(Job) /\ JobId' = JobId
  BY <1>1, <1>2, JobsRemade, Zenon
<1> QED
  BY <1>1, <1>3, Zenon

\* deliver_message: a message that no job wants joins the store, where no active
\* job would look for it; any other goes to a job.
LEMMA DeliverMessage ==
  ASSUME WorkInv, NEW m \in Message, NEW msg \in Attempt, deliver_message(m, msg)
  PROVE  WorkInv' /\ enqueued_messages \subseteq enqueued_messages'
<1>t. Types /\ QueueSound /\ NoneWaits
  BY DEF WorkInv
<1> DEFINE wanting == {j \in active_tasks \cup Queued :
                         should_deliver(jobs[j].attempt, msg)}
<1>1. /\ m \notin DOMAIN sent
      /\ sent' = [x \in DOMAIN sent \cup {m} |-> IF x = m THEN msg ELSE sent[x]]
      /\ \/ /\ wanting = {} /\ jobs' = jobs
            /\ enqueued_messages' = enqueued_messages \cup {m}
         \/ \E j \in wanting :
              /\ jobs' = [jobs EXCEPT ![j] = WithMessages(jobs[j], {m})]
              /\ enqueued_messages' = enqueued_messages
      /\ now' = now /\ session' = session /\ active_tasks' = active_tasks
      /\ enqueued_tasks' = enqueued_tasks
  BY Zenon DEF deliver_message
<1>2. /\ DOMAIN sent' = DOMAIN sent \cup {m} /\ sent'[m] = msg
      /\ \A x \in enqueued_messages : x # m /\ sent'[x] = sent[x]
  BY <1>t, <1>1, Zenon DEF Types
<1>3. /\ Len(jobs) \in Nat /\ \A j \in JobId : jobs[j] \in Job
      /\ active_tasks \subseteq JobId
  BY <1>t, JobsType, Zenon DEF Types
<1>4. wanting \subseteq JobId
  BY <1>t, <1>3, LenProperties, ElementOfSeq DEF Types, Queued
<1>5. CASE /\ wanting = {} /\ jobs' = jobs
           /\ enqueued_messages' = enqueued_messages \cup {m}
  <2>1. JobId' = JobId
    BY <1>5, Zenon DEF JobId
  <2>2. Types' /\ QueueSound'
    BY <1>t, <1>1, <1>2, <1>5, <2>1, Zenon DEF Types, QueueSound
  <2>3. NoneWaits'
    <3> SUFFICES ASSUME NEW j \in active_tasks', NEW x \in enqueued_messages',
                        should_deliver(jobs'[j].attempt, sent'[x])
                 PROVE  FALSE
      BY Zenon DEF NoneWaits, should_deliver, associated_block_id_acceptable
    <3>1. CASE x = m
      <4>1. j \in active_tasks /\ should_deliver(jobs[j].attempt, msg)
        BY <1>1, <1>2, <1>5, <3>1, Zenon
      <4> QED
        BY <4>1, <1>5, Zenon
    <3>2. CASE x \in enqueued_messages
      <4>1. j \in active_tasks /\ should_deliver(jobs[j].attempt, sent[x])
        BY <1>1, <1>2, <1>5, <3>2, Zenon
      <4> QED
        BY <1>t, <3>2, <4>1, Zenon DEF NoneWaits
    <3> QED
      BY <1>5, <3>1, <3>2, Zenon
  <2> QED
    BY <1>5, <2>2, <2>3, Zenon DEF WorkInv
<1>6. ASSUME NEW j \in wanting,
             jobs' = [jobs EXCEPT ![j] = WithMessages(jobs[j], {m})],
             enqueued_messages' = enqueued_messages
      PROVE  WorkInv' /\ enqueued_messages \subseteq enqueued_messages'
  <2> DEFINE job == WithMessages(jobs[j], {m})
  <2>1. /\ j \in JobId /\ job \in Job /\ job.attempt = jobs[j].attempt
        /\ job.status = jobs[j].status
    BY <1>3, <1>4, GivenJob
  <2>2. jobs' = [jobs EXCEPT ![j] = job]
    BY <1>6, Zenon
  <2> HIDE DEF job, wanting
  <2>3. /\ jobs' \in Seq(Job) /\ JobId' = JobId /\ jobs'[j] = job
        /\ \A k \in JobId : /\ k # j => jobs'[k] = jobs[k]
                            /\ jobs'[k].attempt = jobs[k].attempt
    BY <1>t, <2>1, <2>2, JobChanged, Zenon
  <2>4. Types'
    BY <1>t, <1>1, <1>2, <1>6, <2>3, Zenon DEF Types
  <2>5. QueueSound'
    <3>1. \A i \in 1..Len(enqueued_tasks) : enqueued_tasks[i] \in JobId
      BY <1>t, ElementOfSeq, Zenon DEF Types
    <3>2. \A k \in JobId : jobs'[k].status = jobs[k].status
      BY <2>1, <2>3, Zenon
    <3> QED
      BY <1>t, <1>1, <3>1, <3>2, Zenon DEF QueueSound
  <2>6. NoneWaits'
    <3> SUFFICES ASSUME NEW k \in active_tasks', NEW x \in enqueued_messages',
                        should_deliver(jobs'[k].attempt, sent'[x])
                 PROVE  FALSE
      BY Zenon DEF NoneWaits, should_deliver, associated_block_id_acceptable
    <3>1. /\ k \in active_tasks /\ x \in enqueued_messages
          /\ should_deliver(jobs[k].attempt, sent[x])
      BY <1>1, <1>2, <1>3, <1>6, <2>3, Zenon
    <3> QED
      BY <1>t, <3>1, Zenon DEF NoneWaits
  <2> QED
    BY <1>6, <2>4, <2>5, <2>6, Zenon DEF WorkInv
<1> QED
  BY <1>1, <1>5, <1>6, Zenon

\* The end of a protocol changes the status of a job that is not queued.
LEMMA Completes ==
  ASSUME WorkInv, NEW j \in JobId, TaskCompletes(j)
  PROVE  WorkInv'
<1>t. Types /\ QueueSound /\ NoneWaits
  BY DEF WorkInv
<1> DEFINE job == [jobs[j] EXCEPT !.status = "Complete"]
<1>1. /\ jobs[j].status = "Running" /\ jobs' = [jobs EXCEPT ![j] = job]
      /\ now' = now /\ session' = session /\ active_tasks' = active_tasks
      /\ enqueued_tasks' = enqueued_tasks
      /\ enqueued_messages' = enqueued_messages /\ sent' = sent
  BY Zenon DEF TaskCompletes
<1>2. jobs[j] \in Job /\ active_tasks \subseteq JobId
  BY <1>t, JobsType, Zenon DEF Types
<1>3. "Complete" \in Status
  BY DEF Status
<1>4. job \in Job /\ job.attempt = jobs[j].attempt
  BY <1>2, <1>3, Zenon DEF Job
<1> HIDE DEF job
<1>5. /\ jobs' \in Seq(Job) /\ JobId' = JobId
      /\ \A k \in JobId : /\ k # j => jobs'[k] = jobs[k]
                          /\ jobs'[k].attempt = jobs[k].attempt
  BY <1>t, <1>1, <1>4, JobChanged, Zenon
<1>6. Types'
  BY <1>t, <1>1, <1>5, Zenon DEF Types
<1>7. QueueSound'
  <2>1. \A i \in 1..Len(enqueued_tasks) :
          enqueued_tasks[i] \in JobId /\ enqueued_tasks[i] # j
    BY <1>t, <1>1, ElementOfSeq, Zenon DEF Types, QueueSound
  <2> QED
    BY <1>t, <1>1, <1>5, <2>1 DEF QueueSound
<1>8. NoneWaits'
  BY <1>t, <1>1, <1>2, <1>5, StillNone, Zenon
<1> QED
  BY <1>6, <1>7, <1>8, Zenon DEF WorkInv

\* A block changes neither a task nor a message.
LEMMA Block ==
  ASSUME WorkInv, NewBlock
  PROVE  WorkInv'
<1>t. Types /\ QueueSound /\ NoneWaits
  BY Zenon DEF WorkInv
<1>1. /\ now' \in 0..MaxBlockNumber /\ session' \in 0..MaxSession /\ jobs' = jobs
      /\ active_tasks' = active_tasks /\ enqueued_tasks' = enqueued_tasks
      /\ enqueued_messages' = enqueued_messages /\ sent' = sent
      /\ JobId' = JobId
  BY <1>t, WorkAssumption DEF NewBlock, Types, JobId
<1>2. Types' /\ QueueSound'
  BY <1>t, <1>1, Zenon DEF Types, QueueSound
<1>3. NoneWaits'
  <2>1. active_tasks \subseteq JobId
    BY <1>t, Zenon DEF Types
  <2> QED
    BY <1>t, <1>1, <2>1, StillNone, Zenon
<1> QED
  BY <1>2, <1>3, Zenon DEF WorkInv
-----------------------------------------------------------------------------
(* Theorems *)

\* The invariant holds in every state of the work manager: a queued job has not
\* begun, is not active and is queued once, and the store holds nothing that an
\* active job should have.
THEOREM WorkInvariance == WorkSpec => []WorkInv
<1>1. WorkInit => WorkInv
  BY WorkAssumption DEF WorkInit, WorkInv, Types, QueueSound, NoneWaits, JobId
<1>2. WorkInv /\ [WorkNext]_workVars => WorkInv'
  <2> SUFFICES ASSUME WorkInv, [WorkNext]_workVars
               PROVE  WorkInv'
    OBVIOUS
  <2>1. CASE NewBlock
    BY <2>1, Block, Zenon
  <2>2. CASE poll
    BY <2>2, Poll, Zenon
  <2>3. CASE \E hash \in Hash, ssid \in Ssid, force_start \in BOOLEAN :
               push_task(hash, ssid, force_start)
    BY <2>3, PushTask, Zenon
  <2>4. CASE clear_enqueued_tasks
    BY <2>4, Clear, Zenon DEF clear_enqueued_tasks
  <2>5. CASE force_shutdown_all
    BY <2>5, Clear, Zenon DEF force_shutdown_all
  <2>6. CASE \E m \in Message, msg \in Attempt : deliver_message(m, msg)
    BY <2>6, DeliverMessage, Zenon
  <2>7. CASE \E j \in JobId : TaskCompletes(j)
    BY <2>7, Completes, Zenon
  <2>8. CASE UNCHANGED workVars
    BY <2>8, Zenon DEF workVars, WorkInv, Types, QueueSound, NoneWaits, JobId,
                should_deliver, associated_block_id_acceptable
  <2> QED
    BY <2>1, <2>2, <2>3, <2>4, <2>5, <2>6, <2>7, <2>8, Zenon DEF WorkNext
<1> QED
  BY <1>1, <1>2, PTL DEF WorkSpec

\* No message that a running job should have is left in enqueued_messages, for
\* whatever order of pushes, polls, shutdowns, blocks and messages.
THEOREM NoneLeftWaiting == WorkSpec => []NoneWaits
<1>1. WorkInv => NoneWaits
  BY DEF WorkInv
<1> QED
  BY <1>1, WorkInvariance, PTL

\* A message stored for a future protocol (the comment of deliver_message) leaves
\* the store for a job of its task and signing set that starts, and has it if it
\* should, when it is outdated or when everything is shut down.  The invariant is
\* needed: poll hands a message only to a handle that is not done, and the jobs
\* it starts are not active ones.
THEOREM MessagesStored == WorkSpec => StoredUntilUsed
<1> DEFINE used ==
      \A m \in enqueued_messages \ enqueued_messages' :
        \/ ~associated_block_id_acceptable(now, sent[m].block)
        \/ force_shutdown_all
        \/ \E j \in active_tasks' \ active_tasks :
             /\ jobs'[j].attempt.hash = sent[m].hash
             /\ jobs'[j].attempt.ssid = sent[m].ssid
             /\ should_deliver(jobs'[j].attempt, sent[m])
                  => m \in jobs'[j].inbox
<1>1. WorkInv /\ [WorkNext]_workVars => [used]_workVars
  <2> SUFFICES ASSUME WorkInv, WorkNext
               PROVE  used
    OBVIOUS
  <2>1. CASE poll
    BY <2>1, Poll, Zenon
  <2>2. CASE \E hash \in Hash, ssid \in Ssid, force_start \in BOOLEAN :
               push_task(hash, ssid, force_start)
    BY <2>2, PushTask, Zenon
  <2>3. CASE force_shutdown_all
    BY <2>3, Zenon
  <2>4. CASE \E m \in Message, msg \in Attempt : deliver_message(m, msg)
    BY <2>4, DeliverMessage, Zenon
  <2>5. CASE NewBlock \/ clear_enqueued_tasks \/ \E j \in JobId : TaskCompletes(j)
    BY <2>5 DEF NewBlock, clear_enqueued_tasks, TaskCompletes
  <2> QED
    BY <2>1, <2>2, <2>3, <2>4, <2>5 DEF WorkNext
<1> QED
  BY <1>1, WorkInvariance, PTL DEF WorkSpec, StoredUntilUsed
=============================================================================

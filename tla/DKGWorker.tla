----------------------------- MODULE DKGWorker -----------------------------
(***************************************************************************)
(* How the worker of one node follows the sessions of the chain            *)
(* (dkg-gadget/src/worker.rs): the authority sets and best authorities it  *)
(* caches, on which finality notifications they move, and the use that is  *)
(* made of them when a signature is complete.                              *)
(*                                                                         *)
(* The chain is external; DKGMetadata has its rotations in full.  The      *)
(* worker reads the chain at the header it handles, so a notification that *)
(* waits in the stream is as good as a chain that stands still: it is      *)
(* enough to let the worker handle the head or miss it.                    *)
(***************************************************************************)
EXTENDS Integers, FiniteSets, FiniteSetsExt

CONSTANTS
  Node,
  Me,             \* the node whose worker this is
  AuthoritySets,  \* the sets that the session pallet may choose
  MaxBlock,       \* bound: block numbers
  None

ASSUME WorkerAssumption ==
  /\ Me \in Node
  /\ AuthoritySets \subseteq SUBSET Node \ {{}} /\ AuthoritySets # {}
  /\ MaxBlock \in Nat \ {0}
  /\ None \notin Nat

VARIABLES
  head,           \* the state of the metadata pallet at the head
  stage,          \* "initialization" or "running"
  latest_header,  \* a block number, 0 for None
  cache,          \* current_validator_set, queued_validator_set,
                  \* best_authorities and next_best_authorities
  signs_for,      \* the session that Me signs for, or None
  saved,          \* sessions with signed proposals in the offchain storage
  handled_ids     \* history: ids of the sets of the blocks handled

worker == <<stage, latest_header, cache, signs_for, handled_ids>>
workerVars == <<head, worker, saved>>

GENESIS_AUTHORITY_SET_ID == 0
AuthoritySet(id, authorities) == [id |-> id, authorities |-> authorities]
NoSet == AuthoritySet(0, {})
NoCache == [current |-> NoSet, queued |-> NoSet, best |-> {}, next_best |-> {}]

\* validator_set: the sets of the consensus log are the ones in storage.  The
\* id of the queued set is one more than the active id, not
\* NextAuthoritySetId.
Active == AuthoritySet(head.id, head.authorities)
Queued == AuthoritySet(head.id + 1, head.next_authorities)

Best(authorities) == SUBSET authorities \ {{}}

WorkerInit ==
  /\ \E set \in AuthoritySets : \E best \in Best(set) :
       head = [number |-> 1, key |-> None, id |-> 0, next_id |-> 1,
               authorities |-> set, next_authorities |-> set,
               best |-> best, next_best |-> best]
  /\ stage = "initialization"
  /\ latest_header = 0
  /\ cache = NoCache
  /\ signs_for = None
  /\ saved = {}
  /\ handled_ids = {}
-----------------------------------------------------------------------------
(* The chain: what a new head may bring *)

NewHead(state) ==
  /\ head.number < MaxBlock
  /\ head' = [state EXCEPT !.number = head.number + 1]
  /\ UNCHANGED <<worker, saved>>

new_block == NewHead(head)

submit_public_key ==
  /\ head.key = None
  /\ NewHead([head EXCEPT !.key = head.id])

\* The next best authorities are chosen again when one of them is jailed.
next_best_changes ==
  \E best \in Best(head.next_authorities) \ {head.next_best} :
    NewHead([head EXCEPT !.next_best = best])

\* A session ends with a next key that is signed.
rotation ==
  /\ head.key # None
  /\ \E next \in AuthoritySets : \E best \in Best(next) :
       NewHead([head EXCEPT !.key = head.next_id, !.id = head.next_id,
                            !.next_id = head.next_id + 1,
                            !.authorities = head.next_authorities,
                            !.next_authorities = next,
                            !.best = head.next_best, !.next_best = best])

\* force_change_authorities without a next key: only the id of the next set
\* moves, since the next authorities stay who they are.
forced_change ==
  /\ NewHead([head EXCEPT !.next_id = head.next_id + 1])
-----------------------------------------------------------------------------
(* The worker *)

maybe_enact_genesis_authorities(c) ==
  IF head.id = GENESIS_AUTHORITY_SET_ID
  THEN [c EXCEPT !.current = Active, !.best = head.best,
                 !.next_best = head.next_best]
  ELSE c

\* Mutant: the key is compared with the queued set of the chain.
ComparedWithHeader(c) ==
  IF head.key = Queued.id
  THEN [current |-> Active, queued |-> Queued,
        best |-> c.next_best, next_best |-> head.next_best]
  ELSE c

\* The worker moves on exactly when the key on chain is of the set that it has
\* queued.
maybe_rotate_local_session(c) ==
  IF head.key = c.queued.id
  THEN [current |-> Active, queued |-> Queued,
        best |-> c.next_best, next_best |-> head.next_best]
  ELSE c

\* What process_block_notification does with the head, from the caches c.  The
\* header is noted before the worker looks whether the node is still syncing.
\* Of the managers it matters here that the signing manager may start to sign
\* for the session of the key on chain.
Handled(c, syncing) ==
  /\ latest_header' = head.number
  /\ cache' = IF syncing THEN c
              ELSE IF head.key = None THEN maybe_enact_genesis_authorities(c)
              ELSE maybe_rotate_local_session(c)
  /\ signs_for' \in IF ~syncing /\ head.key # None /\ Me \in head.best
                   THEN {signs_for, head.key} ELSE {signs_for}

\* A header that is not newer than the latest one is ignored.
process_block_notification(syncing) ==
  /\ stage = "running"
  /\ latest_header < head.number
  /\ Handled(cache, syncing)
  /\ handled_ids' = IF syncing THEN handled_ids ELSE handled_ids \cup {head.id}
  /\ UNCHANGED <<head, stage, saved>>

\* The first notification fills the caches, except for the next best
\* authorities, and is then handled like any other.
initialization(syncing) ==
  /\ stage = "initialization"
  /\ stage' = "running"
  /\ Handled([current |-> Active, queued |-> Queued, best |-> head.best,
              next_best |-> cache.next_best], syncing)
  /\ handled_ids' = {head.id}
  /\ UNCHANGED <<head, saved>>

\* Only a node that finds itself in the validator set it has cached saves; a
\* header is known by then.  ProposalHandler has the overwriting of what was
\* saved before.
save_signed_proposals_in_storage(session) ==
  saved' = IF Me \in cache.current.authorities
           THEN saved \cup {session} ELSE saved

\* A signature is complete.  The results of a batch key of length 1 are all
\* there with the first one.
process_vote_result ==
  /\ signs_for # None
  /\ signs_for' = None
  /\ save_signed_proposals_in_storage(signs_for)
  /\ UNCHANGED <<head, stage, latest_header, cache, handled_ids>>

\* A stream of the worker ends, which ends run, or the node goes down.  What is
\* in the offchain storage stays.
restart ==
  /\ stage = "running"
  /\ stage' = "initialization"
  /\ latest_header' = 0
  /\ cache' = NoCache
  /\ signs_for' = None
  /\ handled_ids' = {}
  /\ UNCHANGED <<head, saved>>

WorkerNext ==
  \/ new_block \/ submit_public_key \/ next_best_changes
  \/ rotation \/ forced_change
  \/ \E syncing \in BOOLEAN :
       initialization(syncing) \/ process_block_notification(syncing)
  \/ process_vote_result
  \/ restart

WorkerSpec == WorkerInit /\ [][WorkerNext]_workerVars
-----------------------------------------------------------------------------
(* Properties *)

\* Since it started, the worker has handled a block of each set id.
NoneMissed == handled_ids # {} /\ Min(handled_ids)..head.id \subseteq handled_ids

\* maybe_rotate_local_session compares for equality, and that is enough as long
\* as the ids on chain go up one by one and the worker handles a block of each,
\* in whatever sessions the node was restarted or was syncing for a while: its
\* validator set is the active one once it has handled one block of it.
FollowsSessions == NoneMissed => cache.current = Active

=============================================================================

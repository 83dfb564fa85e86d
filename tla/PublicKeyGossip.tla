-------------------------- MODULE PublicKeyGossip --------------------------
(***************************************************************************)
(* From a generated key to the key on chain: each party of a keygen signs  *)
(* and gossips the key (dkg-gadget/src/gossip_messages), each node         *)
(* aggregates what it hears and leaves it in its offchain storage          *)
(* (dkg-gadget/src/storage), and the offchain worker of the metadata       *)
(* pallet submits that after a random delay.                               *)
(*                                                                         *)
(* The authorities and thresholds of the session and of the next one do   *)
(* not change: rotations are in DKGMetadata.  A keygen that is run again   *)
(* makes another key.  Blocks are counted down to the block that is waited *)
(* for.  Submissions composes this module with MisbehaviourReports.        *)
(***************************************************************************)
EXTENDS Integers, FiniteSets

CONSTANTS
  Node,
  MaxKeygens,           \* bound: how often a keygen is run
  Scenes,               \* what the behaviours may start from, see scene
  MAX_SUBMISSION_DELAY,
  UnsignedInterval,
  None

\* The key in use is made in session 0, the next one in session 1.
Session == {0, 1}
Key == UNION {[session : {s}, keygen : 1 .. MaxKeygens] : s \in Session}

ASSUME PublicKeyAssumption ==
  /\ IsFiniteSet(Node)
  /\ MaxKeygens \in Nat /\ MAX_SUBMISSION_DELAY \in Nat
  /\ UnsignedInterval \in Nat
  /\ Scenes \subseteq [authorities : [Session -> SUBSET Node],
                       best : [Session -> SUBSET Node],
                       threshold : [Session -> Nat], reached : SUBSET Node,
                       keygens : [Session -> 0 .. MaxKeygens],
                       refuses : BOOLEAN]
  /\ \A scene \in Scenes, s \in Session :
       scene.best[s] \subseteq scene.authorities[s]
  /\ None \notin Nat /\ None \notin Key

VARIABLES
  scene,                       \* authorities and thresholds, the nodes that
                               \* broadcasts reach, how often the keygens are
                               \* run, and whether the pool may refuse a
                               \* submission
  keygens,                     \* session -> how often its keygen was run
  running,                     \* node -> the key it is generating, or None
  latest_executed_session_id,  \* node -> the session of its latest keygen
  made,                        \* key -> the nodes that have generated it
  messages,                    \* broadcasts under way
  aggregated_public_keys,      \* node -> session -> keys and signers
  offchain,                    \* node -> session -> keys and signers stored
  submit_at,                   \* node -> session -> blocks to wait, or None
  pool,                        \* submissions that are not in a block
  public_key,                  \* session -> key on chain, or None
  unsigned_in                  \* blocks until unsigned calls are valid

\* Of the session and, for 1, of the next one.
Authorities == scene.authorities
Best == scene.best
SignatureThreshold == scene.threshold

nodes == <<scene, keygens, running, latest_executed_session_id, made>>
storage == <<offchain, submit_at>>
chain == <<public_key, unsigned_in>>
vars == <<nodes, messages, aggregated_public_keys, storage, pool, chain>>

Init ==
  /\ scene \in Scenes
  /\ keygens = [s \in Session |-> 0]
  /\ running = [n \in Node |-> None]
  /\ latest_executed_session_id = [n \in Node |-> None]
  /\ made = [k \in Key |-> {}]
  /\ messages = {}
  /\ aggregated_public_keys = [n \in Node |-> [s \in Session |-> {}]]
  /\ offchain = [n \in Node |-> [s \in Session |-> {}]]
  /\ submit_at = [n \in Node |-> [s \in Session |-> None]]
  /\ pool = {}
  /\ public_key = [s \in Session |-> None]
  /\ unsigned_in = 0
-----------------------------------------------------------------------------
(* Keygens *)

\* The best authorities run the keygen of a session that has no key; what they
\* were running before is given up.
maybe_start_keygen(s) ==
  LET k == [session |-> s, keygen |-> keygens[s] + 1]
  IN  /\ keygens[s] < scene.keygens[s]
      /\ public_key[s] = None /\ (s = 1 => public_key[0] # None)
      /\ keygens' = [keygens EXCEPT ![s] = @ + 1]
      /\ running' = [n \in Node |-> IF n \in Best[s] THEN k ELSE running[n]]
      /\ latest_executed_session_id' =
           [n \in Node |-> IF n \in Best[s] THEN s
                           ELSE latest_executed_session_id[n]]
      /\ UNCHANGED <<scene, made, messages, aggregated_public_keys, storage,
                     pool, chain>>

\* A node has the key: it signs it, gossips it and aggregates its own.
gossip_public_key(n) ==
  LET k == running[n]
  IN  /\ k # None
      /\ running' = [running EXCEPT ![n] = None]
      /\ made' = [made EXCEPT ![k] = @ \cup {n}]
      /\ messages' = messages \cup {[to |-> q, key |-> k, by |-> n] :
                                      q \in scene.reached \ {n}}
      /\ aggregated_public_keys' =
           [aggregated_public_keys EXCEPT
              ![n][k.session] = @ \cup {[key |-> k, by |-> n]}]
      /\ UNCHANGED <<scene, keygens, latest_executed_session_id, storage, pool,
                     chain>>
-----------------------------------------------------------------------------
(* Aggregation *)

\* verify_signature_against_authorities: is the message signed by an authority,
\* current or queued?
Verified(m) == m.by \in Authorities[0] \cup Authorities[1]

\* authenticate_msg_origin: is the key signed by one of the authorities,
\* or, if the node has not run that keygen, of the queued authorities?
Authentic(m) ==
  /\ Verified(m)
  /\ m.by \in Authorities[IF latest_executed_session_id[m.to] = m.key.session
                          THEN 0 ELSE 1]

\* Mutant: one key more than enough.
EnoughAndOne(keys) == Cardinality(keys) > SignatureThreshold[1] + 1

\* "Whether this generated key was for genesis or next, we always use the next".
Enough(keys) == Cardinality(keys) > SignatureThreshold[1]

\* The keys of a session are stored, to be submitted a few blocks later, and no
\* keys are kept but those of later sessions.
store_aggregated_public_keys(n, s, keys) ==
  /\ offchain' = [offchain EXCEPT ![n][s] = keys]
  /\ \E delay \in 0 .. MAX_SUBMISSION_DELAY :
       submit_at' = [submit_at EXCEPT ![n][s] = delay]
  /\ aggregated_public_keys' =
       [aggregated_public_keys EXCEPT ![n] =
          [x \in Session |-> IF x > s THEN @[x] ELSE {}]]

\* A broadcast arrives.
handle_public_key_broadcast(m) ==
  LET s == m.key.session
      keys == aggregated_public_keys[m.to][s]
                \cup {[key |-> m.key, by |-> m.by]}
  IN  /\ m \in messages
      /\ messages' = messages \ {m}
      /\ \/ /\ ~Authentic(m)
            /\ UNCHANGED <<aggregated_public_keys, storage>>
         \/ /\ Authentic(m) /\ ~Enough(keys)
            /\ aggregated_public_keys' =
                 [aggregated_public_keys EXCEPT ![m.to][s] = keys]
            /\ UNCHANGED storage
         \/ /\ Authentic(m) /\ Enough(keys)
            /\ store_aggregated_public_keys(m.to, s, keys)
      /\ UNCHANGED <<nodes, pool, chain>>
-----------------------------------------------------------------------------
(* The offchain worker: submit_genesis_public_key_onchain for session 0 and *)
(* submit_next_public_key_onchain for session 1                             *)

\* There are keys whose time has come; without a time they wait for good.
Due(n, s) == unsigned_in = 0 /\ offchain[n][s] # {} /\ submit_at[n][s] = 0

\* The keys leave the storage: for the pool, or because there is a key.
submit_public_key_onchain(n, s) ==
  /\ Due(n, s)
  /\ submit_at' = [submit_at EXCEPT ![n][s] = None]
  /\ offchain' = [offchain EXCEPT ![n][s] = {}]
  /\ pool' = IF public_key[s] # None THEN pool
             ELSE pool \cup {[session |-> s, keys |-> offchain[n][s]]}
  /\ UNCHANGED <<nodes, messages, aggregated_public_keys, chain>>

\* "Failed to submit the public key, will retry later".
submission_refused(n, s) ==
  /\ scene.refuses
  /\ Due(n, s) /\ public_key[s] = None
  /\ submit_at' = [submit_at EXCEPT ![n][s] = None]
  /\ UNCHANGED <<nodes, messages, aggregated_public_keys, offchain, pool,
                 chain>>
-----------------------------------------------------------------------------
(* The chain *)

\* Mutant: reporters are counted for all keys together.
ReportersOfAll(keys, k) == {e.by : e \in keys}

\* process_public_key_submissions: who has signed k.
ReportersOf(keys, k) == {e.by : e \in {x \in keys : x.key = k}}

\* The keys in a submission that enough authorities have signed; none if there
\* is a signature of somebody else, or a key already.
Accepted(tx) ==
  IF unsigned_in > 0 \/ public_key[tx.session] # None
     \/ \E e \in tx.keys : e.by \notin Best[tx.session]
  THEN {}
  ELSE {k \in {e.key : e \in tx.keys} :
          Cardinality(ReportersOf(tx.keys, k))
            >= SignatureThreshold[tx.session]}

\* submit_public_key and submit_next_public_key.
submit_public_key(tx) ==
  /\ tx \in pool
  /\ pool' = pool \ {tx}
  /\ \/ /\ Accepted(tx) = {}
        /\ UNCHANGED chain
     \/ \E k \in Accepted(tx) :
          /\ public_key' = [public_key EXCEPT ![tx.session] = k]
          /\ unsigned_in' = UnsignedInterval
  /\ UNCHANGED <<nodes, messages, aggregated_public_keys, storage>>

Waiting == \/ unsigned_in > 0
           \/ \E n \in Node, s \in Session : submit_at[n][s] \notin {None, 0}

NewBlock ==
  /\ Waiting
  /\ unsigned_in' = IF unsigned_in > 0 THEN unsigned_in - 1 ELSE 0
  /\ submit_at' = [n \in Node |-> [s \in Session |->
                     IF submit_at[n][s] \in {None, 0} THEN submit_at[n][s]
                     ELSE submit_at[n][s] - 1]]
  /\ UNCHANGED <<nodes, messages, aggregated_public_keys, offchain, pool,
                 public_key>>

Step(n) ==
  \/ gossip_public_key(n)
  \/ \E s \in Session : submit_public_key_onchain(n, s)

-----------------------------------------------------------------------------
(* Properties *)

\* A key on chain is one that a threshold of its authorities has generated:
\* signatures of another keygen of the session do not count for it.
KeyHasReporters ==
  \A s \in Session : public_key[s] # None =>
    Cardinality(made[public_key[s]] \cap Best[s]) >= SignatureThreshold[s]
=============================================================================

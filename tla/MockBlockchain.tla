--------------------------- MODULE MockBlockchain ---------------------------
(***************************************************************************)
(* The test bench: the orchestrator (dkg-mock-blockchain), which plays the *)
(* chain for DKG clients and counts their results, the mock runtime API    *)
(* that the clients share, and their ends of the connections               *)
(* (dkg-test-orchestrator).  A test is a keygen and, from the second test  *)
(* on, the signing of some proposals with the new key.                     *)
(*                                                                         *)
(* The queue of the orchestrator is kept as one queue per client, of which *)
(* it takes any head: connections are in order, and only they are.  A      *)
(* handshake is one step.  The DKG worker of a client is external, cut     *)
(* down to what it asks the API for and when it reports.  Nothing in the   *)
(* code makes a client connect twice or a worker report a failure.         *)
(***************************************************************************)
EXTENDS Integers, FiniteSets, Sequences, Bags, SequencesExt, FiniteSetsExt

CONSTANTS
  Client,
  Configs,                        \* MockBlockchainConfig, see config
  SigningSets,                    \* threshold -> signing sets, by batch
  max_signing_sets_per_proposal,
  None

ASSUME BenchAssumption ==
  /\ IsFiniteSet(Client) /\ Client # {}
  /\ None \notin Nat
  /\ \A cf \in Configs :
       /\ cf.positive_cases \in Nat /\ cf.unsigned_proposals_per_session \in Nat
       /\ cf.error_cases \in Seq(Nat) /\ cf.calm \in BOOLEAN
       /\ cf.threshold + 1 \in 1 .. max_signing_sets_per_proposal
       /\ \A s \in Range(SigningSets[cf.threshold]) :
            s \subseteq Client /\ Cardinality(s) = cf.threshold + 1

VARIABLES
  config,              \* and whether it is calm: a worker handles a block
                       \* after all clients have been sent it, and before
                       \* the next one is sent
  (* the orchestrator *)
  orchestrator_state,
  test_cases,          \* how many are left
  phase,               \* IntraTestPhase
  completed,           \* current_round_completed_count_keygen and _signing
  clients,             \* client -> its outstanding tasks; None: not connected
  to_notify,           \* clients the loop that sends a block has not reached
  events,              \* client -> what it has sent to the orchestrator
  exit_code,
  (* the mock API *)
  dkg_keys,            \* session -> key, by the session it was made for
  should_execute_keygen,
  unsigned_proposals,  \* the batches of one call, which share an id
  incrementing_batch_id,
  (* the clients *)
  wire,                \* client -> packets from the orchestrator
  latest_test_uuid,
  finality,            \* client -> blocks its worker has not handled
  keygen,              \* client -> session its worker runs a keygen for
  keygen_runs,         \* client -> session -> keygens it has started for it
  signs                \* client -> batch -> "running", "reported" or absent

serverState == <<orchestrator_state, test_cases, phase, completed, exit_code>>
api == <<dkg_keys, should_execute_keygen, unsigned_proposals,
         incrementing_batch_id>>
worker == <<finality, keygen, keygen_runs, signs>>
vars == <<config, serverState, clients, to_notify, events, api, wire,
          latest_test_uuid, worker>>

n_clients == Cardinality(Client)

\* generate_test_cases: the positive ones and each error case count times.
\* No case is treated differently from another.
generate_test_cases(cf) == cf.positive_cases + FoldSeq(+, 0, cf.error_cases)

\* clone_for_new_peer: each client is in the authority sets of these sessions.
n_blocks == 2 * (config.positive_cases + Len(config.error_cases))
authority_sets == 0 .. n_blocks + 1

blocks_per_session == 2
block_id_to_session_id(block) == block \div blocks_per_session

Unset == 0          \* the empty key of the genesis session
NewKey(s) == s + 1  \* the key that a keygen for session s makes

\* IntraTestPhase::new, and how it goes on.  A test keeps its trace id from its
\* keygen to its signing; only the block is a new one.
NewPhase == [is |-> "Keygen", trace_id |-> 0, round_number |-> 0, proposals |-> 0]

session_init(p, round, proposals) ==
  [is |-> "Keygen", trace_id |-> p.trace_id + 1, round_number |-> round,
   proposals |-> proposals]

keygen_to_signing(p) ==
  [p EXCEPT !.is = "Signing", !.round_number = @ + 1]

Init ==
  /\ config \in Configs
  /\ orchestrator_state = "WaitingForInit"
  /\ test_cases = generate_test_cases(config)
  /\ phase = NewPhase
  /\ completed = [keygen |-> 0, signing |-> 0]
  /\ clients = [c \in Client |-> None]
  /\ to_notify = {}
  /\ events = [c \in Client |-> << >>]
  /\ exit_code = None
  /\ dkg_keys = [s \in {0} |-> Unset]
  /\ should_execute_keygen = FALSE
  /\ unsigned_proposals = [batch_id |-> 0, count |-> 0]
  /\ incrementing_batch_id = 0
  /\ wire = [c \in Client |-> << >>]
  /\ latest_test_uuid = [c \in Client |-> None]
  /\ finality = [c \in Client |-> << >>]
  /\ keygen = [c \in Client |-> None]
  /\ keygen_runs = [c \in Client |-> [s \in authority_sets |-> 0]]
  /\ signs = [c \in Client |-> << >>]
-----------------------------------------------------------------------------
(* The mock API, as the orchestrator writes it *)

set_pub_key(keys, block, key) ==
  [s \in DOMAIN keys \cup {block_id_to_session_id(block)} |->
     IF s = block_id_to_session_id(block) THEN key ELSE keys[s]]

set_unsigned_proposals(count) ==
  /\ unsigned_proposals' = [batch_id |-> incrementing_batch_id, count |-> count]
  /\ incrementing_batch_id' = incrementing_batch_id + 1

(* and as the clients read it *)

\* dkg_pub_key, authority_set and queued_authority_set unwrap what they find.
Answerable(block) ==
  LET s == block_id_to_session_id(block)
  IN  {s, s + 1} \subseteq authority_sets /\ s \in DOMAIN dkg_keys

dkg_pub_key(block) == dkg_keys[block_id_to_session_id(block)]

next_dkg_pub_key(block) ==
  LET s == block_id_to_session_id(block) + 1
  IN  IF s \in DOMAIN dkg_keys THEN dkg_keys[s] ELSE None

get_unsigned_proposal_batches ==
  {<<unsigned_proposals.batch_id, i>> : i \in 1 .. unsigned_proposals.count}
-----------------------------------------------------------------------------
(* The orchestrator *)

NoTasks == [keygen |-> {}, signing |-> EmptyBag]

clear_tasks == [c \in Client |-> NoTasks]

Block(p) == [is |-> "block", trace_id |-> p.trace_id, block |-> p.round_number]

\* A client that has shaken hands is put into the map and reported.
handle_stream(c) ==
  /\ clients[c] = None
  /\ clients' = [clients EXCEPT ![c] = NoTasks]
  /\ events' = [events EXCEPT ![c] = Append(@, [is |-> "ClientReady"])]
  /\ UNCHANGED <<config, serverState, to_notify, api, wire, latest_test_uuid,
                 worker>>

\* The entries that a client owes for the proposals of a signing test.
SigningEntries(p) == p.proposals * max_signing_sets_per_proposal

\* The orchestrator waits three seconds before it sends a block.
begin_next_test_print ==
  config.calm /\ to_notify = Client =>
    \A d \in Client : wire[d] = << >> /\ finality[d] = << >>

\* One iteration of the loop of send_finality_notification.  It sets the API up
\* again for each client.
send_finality_notification(c) ==
  /\ c \in to_notify
  /\ begin_next_test_print
  /\ to_notify' = to_notify \ {c}
  /\ clients' =
       IF phase.is = "Keygen"
       THEN [clients EXCEPT ![c].keygen = @ \cup {phase.trace_id}]
       ELSE [clients EXCEPT ![c].signing =
               @ (+) [t \in {phase.trace_id} |-> SigningEntries(phase)]]
  /\ should_execute_keygen' = (phase.is = "Keygen")
  /\ set_unsigned_proposals(IF phase.is = "Keygen" THEN 0 ELSE phase.proposals)
  /\ wire' = [wire EXCEPT ![c] = Append(@, Block(phase))]
  /\ UNCHANGED <<config, serverState, events, dkg_keys, latest_test_uuid, worker>>

\* The session of the first round has no key, so nothing to sign with.
ProposalsOf(round) ==
  IF round >= 1 THEN config.unsigned_proposals_per_session ELSE 0

\* The next test, in round, its notifications to be sent; or the end, where
\* clear_tasks has left no task outstanding and all clients are told to halt.
orchestrator_begin_next_round(round) ==
  IF test_cases > 0
  THEN /\ test_cases' = test_cases - 1
       /\ phase' = session_init(phase, round, ProposalsOf(round))
       /\ orchestrator_state' = "AwaitingRoundCompletion"
       /\ to_notify' = Client
       /\ UNCHANGED <<exit_code, wire>>
  ELSE /\ orchestrator_state' = "Complete"
       /\ exit_code' = IF \A c \in Client : clients'[c] = NoTasks THEN 0 ELSE 1
       /\ wire' = [c \in Client |-> Append(wire[c], [is |-> "halt"])]
       /\ UNCHANGED <<test_cases, phase, to_notify>>

\* What a result changes before the round is checked for completion.
Counted(e) ==
  [keygen |-> completed.keygen
     + (IF e.is = "Keygen" /\ phase.is = "Keygen" THEN 1 ELSE 0),
   signing |-> completed.signing
     + (IF e.is = "Sign" /\ phase.is = "Signing" THEN 1 ELSE 0)]

TaskDone(c, e) ==
  IF e.is = "Keygen" /\ phase.is = "Keygen"
  THEN [clients EXCEPT ![c].keygen = @ \ {e.trace_id}]
  ELSE IF e.is = "Sign" /\ phase.is = "Signing"
  THEN [clients EXCEPT ![c].signing = @ (-) SetToBag({e.trace_id})]
  ELSE clients

\* Mutant: the key is set for the session of this round alone.
KeyOfThisRound(keys, round, e) ==
  IF e.is = "Keygen" THEN set_pub_key(keys, round, e.key) ELSE keys

\* The key of a keygen is set for the session of this and of the next round.
KeysAfter(keys, round, e) ==
  IF e.is = "Keygen"
  THEN set_pub_key(set_pub_key(keys, round, e.key), round + 1, e.key)
  ELSE keys

signing_complete(count) ==
  \/ config.unsigned_proposals_per_session = 0
  \/ count.signing = (config.threshold + 1) * phase.proposals

keygen_complete(count) == count.keygen = n_clients

\* Mutant: the signing results are counted on.
KeygenReset(count) == [count EXCEPT !.keygen = 0]

\* The counts when a test is over.
Reset(count) == [keygen |-> 0, signing |-> 0]

\* orchestrate while it waits for clients: results are only logged.
WaitingForInit(c) ==
  /\ orchestrator_state = "WaitingForInit"
  /\ IF Head(events[c]).is = "ClientReady" /\ \A d \in Client : clients[d] # None
     THEN /\ UNCHANGED clients
          /\ orchestrator_begin_next_round(phase.round_number)
     ELSE UNCHANGED <<orchestrator_state, test_cases, phase, to_notify, exit_code,
                      wire, clients>>
  /\ UNCHANGED <<completed, dkg_keys>>

\* orchestrate while a round runs: a late ClientReady changes nothing, but the
\* check whether the round is complete follows any event.
AwaitingRoundCompletion(c) ==
  LET e == Head(events[c])
      count == Counted(e)
  IN  /\ orchestrator_state = "AwaitingRoundCompletion"
      /\ dkg_keys' = KeysAfter(dkg_keys, phase.round_number, e)
      /\ \/ /\ keygen_complete(count) /\ phase.is = "Keygen" /\ phase.proposals > 0
            /\ phase' = keygen_to_signing(phase)
            /\ to_notify' = Client
            /\ clients' = TaskDone(c, e)
            /\ completed' = count
            /\ UNCHANGED <<orchestrator_state, test_cases, exit_code, wire>>
         \/ /\ ~(keygen_complete(count) /\ phase.is = "Keygen"
                  /\ phase.proposals > 0)
            /\ keygen_complete(count) /\ signing_complete(count)
            /\ completed' = Reset(count)
            /\ clients' = clear_tasks
            /\ orchestrator_begin_next_round(phase.round_number + 1)
         \/ /\ ~keygen_complete(count) \/ phase.is = "Signing"
            /\ ~(keygen_complete(count) /\ signing_complete(count))
            /\ completed' = count
            /\ clients' = TaskDone(c, e)
            /\ UNCHANGED <<orchestrator_state, test_cases, phase, to_notify,
                           exit_code, wire>>

\* The orchestrator takes an event, unless it is in the middle of sending a
\* block, or has exited.
orchestrate(c) ==
  /\ events[c] # << >> /\ to_notify = {} /\ exit_code = None
  /\ events' = [events EXCEPT ![c] = Tail(@)]
  /\ WaitingForInit(c) \/ AwaitingRoundCompletion(c)
  /\ UNCHANGED <<config, should_execute_keygen, unsigned_proposals,
                 incrementing_batch_id, latest_test_uuid, worker>>
-----------------------------------------------------------------------------
(* The clients *)

\* orchestrator_coms: a block is passed on to the worker, and results carry the
\* id of its test from now on.
orchestrator_coms(c) ==
  LET packet == Head(wire[c])
  IN  /\ wire[c] # << >>
      /\ wire' = [wire EXCEPT ![c] = Tail(@)]
      /\ \/ /\ packet.is = "block"
            /\ latest_test_uuid' = [latest_test_uuid EXCEPT ![c] = packet.trace_id]
            /\ finality' = [finality EXCEPT ![c] = Append(@, packet.block)]
         \/ packet.is = "halt" /\ UNCHANGED <<latest_test_uuid, finality>>
      /\ UNCHANGED <<config, serverState, clients, to_notify, events, api, keygen,
                     keygen_runs, signs>>

\* What the worker of c reports carries the id of the latest test, and a key if
\* it is about a keygen.
send_result_to_test_client(c, key) == [trace_id |-> latest_test_uuid[c], key |-> key]

dkg_worker_listener(c, payload) ==
  events' = [events EXCEPT ![c] =
    Append(@, [is |-> IF payload.key # None THEN "Keygen" ELSE "Sign",
               trace_id |-> payload.trace_id, key |-> payload.key])]

\* The signing set of a batch, from a generator seeded with it, its id included.
SigningSet(b) ==
  LET sets == SigningSets[config.threshold]
  IN  sets[((b[1] + b[2]) % Len(sets)) + 1]

\* The session that the worker of c starts a keygen for when it handles a
\* block, by the API: the genesis session if its key is unset, or the next one.
KeygenFor(c, block) ==
  LET s == block_id_to_session_id(block)
  IN  IF keygen[c] # None THEN None
      ELSE IF dkg_pub_key(block) = Unset THEN s
      ELSE IF should_execute_keygen /\ next_dkg_pub_key(block) = None THEN s + 1
      ELSE None

\* The worker handles a block: the keygen manager first, then, unless a keygen
\* runs, the signing manager.
FinalityNotification(c) ==
  LET block == Head(finality[c])
      s == KeygenFor(c, block)
      mine == {b \in get_unsigned_proposal_batches : c \in SigningSet(b)} \ DOMAIN signs[c]
  IN  /\ finality[c] # << >> /\ Answerable(block)
      /\ config.calm => to_notify = {}
      /\ finality' = [finality EXCEPT ![c] = Tail(@)]
      /\ IF s # None
         THEN /\ keygen' = [keygen EXCEPT ![c] = s]
              /\ keygen_runs' = [keygen_runs EXCEPT ![c][s] = @ + 1]
              /\ UNCHANGED signs
         ELSE /\ signs' = IF keygen[c] # None THEN signs
                          ELSE [signs EXCEPT ![c] =
                                  [b \in DOMAIN @ \cup mine |->
                                     IF b \in mine THEN "running" ELSE @[b]]]
              /\ UNCHANGED <<keygen, keygen_runs>>
      /\ UNCHANGED <<config, serverState, clients, to_notify, events, api, wire,
                     latest_test_uuid>>

\* A keygen ends when all clients have run it, and the key is reported.
KeygenDone(c) ==
  /\ keygen[c] # None
  /\ \A d \in Client : keygen_runs[d][keygen[c]] >= keygen_runs[c][keygen[c]]
  /\ keygen' = [keygen EXCEPT ![c] = None]
  /\ dkg_worker_listener(c, send_result_to_test_client(c, NewKey(keygen[c])))
  /\ UNCHANGED <<config, serverState, clients, to_notify, api, wire,
                 latest_test_uuid, finality, keygen_runs, signs>>

\* A batch is signed when all its signers have run it, each by itself.
SignDone(c) ==
  /\ \E b \in DOMAIN signs[c] :
       /\ signs[c][b] = "running"
       /\ \A d \in SigningSet(b) : b \in DOMAIN signs[d]
       /\ signs' = [signs EXCEPT ![c][b] = "reported"]
  /\ dkg_worker_listener(c, send_result_to_test_client(c, None))
  /\ UNCHANGED <<config, serverState, clients, to_notify, api, wire,
                 latest_test_uuid, finality, keygen, keygen_runs>>

Step(c) ==
  \/ handle_stream(c)
  \/ send_finality_notification(c)
  \/ orchestrate(c)
  \/ orchestrator_coms(c)
  \/ FinalityNotification(c)
  \/ KeygenDone(c)
  \/ SignDone(c)

Next == \E c \in Client : Step(c)

\* The tasks of the runtime are scheduled, and the protocols end.
Spec == Init /\ [][Next]_vars /\ \A c \in Client : WF_vars(Step(c))
-----------------------------------------------------------------------------
(* Properties *)

\* No unwrap, expect or assert of the bench fails: a signing result that is
\* about to be counted has an entry to take, whatever results came late
\* (orchestrate), and a block finds the key and the authority sets of its
\* session when its client asks for them (dkg_pub_key, authority_set).
NoPanic ==
  \A c \in Client :
    /\ orchestrator_state = "AwaitingRoundCompletion" /\ phase.is = "Signing"
       /\ to_notify = {} /\ events[c] # << >> /\ Head(events[c]).is = "Sign"
         => BagIn(Head(events[c]).trace_id, clients[c].signing)
    /\ \A i \in 1 .. Len(finality[c]) : Answerable(finality[c][i])

\* All tests come to an end and the bench exits with success, if the workers
\* handle each block in its time.
TestsComplete == <>(config.calm => exit_code = 0)
=============================================================================

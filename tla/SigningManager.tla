--------------------------- MODULE SigningManager ---------------------------
(***************************************************************************)
(* The signing managers of the nodes (dkg-gadget/src/signing_manager) and  *)
(* how they meet: each node walks through the same list of signing sets    *)
(* for a batch, one set per timeout, on its own count of blocks.  A batch  *)
(* is signed when all members of a set run the same attempt within the     *)
(* tolerance that messages are delivered with.                             *)
(*                                                                         *)
(* The rounds of the signing protocol are left out.  The signing sets of a *)
(* key and a batch are a constant, since they come from a generator seeded *)
(* with both.  Time is kept as ages in blocks, up to the timeout.          *)
(***************************************************************************)
EXTENDS Integers, FiniteSets, Sequences, FiniteSetsExt

CONSTANTS
  Node,
  Threshold,     \* the signature threshold of each key
  Batch,         \* the batches, numbered by their timestamps
  Forced,        \* the batches of typed chain None, needed to rotate sessions
  Key,           \* the keys of the sessions, 1 .. n
  Sets,          \* generate_signing_sets for each key
  SIGN_TIMEOUT,
  Tolerance,     \* of the associated block of a message
  MaxEnqueued,
  MaxRestarts,   \* bound
  Scenes         \* what the behaviours may start from, see scene

ASSUME SigningAssumption ==
  /\ IsFiniteSet(Node)
  /\ Batch \subseteq Nat /\ IsFiniteSet(Batch) /\ Forced \subseteq Batch
  /\ Key \subseteq Nat /\ 1 \in Key
  /\ Threshold \in [Key -> Nat]
  /\ Sets \in [Key -> Seq(SUBSET Node)]
  /\ \A k \in Key : \A i \in 1 .. Len(Sets[k]) :
       Cardinality(Sets[k][i]) = Threshold[k] + 1
  /\ SIGN_TIMEOUT \in Nat \ {0} /\ Tolerance \in Nat
  /\ MaxEnqueued \in Nat /\ MaxRestarts \in Nat
  /\ Scenes \subseteq [crashed : SUBSET Node, batches : SUBSET Batch,
                       lag : Nat, calm : BOOLEAN]

None == 0  \* no key, no attempt

VARIABLES
  scene,         \* nodes that never run, batches on chain, the blocks a node
                 \* may skip, locked or not notified, and whether it is
                 \* calm: the session does not rotate, a set whose members
                 \* all run signs before the next block and is accepted in
                 \* it, no protocol fails, no node restarts and no keygen
                 \* throws out jobs
  key,           \* chain: the key of the active session
  unsigned,      \* chain: batches that get_unsigned_proposal_batches returns
  signed,        \* batches a signature has been made for
  down,          \* nodes that do not run
  restarts,
  todo,          \* node -> batches its on_block_finalized has still to check
  handled,       \* nodes that are through with the latest block
  lag,           \* node -> blocks skipped
  ssid_history,  \* node -> batch -> SigningSetHistoryTracker
  jobs,          \* node -> batch -> its job in the work manager
  queue,         \* node -> enqueued_tasks
  ending         \* node -> tasks that are over and not yet recorded

chainState == <<scene, key, unsigned, signed>>
blockState == <<down, restarts, todo, handled, lag>>
vars == <<chainState, blockState, ssid_history, jobs, queue, ending>>

\* A SigningSetHistoryTracker: the sets attempted, the key the sets were
\* generated with, and the blocks since the latest attempt, up to SIGN_TIMEOUT.
NoHistory == [attempted |-> {}, sets |-> None, since |-> SIGN_TIMEOUT]

NoJob == [is |-> "none", ssid |-> 0, sets |-> None, session |-> None,
          age |-> 0]

Live == Node \ down

Init ==
  /\ scene \in Scenes
  /\ key = 1
  /\ unsigned = scene.batches
  /\ signed = {}
  /\ down = scene.crashed
  /\ restarts = 0
  /\ todo = [n \in Node |-> << >>]
  /\ handled = {}
  /\ lag = [n \in Node |-> 0]
  /\ ssid_history = [n \in Node |-> [b \in Batch |-> NoHistory]]
  /\ jobs = [n \in Node |-> [b \in Batch |-> NoJob]]
  /\ queue = [n \in Node |-> << >>]
  /\ ending = [n \in Node |-> {}]
-----------------------------------------------------------------------------
(* Blocks *)

Older(age) == IF age < SIGN_TIMEOUT THEN age + 1 ELSE age

Stalled(n, b) == jobs[n][b].is = "running" /\ jobs[n][b].age = SIGN_TIMEOUT

\* What the next poll drops, and what it starts: the first job that waits, if
\* nothing runs any more.
Dropped(n) == {b \in Batch : Stalled(n, b) \/ jobs[n][b].is = "done"}

Started(n) ==
  IF \A b \in Batch \ Dropped(n) : jobs[n][b].is # "running"
  THEN {queue[n][i] : i \in (1 .. Len(queue[n])) \cap {1}} ELSE {}

SetsOf(k) == IF k = None THEN << >> ELSE Sets[k]

Members(job) == SetsOf(job.sets)[job.ssid + 1]

\* Do these two jobs exchange messages?
SameAttempt(j, k) ==
  /\ j.session = k.session /\ j.ssid = k.ssid /\ Members(j) = Members(k)
  /\ j.age - k.age <= Tolerance /\ k.age - j.age <= Tolerance

\* All members of the set of n's attempt run it.
Ready(n, b) ==
  /\ jobs[n][b].is = "running"
  /\ \A m \in Members(jobs[n][b]) :
       jobs[m][b].is = "running" /\ SameAttempt(jobs[n][b], jobs[m][b])

\* The next block: the session may have rotated to the next key, and signed
\* batches may have been accepted.  Blocks are slow: the nodes are done with
\* the last one and have polled since, for they poll every 500 ms.
NewBlock(k, accepted) ==
  /\ Live \subseteq handled
  /\ \A n \in Live : Dropped(n) = {} /\ Started(n) = {}
  /\ scene.calm => /\ k = key /\ accepted = signed
                   /\ \A n \in Live, b \in Batch : ~Ready(n, b)
  /\ k \in {key, key + 1} /\ accepted \subseteq signed
  /\ key' = k
  /\ unsigned' = unsigned \ accepted
  /\ handled' = {}
  /\ ssid_history' =
       [n \in Node |-> [b \in Batch |->
          [ssid_history[n][b] EXCEPT !.since = Older(@)]]]
  /\ jobs' = [n \in Node |-> [b \in Batch |->
                IF jobs[n][b] = NoJob THEN NoJob
                ELSE [jobs[n][b] EXCEPT !.age = Older(@)]]]
  /\ UNCHANGED <<scene, signed, down, restarts, todo, lag, queue, ending>>

\* The node is locked by a keygen, or was not notified of this block.
SkipBlock(n) ==
  /\ n \in Live \ handled
  /\ todo[n] = << >>
  /\ lag[n] < scene.lag
  /\ lag' = [lag EXCEPT ![n] = @ + 1]
  /\ handled' = handled \cup {n}
  /\ UNCHANGED <<chainState, down, restarts, todo, ssid_history, jobs, queue,
                 ending>>

\* What a node loses with its process: all but its keys.
Stop(n) ==
  /\ todo' = [todo EXCEPT ![n] = << >>]
  /\ ssid_history' = [ssid_history EXCEPT ![n] = [b \in Batch |-> NoHistory]]
  /\ jobs' = [jobs EXCEPT ![n] = [b \in Batch |-> NoJob]]
  /\ queue' = [queue EXCEPT ![n] = << >>]
  /\ ending' = [ending EXCEPT ![n] = {}]
  /\ UNCHANGED <<chainState, handled, lag>>

Restart(n) ==
  /\ ~scene.calm /\ restarts < MaxRestarts
  /\ restarts' = restarts + 1
  /\ Stop(n)
  /\ UNCHANGED down
-----------------------------------------------------------------------------
(* on_block_finalized *)

Sorted(bs) == CHOOSE s \in [1 .. Cardinality(bs) -> bs] :
                \A i, j \in 1 .. Cardinality(bs) : i < j => s[i] < s[j]

\* Mutant: whatever has a job is not left out.
AllUnsigned(n) == Sorted(unsigned)

\* get_unsigned_proposals: the oldest first, those that have a job left out.
get_unsigned_proposals(n) ==
  Sorted({b \in unsigned : jobs[n][b].is = "none"})

on_block_finalized(n) ==
  /\ n \in Live \ handled
  /\ todo[n] = << >>
  /\ todo' = [todo EXCEPT ![n] = get_unsigned_proposals(n)]
  /\ handled' = IF todo'[n] = << >> THEN handled \cup {n} ELSE handled
  /\ UNCHANGED <<chainState, down, restarts, lag, ssid_history, jobs, queue,
                 ending>>

\* The loop goes on with these batches.
Continue(n, rest) ==
  /\ todo' = [todo EXCEPT ![n] = rest]
  /\ handled' = IF rest = << >> THEN handled \cup {n} ELSE handled
  /\ UNCHANGED <<chainState, down, restarts, lag, ending>>

\* The work manager is full: the rest has to wait for another block.
Full(n) ==
  /\ todo[n] # << >>
  /\ Len(queue[n]) >= MaxEnqueued
  /\ Continue(n, << >>)
  /\ UNCHANGED <<ssid_history, jobs, queue>>

\* The latest attempt has not timed out.
AlreadyWaiting(n) ==
  /\ todo[n] # << >>
  /\ Len(queue[n]) < MaxEnqueued
  /\ ssid_history[n][Head(todo[n])].since < SIGN_TIMEOUT
  /\ Continue(n, Tail(todo[n]))
  /\ UNCHANGED <<ssid_history, jobs, queue>>

\* Mutant: the latest set again.
LatestAgain(h) == IF h.attempted = {} THEN 0 ELSE Max(h.attempted)

next_ssid(h) == IF h.attempted = {} THEN 0 ELSE Max(h.attempted) + 1

\* The attempt after those of h: the sets are generated with the first one,
\* after the last one the count is reset.
NextAttempt(h) ==
  LET next == next_ssid(h)
      sets == IF next = 0 THEN key ELSE h.sets
      reset == next >= Len(SetsOf(sets))
      ssid == IF reset THEN 0 ELSE next
  IN  [attempted |-> (IF reset THEN {} ELSE h.attempted) \cup {ssid},
       sets |-> sets, ssid |-> ssid]

\* Does the node have to try the next signing set of this batch?
MustTry(n, b) ==
  /\ todo[n] # << >> /\ b = Head(todo[n])
  /\ Len(queue[n]) < MaxEnqueued
  /\ ssid_history[n][b].since = SIGN_TIMEOUT

\* Is it in that set?
InSet(n, a) == SetsOf(a.sets) # << >> /\ n \in Members(a)

\* Mutant: the threshold is the one the node started with.
SizedAtStart(a) == Cardinality(Members(a)) = Threshold[1] + 1

\* Has the set the size that setup_signing asserts?
Sized(a) == Cardinality(Members(a)) = Threshold[key] + 1

\* generate_async_proto_params: the job of an attempt; what is forced starts at
\* once.
NewJob(a, b) ==
  [is |-> IF b \in Forced THEN "running" ELSE "queued",
   ssid |-> a.ssid, sets |-> a.sets, session |-> key, age |-> 0]

\* Try the next signing set: run a job if the node is in it, else leave it to
\* the others.
TryNextSet(n, b) ==
  LET a == NextAttempt(ssid_history[n][b])
  IN  /\ MustTry(n, b)
      /\ InSet(n, a) => Sized(a)
      /\ ssid_history' = [ssid_history EXCEPT ![n][b] =
           [attempted |-> a.attempted, sets |-> a.sets,
            since |-> IF SetsOf(a.sets) = << >> THEN SIGN_TIMEOUT ELSE 0]]
      /\ jobs' = IF InSet(n, a) THEN [jobs EXCEPT ![n][b] = NewJob(a, b)] ELSE jobs
      /\ queue' = IF InSet(n, a) /\ b \notin Forced
                  THEN [queue EXCEPT ![n] = Append(@, b)] ELSE queue
      /\ Continue(n, Tail(todo[n]))

\* The assertion fails in the finality task of the gadget, which is essential
\* to the node.
Panic(n, b) ==
  LET a == NextAttempt(ssid_history[n][b])
  IN  /\ MustTry(n, b)
      /\ InSet(n, a) /\ ~Sized(a)
      /\ down' = down \cup {n}
      /\ Stop(n)
      /\ UNCHANGED restarts
-----------------------------------------------------------------------------
(* The work manager and the tasks *)

\* The task of the job of a batch is over, and has this to record.
Ended(n, b, ok) == [batch |-> b, ssid |-> jobs[n][b].ssid, ok |-> ok]

\* WorkManager::poll
poll(n) ==
  /\ Dropped(n) \cup Started(n) # {}
  /\ jobs' = [jobs EXCEPT ![n] = [b \in Batch |->
                IF b \in Dropped(n) THEN NoJob
                ELSE IF b \in Started(n) THEN [@[b] EXCEPT !.is = "running"]
                ELSE @[b]]]
  /\ queue' = IF Started(n) = {} THEN queue ELSE [queue EXCEPT ![n] = Tail(@)]
  /\ ending' = [ending EXCEPT ![n] = @ \cup
                  {Ended(n, b, FALSE) : b \in {x \in Batch : Stalled(n, x)}}]
  /\ UNCHANGED <<chainState, blockState, ssid_history>>

\* The members of a set run their attempt: the batch is signed, and the
\* protocol ends at those in winners.
Sign(n, b, winners) ==
  /\ signed' = signed \cup {b}
  /\ jobs' = [m \in Node |-> IF m \in winners
                             THEN [jobs[m] EXCEPT ![b].is = "done"]
                             ELSE jobs[m]]
  /\ ending' = [m \in Node |->
                  IF m \in winners
                  THEN ending[m] \cup {Ended(m, b, TRUE)} ELSE ending[m]]
  /\ UNCHANGED <<scene, key, unsigned, blockState, ssid_history, queue>>

SomeSign(n, b) ==
  /\ Ready(n, b)
  /\ \E winners \in SUBSET Members(jobs[n][b]) :
       n \in winners /\ Sign(n, b, winners)

\* A keygen begins and throws out the jobs that wait.
clear_enqueued_tasks(n) ==
  /\ ~scene.calm
  /\ queue[n] # << >>
  /\ queue' = [queue EXCEPT ![n] = << >>]
  /\ jobs' = [jobs EXCEPT ![n] = [b \in Batch |->
                IF @[b].is = "queued" THEN NoJob ELSE @[b]]]
  /\ UNCHANGED <<chainState, blockState, ssid_history, ending>>

\* The protocol ends with an error before the timeout.
Fail(n, b) ==
  /\ jobs[n][b].is = "running"
  /\ ~scene.calm
  /\ jobs' = [jobs EXCEPT ![n][b].is = "done"]
  /\ ending' = [ending EXCEPT ![n] = @ \cup {Ended(n, b, FALSE)}]
  /\ UNCHANGED <<chainState, blockState, ssid_history, queue>>

\* The history is locked while on_block_finalized goes through the batches.
update_local_signing_set_state(n, e) ==
  /\ e \in ending[n]
  /\ todo[n] = << >>
  /\ ending' = [ending EXCEPT ![n] = @ \ {e}]
  /\ ssid_history' =
       IF e.ok THEN [ssid_history EXCEPT ![n][e.batch] = NoHistory]
       ELSE [ssid_history EXCEPT ![n][e.batch].attempted = @ \cup {e.ssid}]
  /\ UNCHANGED <<chainState, blockState, jobs, queue>>

Next ==
  \/ \E k \in Key, accepted \in SUBSET Batch : NewBlock(k, accepted)
  \/ \E n \in Live :
       \/ SkipBlock(n) \/ Restart(n) \/ on_block_finalized(n)
       \/ Full(n) \/ AlreadyWaiting(n)
       \/ \E b \in Batch : TryNextSet(n, b) \/ Panic(n, b)
       \/ poll(n) \/ clear_enqueued_tasks(n)
       \/ \E b \in Batch : SomeSign(n, b) \/ Fail(n, b)
       \/ \E e \in ending[n] : update_local_signing_set_state(n, e)

Spec == Init /\ [][Next]_vars

\* Blocks keep coming, nodes handle them, poll and record what ended; members
\* of a set that run one attempt long enough sign.
HandleBlock(n) ==
  \/ on_block_finalized(n) \/ Full(n) \/ AlreadyWaiting(n)
  \/ \E b \in Batch : TryNextSet(n, b) \/ Panic(n, b)

Fairness ==
  /\ WF_vars(\E k \in Key, accepted \in SUBSET Batch : NewBlock(k, accepted))
  /\ \A n \in Node :
       /\ WF_vars(HandleBlock(n))
       /\ WF_vars(poll(n))
       /\ WF_vars(\E e \in ending[n] : update_local_signing_set_state(n, e))
  /\ WF_vars(\E n \in Node, b \in Batch : SomeSign(n, b))

FairSpec == Spec /\ Fairness
-----------------------------------------------------------------------------
(* Properties *)

\* A node never starts a second job for a batch while the first one is in its
\* work manager, also when the first one has timed out in the queue.
OneJob ==
  [][\A n \in Node, b \in Batch :
       /\ jobs[n][b].is # "none" /\ jobs'[n][b].is # "none"
       => /\ jobs'[n][b].ssid = jobs[n][b].ssid
          /\ jobs'[n][b].age >= jobs[n][b].age]_vars

\* "Signing set must be of size threshold + 1" (setup_signing): the assertion,
\* which takes the node down, fails only for a batch whose signing sets were
\* generated in an earlier session and kept; the sets of a session always have
\* the size that is asked for in it.
OnlyKeptSetsPanic ==
  [][\A n \in down' \ down :
       ssid_history[n][Head(todo[n])].sets \notin {None, key}]_vars

\* When it is calm the batches on chain are signed, whichever sets fail before, as
\* long as one set has no crashed member and the nodes lag by no more than the
\* tolerance.
EventuallySigned == scene.calm => <>(signed = scene.batches)
=============================================================================

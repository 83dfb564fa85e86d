---------------------------- MODULE WorkManager ----------------------------
(***************************************************************************)
(* The work manager (dkg-gadget/src/signing_manager/work_manager.rs) with  *)
(* the handles of its jobs (async_protocols/remote.rs), as the signing     *)
(* manager uses it: jobs are pushed, polled and started, messages of peers *)
(* arrive before, while and after the job they are for is there.           *)
(*                                                                         *)
(* A message carries the attempt of the peer that sent it: task hash,      *)
(* signing set (ssid), session and the block at which the peer started.    *)
(* What the protocol does with its messages is left out.                   *)
(***************************************************************************)
EXTENDS Integers, FiniteSets, Sequences

CONSTANTS
  Hash,                 \* task hashes
  Ssid,
  Message,              \* names of messages
  SIGN_TIMEOUT,
  Tolerance,            \* ASSOCIATED_BLOCK_ID_MESSAGE_DELIVERY_TOLERANCE
  MaxTasks, MaxEnqueued,
  MaxBlockNumber, MaxSession, MaxJobs  \* bounds of the model

ASSUME WorkAssumption ==
  /\ SIGN_TIMEOUT \in Nat /\ Tolerance \in Nat /\ Tolerance < SIGN_TIMEOUT
  /\ MaxTasks \in Nat /\ MaxEnqueued \in Nat
  /\ MaxBlockNumber \in Nat /\ MaxSession \in Nat /\ MaxJobs \in Nat

VARIABLES
  now,                  \* number of the latest header
  session,
  jobs,                 \* every job pushed so far, oldest first
  active_tasks,
  enqueued_tasks,
  enqueued_messages,    \* messages that wait for their job
  sent                  \* message -> what it is for, once it has arrived

workVars ==
  <<now, session, jobs, active_tasks, enqueued_tasks, enqueued_messages, sent>>

JobId == 1 .. Len(jobs)

Attempt == [hash : Hash, ssid : Ssid, session : 0 .. MaxSession,
            block : 0 .. MaxBlockNumber]

WorkInit ==
  /\ now = 0
  /\ session = 0
  /\ jobs = << >>
  /\ active_tasks = {}
  /\ enqueued_tasks = << >>
  /\ enqueued_messages = {}
  /\ sent = [m \in {} |-> {}]
-----------------------------------------------------------------------------
(* Jobs and handles *)

Queued == {enqueued_tasks[i] : i \in 1 .. Len(enqueued_tasks)}

HashOf(j) == jobs[j].attempt.hash

is_done(job) == job.status \in {"Complete", "Terminated"}

has_stalled(job) ==
  job.status = "Terminated" \/ now >= job.attempt.block + SIGN_TIMEOUT

job_exists(hash) == \E j \in active_tasks \cup Queued : HashOf(j) = hash

can_submit_more_tasks == Len(enqueued_tasks) < MaxEnqueued

associated_block_id_acceptable(expected, received) ==
  received \in (expected - Tolerance) .. (expected + Tolerance)

should_deliver(attempt, msg) ==
  /\ attempt.session = msg.session
  /\ attempt.hash = msg.hash
  /\ attempt.ssid = msg.ssid
  /\ associated_block_id_acceptable(attempt.block, msg.block)

\* Dropping a job signals its task to stop and ends its handle.
Dropped(job) ==
  [job EXCEPT !.stopped = TRUE,
              !.status = IF @ = "Complete" THEN @ ELSE "Terminated"]

\* Handle::deliver_message: a handle that has ended takes no message.
WithMessages(job, ms) ==
  IF is_done(job) THEN job ELSE [job EXCEPT !.inbox = @ \cup ms]
-----------------------------------------------------------------------------
(* Starting jobs *)

\* Mutants of KeptFor: the messages of the task's other signing sets are not
\* put back; nothing is taken from the store.
KeptForTask(attempt, ms) == {m \in ms : sent[m].hash = attempt.hash}
KeptForNobody(attempt, ms) == {}

\* The messages kept for the task and the signing set of a job that starts.
KeptFor(attempt, ms) ==
  {m \in ms : sent[m].hash = attempt.hash /\ sent[m].ssid = attempt.ssid}

\* start_job_unconditional: deliver what is kept for the job and acceptable.
Started(job, ms) ==
  [WithMessages(job, {m \in KeptFor(job.attempt, ms) :
                        should_deliver(job.attempt, sent[m])})
     EXCEPT !.status = "Running"]

Outdated(ms) ==
  {m \in ms : ~associated_block_id_acceptable(now, sent[m].block)}

\* WorkManager::poll: drop stalled and finished jobs, start as many as there
\* is room for, forget outdated messages.
poll ==
  LET gone == {j \in active_tasks : has_stalled(jobs[j]) \/ is_done(jobs[j])}
      stay == active_tasks \ gone
      room == IF Cardinality(stay) <= MaxTasks
              THEN MaxTasks - Cardinality(stay) ELSE 0
      n == IF room <= Len(enqueued_tasks) THEN room ELSE Len(enqueued_tasks)
      start == {enqueued_tasks[i] : i \in 1 .. n}
      left == enqueued_messages
                \ UNION {KeptFor(jobs[j].attempt, enqueued_messages) : j \in start}
  IN  /\ active_tasks' = stay \cup start
      /\ enqueued_tasks' = SubSeq(enqueued_tasks, n + 1, Len(enqueued_tasks))
      /\ jobs' = [j \in JobId |->
                    IF j \in gone THEN Dropped(jobs[j])
                    ELSE IF j \in start
                    THEN Started(jobs[j], enqueued_messages)
                    ELSE jobs[j]]
      /\ enqueued_messages' = left \ Outdated(left)
      /\ UNCHANGED <<now, session, sent>>

\* push_task.  The signing manager asks first whether the task has a job and
\* whether there is room.
push_task(hash, ssid, force_start) ==
  LET new == Len(jobs) + 1
      job == [attempt |-> [hash |-> hash, ssid |-> ssid, session |-> session,
                           block |-> now],
              inbox |-> {}, status |-> "Beginning", stopped |-> FALSE]
  IN  /\ Len(jobs) < MaxJobs
      /\ ~job_exists(hash)
      /\ can_submit_more_tasks
      /\ IF force_start
         THEN /\ jobs' = Append(jobs, Started(job, enqueued_messages))
              /\ active_tasks' = active_tasks \cup {new}
              /\ enqueued_messages' =
                   enqueued_messages \ KeptFor(job.attempt, enqueued_messages)
              /\ UNCHANGED enqueued_tasks
         ELSE /\ jobs' = Append(jobs, job)
              /\ enqueued_tasks' = Append(enqueued_tasks, new)
              /\ UNCHANGED <<active_tasks, enqueued_messages>>
      /\ UNCHANGED <<now, session, sent>>

\* An emergency keygen clears the queue of the signing manager.
clear_enqueued_tasks ==
  /\ enqueued_tasks # << >>
  /\ jobs' = [j \in JobId |-> IF j \in Queued THEN Dropped(jobs[j])
                                              ELSE jobs[j]]
  /\ enqueued_tasks' = << >>
  /\ UNCHANGED <<now, session, active_tasks, enqueued_messages, sent>>

\* An emergency keygen clears all that the keygen manager's has.
force_shutdown_all ==
  /\ jobs' = [j \in JobId |-> IF j \in active_tasks \cup Queued
                              THEN Dropped(jobs[j]) ELSE jobs[j]]
  /\ active_tasks' = {}
  /\ enqueued_tasks' = << >>
  /\ enqueued_messages' = {}
  /\ UNCHANGED <<now, session, sent>>
-----------------------------------------------------------------------------
(* Messages, blocks and tasks *)

\* A message of a peer whose latest header is at most Tolerance blocks ahead.
deliver_message(m, msg) ==
  LET wanting == {j \in active_tasks \cup Queued :
                    should_deliver(jobs[j].attempt, msg)}
  IN  /\ m \notin DOMAIN sent
      /\ msg.block <= now + Tolerance
      /\ sent' = [x \in DOMAIN sent \cup {m} |-> IF x = m THEN msg
                                                        ELSE sent[x]]
      /\ IF wanting = {}
         THEN enqueued_messages' = enqueued_messages \cup {m}
              /\ UNCHANGED jobs
         ELSE \E j \in wanting :
                /\ wanting \cap Queued # {} => j \in Queued
                /\ jobs' = [jobs EXCEPT ![j] = WithMessages(@, {m})]
                /\ UNCHANGED enqueued_messages
      /\ UNCHANGED <<now, session, active_tasks, enqueued_tasks>>

\* The protocol of a job ends, with or without a signature.
TaskCompletes(j) ==
  /\ jobs[j].status = "Running"
  /\ jobs' = [jobs EXCEPT ![j].status = "Complete"]
  /\ UNCHANGED <<now, session, active_tasks, enqueued_tasks,
                 enqueued_messages, sent>>

NewBlock ==
  /\ now < MaxBlockNumber
  /\ now' = now + 1
  /\ session' \in {s \in {session, session + 1} : s <= MaxSession}
  /\ UNCHANGED <<jobs, active_tasks, enqueued_tasks, enqueued_messages, sent>>

WorkNext ==
  \/ NewBlock
  \/ poll
  \/ \E hash \in Hash, ssid \in Ssid, force_start \in BOOLEAN :
       push_task(hash, ssid, force_start)
  \/ clear_enqueued_tasks
  \/ force_shutdown_all
  \/ \E m \in Message, msg \in Attempt : deliver_message(m, msg)
  \/ \E j \in JobId : TaskCompletes(j)

WorkSpec == WorkInit /\ [][WorkNext]_workVars
-----------------------------------------------------------------------------
(* Properties *)

\* No message that a running job should have waits in enqueued_messages: one
\* that came early is handed over at the start, one that comes late directly.
NoneWaits ==
  \A j \in active_tasks, m \in enqueued_messages :
    ~should_deliver(jobs[j].attempt, sent[m])

\* The comment of deliver_message: a message that fits no job is stored for a
\* future protocol.  It leaves the store when a job of its task and set starts,
\* which then has it if it should, when it is outdated or when everything is
\* shut down, and for no other reason.
StoredUntilUsed ==
  [][\A m \in enqueued_messages \ enqueued_messages' :
       \/ ~associated_block_id_acceptable(now, sent[m].block)
       \/ force_shutdown_all
       \/ \E j \in active_tasks' \ active_tasks :
            /\ jobs'[j].attempt.hash = sent[m].hash
            /\ jobs'[j].attempt.ssid = sent[m].ssid
            /\ should_deliver(jobs'[j].attempt, sent[m])
                 => m \in jobs'[j].inbox]_workVars
=============================================================================

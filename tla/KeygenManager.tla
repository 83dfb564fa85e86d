--------------------------- MODULE KeygenManager ---------------------------
(***************************************************************************)
(* The keygen manager of one node (dkg-gadget/src/keygen_manager), with    *)
(* the work manager that runs its jobs (signing_manager/work_manager.rs),  *)
(* the remote handle of a job (async_protocols/remote.rs) and the lock it  *)
(* holds on the signing manager.                                           *)
(*                                                                         *)
(* The worker handles one finalized block at a time, in steps.  The tasks  *)
(* of the jobs run on other threads and take their steps in between.  The  *)
(* rounds of a key generation are left out: a running task ends with a     *)
(* key, with an error or when its handle is told to stop, or never.        *)
(*                                                                         *)
(* Time is the age of a job in blocks, up to the timeout.  The task hash   *)
(* of a job is its session, since active_keygen_retry_id never changes.    *)
(***************************************************************************)
EXTENDS Integers, FiniteSets, Sequences

CONSTANTS
  JobId,         \* slots for the jobs that are still around
  Timeout,       \* KEYGEN_TIMEOUT and SIGN_TIMEOUT
  FirstSession,  \* active session when the node joins
  MaxSession     \* bound of the model

ASSUME KeygenAssumption ==
  /\ IsFiniteSet(JobId)
  /\ Timeout \in Nat \ {0}
  /\ FirstSession \in Nat /\ MaxSession \in Nat /\ FirstSession <= MaxSession

MAX_RUNNING_TASKS == 1

VARIABLES
  chain,           \* session and keys on chain at the latest header
  step,            \* where the worker is in handling that header
  seen,            \* what on_block_finalized has read, while it runs
  pending,         \* the start that is not yet recorded
  jobs,            \* the jobs, by slot
  active,          \* active_tasks
  enqueued,        \* enqueued_tasks
  keygen_state,
  finished_count,  \* 0, or 1 for any larger number
  lock,            \* SigningManager.lock
  signing          \* are signing tasks enqueued?

work == <<jobs, active, enqueued>>
manager == <<keygen_state, finished_count>>
vars == <<chain, step, seen, pending, work, manager, lock, signing>>

\* should_execute_new_keygen, and is the node in the two sets of best
\* authorities?
Flags ==
  {f \in [execute : BOOLEAN, force : BOOLEAN,
          best : BOOLEAN, nextBest : BOOLEAN] : f.force => f.execute}

Stage == {"Genesis", "Next"}

Free ==
  [session |-> 0, age |-> 0, status |-> "Terminated", stop |-> "None",
   task |-> "Free"]

Nothing ==
  [state |-> [is |-> "Uninitialized"], busy |-> FALSE,
   flags |-> [execute |-> FALSE, force |-> FALSE, best |-> FALSE,
              nextBest |-> FALSE]]

Init ==
  /\ chain = [session |-> FirstSession, key |-> FirstSession > 0,
              next |-> FALSE]
  /\ step = "idle"
  /\ seen = Nothing
  /\ pending = [stage |-> "Genesis", job |-> CHOOSE j \in JobId : TRUE]
  /\ jobs = [j \in JobId |-> Free]
  /\ active = {}
  /\ enqueued = << >>
  /\ keygen_state = [is |-> "Uninitialized"]
  /\ finished_count = 0
  /\ lock = FALSE
  /\ signing = FALSE
-----------------------------------------------------------------------------
(* The handle of a job and the work manager *)

is_active(job) == job.status \notin {"Complete", "Terminated"}

has_stalled(job) == job.status = "Terminated" \/ job.age >= Timeout

\* A job that is dropped: its task is told to stop, unless it was before, and
\* is never run if it was not yet spawned.
Dropped(job, reason) ==
  [job EXCEPT !.stop = IF @ = "None" THEN reason ELSE @,
              !.status = IF @ = "Complete" THEN @ ELSE "Terminated",
              !.task = IF @ = "Queued" THEN "Ended" ELSE @]

\* Slots of jobs that are over and that no list holds are free again.
Tidy(js, held) ==
  [j \in JobId |-> IF js[j].task = "Ended" /\ j \notin held THEN Free
                                                            ELSE js[j]]

Held(as, es) == as \cup {es[i] : i \in 1 .. Len(es)}

\* Mutant of poll: it forgets the job without telling the task.
PollSilently(js, as, es) ==
  LET gone == {j \in as : has_stalled(js[j]) \/ ~is_active(js[j])}
      stay == as \ gone
      n == IF stay = {} /\ es # << >> THEN 1 ELSE 0
      start == {es[i] : i \in 1 .. n}
  IN  /\ active' = stay \cup start
      /\ enqueued' = SubSeq(es, n + 1, Len(es))
      /\ jobs' = [j \in JobId |->
                    IF j \in start
                    THEN [js[j] EXCEPT !.status = "Keygen", !.task = "Running"]
                    ELSE js[j]]

\* WorkManager::poll on jobs js, active jobs as and enqueued jobs es: drop
\* what has stalled or is done, then start what there is room for.
poll(js, as, es) ==
  LET gone == {j \in as : has_stalled(js[j]) \/ ~is_active(js[j])}
      stay == as \ gone
      room == MAX_RUNNING_TASKS - Cardinality(stay)
      n == IF room <= Len(es) THEN room ELSE Len(es)
      start == {es[i] : i \in 1 .. n}
      After(j) ==
        CASE j \in gone -> Dropped(js[j], IF has_stalled(js[j]) THEN "Stalled"
                                                               ELSE "DropCode")
          [] j \in start -> [js[j] EXCEPT !.status = "Keygen",
                                          !.task = "Running"]
          [] OTHER -> js[j]
  IN  /\ active' = stay \cup start
      /\ enqueued' = SubSeq(es, n + 1, Len(es))
      /\ jobs' = Tidy([j \in JobId |-> After(j)], Held(active', enqueued'))
-----------------------------------------------------------------------------
(* The chain, as the runtime API shows it at each finalized header *)

\* What may have happened up to the next header: nothing, the active key or
\* the next key was set, the session rotated.  Root asking for an emergency
\* keygen clears the next key.
NextChain(c, flags) ==
  LET rotated == [session |-> c.session + 1, key |-> TRUE, next |-> FALSE]
      After == {c, [c EXCEPT !.key = TRUE]}
                 \cup (IF c.key THEN {[c EXCEPT !.next = TRUE]} ELSE {})
                 \cup (IF c.next /\ c.session < MaxSession THEN {rotated}
                                                        ELSE {})
  IN  IF flags.force THEN {[d EXCEPT !.next = FALSE] : d \in After} ELSE After

\* A block later.
Aged ==
  [j \in JobId |-> IF jobs[j].task # "Free" /\ jobs[j].age < Timeout
                   THEN [jobs[j] EXCEPT !.age = @ + 1] ELSE jobs[j]]

\* A finality notification while the node is still syncing.
SyncBlock(flags) ==
  /\ step = "idle"
  /\ chain' \in NextChain(chain, flags)
  /\ jobs' = Aged
  /\ UNCHANGED <<step, seen, pending, active, enqueued, manager, lock, signing>>

\* A finality notification: the keygen manager polls its jobs, then reads its
\* state and what runs.
on_block_finalized(flags) ==
  /\ step = "idle"
  /\ chain' \in NextChain(chain, flags)
  /\ poll(Aged, active, enqueued)
  /\ \E j \in JobId : jobs'[j].task = "Free"
  /\ seen' = [state |-> keygen_state,
              busy |-> \E j \in active' : /\ is_active(jobs'[j])
                                          /\ ~has_stalled(jobs'[j]),
              flags |-> flags]
  /\ step' = "checks"
  /\ UNCHANGED <<pending, manager, lock, signing>>
-----------------------------------------------------------------------------
(* Is a keygen wanted, and may it start? *)

Completed(s) == [is |-> "KeygenCompleted", session |-> s]
Failed(s) == [is |-> "Failed", session |-> s]

genesis_checks(state) ==
  CASE state.is = "Uninitialized" -> {"Genesis"}
    [] state \in {Completed(0), Failed(1)} -> {"Next"}
    [] OTHER -> {}

\* Mutant: a keygen that failed is not tried again.
NextOnlyAfterSuccess(state) ==
  IF state.is = "KeygenCompleted" THEN {"Next"} ELSE {}

next_checks(state) ==
  IF \/ state.is \in {"KeygenCompleted", "Failed"}
     \/ state.is = "Uninitialized" /\ ~chain.next
  THEN {"Next"} ELSE {}

\* The stage to start: of pre_checks, or of the checks that follow them.
Wanted ==
  IF seen.flags.force
  THEN {IF chain.session = 0 /\ finished_count = 0 THEN "Genesis" ELSE "Next"}
  ELSE IF chain.session = 0 /\ seen.state = Failed(0) /\ ~chain.key
  THEN {"Genesis"}
  ELSE IF seen.busy THEN {}
  ELSE IF chain.session = 0 THEN genesis_checks(seen.state)
                            ELSE next_checks(seen.state)

MayStart(stage) ==
  IF stage = "Genesis"
  THEN ~chain.key /\ seen.flags.best
  ELSE /\ seen.flags.execute \/ seen.flags.force
       /\ ~chain.next \/ seen.flags.force
       /\ seen.flags.nextBest

\* Nothing is to be started.
NoKeygen ==
  /\ step = "checks"
  /\ \A stage \in Wanted : ~MayStart(stage)
  /\ step' = "signing"
  /\ seen' = Nothing
  /\ UNCHANGED <<chain, pending, work, manager, lock, signing>>

maybe_start_keygen_for_stage(stage, j) ==
  /\ step = "checks"
  /\ stage \in Wanted
  /\ MayStart(stage)
  /\ jobs[j].task = "Free"
  /\ signing' = IF seen.flags.force THEN FALSE ELSE signing
  /\ LET fresh == [session |-> IF stage = "Genesis" THEN chain.session
                                                    ELSE chain.session + 1,
                   age |-> 0, status |-> "Beginning", stop |-> "None",
                   task |-> "Queued"]
         kept == IF seen.flags.force
                 THEN [i \in JobId |-> IF i \in Held(active, enqueued)
                                       THEN Dropped(jobs[i], "DropCode")
                                       ELSE jobs[i]]
                 ELSE jobs
     IN  poll([kept EXCEPT ![j] = fresh],
              IF seen.flags.force THEN {} ELSE active,
              IF seen.flags.force THEN <<j>> ELSE Append(enqueued, j))
  /\ lock' = TRUE
  /\ pending' = [stage |-> stage, job |-> j]
  /\ step' = "set_state"
  /\ seen' = Nothing
  /\ UNCHANGED <<chain, manager>>

\* The start is recorded only now, after the task was spawned.
set_state ==
  /\ step = "set_state"
  /\ keygen_state' =
       [is |-> IF pending.stage = "Genesis" THEN "RunningGenesisKeygen"
                                            ELSE "RunningKeygen"]
  /\ step' = "signing"
  /\ UNCHANGED <<chain, seen, pending, work, finished_count, lock, signing>>

\* The signing manager handles the same block: only with a key, and not
\* while it is locked.
SigningOnBlock ==
  /\ step = "signing"
  /\ signing' \in IF chain.key /\ ~lock THEN {signing, TRUE} ELSE {signing}
  /\ step' = "idle"
  /\ UNCHANGED <<chain, seen, pending, work, manager, lock>>

\* The signing manager's poller starts what is enqueued.
SigningStarts ==
  /\ signing
  /\ signing' = FALSE
  /\ UNCHANGED <<chain, step, seen, pending, work, manager, lock>>
-----------------------------------------------------------------------------
(* The task of a job *)

ProtocolSucceeds(j) ==
  /\ jobs[j].task = "Running"
  /\ jobs' = [jobs EXCEPT ![j].task = "Ok", ![j].status = "Complete"]
  /\ UNCHANGED <<chain, step, seen, pending, active, enqueued, manager, lock,
                 signing>>

\* The status is not updated: the job stays active until it times out.
ProtocolFails(j) ==
  /\ jobs[j].task = "Running"
  /\ jobs' = [jobs EXCEPT ![j].task = "Err"]
  /\ UNCHANGED <<chain, step, seen, pending, active, enqueued, manager, lock, signing>>

\* The stop signal: a stalled task ends in an error, a dropped one does not.
ProtocolStops(j) ==
  /\ jobs[j].task = "Running"
  /\ jobs[j].stop # "None"
  /\ jobs' = [jobs EXCEPT ![j].task = IF jobs[j].stop = "Stalled" THEN "Err"
                                                                  ELSE "Ok"]
  /\ UNCHANGED <<chain, step, seen, pending, active, enqueued, manager, lock, signing>>

\* Mutant: a failed task does not release the signing manager.
EndsLocked(j) ==
  /\ jobs[j].task \in {"Ok", "Err"}
  /\ keygen_state' = IF jobs[j].task = "Ok" THEN Completed(jobs[j].session)
                                            ELSE Failed(jobs[j].session)
  /\ finished_count' = IF jobs[j].task = "Ok" THEN 1 ELSE finished_count
  /\ lock' = (lock /\ jobs[j].task = "Err")
  /\ jobs' = Tidy([jobs EXCEPT ![j].task = "Ended"], Held(active, enqueued))
  /\ UNCHANGED <<chain, step, seen, pending, active, enqueued, signing>>

\* The code wrapped around the protocol: record the result, unlock signing.
TaskEnds(j) ==
  /\ jobs[j].task \in {"Ok", "Err"}
  /\ keygen_state' = IF jobs[j].task = "Ok" THEN Completed(jobs[j].session)
                                            ELSE Failed(jobs[j].session)
  /\ finished_count' = IF jobs[j].task = "Ok" THEN 1 ELSE finished_count
  /\ lock' = FALSE
  /\ jobs' = Tidy([jobs EXCEPT ![j].task = "Ended"], Held(active, enqueued))
  /\ UNCHANGED <<chain, step, seen, pending, active, enqueued, signing>>

Next ==
  \/ \E flags \in Flags : SyncBlock(flags) \/ on_block_finalized(flags)
  \/ NoKeygen
  \/ \E stage \in Stage, j \in JobId : maybe_start_keygen_for_stage(stage, j)
  \/ set_state
  \/ SigningOnBlock
  \/ SigningStarts
  \/ \E j \in JobId : \/ ProtocolSucceeds(j)
                      \/ ProtocolFails(j)
                      \/ ProtocolStops(j)
                      \/ TaskEnds(j)

Spec == Init /\ [][Next]_vars

\* Blocks that ask for a keygen of a set this node is in keep coming, the
\* worker handles them, and a task that was told to stop ends.
KeygenBlock ==
  \E flags \in Flags :
    flags.execute /\ flags.nextBest /\ on_block_finalized(flags)

Fairness ==
  /\ SF_vars(KeygenBlock)
  /\ WF_vars(NoKeygen)
  /\ WF_vars(\E stage \in Stage, j \in JobId :
               maybe_start_keygen_for_stage(stage, j))
  /\ WF_vars(set_state)
  /\ WF_vars(SigningOnBlock)
  /\ \A j \in JobId : WF_vars(ProtocolStops(j)) /\ WF_vars(TaskEnds(j))

FairSpec == Spec /\ Fairness
-----------------------------------------------------------------------------
(* Properties *)

\* Signing is never locked for good: while keygen_lock holds there is a task,
\* queued or running, whose end will call keygen_unlock.
LockHasOwner ==
  lock => \E j \in JobId : jobs[j].task \in {"Queued", "Running", "Ok", "Err"}

\* The work manager never leaves two key generations of a node running: of
\* the tasks that still run, all but one have been told to stop.
OneKeygen ==
  \A i, j \in JobId :
    /\ jobs[i].task = "Running" /\ jobs[i].stop = "None"
    /\ jobs[j].task = "Running" /\ jobs[j].stop = "None"
    => i = j

\* The task of a start that is not yet recorded is over: set_state will write
\* RunningKeygen over its result, and no later block starts a keygen.
Overtaken ==
  /\ step = "set_state"
  /\ jobs[pending.job].task \notin {"Queued", "Running", "Ok", "Err"}

\* The workflow of on_block_finalized, that every session runs a keygen for the
\* one after it: past genesis, a node that is wanted in that keygen does not
\* remain without both a next key on chain and a running task, whatever failed
\* or stalled, unless a start is overtaken by its own end.
NextKeygenRuns ==
  [](~Overtaken) /\ <>(chain.session > 0)
    => []<>(chain.next \/ \E j \in JobId : jobs[j].task = "Running")
=============================================================================

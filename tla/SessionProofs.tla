--------------------------- MODULE SessionProofs ----------------------------
(***************************************************************************)
(* How a node follows the sessions of the chain: the keygens that its      *)
(* manager runs for them, for any number of jobs and any timeout, and the  *)
(* authority sets that its worker keeps, for any sets and any number of    *)
(* blocks.                                                                 *)
(***************************************************************************)
EXTENDS KeygenManager, DKGWorker, FiniteSetTheorems, SequenceTheorems,
        WellFoundedInduction, TLAPS
-----------------------------------------------------------------------------
(* The keygen manager *)

Job ==
  [session : Nat, age : Nat,
   status : {"Beginning", "Keygen", "Complete", "Terminated"},
   stop : {"None", "Stalled", "DropCode"},
   task : {"Free", "Queued", "Running", "Ok", "Err", "Ended"}]

\* The end of a live task will call keygen_unlock.
Live == {"Queued", "Running", "Ok", "Err"}

\* The work manager's lists fit the tasks: one job at most is active, and it was
\* spawned; an enqueued job was not, and is there once; a task that runs and was
\* not told to stop is the one of the active job.
WorkSound(js, as, es) ==
  /\ js \in [JobId -> Job]
  /\ as \subseteq JobId
  /\ \A i, j \in as : i = j
  /\ es \in Seq(JobId)
  /\ \A i, j \in 1 .. Len(es) : es[i] = es[j] => i = j
  /\ \A i \in 1 .. Len(es) : js[es[i]].task = "Queued"
  /\ \A j \in as : js[j].task \in {"Running", "Ok", "Err", "Ended"}
  /\ \A j \in JobId :
       js[j].task = "Running" /\ js[j].stop = "None" => j \in as

IInv ==
  /\ WorkSound(jobs, active, enqueued)
  /\ LockHasOwner
  /\ chain \in [session : Nat, key : BOOLEAN, next : BOOLEAN]

\* A job that is dropped is told to stop, and only its unspawned task is over.
LEMMA DroppedJob ==
  ASSUME NEW job \in Job, NEW reason \in {"Stalled", "DropCode"}
  PROVE  /\ Dropped(job, reason) \in Job
         /\ Dropped(job, reason).stop # "None"
         /\ Dropped(job, reason).task =
              IF job.task = "Queued" THEN "Ended" ELSE job.task
BY Zenon DEF Dropped, Job

\* Freeing the slots of jobs that are over and not held touches no other job.
LEMMA TidyJobs ==
  ASSUME NEW js \in [JobId -> Job], NEW held
  PROVE  /\ Tidy(js, held) \in [JobId -> Job]
         /\ \A j \in JobId :
              Tidy(js, held)[j] # js[j] =>
                /\ js[j].task = "Ended" /\ j \notin held
                /\ Tidy(js, held)[j].task = "Free"
<1>1. Free \in Job
  BY DEF Free, Job
<1> QED BY <1>1 DEF Tidy, Free

\* poll keeps the lists in step with the tasks, and ends no live task itself.
LEMMA PollSound ==
  ASSUME NEW js, NEW as, NEW es, WorkSound(js, as, es), poll(js, as, es)
  PROVE  /\ WorkSound(jobs', active', enqueued')
         /\ \A j \in JobId : js[j].task \in Live => jobs'[j].task \in Live
<1> DEFINE gone == {j \in as : has_stalled(js[j]) \/ ~is_active(js[j])}
           stay == as \ gone
           room == MAX_RUNNING_TASKS - Cardinality(stay)
           n == IF room <= Len(es) THEN room ELSE Len(es)
           start == {es[i] : i \in 1 .. n}
           reason(j) == IF has_stalled(js[j]) THEN "Stalled" ELSE "DropCode"
           started(j) == [js[j] EXCEPT !.status = "Keygen", !.task = "Running"]
           After(j) == CASE j \in gone -> Dropped(js[j], reason(j))
                         [] j \in start -> started(j)
                         [] OTHER -> js[j]
           after == [j \in JobId |-> After(j)]
           rest == SubSeq(es, n + 1, Len(es))
<1>1. /\ active' = stay \cup start
      /\ enqueued' = rest
      /\ jobs' = Tidy(after, Held(active', enqueued'))
  BY Zenon DEF poll
<1>2. /\ js \in [JobId -> Job] /\ as \subseteq JobId
      /\ es \in Seq(JobId) /\ Len(es) \in Nat
      /\ gone \subseteq as /\ stay \subseteq as
  <2>1. gone \subseteq as /\ stay \subseteq as
    OBVIOUS
  <2> HIDE DEF gone, stay
  <2>2. js \in [JobId -> Job] /\ as \subseteq JobId /\ es \in Seq(JobId)
    BY Zenon DEF WorkSound
  <2>3. Len(es) \in Nat
    BY <2>2
  <2> QED BY <2>1, <2>2, <2>3, Zenon
<1>3. /\ n \in {0, 1} /\ n <= Len(es)
      /\ n = 1 => stay = {} /\ start = {es[1]}
      /\ n = 0 => start = {}
      /\ rest \in Seq(JobId)
      /\ Len(rest) = Len(es) - n
      /\ \A i \in 1 .. Len(es) - n : rest[i] = es[i + n]
  <2>1. /\ n = IF MAX_RUNNING_TASKS - Cardinality(stay) <= Len(es)
               THEN MAX_RUNNING_TASKS - Cardinality(stay) ELSE Len(es)
        /\ start = {es[i] : i \in 1 .. n}
        /\ rest = SubSeq(es, n + 1, Len(es))
    OBVIOUS
  <2> HIDE DEF gone, stay, n, start, rest
  <2>2. n \in {0, 1} /\ n <= Len(es) /\ (n = 1 => stay = {})
    <3>1. CASE stay = {}
      <4>1. Cardinality(stay) = 0
        BY <3>1, FS_EmptySet
      <4> QED BY <1>2, <2>1, <3>1, <4>1 DEF MAX_RUNNING_TASKS
    <3>2. CASE stay # {}
      <4>1. PICK x \in stay : TRUE
        BY <3>2
      <4>2. \A y \in stay : y = x
        BY <1>2, <4>1, Zenon DEF WorkSound
      <4>3. Cardinality(stay) = 1
        BY <4>1, <4>2, stay = {x}, FS_Singleton
      <4> QED BY <1>2, <2>1, <4>3 DEF MAX_RUNNING_TASKS
    <3> QED BY <3>1, <3>2
  <2>3. /\ n = 1 => start = {es[1]}
        /\ n = 0 => start = {}
    BY <2>1
  <2>4. \A i \in n + 1 .. Len(es) : es[i] \in JobId
    BY <1>2, <2>2
  <2>5. /\ rest \in Seq(JobId)
        /\ Len(rest) = Len(es) - n
        /\ \A i \in 1 .. Len(es) - n : rest[i] = es[i + n]
    BY <1>2, <2>1, <2>2, <2>4, SubSeqProperties
  <2> QED BY <2>2, <2>3, <2>5
<1> HIDE DEF stay, n, rest
<1>4. /\ start \subseteq JobId
      /\ \A j \in start : js[j].task = "Queued"
  BY <1>2, <1>3 DEF WorkSound
<1>5. \A j \in as : js[j].task # "Queued"
  BY Zenon DEF WorkSound
<1>6. \A j \in gone : /\ Dropped(js[j], reason(j)) \in Job
                      /\ Dropped(js[j], reason(j)).stop # "None"
                      /\ Dropped(js[j], reason(j)).task = js[j].task
  BY <1>2, <1>5, DroppedJob, Zenon
<1>7. \A j \in JobId : /\ started(j) \in Job
                       /\ started(j).task = "Running"
  BY <1>2, Zenon DEF Job
<1> HIDE DEF reason, started, start
<1>8. gone \cap start = {}
  BY <1>4, <1>5, Zenon
<1>9. /\ \A j \in gone : after[j] = Dropped(js[j], reason(j))
      /\ \A j \in start : after[j] = started(j)
      /\ \A j \in JobId : j \notin gone \cup start => after[j] = js[j]
  BY <1>2, <1>4, <1>8, Zenon
<1>10. after \in [JobId -> Job]
  <2>1. \A j \in JobId : after[j] \in Job
    BY <1>2, <1>6, <1>7, <1>9, Zenon
  <2> QED BY <2>1, Zenon
<1> HIDE DEF after, gone
<1>11. /\ jobs' \in [JobId -> Job]
       /\ \A j \in JobId :
            jobs'[j] # after[j] =>
              /\ after[j].task = "Ended" /\ j \notin Held(active', enqueued')
              /\ jobs'[j].task = "Free"
  BY <1>1, <1>10, TidyJobs
<1>12. /\ active' \subseteq JobId
       /\ \A i, j \in active' : i = j
  <2>1. \A i, j \in stay : i = j
    BY <1>2, Zenon DEF WorkSound
  <2> QED BY <1>1, <1>2, <1>3, <1>4, <2>1, Zenon
<1>13. /\ enqueued' \in Seq(JobId)
       /\ \A i, j \in 1 .. Len(enqueued') :
            enqueued'[i] = enqueued'[j] => i = j
       /\ \A i \in 1 .. Len(enqueued') :
            /\ enqueued'[i] \in JobId
            /\ enqueued'[i] \notin start
            /\ js[enqueued'[i]].task = "Queued"
  <2>1. \A i, j \in 1 .. Len(es) : es[i] = es[j] => i = j
    BY DEF WorkSound
  <2>2. \A i \in 1 .. Len(es) : es[i] \in JobId /\ js[es[i]].task = "Queued"
    BY <1>2 DEF WorkSound
  <2>3. /\ enqueued' \in Seq(JobId)
        /\ Len(enqueued') = Len(es) - n
        /\ \A i \in 1 .. Len(es) - n : enqueued'[i] = es[i + n]
    BY <1>1, <1>3
  <2>4. \A i \in 1 .. Len(es) - n : i + n \in 1 .. Len(es)
    BY <1>2, <1>3
  <2>5. \A i, j \in 1 .. Len(enqueued') :
          enqueued'[i] = enqueued'[j] => i = j
    BY <1>2, <1>3, <2>1, <2>3, <2>4
  <2>6. \A i \in 1 .. Len(enqueued') :
          enqueued'[i] \in JobId /\ js[enqueued'[i]].task = "Queued"
    BY <2>2, <2>3, <2>4
  <2>7. \A i \in 1 .. Len(enqueued') : enqueued'[i] \notin start
    <3>1. CASE n = 0
      BY <1>3, <3>1
    <3>2. CASE n = 1
      BY <1>2, <1>3, <2>1, <2>3, <2>4, <3>2
    <3> QED BY <1>3, <3>1, <3>2
  <2> QED BY <2>3, <2>5, <2>6, <2>7
<1>14. \A i \in 1 .. Len(enqueued') : jobs'[enqueued'[i]].task = "Queued"
  <2>1. ASSUME NEW i \in 1 .. Len(enqueued')
        PROVE  after[enqueued'[i]] = js[enqueued'[i]]
    BY <1>2, <1>5, <1>9, <1>13, Zenon
  <2> QED BY <1>11, <1>13, <2>1
<1>15. \A j \in active' : jobs'[j] = after[j]
  BY <1>11, <1>12 DEF Held
<1>16. \A j \in active' :
         jobs'[j].task \in {"Running", "Ok", "Err", "Ended"}
  <2>1. ASSUME NEW j \in stay
        PROVE  after[j].task \in {"Running", "Ok", "Err", "Ended"}
    <3>1. js[j].task \in {"Running", "Ok", "Err", "Ended"} /\ j \in JobId
      BY <1>2, Zenon DEF WorkSound
    <3>2. j \notin gone
      BY DEF stay
    <3> QED BY <1>4, <1>9, <3>1, <3>2
  <2>2. \A j \in start : after[j].task = "Running"
    BY <1>4, <1>7, <1>9
  <2> QED BY <1>1, <1>15, <2>1, <2>2
<1>17. \A j \in JobId :
         jobs'[j].task = "Running" /\ jobs'[j].stop = "None" => j \in active'
  <2> SUFFICES ASSUME NEW j \in JobId,
                      jobs'[j].task = "Running", jobs'[j].stop = "None"
               PROVE  j \in active'
    OBVIOUS
  <2>1. jobs'[j] = after[j]
    BY <1>11
  <2>2. j \notin gone
    BY <1>6, <1>9, <2>1
  <2>3. CASE j \notin start
    <3>1. js[j].task = "Running" /\ js[j].stop = "None"
      BY <1>9, <2>1, <2>2, <2>3
    <3>2. j \in as
      BY <3>1, Zenon DEF WorkSound
    <3> QED BY <1>1, <2>2, <3>2, Zenon DEF stay
  <2> QED BY <1>1, <2>3
<1>18. \A j \in JobId : js[j].task \in Live => jobs'[j].task \in Live
  BY <1>2, <1>4, <1>6, <1>7, <1>9, <1>11 DEF Live
<1> QED BY <1>11, <1>12, <1>13, <1>14, <1>16, <1>17, <1>18 DEF WorkSound

\* The chain keeps its type.
LEMMA ChainType ==
  ASSUME NEW c \in [session : Nat, key : BOOLEAN, next : BOOLEAN],
         NEW flags, NEW d \in NextChain(c, flags)
  PROVE  d \in [session : Nat, key : BOOLEAN, next : BOOLEAN]
<1> DEFINE rotated == [session |-> c.session + 1, key |-> TRUE, next |-> FALSE]
           After == {c, [c EXCEPT !.key = TRUE]}
                      \cup (IF c.key THEN {[c EXCEPT !.next = TRUE]} ELSE {})
                      \cup (IF c.next /\ c.session < MaxSession THEN {rotated}
                                                             ELSE {})
<1>1. After \subseteq [session : Nat, key : BOOLEAN, next : BOOLEAN]
  <2>1. /\ [c EXCEPT !.key = TRUE]
             \in [session : Nat, key : BOOLEAN, next : BOOLEAN]
        /\ [c EXCEPT !.next = TRUE]
             \in [session : Nat, key : BOOLEAN, next : BOOLEAN]
        /\ rotated \in [session : Nat, key : BOOLEAN, next : BOOLEAN]
    <3>1. c.session + 1 \in Nat
      OBVIOUS
    <3>2. rotated \in [session : Nat, key : BOOLEAN, next : BOOLEAN]
      BY <3>1, Zenon
    <3>3. [c EXCEPT !.key = TRUE]
            \in [session : Nat, key : BOOLEAN, next : BOOLEAN]
      BY Zenon
    <3>4. [c EXCEPT !.next = TRUE]
            \in [session : Nat, key : BOOLEAN, next : BOOLEAN]
      BY Zenon
    <3> QED BY <3>2, <3>3, <3>4
  <2>2. After \subseteq {c, [c EXCEPT !.key = TRUE], [c EXCEPT !.next = TRUE],
                         rotated}
    OBVIOUS
  <2> HIDE DEF After, rotated
  <2> QED BY <2>1, <2>2, Zenon
<1>2. d \in IF flags.force THEN {[e EXCEPT !.next = FALSE] : e \in After}
                           ELSE After
  BY DEF NextChain
<1> HIDE DEF After
<1> QED BY <1>1, <1>2, Zenon

\* A block later the jobs have the same tasks.
LEMMA AgedJobs ==
  ASSUME WorkSound(jobs, active, enqueued)
  PROVE  /\ WorkSound(Aged, active, enqueued)
         /\ \A j \in JobId : Aged[j].task = jobs[j].task
<1>1. jobs \in [JobId -> Job]
  BY DEF WorkSound
<1>2. \A j \in JobId : /\ Aged[j] \in Job
                       /\ Aged[j].task = jobs[j].task
                       /\ Aged[j].stop = jobs[j].stop
  BY <1>1 DEF Aged, Job
<1>3. Aged \in [JobId -> Job]
  BY <1>2 DEF Aged
<1>4. /\ active \subseteq JobId
      /\ \A i \in 1 .. Len(enqueued) : enqueued[i] \in JobId
  BY DEF WorkSound
<1> QED BY <1>2, <1>3, <1>4 DEF WorkSound

\* A task that goes on without touching the lists keeps them sound: it goes from
\* running to a result, or from a result to its end.
LEMMA TaskGoesOn ==
  ASSUME WorkSound(jobs, active, enqueued), NEW j \in JobId,
         jobs[j].task \in {"Running", "Ok", "Err"},
         NEW js \in [JobId -> Job],
         \A i \in JobId : i # j => js[i] = jobs[i],
         js[j].task \in {"Ok", "Err", "Ended"}
  PROVE  WorkSound(js, active, enqueued)
<1>1. /\ active \subseteq JobId
      /\ \A i \in 1 .. Len(enqueued) : enqueued[i] \in JobId
  BY DEF WorkSound
<1>2. \A i \in 1 .. Len(enqueued) : js[enqueued[i]].task = "Queued"
  BY <1>1 DEF WorkSound
<1>3. \A i \in active : js[i].task \in {"Running", "Ok", "Err", "Ended"}
  BY <1>1 DEF WorkSound
<1>4. \A i \in JobId :
        js[i].task = "Running" /\ js[i].stop = "None" => i \in active
  BY DEF WorkSound
<1> QED BY <1>2, <1>3, <1>4, Zenon DEF WorkSound

\* Tidying up after a task keeps the lists sound: no list holds what it frees.
LEMMA TidySound ==
  ASSUME NEW js, WorkSound(js, active, enqueued)
  PROVE  WorkSound(Tidy(js, Held(active, enqueued)), active, enqueued)
<1> DEFINE tidy == Tidy(js, Held(active, enqueued))
<1>1. /\ js \in [JobId -> Job] /\ active \subseteq JobId
      /\ \A i \in 1 .. Len(enqueued) : enqueued[i] \in JobId
  BY DEF WorkSound
<1>2. /\ tidy \in [JobId -> Job]
      /\ \A j \in JobId : tidy[j] # js[j] =>
           /\ j \notin Held(active, enqueued)
           /\ tidy[j].task = "Free"
  BY <1>1, TidyJobs
<1> HIDE DEF tidy
<1>3. \A j \in active : tidy[j] = js[j]
  BY <1>1, <1>2 DEF Held
<1>4. \A i \in 1 .. Len(enqueued) : tidy[enqueued[i]] = js[enqueued[i]]
  BY <1>1, <1>2, Zenon DEF Held
<1>5. \A j \in JobId :
        tidy[j].task = "Running" /\ tidy[j].stop = "None" => j \in active
  BY <1>2 DEF WorkSound
<1>6. WorkSound(tidy, active, enqueued)
  BY <1>2, <1>3, <1>4, <1>5, Zenon DEF WorkSound
<1> QED BY <1>6 DEF tidy

\* A start enqueues a fresh job in a free slot.  A forced one first drops every
\* job the work manager has.
LEMMA StartSound ==
  ASSUME WorkSound(jobs, active, enqueued), chain.session \in Nat,
         NEW st, NEW j \in JobId, maybe_start_keygen_for_stage(st, j)
  PROVE  /\ WorkSound(jobs', active', enqueued')
         /\ jobs'[j].task \in Live
<1> DEFINE fresh == [session |-> IF st = "Genesis" THEN chain.session
                                                      ELSE chain.session + 1,
                     age |-> 0, status |-> "Beginning", stop |-> "None",
                     task |-> "Queued"]
           all == Held(active, enqueued)
           dropped == [i \in JobId |-> IF i \in all
                                       THEN Dropped(jobs[i], "DropCode")
                                       ELSE jobs[i]]
<1>1. fresh \in Job /\ fresh.task = "Queued"
  BY DEF Job
<1>2. /\ jobs[j].task = "Free"
      /\ jobs \in [JobId -> Job] /\ active \subseteq JobId
      /\ enqueued \in Seq(JobId)
  BY DEF maybe_start_keygen_for_stage, WorkSound
<1> HIDE DEF fresh
<1>3. CASE seen.flags.force
  <2> DEFINE js == [dropped EXCEPT ![j] = fresh]
  <2>1. poll(js, {}, <<j>>)
    BY <1>3 DEF maybe_start_keygen_for_stage, fresh
  <2>2. dropped \in [JobId -> Job]
    BY <1>2, DroppedJob
  <2>3. \A i \in JobId : dropped[i].stop = "None" => i \notin all
    BY <1>2, DroppedJob
  <2>4. \A i \in JobId : dropped[i].stop = "None" => dropped[i].task # "Running"
    <3> SUFFICES ASSUME NEW i \in JobId, dropped[i].stop = "None"
                 PROVE  dropped[i].task # "Running"
      OBVIOUS
    <3>1. i \notin all
      BY <2>3
    <3>2. dropped[i] = jobs[i] /\ i \notin active
      BY <3>1 DEF Held
    <3> QED BY <3>2 DEF WorkSound
  <2> HIDE DEF dropped
  <2>5. /\ js \in [JobId -> Job] /\ js[j] = fresh
        /\ \A i \in JobId : i # j => js[i] = dropped[i]
    BY <1>1, <2>2
  <2> HIDE DEF js
  <2>6. WorkSound(js, {}, <<j>>)
    <3>1. \A i \in JobId :
            js[i].task = "Running" /\ js[i].stop = "None" => i \in {}
      BY <1>1, <2>4, <2>5
    <3>2. <<j>> \in Seq(JobId) /\ Len(<<j>>) = 1 /\ <<j>>[1] = j
      OBVIOUS
    <3>3. /\ \A i, k \in 1 .. Len(<<j>>) : <<j>>[i] = <<j>>[k] => i = k
          /\ \A i \in 1 .. Len(<<j>>) : js[<<j>>[i]].task = "Queued"
      BY <1>1, <2>5
    <3> QED BY <2>5, <3>1, <3>2, <3>3, Zenon DEF WorkSound
  <2> QED BY <1>1, <2>1, <2>5, <2>6, PollSound DEF Live
<1>4. CASE ~seen.flags.force
  <2> DEFINE js == [jobs EXCEPT ![j] = fresh]
             es == Append(enqueued, j)
  <2>1. poll(js, active, es)
    BY <1>4 DEF maybe_start_keygen_for_stage, fresh
  <2>2. /\ js \in [JobId -> Job] /\ js[j] = fresh
        /\ \A i \in JobId : i # j => js[i] = jobs[i]
    BY <1>1, <1>2
  <2>3. /\ j \notin active
        /\ \A i \in 1 .. Len(enqueued) : enqueued[i] \in JobId /\ enqueued[i] # j
    BY <1>2 DEF WorkSound
  <2>4. /\ es \in Seq(JobId) /\ Len(es) = Len(enqueued) + 1
        /\ es[Len(enqueued) + 1] = j
        /\ \A i \in 1 .. Len(enqueued) : es[i] = enqueued[i]
    BY <1>2, AppendProperties
  <2> HIDE DEF js, es
  <2>5. WorkSound(js, active, es)
    <3>1. \A i, k \in 1 .. Len(es) : es[i] = es[k] => i = k
      BY <1>2, <2>3, <2>4 DEF WorkSound
    <3>2. \A i \in 1 .. Len(es) : js[es[i]].task = "Queued"
      BY <1>1, <1>2, <2>2, <2>3, <2>4 DEF WorkSound
    <3>3. \A i \in active : js[i].task \in {"Running", "Ok", "Err", "Ended"}
      BY <1>2, <2>2, <2>3 DEF WorkSound
    <3>4. \A i \in JobId :
            js[i].task = "Running" /\ js[i].stop = "None" => i \in active
      BY <1>1, <2>2 DEF WorkSound
    <3> QED BY <2>2, <2>4, <3>1, <3>2, <3>3, <3>4, Zenon DEF WorkSound
  <2> QED BY <1>1, <2>1, <2>2, <2>5, PollSound DEF Live
<1> QED BY <1>3, <1>4

\* Every step keeps the invariant: only TaskEnds ends a task that is not queued,
\* and it unlocks; only a forced start ends a queued one, and it brings another.
LEMMA StepInv ==
  ASSUME IInv, [Next]_vars
  PROVE  IInv'
<1> USE DEF work, manager
<1>1. /\ WorkSound(jobs, active, enqueued)
      /\ lock => \E j \in JobId : jobs[j].task \in Live
      /\ chain \in [session : Nat, key : BOOLEAN, next : BOOLEAN]
  BY DEF IInv, LockHasOwner, Live
<1>2. ASSUME NEW flags \in Flags, SyncBlock(flags)
      PROVE  IInv'
  <2>1. chain' \in [session : Nat, key : BOOLEAN, next : BOOLEAN]
    BY <1>1, <1>2, ChainType DEF SyncBlock
  <2>2. jobs' = Aged /\ UNCHANGED <<active, enqueued, lock>>
    BY <1>2 DEF SyncBlock
  <2>3. /\ WorkSound(jobs', active', enqueued')
        /\ \A j \in JobId : jobs'[j].task = jobs[j].task
    BY <1>1, <2>2, AgedJobs
  <2>4. LockHasOwner'
    BY <1>1, <2>2, <2>3 DEF LockHasOwner, Live
  <2> QED BY <2>1, <2>3, <2>4 DEF IInv
<1>3. ASSUME NEW flags \in Flags, on_block_finalized(flags)
      PROVE  IInv'
  <2>1. chain' \in [session : Nat, key : BOOLEAN, next : BOOLEAN]
    BY <1>1, <1>3, ChainType DEF on_block_finalized
  <2>2. poll(Aged, active, enqueued) /\ UNCHANGED lock
    BY <1>3 DEF on_block_finalized
  <2>3. /\ WorkSound(Aged, active, enqueued)
        /\ \A j \in JobId : Aged[j].task = jobs[j].task
    BY <1>1, AgedJobs
  <2>4. /\ WorkSound(jobs', active', enqueued')
        /\ \A j \in JobId : Aged[j].task \in Live => jobs'[j].task \in Live
    BY <2>2, <2>3, PollSound
  <2>5. LockHasOwner'
    BY <1>1, <2>2, <2>3, <2>4 DEF LockHasOwner, Live
  <2> QED BY <2>1, <2>4, <2>5 DEF IInv
<1>4. ASSUME NEW st \in Stage, NEW j \in JobId,
             maybe_start_keygen_for_stage(st, j)
      PROVE  IInv'
  <2>1. chain.session \in Nat /\ UNCHANGED chain
    BY <1>1, <1>4 DEF maybe_start_keygen_for_stage
  <2>2. WorkSound(jobs', active', enqueued') /\ jobs'[j].task \in Live
    BY <1>1, <1>4, <2>1, StartSound
  <2> QED BY <1>1, <2>1, <2>2 DEF IInv, LockHasOwner, Live
<1>5. ASSUME NEW j \in JobId,
             ProtocolSucceeds(j) \/ ProtocolFails(j) \/ ProtocolStops(j)
      PROVE  IInv'
  <2>1. jobs \in [JobId -> Job]
    BY <1>1 DEF WorkSound
  <2>2. /\ jobs[j].task = "Running"
        /\ jobs' \in [JobId -> Job]
        /\ \A i \in JobId : i # j => jobs'[i] = jobs[i]
        /\ jobs'[j].task \in {"Ok", "Err"}
        /\ UNCHANGED <<active, enqueued, lock, chain>>
    BY <1>5, <2>1 DEF ProtocolSucceeds, ProtocolFails, ProtocolStops, Job
  <2>3. WorkSound(jobs', active', enqueued')
    BY <1>1, <2>2, TaskGoesOn
  <2>4. LockHasOwner'
    BY <2>2 DEF LockHasOwner
  <2> QED BY <1>1, <2>2, <2>3, <2>4 DEF IInv
<1>6. ASSUME NEW j \in JobId, TaskEnds(j)
      PROVE  IInv'
  <2> DEFINE js == [jobs EXCEPT ![j].task = "Ended"]
  <2>1. /\ jobs[j].task \in {"Ok", "Err"}
        /\ jobs' = Tidy(js, Held(active, enqueued))
        /\ lock' = FALSE
        /\ UNCHANGED <<active, enqueued, chain>>
    BY <1>6 DEF TaskEnds
  <2>2. /\ js \in [JobId -> Job] /\ js[j].task = "Ended"
        /\ \A i \in JobId : i # j => js[i] = jobs[i]
    <3>1. jobs \in [JobId -> Job]
      BY <1>1 DEF WorkSound
    <3> QED BY <3>1 DEF Job
  <2> HIDE DEF js
  <2>3. WorkSound(js, active, enqueued)
    BY <1>1, <2>1, <2>2, TaskGoesOn
  <2>4. WorkSound(jobs', active', enqueued')
    BY <2>1, <2>3, TidySound
  <2> QED BY <1>1, <2>1, <2>4 DEF IInv, LockHasOwner
<1>7. CASE UNCHANGED <<jobs, active, enqueued, lock, chain>>
  BY <1>1, <1>7 DEF IInv, LockHasOwner, Live, WorkSound
<1> QED
  BY <1>2, <1>3, <1>4, <1>5, <1>6, <1>7, Zenon
  DEF Next, vars, NoKeygen, set_state, SigningOnBlock, SigningStarts

\* The inductive invariant: the work manager's lists are in step with the tasks,
\* and the lock has an owner.
THEOREM Invariance == Spec => []IInv
<1>1. Init => IInv
  <2> SUFFICES ASSUME Init PROVE IInv
    OBVIOUS
  <2>1. jobs \in [JobId -> Job] /\ \A j \in JobId : jobs[j].task = "Free"
    BY DEF Init, Free, Job
  <2>2. active = {} /\ enqueued = << >> /\ lock = FALSE
    BY DEF Init
  <2>3. chain \in [session : Nat, key : BOOLEAN, next : BOOLEAN]
    BY KeygenAssumption DEF Init
  <2> QED BY <2>1, <2>2, <2>3 DEF IInv, LockHasOwner, WorkSound
<1>2. IInv /\ [Next]_vars => IInv'
  BY StepInv
<1> QED BY <1>1, <1>2, PTL DEF Spec

\* keygen_lock is never left behind: for any number of jobs, stalls and forced
\* starts, a locked signing manager has a task that will unlock it.
THEOREM LockOwned == Spec => []LockHasOwner
<1>1. IInv => LockHasOwner
  BY DEF IInv
<1> QED BY Invariance, <1>1, PTL

\* Of the key generation tasks of a node that still run, all but one were told
\* to stop, for any number of jobs.
THEOREM KeygenAlone == Spec => []OneKeygen
<1>1. IInv => OneKeygen
  BY DEF IInv, WorkSound, OneKeygen
<1> QED BY Invariance, <1>1, PTL
-----------------------------------------------------------------------------
(* The sessions of a worker *)

\* The chain has one key for each set id, but may skip ids.
ChainState ==
  [number : Nat, key : Nat \cup {None}, id : Nat, next_id : Nat,
   authorities : SUBSET Node, next_authorities : SUBSET Node,
   best : SUBSET Node, next_best : SUBSET Node]

StateSound(state) ==
  /\ state \in ChainState
  /\ state.id < state.next_id
  /\ state.key \in {None, state.id}
  /\ state.key = None => state.id = 0

ChainSound == StateSound(head)

SetRecord == [id : Nat, authorities : SUBSET Node]

Caches == [current : SetRecord, queued : SetRecord, best : SUBSET Node,
           next_best : SUBSET Node]

SeenSound ==
  /\ handled_ids \subseteq 0..head.id
  /\ stage = "running" => handled_ids # {}

\* A worker that has handled a block of each set from the first to the last one
\* it saw waits for the set after that, and is in the last one.
Followed ==
  \A first, last \in handled_ids :
    /\ \A id \in handled_ids : first <= id /\ id <= last
    /\ first..last \subseteq handled_ids
    => /\ cache.queued.id = last + 1
       /\ head.id = last => cache.current = Active

SessionsInv == ChainSound /\ cache \in Caches /\ SeenSound /\ Followed

\* Every set of naturals but the empty one has a least element.
LEMMA LeastNat ==
  ASSUME NEW S \in SUBSET Nat, S # {}
  PROVE  \E x \in S : \A y \in S : x <= y
<1> DEFINE R == OpToRel(<, Nat)
<1>1. IsWellFoundedOn(R, Nat)
  BY NatLessThanWellFounded, Zenon
<1>2. \A x, y \in Nat : x < y => <<x, y>> \in R
  BY DEF OpToRel
<1> HIDE DEF R
<1>3. PICK x \in S : \A y \in S : ~ (<<y, x>> \in R)
  BY <1>1, WFMin, Zenon
<1>4. ASSUME NEW y \in S
      PROVE  x <= y
  <2>1. ~ (y < x)
    BY <1>2, <1>3, Zenon
  <2> QED
    BY <2>1
<1> QED
  BY <1>4

\* A new head leaves the active set alone, or brings one with an id that the
\* worker has not seen.
LEMMA HeadArrives ==
  ASSUME SessionsInv, NEW state, StateSound(state), NewHead(state),
         \/ state.id = head.id /\ state.authorities = head.authorities
         \/ state.id > head.id
  PROVE  SessionsInv'
<1>0. /\ head' = [state EXCEPT !.number = head.number + 1]
      /\ handled_ids' = handled_ids /\ stage' = stage /\ cache' = cache
  BY DEF NewHead, worker
<1>1. /\ head' \in ChainState
      /\ head'.id = state.id /\ head'.next_id = state.next_id
      /\ head'.key = state.key /\ head'.authorities = state.authorities
  <2>1. head.number + 1 \in Nat /\ state \in ChainState
    BY DEF SessionsInv, ChainSound, StateSound, ChainState
  <2> QED
    BY <1>0, <2>1 DEF ChainState
<1>2. ChainSound'
  BY <1>1 DEF ChainSound, StateSound
<1>3. head.id \in Nat /\ head'.id \in Nat /\ head.id <= head'.id
  BY <1>1 DEF SessionsInv, ChainSound, StateSound, ChainState
<1>4. SeenSound'
  BY <1>0, <1>3 DEF SessionsInv, SeenSound
<1>5. Followed'
  BY <1>0, <1>1, <1>3 DEF SessionsInv, SeenSound, Followed, Active,
                          AuthoritySet
<1> QED
  BY <1>0, <1>2, <1>4, <1>5 DEF SessionsInv

\* The steps of the chain.
LEMMA Heads ==
  ASSUME SessionsInv,
         \/ new_block \/ submit_public_key
         \/ next_best_changes \/ rotation
         \/ forced_change
  PROVE  SessionsInv'
<1>0. head \in ChainState /\ StateSound(head)
  BY DEF SessionsInv, ChainSound, StateSound
<1>1. CASE new_block
  BY <1>0, <1>1, HeadArrives DEF new_block
<1>2. CASE submit_public_key
  <2> DEFINE state == [head EXCEPT !.key = head.id]
  <2>1. /\ state \in ChainState /\ state.id = head.id
        /\ state.next_id = head.next_id /\ state.key = head.id
        /\ state.authorities = head.authorities
    BY <1>0 DEF ChainState
  <2>2. NewHead(state)
    BY <1>2 DEF submit_public_key
  <2>3. head.id # None
    BY WorkerAssumption, <1>0 DEF ChainState
  <2> HIDE DEF state
  <2>4. StateSound(state)
    BY <1>0, <2>1, <2>3 DEF StateSound
  <2> QED
    BY <2>1, <2>2, <2>4, HeadArrives
<1>3. CASE next_best_changes
  <2>1. PICK best \in Best(head.next_authorities) :
          NewHead([head EXCEPT !.next_best = best])
    BY <1>3 DEF next_best_changes
  <2> DEFINE state == [head EXCEPT !.next_best = best]
  <2>2. best \in SUBSET Node
    BY <1>0 DEF Best, ChainState
  <2>3. /\ state \in ChainState /\ state.id = head.id
        /\ state.next_id = head.next_id /\ state.key = head.key
        /\ state.authorities = head.authorities
    BY <1>0, <2>2 DEF ChainState
  <2> HIDE DEF state
  <2>4. StateSound(state)
    BY <1>0, <2>3 DEF StateSound
  <2> QED
    BY <2>1, <2>3, <2>4, HeadArrives, Zenon DEF state
<1>4. CASE rotation
  <2>1. PICK next \in AuthoritySets : \E best \in Best(next) :
          NewHead([head EXCEPT !.key = head.next_id,
                    !.id = head.next_id, !.next_id = head.next_id + 1,
                    !.authorities = head.next_authorities,
                    !.next_authorities = next,
                    !.best = head.next_best, !.next_best = best])
    BY <1>4, Zenon DEF rotation
  <2>2. PICK best \in Best(next) :
          NewHead([head EXCEPT !.key = head.next_id,
                    !.id = head.next_id, !.next_id = head.next_id + 1,
                    !.authorities = head.next_authorities,
                    !.next_authorities = next,
                    !.best = head.next_best, !.next_best = best])
    BY <2>1, Zenon
  <2> DEFINE keyed == [head EXCEPT !.key = head.next_id]
             ids == [keyed EXCEPT !.id = head.next_id,
                                  !.next_id = head.next_id + 1]
             sets == [ids EXCEPT !.authorities = head.next_authorities,
                                 !.next_authorities = next]
             state == [sets EXCEPT !.best = head.next_best, !.next_best = best]
  <2>3. next \in SUBSET Node /\ best \in SUBSET Node
    BY WorkerAssumption DEF Best
  <2>4. NewHead(state)
    BY <2>2, Zenon
  <2>5. /\ head.next_id \in Nat /\ head.id \in Nat
        /\ head.next_authorities \in SUBSET Node
        /\ head.next_best \in SUBSET Node /\ head.next_id # None
        /\ head.id < head.next_id
    BY WorkerAssumption, <1>0 DEF ChainState, StateSound
  <2>6. /\ ids \in ChainState /\ ids.id = head.next_id
        /\ ids.next_id = head.next_id + 1 /\ ids.key = head.next_id
    <3>1. keyed \in ChainState /\ keyed.key = head.next_id
      BY <1>0, <2>5 DEF ChainState
    <3>2. head.next_id + 1 \in Nat
      BY <2>5
    <3> HIDE DEF keyed
    <3>3. ids \in ChainState
      BY <2>5, <3>1, <3>2, Zenon DEF ChainState
    <3>4. /\ ids.id = head.next_id /\ ids.next_id = head.next_id + 1
          /\ ids.key = keyed.key
      BY <3>1, Zenon DEF ChainState
    <3> QED
      BY <3>1, <3>3, <3>4
  <2> HIDE DEF ids
  <2>7. /\ sets \in ChainState /\ sets.id = ids.id
        /\ sets.next_id = ids.next_id /\ sets.key = ids.key
    BY <2>3, <2>5, <2>6, Zenon DEF ChainState
  <2> HIDE DEF sets
  <2>8. /\ state \in ChainState /\ state.id = sets.id
        /\ state.next_id = sets.next_id /\ state.key = sets.key
    BY <2>3, <2>5, <2>7, Zenon DEF ChainState
  <2> HIDE DEF state
  <2>9. StateSound(state) /\ state.id > head.id
    BY <2>5, <2>6, <2>7, <2>8 DEF StateSound
  <2> QED
    BY <2>4, <2>9, HeadArrives
<1>5. CASE forced_change
  <2> DEFINE state == [head EXCEPT !.next_id = head.next_id + 1]
  <2>1. /\ state \in ChainState /\ state.id = head.id
        /\ state.next_id = head.next_id + 1 /\ state.key = head.key
        /\ state.authorities = head.authorities
    BY <1>0 DEF ChainState
  <2>2. NewHead(state)
    BY <1>5 DEF forced_change
  <2>3. head.id \in Nat /\ head.next_id \in Nat
    BY <1>0 DEF ChainState
  <2> HIDE DEF state
  <2>4. StateSound(state)
    BY <1>0, <2>1, <2>3 DEF StateSound
  <2> QED
    BY <2>1, <2>2, <2>4, HeadArrives
<1> QED
  BY <1>1, <1>2, <1>3, <1>4, <1>5

\* The genesis authorities are those of the active set; a key of another set
\* than the queued one changes nothing, one of the queued set moves the worker on.
LEMMA HandledCache ==
  ASSUME ChainSound, NEW c, NEW syncing \in BOOLEAN,
         c \in Caches, Handled(c, syncing)
  PROVE  /\ cache' \in Caches
         /\ c.queued.id = head.id + 1 /\ c.current = Active =>
              /\ cache'.queued.id = head.id + 1
              /\ cache'.current = Active
         /\ c.queued.id = head.id /\ head.id # 0 /\ ~syncing =>
              /\ cache'.queued.id = head.id + 1
              /\ cache'.current = Active
         /\ syncing => cache' = c
<1>0. /\ head.id \in Nat /\ head.id # None /\ head.key \in {None, head.id}
      /\ head.key = None => head.id = 0
      /\ head.id # head.id + 1
      /\ None \notin Nat
  BY WorkerAssumption DEF ChainSound, StateSound, ChainState
<1>1. cache' = IF syncing THEN c
               ELSE IF head.key = None
               THEN maybe_enact_genesis_authorities(c)
               ELSE maybe_rotate_local_session(c)
  BY DEF Handled
<1> DEFINE g == maybe_enact_genesis_authorities(c)
           r == maybe_rotate_local_session(c)
<1>a. /\ Active \in SetRecord /\ Queued \in SetRecord
      /\ head.best \in SUBSET Node /\ head.next_best \in SUBSET Node
      /\ c.next_best \in SUBSET Node
  BY DEF ChainSound, StateSound, ChainState, Caches, SetRecord,
         Active, Queued, AuthoritySet
<1>2. /\ g \in Caches /\ g.queued = c.queued
      /\ c.current = Active => g.current = Active
  BY <1>a, Zenon DEF maybe_enact_genesis_authorities, Caches
<1>b. r \in Caches
  BY <1>a DEF maybe_rotate_local_session, Caches
<1>3. /\ head.key # c.queued.id => r = c
      /\ head.key = c.queued.id => /\ r.current = Active
                                   /\ r.queued.id = head.id + 1
  BY DEF maybe_rotate_local_session, Queued,
         AuthoritySet
<1> HIDE DEF g, r
<1>4. cache' = IF syncing THEN c ELSE IF head.key = None THEN g ELSE r
  BY <1>1 DEF g, r
<1> QED
  BY <1>0, <1>2, <1>3, <1>4, <1>b

\* initialization: the worker begins in the active set.
LEMMA Initialization ==
  ASSUME SessionsInv, NEW syncing \in BOOLEAN,
         initialization(syncing)
  PROVE  SessionsInv'
<1> DEFINE c == [current |-> Active, queued |-> Queued,
                 best |-> head.best, next_best |-> cache.next_best]
<1>1. /\ Handled(c, syncing) /\ handled_ids' = {head.id}
      /\ stage' = "running" /\ head' = head
  BY DEF initialization
<1>2. /\ c.queued.id = head.id + 1 /\ c.current = Active
  BY DEF Queued, AuthoritySet
<1>c. c \in Caches
  BY DEF SessionsInv, ChainSound, StateSound, ChainState, Caches, SetRecord,
         Active, Queued, AuthoritySet
<1> HIDE DEF c
<1>3. ChainSound /\ head.id \in Nat
  BY DEF SessionsInv, ChainSound, StateSound, ChainState
<1>4. /\ cache'.queued.id = head.id + 1 /\ cache'.current = Active
      /\ cache' \in Caches
  BY <1>1, <1>2, <1>3, <1>c, HandledCache
<1>5. ChainSound' /\ SeenSound'
  BY <1>1, <1>3 DEF ChainSound, SeenSound
<1>6. Followed'
  BY <1>1, <1>4 DEF Followed, Active, AuthoritySet
<1> QED
  BY <1>4, <1>5, <1>6 DEF SessionsInv

\* process_block_notification: the block is of the last set that the worker
\* handled a block of, or of the one that it waits for, or one is missing.
LEMMA Notification ==
  ASSUME SessionsInv, NEW syncing \in BOOLEAN,
         process_block_notification(syncing)
  PROVE  SessionsInv'
<1>1. /\ Handled(cache, syncing)
      /\ handled_ids' = IF syncing THEN handled_ids ELSE handled_ids \cup {head.id}
      /\ stage = "running" /\ stage' = stage /\ head' = head
  BY DEF process_block_notification
<1>2. /\ ChainSound /\ head.id \in Nat /\ handled_ids \subseteq 0..head.id
      /\ handled_ids # {} /\ Followed /\ cache \in Caches
  BY <1>1 DEF SessionsInv, ChainSound, StateSound, ChainState, SeenSound
<1>3. ChainSound' /\ SeenSound' /\ cache' \in Caches
  <2>1. cache' \in Caches
    BY <1>1, <1>2, HandledCache
  <2>2. SeenSound'
    <3>1. handled_ids' \in {handled_ids, handled_ids \cup {head.id}}
      BY <1>1
    <3>2. handled_ids' \subseteq 0..head.id /\ handled_ids' # {}
      BY <1>2, <3>1
    <3> QED
      BY <1>1, <3>2 DEF SeenSound
  <2>3. ChainSound'
    BY <1>1, <1>2 DEF ChainSound
  <2> QED
    BY <2>1, <2>2, <2>3
<1>4. /\ cache.queued.id = head.id + 1 /\ cache.current = Active =>
           /\ cache'.queued.id = head.id + 1
           /\ cache'.current = Active
      /\ cache.queued.id = head.id /\ head.id # 0 /\ ~syncing =>
           /\ cache'.queued.id = head.id + 1
           /\ cache'.current = Active
      /\ syncing => cache' = cache
  BY <1>1, <1>2, HandledCache
<1>5. Active' = Active
  BY <1>1 DEF Active, AuthoritySet
<1>6. CASE syncing
  BY <1>1, <1>2, <1>3, <1>4, <1>5, <1>6, Zenon DEF SessionsInv, Followed
<1>7. CASE ~syncing
  <2> SUFFICES ASSUME NEW first \in handled_ids', NEW last \in handled_ids',
                      \A id \in handled_ids' : first <= id /\ id <= last,
                      first..last \subseteq handled_ids'
               PROVE  /\ cache'.queued.id = last + 1
                      /\ cache'.current = Active
    BY <1>1, <1>3, <1>5, Zenon DEF SessionsInv, Followed
  <2>1. last = head.id /\ first \in Nat /\ handled_ids' = handled_ids \cup {head.id}
    BY <1>1, <1>2, <1>7
  <2>2. CASE head.id \in handled_ids
    <3>1. cache.queued.id = head.id + 1 /\ cache.current = Active
      BY <1>2, <2>1, <2>2 DEF Followed
    <3> QED
      BY <1>4, <2>1, <3>1
  <2>3. CASE head.id \notin handled_ids
    <3>0. \A id \in handled_ids : first <= id /\ id < head.id /\ id \in Nat
      BY <1>2, <2>1, <2>3
    <3>1. PICK id \in handled_ids : first <= id /\ id < head.id /\ id \in Nat
      BY <1>2, <3>0, Zenon
    <3>2. first <= head.id - 1 /\ head.id # 0
      BY <1>2, <2>1, <3>1
    <3>3. head.id - 1 \in handled_ids /\ first \in handled_ids
      BY <1>2, <2>1, <3>2
    <3>4. /\ \A s \in handled_ids : first <= s /\ s <= head.id - 1
          /\ first..(head.id - 1) \subseteq handled_ids
      BY <1>2, <2>1, <2>3
    <3>5. cache.queued.id = (head.id - 1) + 1
      BY <1>2, <3>3, <3>4 DEF Followed
    <3> QED
      BY <1>2, <1>4, <1>7, <2>1, <3>2, <3>5
  <2> QED
    BY <2>2, <2>3
<1> QED
  BY <1>6, <1>7

\* The invariant of a worker and the chain holds in every state.
THEOREM SessionsInvariance ==
    WorkerSpec => []SessionsInv
<1>1. WorkerInit => SessionsInv
  <2> SUFFICES ASSUME WorkerInit
               PROVE  SessionsInv
    OBVIOUS
  <2>1. PICK set \in AuthoritySets : \E best \in Best(set) :
          head = [number |-> 1, key |-> None, id |-> 0, next_id |-> 1,
                  authorities |-> set, next_authorities |-> set,
                  best |-> best, next_best |-> best]
    BY DEF WorkerInit
  <2>2. ChainSound
    BY WorkerAssumption, <2>1 DEF ChainSound, StateSound, ChainState, Best
  <2>3. cache \in Caches
    BY DEF WorkerInit, NoCache, NoSet,
           AuthoritySet, Caches, SetRecord
  <2> QED
    BY <2>2, <2>3 DEF WorkerInit, SessionsInv, SeenSound, Followed
<1>2. SessionsInv /\ [WorkerNext]_workerVars => SessionsInv'
  <2> SUFFICES ASSUME SessionsInv, [WorkerNext]_workerVars
               PROVE  SessionsInv'
    OBVIOUS
  <2>1. CASE \/ new_block \/ submit_public_key
             \/ next_best_changes \/ rotation
             \/ forced_change
    BY <2>1, Heads
  <2>2. CASE \E syncing \in BOOLEAN : initialization(syncing)
    BY <2>2, Initialization
  <2>3. CASE \E syncing \in BOOLEAN :
               process_block_notification(syncing)
    BY <2>3, Notification
  <2>4. CASE process_vote_result
    BY <2>4 DEF process_vote_result, SessionsInv, ChainSound, SeenSound,
                Followed, Active, AuthoritySet
  <2>5. CASE restart
    <3>1. NoCache \in Caches
      BY DEF NoCache, NoSet, AuthoritySet, Caches,
             SetRecord
    <3> QED
      BY <2>5, <3>1 DEF restart, SessionsInv, ChainSound, SeenSound,
                        Followed
  <2>6. CASE UNCHANGED workerVars
    BY <2>6 DEF workerVars, worker, SessionsInv, ChainSound,
                SeenSound, Followed, Active, AuthoritySet
  <2> QED
    BY <2>1, <2>2, <2>3, <2>4, <2>5, <2>6 DEF WorkerNext
<1> QED
  BY <1>1, <1>2, PTL DEF WorkerSpec

\* A worker that has handled a block of every set since it started is in the
\* active set, whatever rotations and forced changes of ids the chain sees and
\* whenever the node is syncing or restarts: maybe_rotate_local_session may
\* compare ids for equality.
THEOREM SessionsFollowed ==
    WorkerSpec => []FollowsSessions
<1>1. SessionsInv => FollowsSessions
  <2> SUFFICES ASSUME SessionsInv, NoneMissed
               PROVE  cache.current = Active
    BY DEF FollowsSessions
  <2> DEFINE first == Min(handled_ids)
  <2>1. /\ handled_ids # {} /\ first..head.id \subseteq handled_ids
        /\ head.id \in Nat /\ handled_ids \subseteq 0..head.id
    BY DEF NoneMissed, SessionsInv, ChainSound, StateSound, ChainState,
           SeenSound
  <2>2. first \in handled_ids /\ \A id \in handled_ids : first <= id
    <3>1. \E x \in handled_ids : \A y \in handled_ids : x <= y
      BY <2>1, LeastNat
    <3> QED
      BY <3>1 DEF Min
  <2> HIDE DEF first
  <2>3. head.id \in handled_ids /\ \A id \in handled_ids : first <= id /\ id <= head.id
    BY <2>1, <2>2
  <2> QED
    BY <2>1, <2>2, <2>3 DEF SessionsInv, Followed
<1> QED
  BY <1>1, SessionsInvariance, PTL
=============================================================================

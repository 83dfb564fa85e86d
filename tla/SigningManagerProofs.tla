------------------------ MODULE SigningManagerProofs ------------------------
(***************************************************************************)
(* Theorems about the signing managers of the nodes, for any nodes,        *)
(* batches, keys, signing sets and timeout.                                *)
(***************************************************************************)
EXTENDS SigningManager, FiniteSetTheorems, SequenceTheorems,
        WellFoundedInduction, TLAPS

Stage == {"none", "queued", "running", "done"}

NodeJob == [is : Stage, ssid : Nat, sets : Nat, session : Nat, age : Nat]

History == [attempted : {S \in SUBSET Nat : IsFiniteSet(S)}, sets : Nat,
            since : Nat]

Task == [batch : Batch, ssid : Nat, ok : BOOLEAN]

\* What a node has still to check has no job, what it has queued is queued, and
\* neither list names a batch twice.
NodeSound(js, td, qu) ==
  /\ \A i \in 1..Len(td) : js[td[i]].is = "none"
  /\ \A i, k \in 1..Len(td) : td[i] = td[k] => i = k
  /\ \A i \in 1..Len(qu) : js[qu[i]].is = "queued"
  /\ \A i, k \in 1..Len(qu) : qu[i] = qu[k] => i = k

SigningInv ==
  /\ key \in Key /\ unsigned \subseteq Batch
  /\ jobs \in [Node -> [Batch -> NodeJob]]
  /\ todo \in [Node -> Seq(Batch)] /\ queue \in [Node -> Seq(Batch)]
  /\ ssid_history \in [Node -> [Batch -> History]]
  /\ ending \in [Node -> SUBSET Task]
  /\ \A n \in Node : NodeSound(jobs[n], todo[n], queue[n])

\* A job that is there before and after a step is the same one, and no younger.
Kept(old, new) ==
  \A b \in Batch :
    old[b].is # "none" /\ new[b].is # "none"
      => new[b].ssid = old[b].ssid /\ new[b].age >= old[b].age

\* Every set of naturals but the empty one has a least element.
LEMMA LeastNat ==
  ASSUME NEW S \in SUBSET Nat, S # {}
  PROVE  \E x \in S : \A y \in S : x <= y
<1> DEFINE R == OpToRel(<, Nat)
<1>1. IsWellFoundedOn(R, Nat)
  BY NatLessThanWellFounded, Zenon
<1>2. \A x, y \in Nat : x < y => <<x, y>> \in R
  BY DEF OpToRel
<1> HIDE DEF R
<1>3. PICK x \in S : \A y \in S : ~ (<<y, x>> \in R)
  BY <1>1, WFMin, Zenon
<1>4. ASSUME NEW y \in S
      PROVE  x <= y
  <2>1. ~ (y < x)
    BY <1>2, <1>3, Zenon
  <2> QED
    BY <2>1
<1> QED
  BY <1>4

\* A finite set of naturals, unless it is empty, has a greatest element: take
\* a smallest one that has none, and an element away from it.
LEMMA GreatestNat ==
  ASSUME NEW S \in SUBSET Nat, IsFiniteSet(S), S # {}
  PROVE  \E x \in S : \A y \in S : x >= y
<1> DEFINE Has(T) == \E x \in T : \A y \in T : x >= y
           Bad == {n \in Nat : \E T \in SUBSET Nat :
                     /\ IsFiniteSet(T) /\ T # {}
                     /\ Cardinality(T) = n /\ ~Has(T)}
<1>1. Bad = {}
  <2> SUFFICES ASSUME Bad # {}
               PROVE  FALSE
    OBVIOUS
  <2>1. PICK n \in Bad : \A m \in Bad : n <= m
    BY LeastNat, Zenon
  <2>2. PICK T \in SUBSET Nat : /\ IsFiniteSet(T) /\ T # {}
                                /\ Cardinality(T) = n /\ ~Has(T)
    OBVIOUS
  <2>3. PICK x \in T : TRUE
    BY <2>2, Zenon
  <2> DEFINE U == T \ {x}
  <2>4. IsFiniteSet(U) /\ Cardinality(U) = n - 1 /\ n - 1 \in Nat
    <3>1. IsFiniteSet(U) /\ Cardinality(U) = Cardinality(T) - 1
      BY <2>2, <2>3, FS_RemoveElement
    <3>2. Cardinality(U) \in Nat
      BY <3>1, FS_CardinalityType
    <3> QED
      BY <2>2, <3>1, <3>2
  <2>5. CASE U = {}
    BY <2>2, <2>3, <2>5
  <2>6. CASE U # {}
    <3>1. n - 1 \notin Bad
      BY <2>1
    <3>2. Has(U)
      BY <2>4, <2>6, <3>1, Zenon
    <3>3. PICK y \in U : \A z \in U : y >= z
      BY <3>2
    <3>4. CASE x >= y
      BY <2>2, <3>3, <3>4
    <3>5. CASE ~(x >= y)
      BY <2>2, <3>3, <3>5
    <3> QED
      BY <3>4, <3>5
  <2> QED
    BY <2>5, <2>6
<1>2. Cardinality(S) \in Nat
  BY FS_CardinalityType
<1> QED
  BY <1>1, <1>2

\* The batches to check can be put in their order: take a smallest finite set
\* of naturals that cannot, and its least element away.
LEMMA SortedExists ==
  ASSUME NEW S \in SUBSET Nat, IsFiniteSet(S)
  PROVE  \E s \in [1..Cardinality(S) -> S] :
           \A i, k \in 1..Cardinality(S) : i < k => s[i] < s[k]
<1> DEFINE Can(T) == \E s \in [1..Cardinality(T) -> T] :
                       \A i, k \in 1..Cardinality(T) : i < k => s[i] < s[k]
           Bad == {n \in Nat : \E T \in SUBSET Nat :
                     IsFiniteSet(T) /\ Cardinality(T) = n /\ ~Can(T)}
<1>1. Bad = {}
  <2> SUFFICES ASSUME Bad # {}
               PROVE  FALSE
    OBVIOUS
  <2>1. PICK n \in Bad : \A m \in Bad : n <= m
    BY LeastNat, Zenon
  <2>2. PICK T \in SUBSET Nat : /\ IsFiniteSet(T)
                                /\ Cardinality(T) = n /\ ~Can(T)
    OBVIOUS
  <2>3. CASE T = {}
    <3>1. Cardinality(T) = 0
      BY <2>3, FS_EmptySet
    <3>2. 1..Cardinality(T) = {}
      BY <3>1
    <3>3. [i \in 1..Cardinality(T) |-> 0] \in [1..Cardinality(T) -> T]
      BY <3>2
    <3> QED
      BY <2>2, <3>2, <3>3, Zenon
  <2>4. CASE T # {}
    <3>1. PICK x \in T : \A y \in T : x <= y
      BY <2>4, LeastNat
    <3> DEFINE U == T \ {x}
    <3>2. IsFiniteSet(U) /\ Cardinality(U) = n - 1 /\ n - 1 \in Nat
      <4>1. IsFiniteSet(U) /\ Cardinality(U) = Cardinality(T) - 1
        BY <2>2, <3>1, FS_RemoveElement
      <4>2. Cardinality(U) \in Nat
        BY <4>1, FS_CardinalityType
      <4> QED
        BY <2>2, <4>1, <4>2
    <3>3. Can(U)
      <4>1. n - 1 \notin Bad
        BY <2>1
      <4> QED
        BY <3>2, <4>1, Zenon
    <3>4. PICK s \in [1..(n - 1) -> U] :
            \A i, k \in 1..(n - 1) : i < k => s[i] < s[k]
      BY <3>2, <3>3, Zenon
    <3> DEFINE t == [i \in 1..n |-> IF i = 1 THEN x ELSE s[i - 1]]
    <3>5. t \in [1..n -> T]
      BY <3>1, <3>4
    <3>6. ASSUME NEW i \in 1..n, NEW k \in 1..n, i < k
          PROVE  t[i] < t[k]
      <4>1. /\ k - 1 \in 1..(n - 1) /\ t[k] = s[k - 1] /\ t[k] \in U
            /\ t[k] \in Nat /\ x \in Nat
        <5>1. n \in Nat /\ k - 1 \in 1..(n - 1) /\ k # 1
          BY <3>6
        <5>2. s[k - 1] \in U
          BY <3>4, <5>1
        <5> QED
          BY <3>1, <5>1, <5>2, Zenon
      <4>2. CASE i = 1
        <5>1. t[i] = x /\ t[k] # x /\ x <= t[k]
          BY <3>1, <4>1, <4>2
        <5> QED
          BY <4>1, <5>1
      <4>3. CASE i # 1
        <5>1. i - 1 \in 1..(n - 1) /\ t[i] = s[i - 1] /\ i - 1 < k - 1
          BY <3>6, <4>3
        <5> QED
          BY <3>4, <4>1, <5>1
      <4> QED
        BY <4>2, <4>3
    <3> QED
      BY <2>2, <3>5, <3>6, Zenon
  <2> QED
    BY <2>3, <2>4
<1>2. Cardinality(S) \in Nat
  BY FS_CardinalityType, Zenon
<1> QED
  BY <1>1, <1>2

\* get_unsigned_proposals: batches without a job, each of them once.
LEMMA ToCheck ==
  ASSUME SigningInv, NEW n \in Node
  PROVE  LET td == get_unsigned_proposals(n)
         IN  /\ td \in Seq(Batch)
             /\ \A i \in 1..Len(td) : jobs[n][td[i]].is = "none"
             /\ \A i, k \in 1..Len(td) : td[i] = td[k] => i = k
<1> DEFINE S == {b \in unsigned : jobs[n][b].is = "none"}
           td == get_unsigned_proposals(n)
<1>1. S \in SUBSET Nat /\ S \subseteq Batch /\ IsFiniteSet(S)
  <2>1. S \subseteq Batch /\ Batch \subseteq Nat /\ IsFiniteSet(Batch)
    BY SigningAssumption, Zenon DEF SigningInv
  <2> QED
    BY <2>1, FS_Subset, Zenon
<1>2. Cardinality(S) \in Nat
  BY <1>1, FS_CardinalityType
<1>3. td = Sorted(S)
  BY DEF get_unsigned_proposals
<1> HIDE DEF S, td
<1>4. /\ td \in [1..Cardinality(S) -> S]
      /\ \A i, k \in 1..Cardinality(S) : i < k => td[i] < td[k]
  <2>1. \E s \in [1..Cardinality(S) -> S] :
          \A i, k \in 1..Cardinality(S) : i < k => s[i] < s[k]
    BY <1>1, SortedExists
  <2>2. /\ td \in [1..Cardinality(S) -> S]
        /\ \A i, k \in 1..Cardinality(S) : i < k => td[i] < td[k]
    BY <1>3, <2>1, Zenon DEF Sorted
  <2> QED
    BY <2>2
<1>5. td \in Seq(Batch) /\ Len(td) = Cardinality(S)
  <2>1. td \in [1..Cardinality(S) -> Batch]
    BY <1>1, <1>4, Zenon
  <2> QED
    BY <1>2, <2>1
<1>6. \A i \in 1..Len(td) : td[i] \in S /\ td[i] \in Nat
  BY <1>1, <1>4, <1>5, Zenon
<1>7. ASSUME NEW i \in 1..Len(td), NEW k \in 1..Len(td), td[i] = td[k]
      PROVE  i = k
  <2>1. ~(i < k) /\ ~(k < i)
    BY <1>4, <1>5, <1>6, <1>7
  <2> QED
    BY <1>2, <1>5, <2>1
<1> QED
  BY <1>5, <1>6, <1>7, Zenon DEF S, td

\* The attempt after those of a history: its set is one of the list it is from,
\* if there is one, and the list is of the session when the sets are.
LEMMA NextOf ==
  ASSUME key \in Key, NEW h \in History
  PROVE  LET a == NextAttempt(h)
         IN  /\ a.ssid \in Nat /\ a.sets \in Nat
             /\ a.attempted \in {S \in SUBSET Nat : IsFiniteSet(S)}
             /\ h.sets \in {0, key} /\ SetsOf(a.sets) # << >> =>
                  /\ a.sets = key /\ key # 0
                  /\ a.ssid + 1 \in 1..Len(Sets[key])
<1> DEFINE next == next_ssid(h)
           sets == IF next = 0 THEN key ELSE h.sets
           reset == next >= Len(SetsOf(sets))
           ssid == IF reset THEN 0 ELSE next
           attempted == (IF reset THEN {} ELSE h.attempted) \cup {ssid}
           a == NextAttempt(h)
<1>1. /\ h.attempted \in SUBSET Nat /\ IsFiniteSet(h.attempted)
      /\ h.sets \in Nat /\ key \in Nat
  BY SigningAssumption DEF History
<1>2. next \in Nat
  <2>1. CASE h.attempted = {}
    BY <2>1 DEF next_ssid
  <2>2. CASE h.attempted # {}
    <3>1. \E x \in h.attempted : \A y \in h.attempted : x >= y
      BY <1>1, <2>2, GreatestNat, Zenon
    <3>2. Max(h.attempted) \in h.attempted
      BY <3>1 DEF Max
    <3> QED
      BY <1>1, <2>2, <3>2 DEF next_ssid
  <2> QED
    BY <2>1, <2>2
<1>3. a = [attempted |-> attempted, sets |-> sets, ssid |-> ssid]
  BY DEF NextAttempt
<1> HIDE DEF next, a
<1>4. sets \in Nat /\ ssid \in Nat
  BY <1>1, <1>2, Zenon
<1>5. attempted \in {S \in SUBSET Nat : IsFiniteSet(S)}
  <2>1. IsFiniteSet({})
    BY FS_EmptySet
  <2>2. \A S : IsFiniteSet(S) => IsFiniteSet(S \cup {ssid})
    BY FS_AddElement
  <2> QED
    BY <1>1, <1>4, <2>1, <2>2, Zenon
<1>6. ASSUME h.sets \in {0, key}, SetsOf(sets) # << >>
      PROVE  sets = key /\ key # 0 /\ ssid + 1 \in 1..Len(Sets[key])
  <2>1. sets # 0
    BY <1>6 DEF SetsOf, None
  <2>2. sets = key /\ key # 0
    BY <1>6, <2>1
  <2>3. SetsOf(sets) = Sets[key]
    BY <2>2 DEF SetsOf, None
  <2>4. Sets[key] \in Seq(SUBSET Node) /\ Sets[key] # << >>
    BY SigningAssumption, <1>6, <2>3, Zenon
  <2>5. Len(Sets[key]) \in Nat \ {0}
    BY <2>4, EmptySeq, LenProperties, Zenon
  <2> HIDE DEF sets
  <2> QED
    BY <1>2, <2>2, <2>3, <2>5
<1> HIDE DEF attempted, sets, ssid
<1>7. a.ssid = ssid /\ a.sets = sets /\ a.attempted = attempted
  BY <1>3
<1> QED
  BY <1>4, <1>5, <1>6, <1>7, Zenon DEF a

\* Members of the sets of the key on chain are as many as it asks for.
LEMMA SetsSized ==
  ASSUME key \in Key, NEW a, a.sets = key, key # 0,
         a.ssid + 1 \in 1..Len(Sets[key])
  PROVE  Sized(a)
<1>1. SetsOf(a.sets) = Sets[key]
  BY DEF SetsOf, None
<1>2. Cardinality(Sets[key][a.ssid + 1]) = Threshold[key] + 1
  BY SigningAssumption, Zenon
<1> QED
  BY <1>1, <1>2, Zenon DEF Sized, Members

\* A step of one node, by what it makes of its part of the state.
LEMMA OneNode ==
  ASSUME SigningInv, NEW n \in Node, NEW js \in [Batch -> NodeJob],
         NEW td \in Seq(Batch), NEW qu \in Seq(Batch),
         NEW hs \in [Batch -> History], NEW en \in SUBSET Task,
         jobs' = [jobs EXCEPT ![n] = js],
         todo' = [todo EXCEPT ![n] = td], queue' = [queue EXCEPT ![n] = qu],
         ssid_history' = [ssid_history EXCEPT ![n] = hs],
         ending' = [ending EXCEPT ![n] = en],
         UNCHANGED <<key, unsigned>>,
         NodeSound(js, td, qu), Kept(jobs[n], js)
  PROVE  SigningInv' /\ \A m \in Node : Kept(jobs[m], jobs'[m])
<1>1. /\ jobs \in [Node -> [Batch -> NodeJob]]
      /\ todo \in [Node -> Seq(Batch)] /\ queue \in [Node -> Seq(Batch)]
      /\ ssid_history \in [Node -> [Batch -> History]]
      /\ ending \in [Node -> SUBSET Task]
  BY DEF SigningInv
<1>2. /\ jobs' \in [Node -> [Batch -> NodeJob]]
      /\ todo' \in [Node -> Seq(Batch)] /\ queue' \in [Node -> Seq(Batch)]
      /\ ssid_history' \in [Node -> [Batch -> History]]
      /\ ending' \in [Node -> SUBSET Task]
  BY <1>1
<1>3. \A m \in Node : NodeSound(jobs'[m], todo'[m], queue'[m])
  <2> TAKE m \in Node
  <2>1. CASE m = n
    <3>1. jobs'[m] = js /\ todo'[m] = td /\ queue'[m] = qu
      BY <1>1, <2>1, Zenon
    <3> QED
      BY <3>1, Zenon
  <2>2. CASE m # n
    <3>1. /\ jobs'[m] = jobs[m] /\ todo'[m] = todo[m]
          /\ queue'[m] = queue[m]
      BY <1>1, <2>2, Zenon
    <3> QED
      BY <3>1 DEF SigningInv
  <2> QED
    BY <2>1, <2>2, Zenon
<1>4. \A m \in Node : Kept(jobs[m], jobs'[m])
  <2> TAKE m \in Node
  <2>1. CASE m = n
    BY <1>1, <2>1, Zenon
  <2>2. CASE m # n
    <3>1. jobs'[m] = jobs[m] /\ jobs[m] \in [Batch -> NodeJob]
      BY <1>1, <2>2
    <3> QED
      BY <3>1 DEF Kept, NodeJob
  <2> QED
    BY <2>1, <2>2, Zenon
<1> QED
  BY <1>2, <1>3, <1>4, Zenon DEF SigningInv

\* The part of one node.
LEMMA PartOf ==
  ASSUME SigningInv, NEW n \in Node
  PROVE  /\ jobs[n] \in [Batch -> NodeJob] /\ todo[n] \in Seq(Batch)
         /\ queue[n] \in Seq(Batch) /\ ssid_history[n] \in [Batch -> History]
         /\ ending[n] \in SUBSET Task
         /\ NodeSound(jobs[n], todo[n], queue[n])
         /\ jobs = [jobs EXCEPT ![n] = jobs[n]]
         /\ todo = [todo EXCEPT ![n] = todo[n]]
         /\ queue = [queue EXCEPT ![n] = queue[n]]
         /\ ssid_history = [ssid_history EXCEPT ![n] = ssid_history[n]]
         /\ ending = [ending EXCEPT ![n] = ending[n]]
  BY DEF SigningInv

LEMMA KeptSame ==
  ASSUME NEW js \in [Batch -> NodeJob]
  PROVE  Kept(js, js)
  BY DEF Kept, NodeJob

\* A node stays sound when no job is added to those it has not or has queued,
\* and when it checks a batch, or gives up checking.
LEMMA SoundStill ==
  ASSUME NEW js \in [Batch -> NodeJob], NEW ks \in [Batch -> NodeJob],
         NEW td \in Seq(Batch), NEW qu \in Seq(Batch), NodeSound(js, td, qu),
         \A b \in Batch : js[b].is \in {"none", "queued"} => ks[b].is = js[b].is
  PROVE  /\ NodeSound(ks, td, qu) /\ NodeSound(ks, << >>, qu)
         /\ td # << >> => NodeSound(ks, Tail(td), qu)
<1>1. /\ \A i \in 1..Len(td) : td[i] \in Batch
      /\ \A i \in 1..Len(qu) : qu[i] \in Batch
  BY ElementOfSeq, Zenon
<1>2. NodeSound(ks, td, qu) /\ NodeSound(ks, << >>, qu)
  BY <1>1 DEF NodeSound
<1>3. ASSUME td # << >>
      PROVE  NodeSound(ks, Tail(td), qu)
  <2>1. /\ Len(td) \in Nat /\ Len(Tail(td)) = Len(td) - 1
        /\ \A i \in 1..Len(Tail(td)) : Tail(td)[i] = td[i + 1]
    BY <1>3, HeadTailProperties, LenProperties, Zenon
  <2>2. \A i \in 1..Len(Tail(td)) : i + 1 \in 1..Len(td)
    BY <2>1
  <2>3. \A i \in 1..Len(Tail(td)) : ks[Tail(td)[i]].is = "none"
    BY <1>2, <2>1, <2>2 DEF NodeSound
  <2>4. ASSUME NEW i \in 1..Len(Tail(td)), NEW k \in 1..Len(Tail(td)),
               Tail(td)[i] = Tail(td)[k]
        PROVE  i = k
    <3>1. i + 1 = k + 1
      BY <1>2, <2>1, <2>2, <2>4 DEF NodeSound
    <3> QED
      BY <2>1, <3>1
  <2> QED
    BY <1>2, <2>3, <2>4, Zenon DEF NodeSound
<1> QED
  BY <1>2, <1>3, Zenon

\* A step that leaves jobs, lists and histories alone.
LEMMA SigningQuiet ==
  ASSUME SigningInv,
         UNCHANGED <<key, unsigned, jobs, todo, queue, ssid_history, ending>>
  PROVE  SigningInv' /\ \A m \in Node : Kept(jobs[m], jobs'[m])
<1>1. SigningInv'
  BY Zenon DEF SigningInv
<1> QED
  BY <1>1, KeptSame, Zenon DEF SigningInv

\* A node that stops has nothing to check and no job.
LEMMA Stops ==
  ASSUME SigningInv, NEW n \in Node, Stop(n)
  PROVE  SigningInv' /\ \A m \in Node : Kept(jobs[m], jobs'[m])
<1> DEFINE js == [b \in Batch |-> NoJob]
           hs == [b \in Batch |-> NoHistory]
<1>1. NoJob \in NodeJob
  BY DEF NoJob, None, NodeJob, Stage
<1>2. NoHistory \in History
  BY SigningAssumption, FS_EmptySet DEF NoHistory, None, History
<1>3. js \in [Batch -> NodeJob] /\ hs \in [Batch -> History]
  BY <1>1, <1>2
<1>4. \A b \in Batch : js[b].is = "none"
  BY DEF NoJob
<1>5. /\ jobs' = [jobs EXCEPT ![n] = js]
      /\ todo' = [todo EXCEPT ![n] = << >>]
      /\ queue' = [queue EXCEPT ![n] = << >>]
      /\ ssid_history' = [ssid_history EXCEPT ![n] = hs]
      /\ ending' = [ending EXCEPT ![n] = {}] /\ UNCHANGED <<key, unsigned>>
  BY DEF Stop, chainState
<1> HIDE DEF js, hs
<1>6. NodeSound(js, << >>, << >>)
  BY DEF NodeSound
<1>7. Kept(jobs[n], js)
  BY <1>4 DEF Kept
<1>8. << >> \in Seq(Batch) /\ {} \in SUBSET Task
  OBVIOUS
<1> QED
  BY <1>3, <1>5, <1>6, <1>7, <1>8, OneNode, Zenon

\* on_block_finalized: the list to check is made, or has come to its end.
LEMMA Finalized ==
  ASSUME SigningInv, NEW n \in Node,
         \/ on_block_finalized(n) \/ Full(n)
         \/ AlreadyWaiting(n)
  PROVE  SigningInv' /\ \A m \in Node : Kept(jobs[m], jobs'[m])
<1>1. /\ jobs[n] \in [Batch -> NodeJob] /\ todo[n] \in Seq(Batch)
      /\ queue[n] \in Seq(Batch) /\ ssid_history[n] \in [Batch -> History]
      /\ ending[n] \in SUBSET Task
      /\ NodeSound(jobs[n], todo[n], queue[n])
      /\ jobs = [jobs EXCEPT ![n] = jobs[n]]
      /\ queue = [queue EXCEPT ![n] = queue[n]]
      /\ ssid_history = [ssid_history EXCEPT ![n] = ssid_history[n]]
      /\ ending = [ending EXCEPT ![n] = ending[n]]
  BY PartOf, Zenon
<1>2. ASSUME NEW td \in Seq(Batch), todo' = [todo EXCEPT ![n] = td],
             NodeSound(jobs[n], td, queue[n]),
             UNCHANGED <<key, unsigned, jobs, queue, ssid_history, ending>>
      PROVE  SigningInv' /\ \A m \in Node : Kept(jobs[m], jobs'[m])
  <2>1. Kept(jobs[n], jobs[n])
    BY <1>1, KeptSame
  <2> QED
    BY <1>1, <1>2, <2>1, OneNode, Zenon
<1>3. /\ NodeSound(jobs[n], << >>, queue[n])
      /\ todo[n] # << >> => NodeSound(jobs[n], Tail(todo[n]), queue[n])
  BY <1>1, SoundStill, Zenon
<1>4. CASE on_block_finalized(n)
  <2> DEFINE td == get_unsigned_proposals(n)
  <2>1. /\ td \in Seq(Batch)
        /\ \A i \in 1..Len(td) : jobs[n][td[i]].is = "none"
        /\ \A i, k \in 1..Len(td) : td[i] = td[k] => i = k
    BY ToCheck
  <2>2. /\ todo' = [todo EXCEPT ![n] = td]
        /\ UNCHANGED <<key, unsigned, jobs, queue, ssid_history, ending>>
    BY <1>4 DEF on_block_finalized, chainState
  <2> HIDE DEF td
  <2>3. NodeSound(jobs[n], td, queue[n])
    BY <1>1, <2>1 DEF NodeSound
  <2> QED
    BY <1>2, <2>1, <2>2, <2>3, Zenon
<1>5. CASE Full(n)
  <2>1. /\ todo' = [todo EXCEPT ![n] = << >>] /\ << >> \in Seq(Batch)
        /\ UNCHANGED <<key, unsigned, jobs, queue, ssid_history, ending>>
    BY <1>5 DEF Full, Continue, chainState
  <2> QED
    BY <1>2, <1>3, <2>1, Zenon
<1>6. CASE AlreadyWaiting(n)
  <2>1. /\ todo[n] # << >> /\ todo' = [todo EXCEPT ![n] = Tail(todo[n])]
        /\ UNCHANGED <<key, unsigned, jobs, queue, ssid_history, ending>>
    BY <1>6 DEF AlreadyWaiting, Continue, chainState
  <2>2. Tail(todo[n]) \in Seq(Batch)
    BY <1>1, <2>1, HeadTailProperties
  <2> QED
    BY <1>2, <1>3, <2>1, <2>2, Zenon
<1> QED
  BY <1>4, <1>5, <1>6

\* TryNextSet: the batch being checked had no job, so the new one is the first.
LEMMA Tries ==
  ASSUME SigningInv, NEW n \in Node, NEW b \in Batch,
         TryNextSet(n, b)
  PROVE  SigningInv' /\ \A m \in Node : Kept(jobs[m], jobs'[m])
<1> DEFINE a == NextAttempt(ssid_history[n][b])
           h == [attempted |-> a.attempted, sets |-> a.sets,
                 since |-> IF SetsOf(a.sets) = << >> THEN SIGN_TIMEOUT
                           ELSE 0]
           hs == [ssid_history[n] EXCEPT ![b] = h]
           job == NewJob(a, b)
           js == IF InSet(n, a) THEN [jobs[n] EXCEPT ![b] = job]
                 ELSE jobs[n]
           qu == IF InSet(n, a) /\ b \notin Forced
                 THEN Append(queue[n], b) ELSE queue[n]
<1>1. /\ jobs[n] \in [Batch -> NodeJob] /\ todo[n] \in Seq(Batch)
      /\ queue[n] \in Seq(Batch) /\ ssid_history[n] \in [Batch -> History]
      /\ ending[n] \in SUBSET Task
      /\ NodeSound(jobs[n], todo[n], queue[n])
      /\ jobs = [jobs EXCEPT ![n] = jobs[n]]
      /\ queue = [queue EXCEPT ![n] = queue[n]]
      /\ ending = [ending EXCEPT ![n] = ending[n]]
  BY PartOf
<1>2. /\ key \in Key /\ key \in Nat /\ SIGN_TIMEOUT \in Nat
  BY SigningAssumption DEF SigningInv
<1>3. /\ todo[n] # << >> /\ b = Head(todo[n])
      /\ todo' = [todo EXCEPT ![n] = Tail(todo[n])]
      /\ ssid_history' = [ssid_history EXCEPT ![n][b] = h]
      /\ jobs' = IF InSet(n, a)
                 THEN [jobs EXCEPT ![n][b] = job] ELSE jobs
      /\ queue' = IF InSet(n, a) /\ b \notin Forced
                  THEN [queue EXCEPT ![n] = Append(queue[n], b)] ELSE queue
      /\ UNCHANGED <<key, unsigned, ending>>
  BY DEF TryNextSet, MustTry, Continue,
         chainState
<1>4. /\ a.ssid \in Nat /\ a.sets \in Nat
      /\ a.attempted \in {S \in SUBSET Nat : IsFiniteSet(S)}
  BY <1>1, <1>2, NextOf
<1> HIDE DEF a
<1>5. h \in History
  BY <1>2, <1>4, Zenon DEF History
<1>6. /\ job \in NodeJob
      /\ job.is = IF b \in Forced THEN "running" ELSE "queued"
  BY <1>2, <1>4, Zenon DEF NewJob, NodeJob, Stage
<1> HIDE DEF h, job
<1>7. ssid_history' = [ssid_history EXCEPT ![n] = hs] /\ hs \in [Batch -> History]
  BY <1>1, <1>3, <1>5, Zenon DEF SigningInv
<1>8. jobs' = [jobs EXCEPT ![n] = js] /\ js \in [Batch -> NodeJob]
  BY <1>1, <1>3, <1>6, Zenon DEF SigningInv
<1>9. queue' = [queue EXCEPT ![n] = qu] /\ qu \in Seq(Batch)
  <2>1. Append(queue[n], b) \in Seq(Batch)
    BY <1>1, AppendProperties
  <2>2. qu \in Seq(Batch)
    BY <1>1, <2>1
  <2>3. queue' = [queue EXCEPT ![n] = qu]
    BY <1>1, <1>3, Zenon
  <2> QED
    BY <2>2, <2>3
<1>10. /\ Len(todo[n]) \in Nat \ {0} /\ b = todo[n][1]
       /\ jobs[n][b].is = "none"
  <2>1. Len(todo[n]) \in Nat \ {0}
    BY <1>1, <1>3, EmptySeq, LenProperties
  <2>2. b = todo[n][1]
    BY <1>1, <1>3
  <2>3. 1 \in 1..Len(todo[n])
    BY <2>1
  <2>4. jobs[n][todo[n][1]].is = "none"
    BY <1>1, <2>3, Zenon DEF NodeSound
  <2> QED
    BY <2>1, <2>2, <2>4
<1>11. Kept(jobs[n], js)
  <2>1. \A c \in Batch : c # b => js[c] = jobs[n][c]
    BY <1>1, Zenon
  <2>2. \A c \in Batch : jobs[n][c].age \in Nat
    BY <1>1, Zenon DEF NodeJob
  <2> HIDE DEF js
  <2> QED
    BY <1>10, <2>1, <2>2 DEF Kept
<1>12. Tail(todo[n]) \in Seq(Batch)
  BY <1>1, <1>3, HeadTailProperties, Zenon
<1>13. NodeSound(js, Tail(todo[n]), qu)
  <2>1. NodeSound(jobs[n], Tail(todo[n]), queue[n])
    BY <1>1, <1>3, SoundStill, Zenon
  <2>2. CASE ~InSet(n, a)
    BY <2>1, <2>2
  <2>3. CASE InSet(n, a)
    <3>1. \A c \in Batch : c # b => js[c] = jobs[n][c]
      BY <1>1, <2>3
    <3>2. js[b] = job
      BY <1>1, <2>3
    <3>3. \A i \in 1..Len(Tail(todo[n])) :
            Tail(todo[n])[i] \in Batch /\ Tail(todo[n])[i] # b
      <4>1. /\ Len(Tail(todo[n])) = Len(todo[n]) - 1
            /\ \A i \in 1..Len(Tail(todo[n])) :
                 Tail(todo[n])[i] = todo[n][i + 1]
        BY <1>1, <1>3, HeadTailProperties, Zenon
      <4>2. \A i \in 1..Len(Tail(todo[n])) :
              i + 1 \in 1..Len(todo[n]) /\ i + 1 # 1 /\ 1 \in 1..Len(todo[n])
        BY <1>10, <4>1
      <4>3. \A i \in 1..Len(Tail(todo[n])) : todo[n][i + 1] # todo[n][1]
        BY <1>1, <4>2, Zenon DEF NodeSound
      <4> QED
        BY <1>10, <1>12, <4>1, <4>3, ElementOfSeq, Zenon
    <3>4. \A i \in 1..Len(queue[n]) : queue[n][i] \in Batch /\ queue[n][i] # b
      BY <1>1, <1>10, ElementOfSeq, Zenon DEF NodeSound
    <3>5. /\ \A i \in 1..Len(Tail(todo[n])) : js[Tail(todo[n])[i]].is = "none"
          /\ \A i, k \in 1..Len(Tail(todo[n])) :
               Tail(todo[n])[i] = Tail(todo[n])[k] => i = k
      BY <2>1, <3>1, <3>3, Zenon DEF NodeSound
    <3>6. \A i \in 1..Len(queue[n]) : js[queue[n][i]].is = "queued"
      BY <2>1, <3>1, <3>4, Zenon DEF NodeSound
    <3>7. \A i, k \in 1..Len(queue[n]) : queue[n][i] = queue[n][k] => i = k
      BY <1>1, Zenon DEF NodeSound
    <3>8. CASE b \in Forced
      BY <3>5, <3>6, <3>7, <3>8, Zenon DEF NodeSound
    <3>9. CASE b \notin Forced
      <4>1. qu = Append(queue[n], b) /\ js[b].is = "queued"
        BY <1>6, <2>3, <3>2, <3>9, Zenon
      <4> HIDE DEF qu, js
      <4>2. /\ Len(queue[n]) \in Nat /\ Len(qu) = Len(queue[n]) + 1
            /\ \A i \in 1..Len(queue[n]) : qu[i] = queue[n][i]
            /\ qu[Len(queue[n]) + 1] = b
        BY <1>1, <4>1, AppendProperties, LenProperties
      <4>3. \A i \in 1..Len(qu) :
              i \in 1..Len(queue[n]) \/ i = Len(queue[n]) + 1
        BY <4>2
      <4>4. \A i \in 1..Len(qu) : js[qu[i]].is = "queued"
        BY <3>6, <4>1, <4>2, <4>3, Zenon
      <4>5. \A i, k \in 1..Len(qu) : qu[i] = qu[k] => i = k
        BY <3>4, <3>7, <4>2, <4>3, Zenon
      <4> QED
        BY <3>5, <4>4, <4>5, Zenon DEF NodeSound
    <3> QED
      BY <3>8, <3>9
  <2> QED
    BY <2>2, <2>3, Zenon
<1> HIDE DEF js, qu, hs
<1> QED
  BY <1>1, <1>3, <1>7, <1>8, <1>9, <1>11, <1>12, <1>13, OneNode, Zenon

\* What a task records when it is over.
LEMMA EndedTask ==
  ASSUME SigningInv, NEW n \in Node, NEW b \in Batch, NEW ok \in BOOLEAN
  PROVE  Ended(n, b, ok) \in Task
<1>1. jobs[n][b].ssid \in Nat
  BY DEF SigningInv, NodeJob
<1> QED
  BY <1>1, Zenon DEF Ended, Task

\* A job that goes on to another stage is the same job.
LEMMA NextStage ==
  ASSUME NEW job \in NodeJob, NEW is \in Stage
  PROVE  /\ [job EXCEPT !.is = is] \in NodeJob
         /\ [job EXCEPT !.is = is].is = is
         /\ [job EXCEPT !.is = is].ssid = job.ssid
         /\ [job EXCEPT !.is = is].age = job.age
  BY Zenon DEF NodeJob

\* poll: only the first of the queue starts, and leaves it; what is dropped was
\* running or done.
LEMMA Polls ==
  ASSUME SigningInv, NEW n \in Node, poll(n)
  PROVE  SigningInv' /\ \A m \in Node : Kept(jobs[m], jobs'[m])
<1> DEFINE gone == Dropped(n)
           start == Started(n)
           js == [b \in Batch |->
                    IF b \in gone THEN NoJob
                    ELSE IF b \in start
                    THEN [jobs[n][b] EXCEPT !.is = "running"]
                    ELSE jobs[n][b]]
           qu == IF start = {} THEN queue[n] ELSE Tail(queue[n])
           en == ending[n] \cup {Ended(n, b, FALSE) :
                                   b \in {x \in Batch : Stalled(n, x)}}
<1>1. /\ jobs[n] \in [Batch -> NodeJob] /\ todo[n] \in Seq(Batch)
      /\ queue[n] \in Seq(Batch) /\ ssid_history[n] \in [Batch -> History]
      /\ ending[n] \in SUBSET Task
      /\ NodeSound(jobs[n], todo[n], queue[n])
      /\ todo = [todo EXCEPT ![n] = todo[n]]
      /\ queue = [queue EXCEPT ![n] = queue[n]]
      /\ ssid_history = [ssid_history EXCEPT ![n] = ssid_history[n]]
  BY PartOf
<1>2. /\ jobs' = [jobs EXCEPT ![n] = js]
      /\ queue' = IF start = {} THEN queue
                  ELSE [queue EXCEPT ![n] = Tail(queue[n])]
      /\ ending' = [ending EXCEPT ![n] = en]
      /\ UNCHANGED <<key, unsigned, todo, ssid_history>>
  BY DEF poll, chainState, blockState
<1>3. \A b \in gone : jobs[n][b].is \in {"running", "done"}
  BY DEF Dropped, Stalled
<1>4. \/ start = {}
      \/ /\ start = {queue[n][1]} /\ queue[n] # << >>
         /\ 1 \in 1..Len(queue[n])
  <2>1. Len(queue[n]) \in Nat /\ (Len(queue[n]) = 0 <=> queue[n] = << >>)
    BY <1>1, LenProperties, EmptySeq
  <2>2. start \subseteq {queue[n][i] : i \in (1..Len(queue[n])) \cap {1}}
    BY DEF Started
  <2>3. start = {} \/ start = {queue[n][i] : i \in (1..Len(queue[n])) \cap {1}}
    BY Zenon DEF Started
  <2> QED
    BY <2>1, <2>3
<1>5. en \in SUBSET Task
  BY <1>1, EndedTask, Zenon
<1> HIDE DEF gone, start
<1>6. /\ NoJob \in NodeJob /\ NoJob.is = "none"
      /\ "running" \in Stage
  BY DEF NoJob, None, NodeJob, Stage
<1>7. ASSUME NEW b \in Batch
      PROVE  /\ js[b] \in NodeJob
             /\ b \in gone => js[b].is = "none"
             /\ b \notin gone => /\ js[b].ssid = jobs[n][b].ssid
                                 /\ js[b].age = jobs[n][b].age
             /\ b \notin gone \cup start => js[b] = jobs[n][b]
  <2>1. jobs[n][b] \in NodeJob
    BY <1>1
  <2> DEFINE run == [jobs[n][b] EXCEPT !.is = "running"]
  <2>2. /\ run \in NodeJob /\ run.ssid = jobs[n][b].ssid
        /\ run.age = jobs[n][b].age
    BY <1>6, <2>1, NextStage
  <2>3. js[b] = IF b \in gone THEN NoJob
                ELSE IF b \in start THEN run ELSE jobs[n][b]
    OBVIOUS
  <2> HIDE DEF run, js
  <2> QED
    BY <1>6, <2>1, <2>2, <2>3
<1>8. js \in [Batch -> NodeJob]
  BY <1>7
<1>9. Kept(jobs[n], js)
  <2>1. \A b \in Batch : jobs[n][b].age \in Nat
    BY <1>1 DEF NodeJob
  <2> HIDE DEF js
  <2> QED
    BY <1>7, <2>1 DEF Kept
<1>10. queue' = [queue EXCEPT ![n] = qu] /\ qu \in Seq(Batch)
  <2>1. start # {} => Tail(queue[n]) \in Seq(Batch)
    BY <1>1, <1>4, HeadTailProperties
  <2>2. queue' = [queue EXCEPT ![n] = qu]
    BY <1>1, <1>2, Zenon
  <2> QED
    BY <1>1, <2>1, <2>2
<1> HIDE DEF js
<1>11. NodeSound(js, todo[n], qu)
  <2>1. \A i \in 1..Len(todo[n]) : todo[n][i] \in Batch
    BY <1>1, ElementOfSeq, Zenon
  <2>2. \A i \in 1..Len(queue[n]) : queue[n][i] \in Batch
    BY <1>1, ElementOfSeq, Zenon
  <2>3. /\ \A i \in 1..Len(todo[n]) : jobs[n][todo[n][i]].is = "none"
        /\ \A i, k \in 1..Len(todo[n]) : todo[n][i] = todo[n][k] => i = k
        /\ \A i \in 1..Len(queue[n]) : jobs[n][queue[n][i]].is = "queued"
        /\ \A i, k \in 1..Len(queue[n]) : queue[n][i] = queue[n][k] => i = k
    BY <1>1, Zenon DEF NodeSound
  <2>4. \A b \in start : jobs[n][b].is = "queued"
    BY <1>4, <2>3, Zenon
  <2>5. ASSUME NEW i \in 1..Len(todo[n])
        PROVE  js[todo[n][i]].is = "none"
    <3>1. todo[n][i] \in Batch /\ jobs[n][todo[n][i]].is = "none"
      BY <2>1, <2>3, Zenon
    <3>2. todo[n][i] \notin gone \cup start
      BY <1>3, <2>4, <3>1, Zenon
    <3> QED
      BY <1>7, <3>1, <3>2, Zenon
  <2>6. CASE start = {}
    <3>1. \A i \in 1..Len(queue[n]) : js[queue[n][i]].is = "queued"
      BY <1>3, <1>7, <2>2, <2>3, <2>6, Zenon
    <3> QED
      BY <2>3, <2>5, <2>6, <3>1, Zenon DEF NodeSound
  <2>7. CASE start # {}
    <3>1. /\ Len(queue[n]) \in Nat /\ qu = Tail(queue[n])
          /\ Len(qu) = Len(queue[n]) - 1
          /\ \A i \in 1..Len(qu) : qu[i] = queue[n][i + 1]
      BY <1>1, <1>4, <2>7, HeadTailProperties, LenProperties, Zenon
    <3> HIDE DEF qu
    <3>2. \A i \in 1..Len(qu) : i + 1 \in 1..Len(queue[n]) /\ i + 1 # 1
      BY <3>1
    <3>3. \A i \in 1..Len(qu) : queue[n][i + 1] # queue[n][1]
      BY <1>4, <2>3, <2>7, <3>2, Zenon
    <3>4. ASSUME NEW i \in 1..Len(qu)
          PROVE  js[qu[i]].is = "queued"
      <4>1. qu[i] \in Batch /\ jobs[n][qu[i]].is = "queued"
        BY <2>2, <2>3, <3>1, <3>2
      <4>2. qu[i] \notin gone
        BY <1>3, <4>1, Zenon
      <4>3. qu[i] \notin start
        BY <1>4, <2>7, <3>1, <3>3, Zenon
      <4> QED
        BY <1>7, <4>1, <4>2, <4>3, Zenon
    <3>5. ASSUME NEW i \in 1..Len(qu), NEW k \in 1..Len(qu), qu[i] = qu[k]
          PROVE  i = k
      <4>1. i + 1 = k + 1
        BY <2>3, <3>1, <3>2, <3>5
      <4> QED
        BY <3>1, <4>1
    <3> QED
      BY <2>3, <2>5, <3>4, <3>5, Zenon DEF NodeSound
  <2> QED
    BY <2>6, <2>7, Zenon
<1> HIDE DEF qu, en
<1>12. todo' = [todo EXCEPT ![n] = todo[n]]
       /\ ssid_history' = [ssid_history EXCEPT ![n] = ssid_history[n]]
  BY <1>1, <1>2, Zenon
<1> QED
  BY <1>1, <1>2, <1>5, <1>8, <1>9, <1>10, <1>11, <1>12, OneNode, Zenon

\* clear_enqueued_tasks empties the queue together with its jobs.
LEMMA Clears ==
  ASSUME SigningInv, NEW n \in Node,
         clear_enqueued_tasks(n)
  PROVE  SigningInv' /\ \A m \in Node : Kept(jobs[m], jobs'[m])
<1> DEFINE js == [b \in Batch |-> IF jobs[n][b].is = "queued"
                                  THEN NoJob ELSE jobs[n][b]]
<1>1. /\ jobs[n] \in [Batch -> NodeJob] /\ todo[n] \in Seq(Batch)
      /\ ssid_history[n] \in [Batch -> History]
      /\ ending[n] \in SUBSET Task
      /\ NodeSound(jobs[n], todo[n], queue[n])
      /\ todo = [todo EXCEPT ![n] = todo[n]]
      /\ ssid_history = [ssid_history EXCEPT ![n] = ssid_history[n]]
      /\ ending = [ending EXCEPT ![n] = ending[n]]
  BY PartOf
<1>2. /\ jobs' = [jobs EXCEPT ![n] = js]
      /\ queue' = [queue EXCEPT ![n] = << >>]
      /\ UNCHANGED <<key, unsigned, todo, ssid_history, ending>>
  BY DEF clear_enqueued_tasks, chainState, blockState
<1>3. NoJob \in NodeJob /\ NoJob.is = "none"
  BY DEF NoJob, None, NodeJob, Stage
<1>4. js \in [Batch -> NodeJob]
  BY <1>1, <1>3
<1>5. \A b \in Batch : js[b] = jobs[n][b] \/ js[b].is = "none"
  BY <1>3
<1>6. \A b \in Batch : jobs[n][b].is = "none" => js[b].is = "none"
  OBVIOUS
<1>7. \A b \in Batch : jobs[n][b].age \in Nat
  BY <1>1 DEF NodeJob
<1> HIDE DEF js
<1>8. Kept(jobs[n], js)
  BY <1>5, <1>7 DEF Kept
<1>9. NodeSound(js, todo[n], << >>)
  <2>1. \A i \in 1..Len(todo[n]) : todo[n][i] \in Batch
    BY <1>1, ElementOfSeq, Zenon
  <2> QED
    BY <1>1, <1>6, <2>1 DEF NodeSound
<1>10. << >> \in Seq(Batch)
  OBVIOUS
<1> QED
  BY <1>1, <1>2, <1>4, <1>8, <1>9, <1>10, OneNode, Zenon

\* A job that was running is done; jobs that wait, or are not there, are as before.
LEMMA DoneAt ==
  ASSUME SigningInv, NEW n \in Node, NEW b \in Batch,
         jobs[n][b].is = "running"
  PROVE  LET js == [jobs[n] EXCEPT ![b].is = "done"]
         IN  /\ js \in [Batch -> NodeJob]
             /\ Kept(jobs[n], js)
             /\ NodeSound(js, todo[n], queue[n])
<1> DEFINE done == [jobs[n][b] EXCEPT !.is = "done"]
           js == [jobs[n] EXCEPT ![b] = done]
<1>1. /\ jobs[n] \in [Batch -> NodeJob] /\ todo[n] \in Seq(Batch)
      /\ queue[n] \in Seq(Batch) /\ NodeSound(jobs[n], todo[n], queue[n])
  BY PartOf
<1>2. /\ done \in NodeJob /\ done.ssid = jobs[n][b].ssid
      /\ done.age = jobs[n][b].age
  BY <1>1, NextStage, Zenon DEF Stage
<1> HIDE DEF done
<1>3. /\ js \in [Batch -> NodeJob] /\ js[b] = done
      /\ \A c \in Batch : c # b => js[c] = jobs[n][c]
  BY <1>1, <1>2
<1> HIDE DEF js
<1>4. \A c \in Batch : jobs[n][c].age \in Nat
  BY <1>1 DEF NodeJob
<1>5. Kept(jobs[n], js)
  BY <1>2, <1>3, <1>4 DEF Kept
<1>6. \A c \in Batch : jobs[n][c].is \in {"none", "queued"}
                         => js[c].is = jobs[n][c].is
  BY <1>3
<1>7. NodeSound(js, todo[n], queue[n])
  BY <1>1, <1>3, <1>6, SoundStill, Zenon
<1> QED
  BY <1>3, <1>5, <1>7, Zenon DEF js, done

\* A protocol that fails.
LEMMA Fails ==
  ASSUME SigningInv, NEW n \in Node, NEW b \in Batch,
         Fail(n, b)
  PROVE  SigningInv' /\ \A m \in Node : Kept(jobs[m], jobs'[m])
<1> DEFINE js == [jobs[n] EXCEPT ![b].is = "done"]
           en == ending[n] \cup {Ended(n, b, FALSE)}
<1>1. /\ todo[n] \in Seq(Batch) /\ queue[n] \in Seq(Batch)
      /\ ssid_history[n] \in [Batch -> History]
      /\ ending[n] \in SUBSET Task
      /\ todo = [todo EXCEPT ![n] = todo[n]]
      /\ queue = [queue EXCEPT ![n] = queue[n]]
      /\ ssid_history = [ssid_history EXCEPT ![n] = ssid_history[n]]
  BY PartOf
<1>2. /\ jobs[n][b].is = "running"
      /\ jobs' = [jobs EXCEPT ![n] = js]
      /\ ending' = [ending EXCEPT ![n] = en]
      /\ UNCHANGED <<key, unsigned, todo, queue, ssid_history>>
  BY DEF Fail, chainState, blockState
<1>3. /\ js \in [Batch -> NodeJob] /\ Kept(jobs[n], js)
      /\ NodeSound(js, todo[n], queue[n])
  BY <1>2, DoneAt
<1>4. en \in SUBSET Task
  BY <1>1, EndedTask, Zenon
<1> HIDE DEF js, en
<1> QED
  BY <1>1, <1>2, <1>3, <1>4, OneNode, Zenon

\* update_local_signing_set_state: the history is that of a fresh batch, or has
\* one more set that was attempted.
LEMMA Records ==
  ASSUME SigningInv, NEW n \in Node,
         NEW e \in ending[n], update_local_signing_set_state(n, e)
  PROVE  SigningInv' /\ \A m \in Node : Kept(jobs[m], jobs'[m])
<1> DEFINE old == ssid_history[n][e.batch]
           more == [old EXCEPT !.attempted = old.attempted \cup {e.ssid}]
           h == IF e.ok THEN NoHistory ELSE more
           hs == [ssid_history[n] EXCEPT ![e.batch] = h]
           en == ending[n] \ {e}
<1>1. /\ jobs[n] \in [Batch -> NodeJob] /\ todo[n] \in Seq(Batch)
      /\ queue[n] \in Seq(Batch) /\ ssid_history[n] \in [Batch -> History]
      /\ ending[n] \in SUBSET Task
      /\ NodeSound(jobs[n], todo[n], queue[n])
      /\ jobs = [jobs EXCEPT ![n] = jobs[n]]
      /\ todo = [todo EXCEPT ![n] = todo[n]]
      /\ queue = [queue EXCEPT ![n] = queue[n]]
      /\ ssid_history \in [Node -> [Batch -> History]]
  BY PartOf DEF SigningInv
<1>2. e.batch \in Batch /\ e.ssid \in Nat /\ old \in History
  BY <1>1, Zenon DEF Task
<1>3. /\ ssid_history' =
           IF e.ok
           THEN [ssid_history EXCEPT ![n][e.batch] = NoHistory]
           ELSE [ssid_history EXCEPT ![n][e.batch].attempted =
                   ssid_history[n][e.batch].attempted \cup {e.ssid}]
      /\ ending' = [ending EXCEPT ![n] = en]
      /\ UNCHANGED <<key, unsigned, jobs, todo, queue>>
  BY DEF update_local_signing_set_state, chainState,
         blockState
<1>4. more \in History /\ NoHistory \in History
  <2>1. old.attempted \in SUBSET Nat /\ IsFiniteSet(old.attempted)
    BY <1>2, Zenon DEF History
  <2> DEFINE S == old.attempted \cup {e.ssid}
  <2>2. S \in SUBSET Nat /\ IsFiniteSet(S)
    BY <1>2, <2>1, FS_AddElement, Zenon
  <2>3. S \in {T \in SUBSET Nat : IsFiniteSet(T)}
    BY <2>2
  <2> HIDE DEF S, old
  <2>4. [old EXCEPT !.attempted = S] \in History
    BY <1>2, <2>3, Zenon DEF History
  <2>5. NoHistory \in History
    BY SigningAssumption, FS_EmptySet, Zenon DEF NoHistory, None, History
  <2> QED
    BY <2>4, <2>5 DEF S
<1>5. ssid_history' = [ssid_history EXCEPT ![n] = hs]
  BY <1>3, Zenon
<1>6. hs \in [Batch -> History] /\ en \in SUBSET Task
  <2>1. h \in History
    BY <1>4, Zenon
  <2> HIDE DEF h
  <2> QED
    BY <1>1, <1>2, <2>1, Zenon
<1>7. Kept(jobs[n], jobs[n])
  BY <1>1, KeptSame, Zenon
<1>8. /\ UNCHANGED <<key, unsigned>> /\ jobs' = jobs /\ todo' = todo
      /\ queue' = queue /\ ending' = [ending EXCEPT ![n] = en]
  BY <1>3, Zenon
<1> HIDE DEF hs, en, h, more, old
<1> QED
  BY <1>1, <1>5, <1>6, <1>7, <1>8, OneNode, Zenon

\* A step of several nodes that leaves what they have to check and have queued
\* alone.
LEMMA ManyNodes ==
  ASSUME SigningInv, key' \in Key, unsigned' \subseteq Batch,
         jobs' \in [Node -> [Batch -> NodeJob]],
         ssid_history' \in [Node -> [Batch -> History]],
         ending' \in [Node -> SUBSET Task],
         UNCHANGED <<todo, queue>>,
         \A m \in Node : /\ NodeSound(jobs'[m], todo[m], queue[m])
                         /\ Kept(jobs[m], jobs'[m])
  PROVE  SigningInv' /\ \A m \in Node : Kept(jobs[m], jobs'[m])
  BY Zenon DEF SigningInv

\* The members of a set sign.
LEMMA Signs ==
  ASSUME SigningInv, NEW n \in Node, NEW b \in Batch,
         SomeSign(n, b)
  PROVE  SigningInv' /\ \A m \in Node : Kept(jobs[m], jobs'[m])
<1> DEFINE done(m) == [jobs[m] EXCEPT ![b].is = "done"]
           more(m) == ending[m] \cup {Ended(m, b, TRUE)}
<1>1. PICK winners \in SUBSET Members(jobs[n][b]) :
        Sign(n, b, winners)
  BY Zenon DEF SomeSign
<1>2. \A m \in winners : jobs[m][b].is = "running"
  BY <1>1, Zenon DEF SomeSign, Ready
<1>3. /\ jobs' = [m \in Node |-> IF m \in winners THEN done(m)
                                 ELSE jobs[m]]
      /\ ending' = [m \in Node |-> IF m \in winners THEN more(m)
                                   ELSE ending[m]]
      /\ UNCHANGED <<key, unsigned, todo, queue, ssid_history>>
  BY <1>1, Zenon DEF Sign, blockState
<1>4. ASSUME NEW m \in Node
      PROVE  /\ jobs'[m] \in [Batch -> NodeJob]
             /\ ending'[m] \in SUBSET Task
             /\ NodeSound(jobs'[m], todo[m], queue[m])
             /\ Kept(jobs[m], jobs'[m])
  <2>1. CASE m \in winners
    <3>1. jobs'[m] = done(m) /\ ending'[m] = more(m)
      BY <1>3, <2>1
    <3>2. /\ done(m) \in [Batch -> NodeJob] /\ Kept(jobs[m], done(m))
          /\ NodeSound(done(m), todo[m], queue[m])
      BY <1>2, <2>1, DoneAt
    <3>3. more(m) \in SUBSET Task
      <4>1. ending[m] \in SUBSET Task
        BY PartOf
      <4>2. Ended(m, b, TRUE) \in Task
        BY EndedTask, Zenon
      <4> QED
        BY <4>1, <4>2, Zenon
    <3> QED
      BY <3>1, <3>2, <3>3, Zenon
  <2>2. CASE m \notin winners
    <3>1. jobs'[m] = jobs[m] /\ ending'[m] = ending[m]
      BY <1>3, <2>2
    <3> QED
      BY <3>1, PartOf, KeptSame
  <2> QED
    BY <2>1, <2>2, Zenon
<1> HIDE DEF done, more
<1>5. /\ jobs' \in [Node -> [Batch -> NodeJob]]
      /\ ending' \in [Node -> SUBSET Task]
  <2>1. /\ jobs' = [m \in Node |-> jobs'[m]]
        /\ ending' = [m \in Node |-> ending'[m]]
    BY <1>3
  <2> QED
    BY <1>4, <2>1
<1>6. /\ ssid_history' \in [Node -> [Batch -> History]]
      /\ key' \in Key /\ unsigned' \subseteq Batch
  BY <1>3, Zenon DEF SigningInv
<1> QED
  BY <1>3, <1>4, <1>5, <1>6, ManyNodes, Zenon

\* A block makes jobs and histories older.
LEMMA Ages ==
  ASSUME SigningInv, NEW k \in Key,
         NEW accepted \in SUBSET Batch, NewBlock(k, accepted)
  PROVE  SigningInv' /\ \A m \in Node : Kept(jobs[m], jobs'[m])
<1> DEFINE job(m, b) == jobs[m][b]
           aged(m, b) == [job(m, b) EXCEPT !.age = Older(@)]
           hist(m, b) == ssid_history[m][b]
           later(m, b) == [hist(m, b) EXCEPT !.since = Older(@)]
<1>1. /\ jobs' = [m \in Node |-> [b \in Batch |->
                    IF job(m, b) = NoJob THEN NoJob
                    ELSE aged(m, b)]]
      /\ ssid_history' = [m \in Node |-> [b \in Batch |-> later(m, b)]]
      /\ key' = k /\ unsigned' = unsigned \ accepted
      /\ UNCHANGED <<todo, queue, ending>>
  BY DEF NewBlock
<1>2. \A x \in Nat : Older(x) \in Nat /\ Older(x) >= x
  BY DEF Older
<1>3. ASSUME NEW m \in Node, NEW b \in Batch
      PROVE  /\ jobs'[m][b] \in NodeJob
             /\ jobs'[m][b].is = jobs[m][b].is
             /\ jobs'[m][b].ssid = jobs[m][b].ssid
             /\ jobs'[m][b].age >= jobs[m][b].age
  <2>1. job(m, b) \in NodeJob
    BY PartOf, Zenon
  <2>2. job(m, b).age \in Nat
    BY <2>1, Zenon DEF NodeJob
  <2>3. CASE job(m, b) = NoJob
    <3>1. jobs'[m][b] = job(m, b)
      BY <1>1, <2>3, Zenon
    <3> QED
      BY <2>1, <2>2, <3>1
  <2>4. CASE job(m, b) # NoJob
    <3> DEFINE x == Older(job(m, b).age)
    <3>1. jobs'[m][b] = [job(m, b) EXCEPT !.age = x]
      BY <1>1, <2>4, Zenon
    <3>2. x \in Nat /\ x >= job(m, b).age
      BY <1>2, <2>2, Zenon
    <3> HIDE DEF x, job
    <3>3. [job(m, b) EXCEPT !.age = x] \in NodeJob
      BY <2>1, <3>2, Zenon DEF NodeJob
    <3>4. /\ [job(m, b) EXCEPT !.age = x].is = job(m, b).is
          /\ [job(m, b) EXCEPT !.age = x].ssid = job(m, b).ssid
          /\ [job(m, b) EXCEPT !.age = x].age = x
      BY <2>1 DEF NodeJob
    <3> QED
      BY <3>1, <3>2, <3>3, <3>4, Zenon DEF job
  <2> QED
    BY <2>3, <2>4, Zenon
<1>4. ASSUME NEW m \in Node, NEW b \in Batch
      PROVE  ssid_history'[m][b] \in History
  <2>1. hist(m, b) \in History
    BY PartOf, Zenon
  <2>2. hist(m, b).since \in Nat
    BY <2>1, Zenon DEF History
  <2> DEFINE x == Older(hist(m, b).since)
  <2>3. ssid_history'[m][b] = [hist(m, b) EXCEPT !.since = x]
    BY <1>1, Zenon
  <2>4. x \in Nat
    BY <1>2, <2>2, Zenon
  <2> HIDE DEF x, hist
  <2>5. [hist(m, b) EXCEPT !.since = x] \in History
    BY <2>1, <2>4, Zenon DEF History
  <2> QED
    BY <2>3, <2>5, Zenon
<1>5. /\ jobs' \in [Node -> [Batch -> NodeJob]]
      /\ ssid_history' \in [Node -> [Batch -> History]]
  <2>1. /\ jobs' = [m \in Node |-> [b \in Batch |-> jobs'[m][b]]]
        /\ ssid_history' =
             [m \in Node |-> [b \in Batch |-> ssid_history'[m][b]]]
    BY <1>1, Zenon
  <2> HIDE DEF job, aged, hist, later
  <2> QED
    BY <1>3, <1>4, <2>1, Zenon
<1> HIDE DEF job, aged, hist, later
<1>6. ASSUME NEW m \in Node
      PROVE  /\ NodeSound(jobs'[m], todo[m], queue[m])
             /\ Kept(jobs[m], jobs'[m])
  <2>1. Kept(jobs[m], jobs'[m])
    BY <1>3, Zenon DEF Kept
  <2>2. jobs'[m] \in [Batch -> NodeJob]
    BY <1>5, Zenon
  <2>3. /\ jobs[m] \in [Batch -> NodeJob] /\ todo[m] \in Seq(Batch)
        /\ queue[m] \in Seq(Batch)
        /\ NodeSound(jobs[m], todo[m], queue[m])
    BY PartOf, Zenon
  <2>4. \A b \in Batch : jobs'[m][b].is = jobs[m][b].is
    BY <1>3, Zenon
  <2>5. NodeSound(jobs'[m], todo[m], queue[m])
    BY <2>2, <2>3, <2>4, SoundStill, Zenon
  <2> QED
    BY <2>1, <2>5, Zenon
<1>7. /\ key' \in Key /\ unsigned' \subseteq Batch
      /\ ending' \in [Node -> SUBSET Task] /\ UNCHANGED <<todo, queue>>
  BY <1>1 DEF SigningInv
<1> QED
  BY <1>5, <1>6, <1>7, ManyNodes, Zenon

\* Every step of the signing managers.
LEMMA SigningStep ==
  ASSUME SigningInv, [Next]_vars
  PROVE  SigningInv' /\ \A m \in Node : Kept(jobs[m], jobs'[m])
<1>1. CASE \E k \in Key, accepted \in SUBSET Batch :
             NewBlock(k, accepted)
  BY <1>1, Ages, Zenon
<1>2. ASSUME NEW n \in Live,
             \/ SkipBlock(n) \/ Restart(n)
             \/ on_block_finalized(n)
             \/ Full(n) \/ AlreadyWaiting(n)
             \/ \E b \in Batch : TryNextSet(n, b) \/ Panic(n, b)
             \/ poll(n) \/ clear_enqueued_tasks(n)
             \/ \E b \in Batch : SomeSign(n, b) \/ Fail(n, b)
             \/ \E e \in ending[n] :
                  update_local_signing_set_state(n, e)
      PROVE  SigningInv' /\ \A m \in Node : Kept(jobs[m], jobs'[m])
  <2>0. n \in Node
    BY Zenon DEF Live
  <2>1. CASE SkipBlock(n)
    BY <2>1, SigningQuiet, Zenon DEF SkipBlock, chainState
  <2>2. CASE Restart(n)
    BY <2>0, <2>2, Stops, Zenon DEF Restart
  <2>3. CASE \/ on_block_finalized(n) \/ Full(n)
             \/ AlreadyWaiting(n)
    BY <2>0, <2>3, Finalized, Zenon
  <2>4. CASE \E b \in Batch : TryNextSet(n, b)
    BY <2>0, <2>4, Tries, Zenon
  <2>5. CASE \E b \in Batch : Panic(n, b)
    BY <2>0, <2>5, Stops, Zenon DEF Panic
  <2>6. CASE poll(n)
    BY <2>0, <2>6, Polls, Zenon
  <2>7. CASE clear_enqueued_tasks(n)
    BY <2>0, <2>7, Clears, Zenon
  <2>8. CASE \E b \in Batch : SomeSign(n, b)
    BY <2>0, <2>8, Signs, Zenon
  <2>9. CASE \E b \in Batch : Fail(n, b)
    BY <2>0, <2>9, Fails, Zenon
  <2>10. CASE \E e \in ending[n] : update_local_signing_set_state(n, e)
    BY <2>0, <2>10, Records, Zenon
  <2> QED
    BY <1>2, <2>1, <2>2, <2>3, <2>4, <2>5, <2>6, <2>7, <2>8, <2>9, <2>10
<1>3. CASE UNCHANGED vars
  BY <1>3, SigningQuiet, Zenon DEF vars, chainState,
                            blockState
<1> QED
  BY <1>1, <1>2, <1>3 DEF Next

\* The invariant of the signing managers holds in every state: what a node has
\* still to check has no job.
THEOREM SigningInvariance ==
    Spec => []SigningInv
<1>1. Init => SigningInv
  <2> SUFFICES ASSUME Init
               PROVE  SigningInv
    OBVIOUS
  <2>1. NoJob \in NodeJob
    BY Zenon DEF NoJob, None, NodeJob, Stage
  <2>2. NoHistory \in History
    BY SigningAssumption, FS_EmptySet, Zenon DEF NoHistory, None, History
  <2>3. key \in Key /\ unsigned \subseteq Batch
    BY SigningAssumption, Zenon DEF Init
  <2>4. /\ jobs = [n \in Node |-> [b \in Batch |-> NoJob]]
        /\ ssid_history = [n \in Node |-> [b \in Batch |-> NoHistory]]
        /\ todo = [n \in Node |-> << >>] /\ queue = [n \in Node |-> << >>]
        /\ ending = [n \in Node |-> {}]
    BY Zenon DEF Init
  <2>5. \A n \in Node : NodeSound(jobs[n], todo[n], queue[n])
    BY <2>4 DEF NodeSound
  <2>6. /\ jobs \in [Node -> [Batch -> NodeJob]]
        /\ ssid_history \in [Node -> [Batch -> History]]
    BY <2>1, <2>2, <2>4, Zenon
  <2>7. /\ todo \in [Node -> Seq(Batch)] /\ queue \in [Node -> Seq(Batch)]
        /\ ending \in [Node -> SUBSET Task]
    BY <2>4
  <2> QED
    BY <2>3, <2>5, <2>6, <2>7, Zenon DEF SigningInv
<1>2. SigningInv /\ [Next]_vars => SigningInv'
  BY SigningStep
<1> QED
  BY <1>1, <1>2, PTL DEF Spec

\* A node has one job for a batch at a time, for any sets, timeout, tolerance
\* and size of the queue: get_unsigned_proposals leaves out what has a job, and
\* no job is added for a batch between that and its check.
THEOREM OneJobPerBatch ==
    Spec => OneJob
<1>1. SigningInv /\ [Next]_vars
        => [\A n \in Node, b \in Batch :
              /\ jobs[n][b].is # "none" /\ jobs'[n][b].is # "none"
              => /\ jobs'[n][b].ssid = jobs[n][b].ssid
                 /\ jobs'[n][b].age >= jobs[n][b].age]_vars
  BY SigningStep DEF Kept
<1> QED
  BY <1>1, SigningInvariance, PTL DEF Spec, OneJob

\* The assertion of setup_signing takes a node down only over sets that it kept
\* from an earlier session: those generated in a session have the size that its
\* threshold asks for, and the attempt after any history picks one of them.
THEOREM OnlyKeptPanic ==
    Spec => OnlyKeptSetsPanic
<1>1. ASSUME SigningInv, [Next]_vars, NEW n \in down' \ down
      PROVE  ssid_history[n][Head(todo[n])].sets \notin {None, key}
  <2>1. PICK m \in Live, b \in Batch : Panic(m, b)
    BY <1>1, Zenon DEF Next, vars, NewBlock, SkipBlock,
                Restart, on_block_finalized, Full,
                AlreadyWaiting, Continue, TryNextSet,
                poll, clear_enqueued_tasks, SomeSign,
                Sign, Fail,
                update_local_signing_set_state, blockState
  <2> DEFINE h == ssid_history[m][b]
             a == NextAttempt(h)
  <2>2. /\ n = m /\ m \in Node /\ b = Head(todo[m])
        /\ InSet(m, a) /\ ~Sized(a)
    BY <2>1 DEF Panic, MustTry, Live
  <2>3. h \in History /\ key \in Key
    BY <1>1, <2>2, PartOf DEF SigningInv
  <2>4. SetsOf(a.sets) # << >>
    BY <2>2 DEF InSet
  <2> HIDE DEF h
  <2>5. h.sets \notin {0, key}
    <3> SUFFICES ASSUME h.sets \in {0, key}
                 PROVE  FALSE
      OBVIOUS
    <3>1. a.sets = key /\ key # 0 /\ a.ssid + 1 \in 1..Len(Sets[key])
      BY <2>3, <2>4, NextOf, Zenon
    <3> HIDE DEF a
    <3> QED
      BY <2>2, <2>3, <3>1, SetsSized
  <2> QED
    BY <2>2, <2>5, Zenon DEF h, None
<1>2. SigningInv /\ [Next]_vars
        => [\A n \in down' \ down :
              ssid_history[n][Head(todo[n])].sets
                \notin {None, key}]_vars
  BY <1>1
<1> QED
  BY <1>2, SigningInvariance, PTL DEF Spec, OnlyKeptSetsPanic
=============================================================================

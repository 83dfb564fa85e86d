-------------------------- MODULE SubmissionsProofs --------------------------
(***************************************************************************)
(* What the offchain workers submit is backed by what nodes have done: a   *)
(* key on chain by the nodes that generated it, a jailing by the nodes     *)
(* that reported the offender.  For any number of nodes, keygens,          *)
(* offenders and errors, and any scene to start from.                      *)
(***************************************************************************)
EXTENDS Submissions, FiniteSetTheorems, SequenceTheorems, TLAPS

\* A signature of a key by a node that has generated it.
Signed == {e \in [key : Key, by : Node] : e.by \in made[e.key]}

\* Everything on the way to the chain consists of such signatures: the
\* broadcasts, what nodes aggregate and store, and what is in the pool.  The key
\* on chain is the one that a threshold of the best authorities has generated.
KeysInv ==
  /\ scene \in Scenes
  /\ keygens \in [Session -> Nat]
  /\ running \in [Node -> Key \cup {None}]
  /\ made \in [Key -> SUBSET Node]
  /\ messages \subseteq {m \in [to : Node, key : Key, by : Node] :
                           m.by \in made[m.key]}
  /\ aggregated_public_keys \in [Node -> [Session -> SUBSET Signed]]
  /\ offchain \in [Node -> [Session -> SUBSET Signed]]
  /\ pool \subseteq [session : Session, keys : SUBSET Signed]
  /\ public_key \in [Session -> Key \cup {None}]
  /\ KeyHasReporters

DKGReport == [type : {"Sign", "Keygen"}, offender : Offender]

\* A report by nodes that have reported that offender.
Backed == {r \in [offender : Offender, reporters : SUBSET Node] :
             r.reporters \subseteq accused[r.offender]}

\* So are all reports on their way to the chain: broadcast, aggregated, stored or
\* in the pool.
ReportsInv ==
  /\ [keys |-> scene, reports |-> reports_scene] \in Courses
  /\ errors \in [Node -> Seq(Reports!DKGError)]
  /\ to_report \in [Node -> Seq(DKGReport)]
  /\ accused \in [Offender -> SUBSET Node]
  /\ reports \subseteq {m \in [to : Node, offender : Offender, by : Node] :
                          m.by \in accused[m.offender]}
  /\ aggregated_misbehaviour_reports \in [Node -> [Offender -> SUBSET Node]]
  /\ \A n \in Node, o \in Offender :
       aggregated_misbehaviour_reports[n][o] \subseteq accused[o]
  /\ reports_offchain \in [Node -> Backed \cup {None}]
  /\ reports_pool \subseteq Backed
  /\ submitted \subseteq Offender
  /\ JailedByReporters
-----------------------------------------------------------------------------
(* Keys *)

keyVars == <<scene, keygens, running, made, messages, aggregated_public_keys,
             offchain, pool, public_key>>

\* What a step does to the keys and what was made of them: reports, refusals and
\* blocks leave them alone.
LEMMA KeyActions ==
  ASSUME [SubmissionsNext]_submissionVars
  PROVE  \/ UNCHANGED keyVars
         \/ \E s \in Session : maybe_start_keygen(s)
         \/ \E n \in Node : gossip_public_key(n)
         \/ \E m \in messages : handle_public_key_broadcast(m)
         \/ \E n \in Node, s \in Session : submit_public_key_onchain(n, s)
         \/ \E tx \in pool : submit_public_key(tx)
<1>1. CASE UNCHANGED submissionVars
  BY <1>1 DEF submissionVars, vars, nodes, storage, chain, keyVars
<1>2. CASE Running
  <2>1. ASSUME NEW n \in Node, Reporting(n) PROVE UNCHANGED keyVars
    BY <2>1 DEF Reporting, vars, nodes, storage, chain, keyVars
  <2>2. CASE ReportIncluded
    BY <2>2 DEF ReportIncluded, nodes, storage, keyVars
  <2>3. CASE Delivered
    BY <2>3 DEF Delivered, vars, nodes, storage, chain, keyVars
  <2>4. CASE NewBlock
    BY <2>4 DEF NewBlock, nodes, keyVars
  <2> QED
    BY <1>2, <2>1, <2>2, <2>3, <2>4, Zenon DEF Running, Keys, Step, KeyIncluded,
       Blocks
<1>3. CASE Mishap
  BY <1>3 DEF Mishap, submission_refused, vars, nodes, storage, chain, keyVars
<1> QED
  BY <1>1, <1>2, <1>3 DEF SubmissionsNext

\* A key that has enough signatures keeps them when nodes go on generating.
LEMMA StillEnough ==
  ASSUME NEW a \in SUBSET Node, NEW b \in SUBSET Node, NEW best, NEW t \in Nat,
         a \subseteq b, Cardinality(a \cap best) >= t
  PROVE  Cardinality(b \cap best) >= t
<1>1. IsFiniteSet(b \cap best)
  BY PublicKeyAssumption, FS_Subset
<1>2. Cardinality(a \cap best) <= Cardinality(b \cap best)
  BY <1>1, FS_Subset
<1>3. IsFiniteSet(a \cap best)
  BY PublicKeyAssumption, FS_Subset
<1>4. Cardinality(a \cap best) \in Nat /\ Cardinality(b \cap best) \in Nat
  BY <1>1, <1>3, FS_CardinalityType
<1> QED
  BY <1>2, <1>4

\* A keygen that is run again is one of those that the scene allows.
LEMMA StartKeygen ==
  ASSUME KeysInv, NEW s \in Session, maybe_start_keygen(s)
  PROVE  KeysInv'
<1> DEFINE k == [session |-> s, keygen |-> keygens[s] + 1]
<1>1. k \in Key
  <2>1. keygens[s] \in Nat /\ keygens[s] < scene.keygens[s]
    BY DEF KeysInv, maybe_start_keygen
  <2>2. MaxKeygens \in Nat /\ scene.keygens[s] \in 0..MaxKeygens
    BY PublicKeyAssumption DEF KeysInv
  <2>3. keygens[s] + 1 \in 1..MaxKeygens
    BY <2>1, <2>2
  <2>4. k \in [session : {s}, keygen : 1..MaxKeygens]
    BY <2>3
  <2> QED
    BY <2>4 DEF Key
<1>2. /\ keygens' = [keygens EXCEPT ![s] = @ + 1]
      /\ running' = [n \in Node |-> IF n \in Best[s] THEN k ELSE running[n]]
      /\ UNCHANGED <<scene, made, messages, aggregated_public_keys, offchain,
                     pool, public_key>>
  BY DEF maybe_start_keygen, storage, chain
<1> HIDE DEF k
<1>3. keygens' \in [Session -> Nat]
  BY <1>2 DEF KeysInv
<1>4. running' \in [Node -> Key \cup {None}]
  BY <1>1, <1>2, Zenon DEF KeysInv
<1>5. Signed' = Signed /\ KeyHasReporters'
  BY <1>2, Zenon DEF Signed, KeysInv, KeyHasReporters, Best, SignatureThreshold
<1> QED
  BY <1>2, <1>3, <1>4, <1>5, Zenon DEF KeysInv

\* A node signs the key that it has generated.
LEMMA GossipKey ==
  ASSUME KeysInv, NEW n \in Node, gossip_public_key(n)
  PROVE  KeysInv'
<1> DEFINE k == running[n]
           e == [key |-> k, by |-> n]
<1>1. k \in Key /\ k.session \in Session
  BY DEF gossip_public_key, KeysInv, Key
<1>2. /\ running' = [running EXCEPT ![n] = None]
      /\ made' = [made EXCEPT ![k] = @ \cup {n}]
      /\ messages' = messages \cup {[to |-> q, key |-> k, by |-> n] :
                                      q \in scene.reached \ {n}}
      /\ aggregated_public_keys' =
           [aggregated_public_keys EXCEPT ![n][k.session] = @ \cup {e}]
      /\ UNCHANGED <<scene, keygens, offchain, pool, public_key>>
  BY DEF gossip_public_key, storage, chain
<1> HIDE DEF k
<1>3. made' \in [Key -> SUBSET Node] /\ \A x \in Key : made[x] \subseteq made'[x]
  BY <1>1, <1>2 DEF KeysInv
<1>4. n \in made'[k]
  BY <1>1, <1>2 DEF KeysInv
<1>5. Signed \subseteq Signed' /\ e \in Signed'
  BY <1>1, <1>3, <1>4 DEF Signed
<1> HIDE DEF e
<1>6. messages' \subseteq {m \in [to : Node, key : Key, by : Node] :
                             m.by \in made'[m.key]}
  <2>1. scene.reached \subseteq Node
    BY PublicKeyAssumption DEF KeysInv
  <2>2. ASSUME NEW m \in messages
        PROVE  m \in [to : Node, key : Key, by : Node] /\ m.by \in made'[m.key]
    BY <1>3 DEF KeysInv
  <2>3. ASSUME NEW q \in scene.reached
        PROVE  LET m == [to |-> q, key |-> k, by |-> n]
               IN  m \in [to : Node, key : Key, by : Node] /\ m.by \in made'[m.key]
    BY <1>1, <1>4, <2>1
  <2> QED
    BY <1>2, <2>2, <2>3
<1>7. aggregated_public_keys' \in [Node -> [Session -> SUBSET Signed']]
  <2>1. aggregated_public_keys \in [Node -> [Session -> SUBSET Signed']]
    BY <1>5 DEF KeysInv
  <2> QED
    BY <1>1, <1>2, <1>5, <2>1
<1>8. offchain' \in [Node -> [Session -> SUBSET Signed']]
  BY <1>2, <1>5 DEF KeysInv
<1>9. pool' \subseteq [session : Session, keys : SUBSET Signed']
  BY <1>2, <1>5 DEF KeysInv
<1>10. running' \in [Node -> Key \cup {None}]
  BY <1>2 DEF KeysInv
<1>11. KeyHasReporters'
  <2> SUFFICES ASSUME NEW s \in Session, public_key[s] # None
               PROVE  Cardinality(made'[public_key[s]] \cap Best[s])
                        >= SignatureThreshold[s]
    BY <1>2, Zenon DEF KeyHasReporters, Best, SignatureThreshold
  <2>1. public_key[s] \in Key /\ SignatureThreshold[s] \in Nat
    BY PublicKeyAssumption DEF KeysInv, SignatureThreshold
  <2>2. Cardinality(made[public_key[s]] \cap Best[s]) >= SignatureThreshold[s]
    BY Zenon DEF KeysInv, KeyHasReporters
  <2>3. /\ made[public_key[s]] \in SUBSET Node
        /\ made'[public_key[s]] \in SUBSET Node
        /\ made[public_key[s]] \subseteq made'[public_key[s]]
    BY <1>3, <2>1 DEF KeysInv
  <2> QED
    BY <2>1, <2>2, <2>3, StillEnough, Zenon
<1> QED
  BY <1>2, <1>3, <1>6, <1>7, <1>8, <1>9, <1>10, <1>11, Zenon DEF KeysInv

\* A broadcast is aggregated or stored as the signature that it is, or dropped.
LEMMA HandleKey ==
  ASSUME KeysInv, NEW m \in messages, handle_public_key_broadcast(m)
  PROVE  KeysInv'
<1> DEFINE s == m.key.session
           keys == aggregated_public_keys[m.to][s] \cup {[key |-> m.key, by |-> m.by]}
<1>1. m.to \in Node /\ m.key \in Key /\ m.by \in Node /\ m.by \in made[m.key]
  BY DEF KeysInv
<1>2. s \in Session
  BY <1>1 DEF Key
<1>3. keys \in SUBSET Signed
  <2>1. [key |-> m.key, by |-> m.by] \in Signed
    BY <1>1 DEF Signed
  <2> QED
    BY <1>1, <1>2, <2>1 DEF KeysInv
<1>4. /\ messages' = messages \ {m}
      /\ \/ UNCHANGED <<aggregated_public_keys, storage>>
         \/ /\ aggregated_public_keys' =
                 [aggregated_public_keys EXCEPT ![m.to][s] = keys]
            /\ UNCHANGED storage
         \/ store_aggregated_public_keys(m.to, s, keys)
      /\ UNCHANGED <<nodes, pool, chain>>
  BY DEF handle_public_key_broadcast
<1> HIDE DEF keys, s
<1>5. UNCHANGED <<scene, keygens, running, made, pool, public_key>>
  BY <1>4 DEF nodes, chain
<1>6. Signed' = Signed /\ KeyHasReporters'
  BY <1>5, Zenon DEF Signed, KeysInv, KeyHasReporters, Best, SignatureThreshold
<1>7. /\ aggregated_public_keys' \in [Node -> [Session -> SUBSET Signed]]
      /\ offchain' \in [Node -> [Session -> SUBSET Signed]]
  <2>1. CASE UNCHANGED <<aggregated_public_keys, storage>>
    BY <2>1 DEF KeysInv, storage
  <2>2. CASE /\ aggregated_public_keys' =
                  [aggregated_public_keys EXCEPT ![m.to][s] = keys]
             /\ UNCHANGED storage
    BY <1>1, <1>2, <1>3, <2>2 DEF KeysInv, storage
  <2>3. CASE store_aggregated_public_keys(m.to, s, keys)
    <3>1. offchain' \in [Node -> [Session -> SUBSET Signed]]
      BY <1>1, <1>2, <1>3, <2>3 DEF KeysInv, store_aggregated_public_keys
    <3>2. DEFINE later == [x \in Session |->
                             IF x > s THEN aggregated_public_keys[m.to][x] ELSE {}]
    <3>3. aggregated_public_keys' = [aggregated_public_keys EXCEPT ![m.to] = later]
      BY <2>3 DEF store_aggregated_public_keys
    <3>4. later \in [Session -> SUBSET Signed]
      BY <1>1 DEF KeysInv
    <3> HIDE DEF later
    <3>5. aggregated_public_keys' \in [Node -> [Session -> SUBSET Signed]]
      BY <3>3, <3>4 DEF KeysInv
    <3> QED
      BY <3>1, <3>5
  <2> QED
    BY <1>4, <2>1, <2>2, <2>3
<1>8. messages' \subseteq {x \in [to : Node, key : Key, by : Node] :
                             x.by \in made'[x.key]}
  BY <1>4, <1>5 DEF KeysInv
<1> QED
  BY <1>5, <1>6, <1>7, <1>8, Zenon DEF KeysInv

\* The offchain worker submits what is stored.
LEMMA SubmitKeys ==
  ASSUME KeysInv, NEW n \in Node, NEW s \in Session,
         submit_public_key_onchain(n, s)
  PROVE  KeysInv'
<1>1. /\ offchain' = [offchain EXCEPT ![n][s] = {}]
      /\ \/ pool' = pool
         \/ pool' = pool \cup {[session |-> s, keys |-> offchain[n][s]]}
      /\ UNCHANGED <<scene, keygens, running, made, messages,
                     aggregated_public_keys, public_key>>
  BY DEF submit_public_key_onchain, nodes, chain
<1>2. Signed' = Signed /\ KeyHasReporters'
  BY <1>1, Zenon DEF Signed, KeysInv, KeyHasReporters, Best, SignatureThreshold
<1>3. offchain' \in [Node -> [Session -> SUBSET Signed]]
  BY <1>1 DEF KeysInv
<1>4. pool' \subseteq [session : Session, keys : SUBSET Signed]
  BY <1>1 DEF KeysInv
<1> QED
  BY <1>1, <1>2, <1>3, <1>4, Zenon DEF KeysInv

\* submit_public_key counts the signatures of one key by best authorities: they
\* have all generated it.
LEMMA AcceptKey ==
  ASSUME KeysInv, NEW tx \in pool, submit_public_key(tx)
  PROVE  KeysInv'
<1>1. /\ pool' = pool \ {tx}
      /\ UNCHANGED <<scene, keygens, running, made, messages,
                     aggregated_public_keys, offchain>>
  BY DEF submit_public_key, nodes, storage
<1>2. Signed' = Signed
  BY <1>1, Zenon DEF Signed
<1>3. CASE public_key' = public_key
  <2>1. KeyHasReporters'
    BY <1>1, <1>3, Zenon DEF KeysInv, KeyHasReporters, Best, SignatureThreshold
  <2>2. pool' \subseteq [session : Session, keys : SUBSET Signed]
    BY <1>1 DEF KeysInv
  <2> QED
    BY <1>1, <1>2, <1>3, <2>1, <2>2, Zenon DEF KeysInv
<1>4. ASSUME NEW k \in Accepted(tx),
             public_key' = [public_key EXCEPT ![tx.session] = k]
      PROVE  KeysInv'
  <2>1. tx.session \in Session /\ tx.keys \subseteq Signed
    BY DEF KeysInv
  <2>2. /\ \A e \in tx.keys : e.by \in Best[tx.session]
        /\ k \in {e.key : e \in tx.keys}
        /\ Cardinality(ReportersOf(tx.keys, k)) >= SignatureThreshold[tx.session]
    BY <1>4, Zenon DEF Accepted
  <2>3. k \in Key
    BY <2>1, <2>2 DEF Signed
  <2>4. ReportersOf(tx.keys, k) \subseteq made[k] \cap Best[tx.session]
    BY <2>1, <2>2 DEF ReportersOf, Signed
  <2>5. Cardinality(made[k] \cap Best[tx.session]) >= SignatureThreshold[tx.session]
    <3>1. made[k] \in SUBSET Node /\ ReportersOf(tx.keys, k) \in SUBSET Node
      BY <2>3, <2>4 DEF KeysInv
    <3>2. SignatureThreshold[tx.session] \in Nat
      BY <2>1, PublicKeyAssumption DEF KeysInv, SignatureThreshold
    <3>3. /\ ReportersOf(tx.keys, k) \cap Best[tx.session] = ReportersOf(tx.keys, k)
          /\ ReportersOf(tx.keys, k) \subseteq made[k]
      BY <2>4
    <3> QED
      BY <2>2, <3>1, <3>2, <3>3, StillEnough, Zenon
  <2>6. public_key' \in [Session -> Key \cup {None}]
    BY <1>4, <2>1, <2>3 DEF KeysInv
  <2>7. KeyHasReporters'
    <3> SUFFICES ASSUME NEW s \in Session, public_key'[s] # None
                 PROVE  Cardinality(made[public_key'[s]] \cap Best[s])
                          >= SignatureThreshold[s]
      BY <1>1, Zenon DEF KeyHasReporters, Best, SignatureThreshold
    <3>1. CASE s = tx.session
      BY <1>4, <2>1, <2>5, <3>1, Zenon DEF KeysInv
    <3>2. CASE s # tx.session
      BY <1>4, <2>1, <3>2, Zenon DEF KeysInv, KeyHasReporters
    <3> QED
      BY <3>1, <3>2
  <2>8. pool' \subseteq [session : Session, keys : SUBSET Signed]
    BY <1>1 DEF KeysInv
  <2> QED
    BY <1>1, <1>2, <2>6, <2>7, <2>8, Zenon DEF KeysInv
<1> QED
  BY <1>3, <1>4 DEF submit_public_key, chain

\* KeysInv is an invariant of the submissions.
THEOREM KeysInvariance == SubmissionsSpec => []KeysInv
<1>1. SubmissionsInit => KeysInv
  BY PublicKeyAssumption DEF SubmissionsInit, Init, KeysInv, KeyHasReporters
<1>2. KeysInv /\ [SubmissionsNext]_submissionVars => KeysInv'
  <2> SUFFICES ASSUME KeysInv, [SubmissionsNext]_submissionVars PROVE KeysInv'
    OBVIOUS
  <2>1. CASE UNCHANGED keyVars
    <3>1. UNCHANGED <<scene, keygens, running, made, messages,
                      aggregated_public_keys, offchain, pool, public_key>>
      BY <2>1 DEF keyVars
    <3>2. Signed' = Signed /\ KeyHasReporters'
      BY <3>1, Zenon DEF Signed, KeysInv, KeyHasReporters, Best,
         SignatureThreshold
    <3> QED
      BY <3>1, <3>2, Zenon DEF KeysInv
  <2> QED
    BY <2>1, KeyActions, StartKeygen, GossipKey, HandleKey, SubmitKeys,
       AcceptKey
<1> QED
  BY <1>1, <1>2, PTL DEF SubmissionsSpec

\* A key on chain is one that a threshold of the best authorities of its session
\* has generated, however often the keygen was run, however the signatures were
\* aggregated by the nodes, and whatever the pool refused or dropped.
THEOREM KeyBacked == SubmissionsSpec => []KeyHasReporters
<1>1. KeysInv => KeyHasReporters
  BY DEF KeysInv
<1> QED
  BY <1>1, KeysInvariance, PTL
-----------------------------------------------------------------------------
(* Reports *)

stayVars == <<scene, reports_scene, errors, to_report, accused, reports,
              aggregated_misbehaviour_reports, reports_offchain, reports_pool,
              submitted>>

\* What a step does to the reports: keys, blocks and unjailings leave them alone.
\* The scenes never change.
LEMMA ReportActions ==
  ASSUME [SubmissionsNext]_submissionVars
  PROVE  \/ UNCHANGED stayVars
         \/ /\ \/ \E n \in Node : \/ Reports!handle_dkg_error(n)
                                  \/ Reports!handle_dkg_report(n)
                                  \/ Reports!submit_misbehaviour_reports_onchain(n)
               \/ \E m \in reports : Reports!handle_misbehaviour_report(m)
               \/ \E r \in reports_pool : Reports!submit_misbehaviour_reports(r)
            /\ scene' = scene
<1>1. CASE UNCHANGED submissionVars
  BY <1>1 DEF submissionVars, vars, nodes, reportVars, stayVars
<1>2. CASE Running
  <2>1. ASSUME NEW n \in Node, Keys(n) PROVE UNCHANGED stayVars
    BY <2>1 DEF Keys, Step, gossip_public_key, submit_public_key_onchain, nodes,
       reportVars, stayVars
  <2>2. CASE KeyIncluded
    BY <2>2 DEF KeyIncluded, submit_public_key, nodes, reportVars, stayVars
  <2>3. ASSUME NEW m \in messages, handle_public_key_broadcast(m),
               UNCHANGED reportVars
        PROVE  UNCHANGED stayVars
    BY <2>3 DEF handle_public_key_broadcast, nodes, reportVars, stayVars
  <2>4. CASE Blocks
    BY <2>4 DEF Blocks, NewBlock, maybe_start_keygen, nodes, reportVars,
           stayVars
  <2>5. UNCHANGED vars => scene' = scene
    BY DEF vars, nodes
  <2>6. CASE ReportIncluded
    BY <2>6 DEF ReportIncluded, nodes
  <2>7. CASE Delivered
    BY <2>3, <2>5, <2>7, Zenon DEF Delivered
  <2>8. ASSUME NEW n \in Node, Reporting(n)
        PROVE  /\ \/ Reports!handle_dkg_error(n) \/ Reports!handle_dkg_report(n)
                  \/ Reports!submit_misbehaviour_reports_onchain(n)
               /\ scene' = scene
    BY <2>5, <2>8 DEF Reporting, Reports!Step
  <2> QED
    BY <1>2, <2>1, <2>2, <2>4, <2>6, <2>7, <2>8 DEF Running
<1>3. CASE Mishap
  BY <1>3 DEF Mishap, submission_refused, Reports!unjail, Reports!worker, vars,
     nodes, reportVars, stayVars
<1> QED
  BY <1>1, <1>2, <1>3 DEF SubmissionsNext

\* MisbehaviourReports counts with the same Cardinality.
LEMMA ReportsCardinality == \A s : Reports!Cardinality(s) = Cardinality(s)
  BY Zenon DEF Reports!Cardinality, Cardinality

\* What the scene of the reports is made of.
LEMMA ReportScene ==
  ReportsInv => /\ reports_scene.reached \subseteq Node
                /\ reports_scene.nextThreshold \in Nat
<1> SUFFICES ASSUME ReportsInv
             PROVE  /\ reports_scene.reached \subseteq Node
                    /\ reports_scene.nextThreshold \in Nat
  OBVIOUS
<1> DEFINE course == [keys |-> scene, reports |-> reports_scene]
<1>1. course \in Courses
  BY DEF ReportsInv
<1> HIDE DEF course
<1>2. /\ course.reports.reached \subseteq Node
      /\ course.reports.nextThreshold \in Nat
  BY <1>1, CoursesAssumption
<1> QED
  BY <1>2 DEF course

\* A jailing keeps its reporters, and so does whatever nodes have stored, when a
\* node reports for itself.
LEMMA AccusedGrows ==
  ASSUME ReportsInv, UNCHANGED <<reports_scene, submitted>>,
         accused' \in [Offender -> SUBSET Node],
         \A o \in Offender : accused[o] \subseteq accused'[o]
  PROVE  Backed \subseteq Backed' /\ JailedByReporters'
<1>1. Backed \subseteq Backed'
  BY DEF Backed
<1>2. JailedByReporters'
  <2> DEFINE next == reports_scene.nextAuthorities
             t == reports_scene.nextThreshold
  <2> SUFFICES ASSUME NEW o \in submitted
               PROVE  Cardinality(accused'[o] \cap next) > t
    BY ReportsCardinality DEF JailedByReporters, Reports!JailedByReporters,
       Reports!NextAuthorities, Reports!NextSignatureThreshold
  <2>1. o \in Offender /\ t \in Nat
    BY ReportScene DEF ReportsInv
  <2>2. Cardinality(accused[o] \cap next) > t
    BY ReportsCardinality DEF ReportsInv, JailedByReporters,
       Reports!JailedByReporters, Reports!NextAuthorities,
       Reports!NextSignatureThreshold
  <2>3. accused[o] \in SUBSET Node /\ accused'[o] \in SUBSET Node
    BY <2>1 DEF ReportsInv
  <2>4. Cardinality(accused[o] \cap next) \in Nat /\ Cardinality(accused'[o] \cap next) \in Nat
    <3>1. IsFiniteSet(accused[o] \cap next) /\ IsFiniteSet(accused'[o] \cap next)
      BY <2>3, PublicKeyAssumption, FS_Subset
    <3> QED
      BY <3>1, FS_CardinalityType
  <2>5. t + 1 \in Nat /\ Cardinality(accused[o] \cap next) >= t + 1
    BY <2>1, <2>2, <2>4
  <2> HIDE DEF next, t
  <2>6. Cardinality(accused'[o] \cap next) >= t + 1
    BY <2>1, <2>3, <2>5, StillEnough, Zenon
  <2> QED
    BY <2>1, <2>4, <2>6
<1> QED
  BY <1>1, <1>2

\* An error leads to a report of each offender it names.
LEMMA ReportedType ==
  ASSUME NEW error \in Reports!DKGError
  PROVE  Reports!Reported(error) \in Seq(DKGReport)
<1> DEFINE type == IF error.is = "SignMisbehaviour" THEN "Sign" ELSE "Keygen"
           n == Len(error.bad_actors)
           named == [i \in 1..n |-> [type |-> type,
                                     offender |-> error.bad_actors[i]]]
<1>1. error.bad_actors \in Seq(Offender)
  BY DEF Reports!DKGError
<1>2. n \in Nat /\ DOMAIN error.bad_actors = 1..n
  BY <1>1
<1>3. type \in {"Sign", "Keygen"}
  OBVIOUS
<1>4. ASSUME NEW i \in 1..n PROVE error.bad_actors[i] \in Offender
  BY <1>1, ElementOfSeq
<1>5. Reports!Reported(error) \in {<< >>, named}
  BY <1>2 DEF Reports!Reported
<1> HIDE DEF n, type
<1>6. named \in [1..n -> DKGReport]
  BY <1>3, <1>4 DEF DKGReport
<1>7. named \in Seq(DKGReport)
  BY <1>2, <1>6
<1> HIDE DEF named
<1> QED
  BY <1>5, <1>7, EmptySeq, Zenon

\* The errors of a keygen are turned into reports one after the other.
LEMMA HandleError ==
  ASSUME ReportsInv, NEW n \in Node, Reports!handle_dkg_error(n), scene' = scene
  PROVE  ReportsInv'
<1>1. /\ errors[n] # << >>
      /\ to_report' = [to_report EXCEPT ![n] = Reports!Reported(Head(errors[n]))]
      /\ errors' = [errors EXCEPT ![n] = Tail(@)]
      /\ UNCHANGED <<reports_scene, accused, reports,
                     aggregated_misbehaviour_reports, reports_offchain,
                     reports_pool, submitted>>
  BY DEF Reports!handle_dkg_error, Reports!chain
<1>2. errors[n] \in Seq(Reports!DKGError)
  BY DEF ReportsInv
<1>3. /\ Head(errors[n]) \in Reports!DKGError
      /\ Tail(errors[n]) \in Seq(Reports!DKGError)
  BY <1>1, <1>2, HeadTailProperties
<1>4. Reports!Reported(Head(errors[n])) \in Seq(DKGReport)
  BY <1>3, ReportedType
<1>5. to_report' \in [Node -> Seq(DKGReport)]
  BY <1>1, <1>4 DEF ReportsInv
<1>6. errors' \in [Node -> Seq(Reports!DKGError)]
  BY <1>1, <1>3 DEF ReportsInv
<1>7. Backed' = Backed
  BY <1>1, Zenon DEF Backed
<1>8. JailedByReporters'
  BY <1>1, Zenon DEF ReportsInv, JailedByReporters, Reports!JailedByReporters,
     Reports!NextAuthorities, Reports!NextSignatureThreshold
<1> QED
  BY <1>1, <1>5, <1>6, <1>7, <1>8, Zenon DEF ReportsInv

\* A node that reports an offender has reported it itself, and adds itself to
\* the reporters that it has heard of.
LEMMA HandleReport ==
  ASSUME ReportsInv, NEW n \in Node, Reports!handle_dkg_report(n), scene' = scene
  PROVE  ReportsInv'
<1> DEFINE report == Head(to_report[n])
           o == report.offender
           reporters == aggregated_misbehaviour_reports[n][o] \cup {n}
<1>1. /\ to_report[n] # << >>
      /\ to_report' = [to_report EXCEPT ![n] = Tail(@)]
      /\ \/ Reports!gossip_misbehaviour_report(n, o)
         \/ UNCHANGED <<accused, reports, aggregated_misbehaviour_reports,
                        reports_offchain>>
      /\ UNCHANGED <<reports_scene, errors, reports_pool, submitted>>
  BY DEF Reports!handle_dkg_report, Reports!chain
<1>2. report \in DKGReport /\ Tail(to_report[n]) \in Seq(DKGReport)
  <2>1. to_report[n] \in Seq(DKGReport)
    BY DEF ReportsInv
  <2> QED
    BY <1>1, <2>1, HeadTailProperties
<1>3. o \in Offender
  BY <1>2 DEF DKGReport
<1>4. to_report' \in [Node -> Seq(DKGReport)]
  BY <1>1, <1>2 DEF ReportsInv
<1> HIDE DEF report, o
<1>5. CASE UNCHANGED <<accused, reports, aggregated_misbehaviour_reports,
                       reports_offchain>>
  <2>1. Backed' = Backed
    BY <1>5, Zenon DEF Backed
  <2>2. JailedByReporters'
    BY <1>1, <1>5, Zenon DEF ReportsInv, JailedByReporters,
       Reports!JailedByReporters, Reports!NextAuthorities,
       Reports!NextSignatureThreshold
  <2> QED
    BY <1>1, <1>4, <1>5, <2>1, <2>2, Zenon DEF ReportsInv
<1>6. CASE Reports!gossip_misbehaviour_report(n, o)
  <2>1. /\ accused' = [accused EXCEPT ![o] = @ \cup {n}]
        /\ reports' = reports \cup {[to |-> q, offender |-> o, by |-> n] :
                                      q \in reports_scene.reached \ {n}}
        /\ \/ UNCHANGED <<aggregated_misbehaviour_reports, reports_offchain>>
           \/ /\ \/ reports_offchain' = reports_offchain
                 \/ reports_offchain' = [reports_offchain EXCEPT ![n] =
                      [offender |-> o, reporters |-> reporters]]
              /\ \E kept \in {{}, reporters} :
                   aggregated_misbehaviour_reports' =
                     [aggregated_misbehaviour_reports EXCEPT ![n][o] = kept]
    BY <1>6 DEF Reports!gossip_misbehaviour_report, Reports!Stored,
       Reports!store_aggregated_misbehaviour_reports
  <2>2. /\ accused' \in [Offender -> SUBSET Node]
        /\ \A x \in Offender : accused[x] \subseteq accused'[x]
        /\ n \in accused'[o]
    BY <1>3, <2>1 DEF ReportsInv
  <2>3. Backed \subseteq Backed' /\ JailedByReporters'
    BY <1>1, <2>2, AccusedGrows
  <2>4. reporters \in SUBSET Node /\ reporters \subseteq accused'[o]
    BY <1>3, <2>2 DEF ReportsInv
  <2>5. [offender |-> o, reporters |-> reporters] \in Backed'
    BY <1>3, <2>4 DEF Backed
  <2> HIDE DEF reporters
  <2>6. reports' \subseteq {m \in [to : Node, offender : Offender, by : Node] :
                              m.by \in accused'[m.offender]}
    <3>1. reports_scene.reached \subseteq Node
      BY ReportScene
    <3>2. ASSUME NEW m \in reports
          PROVE  /\ m \in [to : Node, offender : Offender, by : Node]
                 /\ m.by \in accused'[m.offender]
      BY <2>2 DEF ReportsInv
    <3>3. ASSUME NEW q \in reports_scene.reached
          PROVE  LET m == [to |-> q, offender |-> o, by |-> n]
                 IN  /\ m \in [to : Node, offender : Offender, by : Node]
                     /\ m.by \in accused'[m.offender]
      BY <1>3, <2>2, <3>1
    <3> QED
      BY <2>1, <3>2, <3>3
  <2>7. /\ aggregated_misbehaviour_reports' \in [Node -> [Offender -> SUBSET Node]]
        /\ \A q \in Node, x \in Offender :
             aggregated_misbehaviour_reports'[q][x] \subseteq accused'[x]
    <3>1. \A q \in Node, x \in Offender :
            aggregated_misbehaviour_reports[q][x] \subseteq accused'[x]
      BY <2>2 DEF ReportsInv
    <3>2. CASE UNCHANGED aggregated_misbehaviour_reports
      BY <3>1, <3>2 DEF ReportsInv
    <3>3. ASSUME NEW kept \in {{}, reporters},
                 aggregated_misbehaviour_reports' =
                   [aggregated_misbehaviour_reports EXCEPT ![n][o] = kept]
          PROVE  /\ aggregated_misbehaviour_reports' \in
                      [Node -> [Offender -> SUBSET Node]]
                 /\ \A q \in Node, x \in Offender :
                      aggregated_misbehaviour_reports'[q][x] \subseteq accused'[x]
      <4>1. kept \in SUBSET Node /\ kept \subseteq accused'[o]
        BY <2>4, <3>3
      <4>2. aggregated_misbehaviour_reports \in [Node -> [Offender -> SUBSET Node]]
        BY DEF ReportsInv
      <4> QED
        BY <1>3, <3>1, <3>3, <4>1, <4>2
    <3> QED
      BY <2>1, <3>2, <3>3
  <2>8. reports_offchain' \in [Node -> Backed' \cup {None}]
    <3> DEFINE stored == [offender |-> o, reporters |-> reporters]
    <3>1. \/ reports_offchain' = reports_offchain
          \/ reports_offchain' = [reports_offchain EXCEPT ![n] = stored]
      BY <2>1
    <3>2. stored \in Backed'
      BY <2>5
    <3> HIDE DEF stored
    <3>3. reports_offchain \in [Node -> Backed' \cup {None}]
      BY <2>3 DEF ReportsInv
    <3> QED
      BY <3>1, <3>2, <3>3
  <2>9. reports_pool' \subseteq Backed'
    BY <1>1, <2>3 DEF ReportsInv
  <2> QED
    BY <1>1, <1>4, <2>2, <2>3, <2>6, <2>7, <2>8, <2>9, Zenon DEF ReportsInv
<1> QED
  BY <1>1, <1>5, <1>6

\* What a node hears of was reported by the one who says so.
LEMMA HearReport ==
  ASSUME ReportsInv, NEW m \in reports, Reports!handle_misbehaviour_report(m),
         scene' = scene
  PROVE  ReportsInv'
<1> DEFINE reporters == aggregated_misbehaviour_reports[m.to][m.offender]
                          \cup {m.by}
           stored == [offender |-> m.offender, reporters |-> reporters]
<1>1. /\ reports' = reports \ {m}
      /\ \/ aggregated_misbehaviour_reports' = aggregated_misbehaviour_reports
         \/ aggregated_misbehaviour_reports' =
              [aggregated_misbehaviour_reports EXCEPT ![m.to][m.offender] = reporters]
      /\ \/ reports_offchain' = reports_offchain
         \/ reports_offchain' = [reports_offchain EXCEPT ![m.to] = stored]
      /\ UNCHANGED <<reports_scene, errors, to_report, accused, reports_pool,
                     submitted>>
  BY DEF Reports!handle_misbehaviour_report, Reports!Stored, Reports!worker,
     Reports!store_aggregated_misbehaviour_reports, Reports!chain
<1>2. /\ m.to \in Node /\ m.offender \in Offender /\ m.by \in Node
      /\ m.by \in accused[m.offender]
  BY DEF ReportsInv
<1>3. reporters \in SUBSET Node /\ reporters \subseteq accused[m.offender]
  BY <1>2 DEF ReportsInv
<1>4. stored \in Backed
  BY <1>2, <1>3 DEF Backed
<1> HIDE DEF stored, reporters
<1>5. /\ aggregated_misbehaviour_reports' \in [Node -> [Offender -> SUBSET Node]]
      /\ \A q \in Node, x \in Offender :
           aggregated_misbehaviour_reports'[q][x] \subseteq accused'[x]
  <2>1. /\ aggregated_misbehaviour_reports \in [Node -> [Offender -> SUBSET Node]]
        /\ \A q \in Node, x \in Offender :
             aggregated_misbehaviour_reports[q][x] \subseteq accused[x]
    BY DEF ReportsInv
  <2>2. CASE aggregated_misbehaviour_reports' = aggregated_misbehaviour_reports
    BY <1>1, <2>1, <2>2
  <2>3. CASE aggregated_misbehaviour_reports' =
               [aggregated_misbehaviour_reports EXCEPT ![m.to][m.offender] = reporters]
    BY <1>1, <1>2, <1>3, <2>1, <2>3
  <2> QED
    BY <1>1, <2>2, <2>3
<1>6. reports_offchain' \in [Node -> Backed \cup {None}]
  BY <1>1, <1>2, <1>4, Zenon DEF ReportsInv
<1>7. Backed' = Backed
  BY <1>1, Zenon DEF Backed
<1>8. JailedByReporters'
  BY <1>1, Zenon DEF ReportsInv, JailedByReporters, Reports!JailedByReporters,
     Reports!NextAuthorities, Reports!NextSignatureThreshold
<1>9. reports' \subseteq {x \in [to : Node, offender : Offender, by : Node] :
                            x.by \in accused'[x.offender]}
  BY <1>1 DEF ReportsInv
<1> QED
  BY <1>1, <1>5, <1>6, <1>7, <1>8, <1>9, Zenon DEF ReportsInv

\* The offchain worker submits what is stored.
LEMMA SubmitReport ==
  ASSUME ReportsInv, NEW n \in Node,
         Reports!submit_misbehaviour_reports_onchain(n), scene' = scene
  PROVE  ReportsInv'
<1>1. /\ reports_offchain[n] # None
      /\ reports_pool' = reports_pool \cup {reports_offchain[n]}
      /\ reports_offchain' = [reports_offchain EXCEPT ![n] = None]
      /\ UNCHANGED <<reports_scene, errors, to_report, accused, reports,
                     aggregated_misbehaviour_reports, submitted>>
  BY DEF Reports!submit_misbehaviour_reports_onchain, Reports!worker,
     Reports!chain
<1>2. reports_offchain' \in [Node -> Backed \cup {None}]
  BY <1>1 DEF ReportsInv
<1>3. reports_pool' \subseteq Backed
  BY <1>1 DEF ReportsInv
<1>4. Backed' = Backed
  BY <1>1, Zenon DEF Backed
<1>5. JailedByReporters'
  BY <1>1, Zenon DEF ReportsInv, JailedByReporters, Reports!JailedByReporters,
     Reports!NextAuthorities, Reports!NextSignatureThreshold
<1> QED
  BY <1>1, <1>2, <1>3, <1>4, <1>5, Zenon DEF ReportsInv

\* submit_misbehaviour_reports counts distinct next authorities, and the
\* reporters it counts have reported the offender.
LEMMA AcceptReport ==
  ASSUME ReportsInv, NEW r \in reports_pool,
         Reports!submit_misbehaviour_reports(r), scene' = scene
  PROVE  ReportsInv'
<1> DEFINE next == reports_scene.nextAuthorities
           t == reports_scene.nextThreshold
<1>1. /\ reports_pool' = reports_pool \ {r}
      /\ UNCHANGED <<reports_scene, errors, to_report, accused, reports,
                     aggregated_misbehaviour_reports, reports_offchain>>
      /\ \/ submitted' = submitted
         \/ Reports!Accepted(r) /\ submitted' = submitted \cup {r.offender}
  BY DEF Reports!submit_misbehaviour_reports, Reports!worker, Reports!chain
<1>2. r.offender \in Offender /\ r.reporters \subseteq accused[r.offender]
  BY DEF ReportsInv, Backed
<1>3. Reports!Accepted(r) => Cardinality(accused[r.offender] \cap next) > t
  <2> SUFFICES ASSUME Reports!Accepted(r)
               PROVE  Cardinality(accused[r.offender] \cap next) > t
    OBVIOUS
  <2>1. Cardinality(r.reporters \cap next) > t
    BY ReportsCardinality DEF Reports!Accepted,
       Reports!process_misbehaviour_reports, Reports!NextAuthorities,
       Reports!NextSignatureThreshold
  <2>2. t \in Nat
    BY ReportScene
  <2>3. accused[r.offender] \in SUBSET Node
    BY <1>2 DEF ReportsInv
  <2>4. IsFiniteSet(accused[r.offender] \cap next)
    BY <2>3, PublicKeyAssumption, FS_Subset
  <2>5. r.reporters \cap next \in SUBSET (accused[r.offender] \cap next)
    BY <1>2
  <2> HIDE DEF next, t
  <2>6. /\ Cardinality(r.reporters \cap next)
             <= Cardinality(accused[r.offender] \cap next)
        /\ IsFiniteSet(r.reporters \cap next)
    BY <2>4, <2>5, FS_Subset
  <2>7. /\ Cardinality(r.reporters \cap next) \in Nat
        /\ Cardinality(accused[r.offender] \cap next) \in Nat
    BY <2>4, <2>6, FS_CardinalityType
  <2> QED
    BY <2>1, <2>2, <2>6, <2>7
<1>4. submitted' \subseteq Offender
  BY <1>1, <1>2 DEF ReportsInv
<1>5. JailedByReporters'
  <2>1. \A o \in submitted : Cardinality(accused[o] \cap next) > t
    BY ReportsCardinality DEF ReportsInv, JailedByReporters,
       Reports!JailedByReporters, Reports!NextAuthorities,
       Reports!NextSignatureThreshold
  <2>2. \A o \in submitted' : Cardinality(accused[o] \cap next) > t
    BY <1>1, <1>3, <2>1
  <2> QED
    BY <1>1, <2>2, ReportsCardinality DEF JailedByReporters,
       Reports!JailedByReporters, Reports!NextAuthorities,
       Reports!NextSignatureThreshold
<1>6. Backed' = Backed
  BY <1>1, Zenon DEF Backed
<1>7. reports_pool' \subseteq Backed
  BY <1>1 DEF ReportsInv
<1> QED
  BY <1>1, <1>4, <1>5, <1>6, <1>7, Zenon DEF ReportsInv

\* ReportsInv is an invariant of the submissions.
THEOREM ReportsInvariance == SubmissionsSpec => []ReportsInv
<1>1. SubmissionsInit => ReportsInv
  <2> SUFFICES ASSUME SubmissionsInit PROVE ReportsInv
    OBVIOUS
  <2> DEFINE course == [keys |-> scene, reports |-> reports_scene]
  <2>1. course \in Courses
    BY DEF SubmissionsInit
  <2> HIDE DEF course
  <2>2. course.reports.errors \in [Node -> Seq(Reports!DKGError)]
    BY <2>1, CoursesAssumption
  <2>3. errors \in [Node -> Seq(Reports!DKGError)]
    BY <2>2 DEF course, SubmissionsInit, Reports!Init
  <2>4. to_report \in [Node -> Seq(DKGReport)]
    BY EmptySeq DEF SubmissionsInit, Reports!Init
  <2> QED
    BY <2>1, <2>3, <2>4 DEF course, SubmissionsInit, Reports!Init, ReportsInv,
       JailedByReporters, Reports!JailedByReporters
<1>2. ReportsInv /\ [SubmissionsNext]_submissionVars => ReportsInv'
  <2> SUFFICES ASSUME ReportsInv, [SubmissionsNext]_submissionVars
               PROVE  ReportsInv'
    OBVIOUS
  <2>1. CASE UNCHANGED stayVars
    <3>1. UNCHANGED <<scene, reports_scene, errors, to_report, accused, reports,
                      aggregated_misbehaviour_reports, reports_offchain,
                      reports_pool, submitted>>
      BY <2>1 DEF stayVars
    <3>2. Backed' = Backed
      BY <3>1, Zenon DEF Backed
    <3>3. JailedByReporters'
      BY <3>1, Zenon DEF ReportsInv, JailedByReporters,
         Reports!JailedByReporters, Reports!NextAuthorities,
         Reports!NextSignatureThreshold
    <3> QED
      BY <3>1, <3>2, <3>3, Zenon DEF ReportsInv
  <2> QED
    BY <2>1, ReportActions, HandleError, HandleReport, HearReport, SubmitReport,
       AcceptReport
<1> QED
  BY <1>1, <1>2, PTL DEF SubmissionsSpec

\* Nobody's report is accepted, and nobody jailed for it, but by more next
\* authorities than the threshold that have each reported that offender: what
\* the nodes aggregate, overwrite in their storage and submit again adds no
\* reporter.
THEOREM JailingBacked == SubmissionsSpec => []JailedByReporters
<1>1. ReportsInv => JailedByReporters
  BY DEF ReportsInv
<1> QED
  BY <1>1, ReportsInvariance, PTL
=============================================================================

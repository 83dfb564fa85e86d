------------------------ MODULE MisbehaviourReports ------------------------
(***************************************************************************)
(* From the error of a keygen to the jail: a node reports the offenders    *)
(* (dkg-gadget/src/worker.rs), gossips and aggregates the reports          *)
(* (gossip_messages/misbehaviour_report.rs), leaves them in its offchain   *)
(* storage (storage/misbehaviour_reports.rs), and the offchain worker of   *)
(* the metadata pallet submits them.                                       *)
(*                                                                         *)
(* The keygen is the one for the next session.  Submissions composes this  *)
(* module with PublicKeyGossip.                                            *)
(***************************************************************************)
EXTENDS Integers, FiniteSets, Sequences

CONSTANTS
  Node,
  Offender,                \* authorities that an error may name
  ReportScenes,            \* what the behaviours may start from, see scene
  UnsignedInterval,
  MaxUnjails,              \* bound: how often an offender is unjailed
  None

Kind == {"KeygenMisbehaviour", "KeygenTimeout", "SignMisbehaviour", "other"}
DKGError == [is : Kind, bad_actors : Seq(Offender)]

VARIABLES
  scene,                           \* node -> sequence of the errors of its
                                   \* keygen, each with a kind and the bad
                                   \* actors in order; the authorities of the
                                   \* session and of the next one, those who
                                   \* have run the keygen, the nodes that
                                   \* broadcasts reach, and the thresholds
  errors,                          \* node -> errors that are not handled yet
  to_report,                       \* node -> reports of the error in hand
  accused,                         \* offender -> nodes that reported it
  messages,                        \* broadcasts under way
  aggregated_misbehaviour_reports, \* node -> offender -> reporters
  offchain,                        \* node -> report stored, or None
  pool,                            \* submissions that are not in a block
  jailed,                          \* JailedKeygenAuthorities
  submitted,                       \* offenders whose report was accepted
  unjails,
  unsigned_in                      \* blocks until unsigned calls are valid

Authorities == scene.authorities
NextAuthorities == scene.nextAuthorities
Party == scene.party
SignatureThreshold == scene.threshold
NextSignatureThreshold == scene.nextThreshold

worker == <<scene, errors, to_report, accused>>
chain == <<jailed, submitted, unjails, unsigned_in>>
vars == <<worker, messages, aggregated_misbehaviour_reports, offchain, pool,
          chain>>

Init ==
  /\ scene \in ReportScenes
  /\ errors = scene.errors
  /\ to_report = [n \in Node |-> << >>]
  /\ accused = [o \in Offender |-> {}]
  /\ messages = {}
  /\ aggregated_misbehaviour_reports = [n \in Node |-> [o \in Offender |-> {}]]
  /\ offchain = [n \in Node |-> None]
  /\ pool = {}
  /\ jailed = {} /\ submitted = {}
  /\ unjails = 0 /\ unsigned_in = 0
-----------------------------------------------------------------------------
(* The worker *)

\* Which reports does an error lead to?
Reported(error) ==
  IF error.is = "other" THEN << >>
  ELSE [i \in DOMAIN error.bad_actors |->
          [type |-> IF error.is = "SignMisbehaviour" THEN "Sign" ELSE "Keygen",
           offender |-> error.bad_actors[i]]]

\* The offenders are then reported one after the other.
handle_dkg_error(n) ==
  /\ errors[n] # << >> /\ to_report[n] = << >>
  /\ to_report' = [to_report EXCEPT ![n] = Reported(Head(errors[n]))]
  /\ errors' = [errors EXCEPT ![n] = Tail(@)]
  /\ UNCHANGED <<scene, accused, messages, aggregated_misbehaviour_reports, offchain,
                 pool, chain>>

\* The one place for reports in the offchain storage is overwritten.
store_aggregated_misbehaviour_reports(n, o, reporters) ==
  [offchain EXCEPT ![n] = [offender |-> o, reporters |-> reporters]]

\* try_store_offchain: more reporters than the threshold are stored.
Stored(n, o, reporters) ==
  IF Cardinality(reporters) > SignatureThreshold
  THEN store_aggregated_misbehaviour_reports(n, o, reporters)
  ELSE offchain

\* A report of a keygen is gossiped each time, and aggregated once; if it is
\* stored it is no longer kept.
gossip_misbehaviour_report(n, o) ==
  LET reporters == aggregated_misbehaviour_reports[n][o] \cup {n}
      kept == IF Cardinality(reporters) > SignatureThreshold THEN {}
              ELSE reporters
  IN  /\ accused' = [accused EXCEPT ![o] = @ \cup {n}]
      /\ messages' = messages \cup {[to |-> q, offender |-> o, by |-> n] :
                                      q \in scene.reached \ {n}}
      /\ IF n \in aggregated_misbehaviour_reports[n][o]
         THEN UNCHANGED <<aggregated_misbehaviour_reports, offchain>>
         ELSE /\ offchain' = Stored(n, o, reporters)
              /\ aggregated_misbehaviour_reports' =
                   [aggregated_misbehaviour_reports EXCEPT ![n][o] = kept]

\* "We do not gossip signing misbehavior anymore".
handle_dkg_report(n) ==
  LET report == Head(to_report[n])
  IN  /\ to_report[n] # << >>
      /\ to_report' = [to_report EXCEPT ![n] = Tail(@)]
      /\ IF report.type = "Keygen"
         THEN gossip_misbehaviour_report(n, report.offender)
         ELSE UNCHANGED <<accused, messages, aggregated_misbehaviour_reports,
                          offchain>>
      /\ UNCHANGED <<scene, errors, pool, chain>>

\* Those who have run the keygen authenticate against the authorities, others
\* against the next ones.
Authentic(m) ==
  m.by \in IF m.to \in Party THEN Authorities ELSE NextAuthorities

\* Mutant: reports that arrive are not stored.
ReceivedUnstored(m) ==
  LET reporters == aggregated_misbehaviour_reports[m.to][m.offender]
                     \cup {m.by}
  IN  /\ m \in messages
      /\ messages' = messages \ {m}
      /\ aggregated_misbehaviour_reports' =
           [aggregated_misbehaviour_reports EXCEPT
              ![m.to][m.offender] = reporters]
      /\ UNCHANGED <<worker, offchain, pool, chain>>

\* A report arrives; what is stored is kept, and stored again with the next one.
handle_misbehaviour_report(m) ==
  LET reporters == aggregated_misbehaviour_reports[m.to][m.offender]
                     \cup {m.by}
  IN  /\ m \in messages
      /\ messages' = messages \ {m}
      /\ \/ /\ ~Authentic(m)
            /\ UNCHANGED <<aggregated_misbehaviour_reports, offchain>>
         \/ /\ Authentic(m)
            /\ aggregated_misbehaviour_reports' =
                 [aggregated_misbehaviour_reports EXCEPT
                    ![m.to][m.offender] = reporters]
            /\ offchain' = Stored(m.to, m.offender, reporters)
      /\ UNCHANGED <<worker, pool, chain>>
-----------------------------------------------------------------------------
(* The offchain worker and the chain *)

\* A submission that the pool refuses stays where it is and is tried again.
\* MisbehaviourReports, which is to tell what was reported already, is always
\* empty.
submit_misbehaviour_reports_onchain(n) ==
  /\ unsigned_in = 0 /\ offchain[n] # None
  /\ pool' = pool \cup {offchain[n]}
  /\ offchain' = [offchain EXCEPT ![n] = None]
  /\ UNCHANGED <<worker, messages, aggregated_misbehaviour_reports, chain>>

\* The reporters whose signature is of a next authority, each of them once.
process_misbehaviour_reports(report) == report.reporters \cap NextAuthorities

\* Mutant: as many reporters as the threshold are enough.
EnoughReporters(report) ==
  /\ unsigned_in = 0 /\ report.offender \notin jailed
  /\ Cardinality(report.reporters \cap NextAuthorities)
       >= NextSignatureThreshold

\* What submit_misbehaviour_reports asks of a report.
Accepted(report) ==
  /\ unsigned_in = 0
  /\ report.offender \notin jailed
  /\ report.offender \in NextAuthorities
  /\ Cardinality(process_misbehaviour_reports(report)) > NextSignatureThreshold

\* The offender is jailed.  If an authority in reserve takes its place unsigned
\* calls go on being valid, else after UnsignedInterval.
submit_misbehaviour_reports(report) ==
  /\ report \in pool
  /\ pool' = pool \ {report}
  /\ IF Accepted(report)
     THEN /\ jailed' = jailed \cup {report.offender}
          /\ submitted' = submitted \cup {report.offender}
          /\ unsigned_in' \in {0, UnsignedInterval}
          /\ UNCHANGED unjails
     ELSE UNCHANGED chain
  /\ UNCHANGED <<worker, messages, aggregated_misbehaviour_reports, offchain>>

\* unjail after the sentence, or force_unjail_keygen.
unjail(o) ==
  /\ o \in jailed /\ unjails < MaxUnjails
  /\ jailed' = jailed \ {o}
  /\ unjails' = unjails + 1
  /\ UNCHANGED <<worker, messages, aggregated_misbehaviour_reports, offchain,
                 pool, submitted, unsigned_in>>

Step(n) ==
  \/ handle_dkg_error(n) \/ handle_dkg_report(n)
  \/ submit_misbehaviour_reports_onchain(n)
-----------------------------------------------------------------------------
(* Properties *)

\* Nobody is jailed but by more next authorities than the threshold that have
\* themselves reported that offender, whatever the nodes aggregate.
JailedByReporters ==
  \A o \in submitted :
    Cardinality(accused[o] \cap NextAuthorities) > NextSignatureThreshold
=============================================================================

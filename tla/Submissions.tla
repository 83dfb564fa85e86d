---------------------------- MODULE Submissions ----------------------------
(***************************************************************************)
(* What the offchain workers submit, together: the keys of                 *)
(* PublicKeyGossip and the reports of MisbehaviourReports.  Both are       *)
(* unsigned calls of the metadata pallet, and an accepted one makes all of *)
(* them invalid for UnsignedInterval blocks: what is in the pool then is   *)
(* dropped as stale.  A node removes from its storage what it has handed   *)
(* to the pool, so what is dropped is gone; and so is a report that was    *)
(* stored when the report of another offender is.                          *)
(***************************************************************************)
EXTENDS PublicKeyGossip, Sequences

CONSTANTS
  Offender, ReportScenes,
  Courses,     \* what the keys and the reports start from
  MaxUnjails   \* bound: how often an offender is unjailed

VARIABLES
  reports_scene, errors, to_report, accused, reports,
  aggregated_misbehaviour_reports, reports_offchain, reports_pool,
  jailed, submitted, unjails,
  lost         \* the sessions and offenders of what was dropped as stale,
               \* and the offenders of reports that were replaced

Reports == INSTANCE MisbehaviourReports
  WITH scene <- reports_scene, messages <- reports,
       offchain <- reports_offchain, pool <- reports_pool

reportVars == <<reports_scene, errors, to_report, accused, reports,
                aggregated_misbehaviour_reports, reports_offchain, reports_pool,
                jailed, submitted, unjails>>
submissionVars == <<vars, reportVars, lost>>

ASSUME CoursesAssumption ==
  \A course \in Courses :
    /\ course.keys \in Scenes
    /\ course.reports.errors \in [Node -> Seq(Reports!DKGError)]
    /\ course.reports.authorities = course.keys.authorities[0] \cup Offender
    /\ course.reports.nextAuthorities = course.keys.authorities[1] \cup Offender
    /\ course.reports.party = course.keys.best[1]
    /\ course.reports.reached \subseteq Node
    /\ course.reports.threshold \in Nat /\ course.reports.nextThreshold \in Nat

SubmissionsInit ==
  /\ Init /\ Reports!Init
  /\ [keys |-> scene, reports |-> reports_scene] \in Courses
  /\ lost = {}

\* Dropped is what the pool validates again while unsigned calls are invalid.
Dropped(what) ==
  lost' = IF unsigned_in > 0 THEN lost \cup {what} ELSE lost

\* Replaced is a report in the storage that gives way to another offender's.
Replaced ==
  lost' = lost \cup
    {o \in Offender : \E n \in Node :
       /\ reports_offchain[n] # None /\ reports_offchain'[n] # None
       /\ reports_offchain[n].offender = o /\ reports_offchain'[n].offender # o}

Keys(n) == Step(n) /\ UNCHANGED <<reportVars, lost>>

Reporting(n) == Reports!Step(n) /\ Replaced /\ UNCHANGED vars

\* The transaction pool and the network.
KeyIncluded ==
  /\ \E tx \in pool : submit_public_key(tx) /\ Dropped(tx.session)
  /\ UNCHANGED reportVars

ReportIncluded ==
  /\ \E report \in reports_pool :
       Reports!submit_misbehaviour_reports(report) /\ Dropped(report.offender)
  /\ UNCHANGED <<nodes, messages, aggregated_public_keys, storage, pool,
                 public_key>>

Delivered ==
  \/ /\ \E m \in messages : handle_public_key_broadcast(m)
     /\ UNCHANGED <<reportVars, lost>>
  \/ /\ \E m \in reports : Reports!handle_misbehaviour_report(m)
     /\ Replaced /\ UNCHANGED vars

Blocks ==
  /\ NewBlock \/ \E s \in Session : maybe_start_keygen(s)
  /\ UNCHANGED <<reportVars, lost>>

\* What may happen and need not.
Mishap ==
  /\ \/ /\ \E n \in Node, s \in Session : submission_refused(n, s)
        /\ UNCHANGED reportVars
     \/ /\ \E o \in Offender : Reports!unjail(o)
        /\ UNCHANGED vars
  /\ UNCHANGED lost

Running ==
  \/ \E n \in Node : Keys(n) \/ Reporting(n)
  \/ KeyIncluded \/ ReportIncluded
  \/ Delivered
  \/ Blocks

SubmissionsNext == Running \/ Mishap

\* Keygens end, messages arrive, blocks are made and offchain workers run in
\* each of them: while something is left to do, something is done.  All there
\* is to do is bounded, so this is as good as fairness of each task.
SubmissionsSpec ==
  /\ SubmissionsInit /\ [][SubmissionsNext]_submissionVars
  /\ WF_submissionVars(Running)
-----------------------------------------------------------------------------
(* Properties *)

\* If keygens are run once and the pool does not refuse what it is offered, a
\* key that all best authorities have made gets to the chain, as long as more
\* than the threshold of them are authorities already, unless a report was
\* accepted while it was in the pool.
EventuallyOnChain ==
  ~scene.refuses /\ (\A s \in Session : scene.keygens[s] <= 1) =>
    \A s \in Session :
      (\E k \in Key : k.session = s /\ made[k] = Best[s])
        ~> public_key[s] # None \/ s \in lost

\* Nobody is jailed but by more next authorities than the threshold that have
\* themselves reported that offender, whatever the nodes aggregate.
JailedByReporters == Reports!JailedByReporters

\* If the thresholds are equal, an offender that more of the parties than the
\* threshold report is jailed in the end, unless another call was accepted
\* while a report of it was in the pool, or a node replaced it in the storage
\* by the report of another offender: there is no third way to lose a report.
EventuallyJailed ==
  reports_scene.threshold = reports_scene.nextThreshold =>
    \A o \in Offender :
      Cardinality(accused[o] \cap Authorities[0] \cap Authorities[1])
          > reports_scene.nextThreshold
        ~> o \in submitted \cup lost
=============================================================================

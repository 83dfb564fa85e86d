--------------------------- MODULE MCSubmissions ---------------------------
(***************************************************************************)
(* Keys without reports, reports without keys, and both.                   *)
(***************************************************************************)
EXTENDS Submissions, TLC

CONSTANTS n1, n2, n3, o1, o2

KeyScene(authorities, reached, threshold, first, next, refuses) ==
  [authorities |-> authorities, best |-> authorities,
   threshold |-> [s \in Session |-> threshold], reached |-> reached,
   keygens |-> [s \in Session |-> IF s = 0 THEN first ELSE next],
   refuses |-> refuses]

Everybody == [s \in Session |-> {n1, n2, n3}]
Two == [s \in Session |-> {n1, n2}]

\* n3 joins with the next session.
Joins == [s \in Session |-> IF s = 0 THEN {n1, n2} ELSE {n1, n2, n3}]

Timeout(os) == [is |-> "KeygenTimeout", bad_actors |-> os]
Misbehaviour(os) == [is |-> "KeygenMisbehaviour", bad_actors |-> os]
Signing(os) == [is |-> "SignMisbehaviour", bad_actors |-> os]

Report(es, reached, threshold, next) ==
  [errors |-> es, reached |-> reached, threshold |-> threshold, nextThreshold |-> next]

\* All report o1, one of them o2 as well, and one has an error of signing.
Mixed == (n1 :> <<Timeout(<<o1>>)>>)
      @@ (n2 :> <<Misbehaviour(<<o1, o2>>)>>)
      @@ (n3 :> <<Signing(<<o2>>), Timeout(<<o1>>)>>)

\* Two nodes report both offenders.
Crossed == (n1 :> <<Timeout(<<o1, o2>>)>>)
        @@ (n2 :> <<Misbehaviour(<<o1>>), Timeout(<<o2>>)>>)
        @@ (n3 :> <<Signing(<<o1>>)>>)

\* All the nodes in ns report the same offender.
Same(ns) == [n \in Node |-> IF n \in ns THEN <<Timeout(<<o1>>)>> ELSE << >>]

NoKeys == KeyScene(Joins, {n1, n2}, 1, 0, 0, FALSE)
NoReports == Report(Same({}), {}, 1, 1)

Course(k, r) ==
  [keys |-> k,
   reports |-> r @@ [authorities |-> k.authorities[0] \cup Offender,
                     nextAuthorities |-> k.authorities[1] \cup Offender,
                     party |-> k.best[1]]]

MCCourses ==
  {Course(KeyScene(Joins, {n1, n2}, 1, 1, 1, FALSE), NoReports),
   Course(KeyScene(Everybody, {n1}, 2, 2, 0, FALSE), NoReports),
   Course(KeyScene(Two, {n1, n2}, 1, 1, 0, TRUE), NoReports),
   Course(NoKeys, Report(Mixed, Node, 1, 2)),
   Course(NoKeys, Report(Crossed, {n1, n2}, 1, 1)),
   Course(NoKeys, Report(Same(Node), Node, 1, 1)),
   Course(KeyScene(Two, {n1, n2}, 1, 1, 0, FALSE),
          Report(Same({n1, n2}), {n1, n2}, 1, 1))}

MCScenes == {course.keys : course \in MCCourses}
MCReportScenes == {course.reports : course \in MCCourses}
=============================================================================

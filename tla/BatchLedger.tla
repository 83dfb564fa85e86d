---------------------------- MODULE BatchLedger ----------------------------
(***************************************************************************)
(* What the proposal handler promises about batches: they are numbered in  *)
(* the order in which they are made, wait in a queue until they are signed *)
(* or dropped, and what is signed is what was queued, once and for good.   *)
(***************************************************************************)
EXTENDS Integers

VARIABLES
  next,     \* the number of the next batch
  queue,    \* <<chain, number>> -> the proposals of a batch
  signed    \* the same, for the batches that were signed

vars == <<next, queue, signed>>

Init ==
  /\ next = 0
  /\ queue = [k \in {} |-> << >>]
  /\ signed = [k \in {} |-> << >>]

Kept(k) == k \in DOMAIN queue /\ queue'[k] = queue[k]

New(k) == next <= k[2] /\ k[2] < next'

\* Batches are made, with numbers of their own, while others are dropped.
Change ==
  /\ next <= next'
  /\ \A k \in DOMAIN queue' : Kept(k) \/ New(k)
  /\ \A k, l \in DOMAIN queue' : New(k) /\ New(l) /\ k[2] = l[2] => k = l
  /\ UNCHANGED signed

\* One batch is signed; others may be dropped with it.
Sign(k) ==
  /\ k \in DOMAIN queue
  /\ k \notin DOMAIN signed
  /\ signed' = [x \in DOMAIN signed \cup {k} |->
                  IF x = k THEN queue[k] ELSE signed[x]]
  /\ k \notin DOMAIN queue'
  /\ \A x \in DOMAIN queue' : Kept(x)
  /\ UNCHANGED next

Next == Change \/ \E k \in DOMAIN queue : Sign(k)

Spec == Init /\ [][Next]_vars
=============================================================================

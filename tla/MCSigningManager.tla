-------------------------- MODULE MCSigningManager --------------------------
(* Instances of SigningManager for TLC. *)
EXTENDS SigningManager

CONSTANTS n1, n2, n3

\* Two of three nodes sign under the first key, one of two under the second.
MCSets == <<<< {n1, n3}, {n2, n3}, {n1, n2} >>, << {n1}, {n2} >>>>
MCThreshold == <<1, 0>>

\* One node is down while a refresh has to be signed; or one node is left,
\* with two batches, and anything may happen to it but that it skips a block.
MCScenes ==
  {[crashed |-> {n3}, batches |-> {3}, lag |-> 1, calm |-> TRUE],
   [crashed |-> {n2, n3}, batches |-> {1, 2}, lag |-> 0,
    calm |-> FALSE]}
=============================================================================

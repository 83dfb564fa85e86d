---------------------------- MODULE MCDKGWorker ----------------------------
(***************************************************************************)
(* Two authority sets that take turns; one of them is without the node     *)
(* whose worker is modelled.                                               *)
(***************************************************************************)
EXTENDS DKGWorker

CONSTANTS a, b, c

TwoSets == {{a, b}, {b, c}}
=============================================================================

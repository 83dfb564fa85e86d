--------------------------- MODULE MCWorkManager ---------------------------
(* WorkManager for TLC: a few jobs of two tasks and messages for them. *)
EXTENDS WorkManager, TLC

Names == Permutations(Hash) \cup Permutations(Message)
=============================================================================

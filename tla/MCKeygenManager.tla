-------------------------- MODULE MCKeygenManager --------------------------
(* KeygenManager for TLC: two slots of jobs, so that dropped jobs linger. *)
EXTENDS KeygenManager
=============================================================================

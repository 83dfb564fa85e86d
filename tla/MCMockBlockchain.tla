-------------------------- MODULE MCMockBlockchain --------------------------
(***************************************************************************)
(* Three clients: all of them sign (t = 2, as in the stress tests of the   *)
(* repository), or two do.                                                 *)
(***************************************************************************)
EXTENDS MockBlockchain

CONSTANTS c1, c2, c3

MCClient == {c1, c2, c3}

MCSigningSets ==
  [t \in 0 .. 2 |-> CASE t = 0 -> <<{c1}, {c2}>>
                      [] t = 1 -> <<{c1, c2}, {c2, c3}, {c1, c3}>>
                      [] OTHER -> <<Client>>]

Config(t, positive, errors, proposals, calm) ==
  [threshold |-> t, positive_cases |-> positive, error_cases |-> errors,
   unsigned_proposals_per_session |-> proposals, calm |-> calm]

MCConfigs == {Config(2, 2, <<1>>, 1, TRUE), Config(1, 2, << >>, 2, TRUE),
              Config(2, 1, <<2>>, 2, TRUE), Config(1, 2, <<1>>, 0, TRUE),
              Config(0, 3, << >>, 1, FALSE), Config(1, 3, << >>, 1, FALSE)}
=============================================================================

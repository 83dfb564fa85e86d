---------------------------- MODULE MCDKGModules ----------------------------
EXTENDS DKGModules, TLC

CONSTANTS p1, p2

\* The gossip repeats itself to p1, or echoes its own messages to it; p2 would
\* meet the same.
Deliveries(echoes, repeats) ==
  p1 :> (p1 :> echoes @@ p2 :> repeats) @@ p2 :> (p1 :> 1 @@ p2 :> 0)

Gossiping == [keygen |-> {Deliveries(0, 2), Deliveries(1, 1)},
              signing |-> {Deliveries(1, 1)}]

\* FROST: the keygen that WTFrostDKG sets up, where k is n; keygens with four and
\* twelve keys over a gossip that reorders, and then a signing; the tests, with
\* two and with three signers; and a signing with more participants than the
\* threshold it is given.
Frost(n, k, t, signers, threshold, whole, ordered) ==
  [n |-> n, k |-> k, t |-> t, signers |-> signers, threshold |-> threshold,
   protocol |-> whole, ordered |-> ordered]

Runs ==
  { Frost(2, 2, 1, {0, 1}, 2, TRUE, FALSE),
    Frost(2, 4, 1, {0, 1}, 2, TRUE, FALSE),
    Frost(3, 12, 2, {0}, 1, TRUE, FALSE),
    Frost(3, 3, 2, {1, 2}, 2, FALSE, TRUE),
    Frost(3, 3, 2, {0, 1, 2}, 3, FALSE, TRUE),
    Frost(3, 3, 2, {0, 1, 2}, 2, FALSE, TRUE) }
=============================================================================

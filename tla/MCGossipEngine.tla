--------------------------- MODULE MCGossipEngine ---------------------------
(* Instances of GossipEngine for TLC. *)
EXTENDS GossipEngine

CONSTANTS n1, n2, n3, a1, a2, a3

OwnAuthority == (n1 :> a1) @@ (n2 :> a2) @@ (n3 :> a3)

Line == {{n1, n2}, {n2, n3}}

\* From one end of the line to the other.
FromEnd == [m \in SignedMessage |-> n1]
ToEnd == [m \in SignedMessage |-> a3]
=============================================================================

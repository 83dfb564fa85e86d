-------------------------- MODULE MCBridgeRegistry --------------------------
(* Instances of BridgeRegistry for TLC. *)
EXTENDS BridgeRegistry, TLC

CONSTANTS r1, r2, r3, r4, default

MCSymmetry == Permutations({r1, r2, r3, r4})
=============================================================================

--------------------------- MODULE MCDKGMetadata ---------------------------
(* DKGMetadata for TLC: three authorities, of which two keep their place. *)
EXTENDS DKGMetadata, TLC

Course(calls, lastBlock, maxKeygens) ==
  [calls |-> calls, blocks |-> lastBlock, keygens |-> maxKeygens, sets |-> 4]

\* Two rotations while root sets the keygen threshold; one in which root also
\* sets the signature threshold; forced rotations and emergency keygens; reports.
MCCourses ==
  {Course({"set_keygen_threshold"}, 8, 3),
   Course({"set_signature_threshold", "set_keygen_threshold"}, 6, 3),
   Course({"force_change_authorities", "trigger_emergency_keygen"}, 5, 2),
   Course({"keygen_misbehaviour", "sign_misbehaviour", "force_unjail_keygen",
           "force_unjail_signing"}, 5, 2)}

\* Genesis holds every authority, so the authorities that every queued set
\* holds are interchangeable.
Symmetry ==
  Permutations({a \in Authority : \A S \in ValidatorSets : a \in S})
=============================================================================

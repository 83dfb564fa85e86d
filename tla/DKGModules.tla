----------------------------- MODULE DKGModules -----------------------------
(***************************************************************************)
(* The DKGs of a node (dkg-gadget/src/dkg_modules/mod.rs): a request for a *)
(* keygen or a signing goes to the first module on the list that can       *)
(* handle its parameters.  MpEcdsa runs ProtocolRun, WTFrost its own       *)
(* protocols.  All parties of a run ask with parameters of the same kind.  *)
(***************************************************************************)
EXTENDS ProtocolRun

CONSTANTS FrostCourses, None

ASSUME FrostAssumption ==
  \A c \in FrostCourses :
    /\ c.n \in Nat \ {0} /\ c.k \in Nat /\ c.threshold \in Nat
    /\ c.signers \subseteq 0..(c.n - 1)

VARIABLES
  dkgs,    \* the modules that initialize has loaded, in order
  params,  \* the kind of the setup parameters
  frost, dkg, signing, dkg_wire, sign_wire, received, received_shares,
  local_key, party_nonces, signature_shares, signature

F == INSTANCE WTFrost

frostVars == <<frost, dkg, signing, dkg_wire, sign_wire, received,
               received_shares, local_key, party_nonces, signature_shares,
               signature>>
modulesVars == <<vars, dkgs, params, frostVars>>

ModulesInit ==
  /\ dkgs = << >>
  /\ params \in {"MpEcdsa", "WTFrost"}
  /\ Init /\ F!Init
  /\ IF params = "MpEcdsa"
     THEN frost = CHOOSE c \in FrostCourses : TRUE
     ELSE /\ kind = CHOOSE k \in Kinds : TRUE
          /\ copies = CHOOSE c \in Gossips[kind] : TRUE

\* The default modules are loaded when the worker starts.
initialize ==
  /\ dkgs = << >>
  /\ dkgs' = <<"MpEcdsa", "WTFrost">>
  /\ UNCHANGED <<params, vars, frostVars>>

\* A module handles the parameters of its own kind; get_keygen_protocol and
\* get_signing_protocol find the first that can.
can_handle_request(module) == module = params

get_protocol == SelectSeq(dkgs, can_handle_request)

\* A party that is given a module has the protocol set up by it.
Found(module) == get_protocol # << >> /\ get_protocol[1] = module

MpEcdsa(p) ==
  /\ Found("MpEcdsa")
  /\ initialize_protocol(p)

WTFrost(p) ==
  /\ Found("WTFrost")
  /\ F!initialize_keygen_protocol(p) \/ F!initialize_signing_protocol(p)

ModulesNext ==
  \/ initialize
  \/ /\ \E p \in Party : MpEcdsa(p) \/ Step(p)
     /\ UNCHANGED <<dkgs, params, frostVars>>
  \/ /\ \E p \in F!PartyId : WTFrost(p) \/ F!Step(p)
     /\ UNCHANGED <<dkgs, params, vars>>

\* Every party makes its request, the executor runs each task that can go on, and
\* the gossip gets each message to each party.
ModulesSpec ==
  /\ ModulesInit /\ [][ModulesNext]_modulesVars
  /\ WF_dkgs(initialize)
  /\ \A p \in Party : WF_vars(MpEcdsa(p) \/ Progress(p))
  /\ \A p \in UNION {0..(c.n - 1) : c \in FrostCourses} :
       WF_frostVars(p \in F!PartyId /\ (WTFrost(p) \/ F!Step(p)))

\* The parties of a FROST keygen agree on the key, and no two own the same share
\* of it (WTFrost).
KeyAgrees == F!KeyAgrees

\* A signature is by all participants: of FROST, if the threshold is their number
\* (WTFrost); of MpEcdsa, where a party counts the partial signatures it gets, of
\* all other members of the signing set, whatever is repeated, echoed or left
\* over from an earlier attempt.
SignatureByAll ==
  /\ F!SignatureByAll
  /\ kind = "signing" =>
       \A p \in Party : protocol[p] = "ended" => sigs[p] = Party \ {p}

\* Every participant of a FROST signing gets a signature, if no share overtakes a
\* nonce (WTFrost).
AllSign == F!AllSign
=============================================================================

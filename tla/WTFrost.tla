------------------------------ MODULE WTFrost ------------------------------
(***************************************************************************)
(* The weighted threshold FROST protocols (dkg-gadget/src/dkg_modules/     *)
(* wt_frost.rs and async_protocols/frost): a keygen in one round and a     *)
(* signing in two, each a task per party that broadcasts, then loops over  *)
(* next_message until it has heard from enough others, and throws away     *)
(* what it is not waiting for.                                             *)
(*                                                                         *)
(* The cryptography (wsts) is external: a polynomial commitment and a      *)
(* nonce are the id of the party that made them, a signature share is the  *)
(* set of the nonces that it was made over.  A message of a signing is     *)
(* never handed to a keygen, as the work manager tells jobs apart.  The    *)
(* wrapper of the network holds a sender of its own channel, so that       *)
(* next_message never finds it closed.                                     *)
(***************************************************************************)
EXTENDS Integers, FiniteSets, Sequences

CONSTANTS
  FrostCourses,  \* n, k, t; the signers and the threshold they are given;
                 \* whether keygen::protocol is run (as by WTFrostDKG) or
                 \* run_dkg (as by the tests); whether the network delivers
                 \* to all in one order
  None

VARIABLES
  frost,      \* the course of this behaviour
  dkg,        \* party -> state of the keygen task
  signing,    \* party -> state of the signing task
  dkg_wire,   \* DKG messages in the order they were sent
  sign_wire,  \* Sign and SignFinal messages in the order they were sent
  received,   \* party -> positions on the wire that it is done with
  received_shares,    \* party -> parties whose DKG message it has
  local_key,          \* party -> the key in its database, or None
  party_nonces,       \* party -> parties whose nonce it has
  signature_shares,   \* party -> party -> the nonces its share is over
  signature           \* party -> the nonces of the signature it got, or None

keygenVars == <<dkg, dkg_wire, received_shares, local_key>>
signVars == <<signing, sign_wire, party_nonces, signature_shares, signature>>
vars == <<frost, keygenVars, signVars, received>>

\* The party id is the index among the best authorities.
PartyId == 0..(frost.n - 1)

DKG(p) == [is |-> "DKG", party_id |-> p, over |-> {}]
Sign(p) == [is |-> "Sign", party_id |-> p, over |-> {}]
SignFinal(p, over) == [is |-> "SignFinal", party_id |-> p, over |-> over]

Init ==
  /\ frost \in FrostCourses
  /\ dkg = [p \in PartyId |-> "idle"]
  /\ signing = [p \in PartyId |-> "idle"]
  /\ dkg_wire = << >>
  /\ sign_wire = << >>
  /\ received = [p \in PartyId |-> {}]
  /\ received_shares = [p \in PartyId |-> {}]
  /\ local_key = [p \in PartyId |-> None]
  /\ party_nonces = [p \in PartyId |-> {}]
  /\ signature_shares = [p \in PartyId |-> << >>]
  /\ signature = [p \in PartyId |-> None]
-----------------------------------------------------------------------------
(* Parameters *)

\* k & n == 0; the bits of n are below the n-th.
NoCommonBit(k, n) ==
  \A i \in 0..n : (k \div 2^i) % 2 = 0 \/ (n \div 2^i) % 2 = 0

\* The reasons given are "K % N != 0", "K == 0" and "N <= T".
validate_parameters(n, k, t) == NoCommonBit(k, n) /\ k # 0 /\ n > t

\* The keys of party p: each party owns k / n of them.
generate_party_key_ids(n, k, p) ==
  LET ids_per_party == k \div n
  IN  (p * ids_per_party)..((p + 1) * ids_per_party - 1)
-----------------------------------------------------------------------------
(* The network *)

\* The i-th message on the wire is the next one that p takes; a copy of one
\* that it took before is skipped.
next_message(p, wire, i) ==
  /\ i \in DOMAIN wire \ received[p]
  /\ frost.ordered => 1..(i - 1) \subseteq received[p]
  /\ received' = [received EXCEPT ![p] = @ \cup {i}]

\* send_message: always to all, signed by the sender.
send_message(wire, message) == Append(wire, message)
-----------------------------------------------------------------------------
(* Keygen *)

\* initialize_keygen_protocol sets k to n and spawns keygen::protocol, which
\* validates the parameters; the tests call run_dkg.
initialize_keygen_protocol(p) ==
  /\ dkg[p] = "idle"
  /\ IF frost.protocol /\ ~validate_parameters(frost.n, frost.k, frost.t)
     THEN /\ dkg' = [dkg EXCEPT ![p] = "failed"]
          /\ UNCHANGED <<dkg_wire, received_shares>>
     ELSE /\ dkg' = [dkg EXCEPT ![p] = "running"]
          /\ dkg_wire' = send_message(dkg_wire, DKG(p))
          /\ received_shares' = [received_shares EXCEPT ![p] = {p}]
  /\ UNCHANGED <<frost, local_key, signVars, received>>

\* Mutant: one's own message is counted apart.
AllButOne(p) == Cardinality(received_shares[p]) + 1 >= frost.n

EnoughShares(p) == Cardinality(received_shares[p]) >= frost.n

\* The loop of run_dkg.
ReceiveDKG(p, i) ==
  /\ dkg[p] = "running" /\ ~EnoughShares(p)
  /\ next_message(p, dkg_wire, i)
  /\ received_shares' =
       [received_shares EXCEPT ![p] = @ \cup {dkg_wire[i].party_id}]
  /\ UNCHANGED <<frost, dkg, dkg_wire, local_key, signVars>>

\* For each key it owns, a party has a share of every party.
compute_secret(p) ==
  [polys |-> received_shares[p],
   key_ids |-> generate_party_key_ids(frost.n, frost.k, p)]

\* The rest of keygen::protocol: the key is stored, and gossiped.
FinishDKG(p) ==
  /\ dkg[p] = "running" /\ EnoughShares(p)
  /\ dkg' = [dkg EXCEPT ![p] = "done"]
  /\ local_key' = [local_key EXCEPT ![p] = compute_secret(p)]
  /\ UNCHANGED <<frost, dkg_wire, received_shares, signVars,
                 received>>
-----------------------------------------------------------------------------
(* Signing *)

\* The tests sign once all have their keys.  A node signs when it has the key of
\* the session, with a new channel.
initialize_signing_protocol(p) ==
  /\ p \in frost.signers /\ signing[p] = "idle"
  /\ IF frost.protocol THEN dkg[p] \in {"done", "failed"}
                       ELSE \A q \in PartyId : dkg[q] = "done"
  /\ IF local_key[p] = None
     THEN /\ signing' = [signing EXCEPT ![p] = "failed"]
          /\ UNCHANGED <<sign_wire, party_nonces, received>>
     ELSE /\ signing' = [signing EXCEPT ![p] = "nonces"]
          /\ sign_wire' = send_message(sign_wire, Sign(p))
          /\ party_nonces' = [party_nonces EXCEPT ![p] = {p}]
          /\ received' = [received EXCEPT ![p] = {}]
  /\ UNCHANGED <<frost, keygenVars, signature_shares, signature>>

\* Mutant: more nonces than the threshold.
ThresholdExceeded(p) == Cardinality(party_nonces[p]) > frost.threshold

\* Mutant: one nonce less is enough.
OneNonceLess(p) == Cardinality(party_nonces[p]) + 1 >= frost.threshold

EnoughNonces(p) == Cardinality(party_nonces[p]) >= frost.threshold

\* The first loop of run_signing: what is no nonce is dropped.
ReceiveSign(p, i) ==
  /\ signing[p] = "nonces" /\ ~EnoughNonces(p)
  /\ next_message(p, sign_wire, i)
  /\ party_nonces' = IF sign_wire[i].is = "Sign"
       THEN [party_nonces EXCEPT ![p] = @ \cup {sign_wire[i].party_id}]
       ELSE party_nonces
  /\ UNCHANGED <<frost, keygenVars, signing, sign_wire, signature_shares,
                 signature>>

\* A share over the nonces is broadcast.
SendShare(p) ==
  /\ signing[p] = "nonces" /\ EnoughNonces(p)
  /\ signing' = [signing EXCEPT ![p] = "shares"]
  /\ sign_wire' = send_message(sign_wire, SignFinal(p, party_nonces[p]))
  /\ signature_shares' =
       [signature_shares EXCEPT ![p] = [q \in {p} |-> party_nonces[p]]]
  /\ UNCHANGED <<frost, keygenVars, party_nonces, signature,
                 received>>

EnoughSignatureShares(p) ==
  Cardinality(DOMAIN signature_shares[p]) >= frost.threshold

\* The second loop: what is no share is dropped, and so is one's own.
ReceiveSignFinal(p, i) ==
  LET m == sign_wire[i]
      from == DOMAIN signature_shares[p] \cup {m.party_id}
  IN  /\ signing[p] = "shares" /\ ~EnoughSignatureShares(p)
      /\ next_message(p, sign_wire, i)
      /\ signature_shares' =
           IF m.is = "SignFinal" /\ m.party_id # p
           THEN [signature_shares EXCEPT ![p] =
                   [q \in from |-> IF q = m.party_id THEN m.over ELSE @[q]]]
           ELSE signature_shares
      /\ UNCHANGED <<frost, keygenVars, signing, sign_wire, party_nonces,
                     signature>>

\* The aggregator takes the shares of those whose nonces are used, all made over
\* the same nonces.
Aggregates(p) ==
  /\ DOMAIN signature_shares[p] = party_nonces[p]
  /\ \A q \in party_nonces[p] : signature_shares[p][q] = party_nonces[p]

\* sign::protocol hands the signature on, or ends with an error.
AggregateShares(p) ==
  /\ signing[p] = "shares" /\ EnoughSignatureShares(p)
  /\ IF Aggregates(p)
     THEN /\ signing' = [signing EXCEPT ![p] = "done"]
          /\ signature' = [signature EXCEPT ![p] = party_nonces[p]]
     ELSE /\ signing' = [signing EXCEPT ![p] = "failed"]
          /\ UNCHANGED signature
  /\ UNCHANGED <<frost, keygenVars, sign_wire, party_nonces,
                 signature_shares, received>>

Step(p) ==
  \/ \E i \in DOMAIN dkg_wire : ReceiveDKG(p, i)
  \/ FinishDKG(p)
  \/ \E i \in DOMAIN sign_wire : ReceiveSign(p, i) \/ ReceiveSignFinal(p, i)
  \/ SendShare(p) \/ AggregateShares(p)
-----------------------------------------------------------------------------
(* Properties *)

\* "Assert all equal" (tests of wt_frost.rs): in whatever order the messages of a
\* keygen came, all parties that finish it hold the commitments of all parties;
\* no two own the same key, and together they own all k keys if each is to own
\* the same number ("assert_eq!(K % N, 0)").
KeyAgrees ==
  LET done == {p \in PartyId : local_key[p] # None}
  IN  /\ \A p \in done : local_key[p].polys = PartyId
      /\ \A p, q \in done :
           p # q => local_key[p].key_ids \cap local_key[q].key_ids = {}
      /\ done = PartyId /\ frost.k % frost.n = 0 =>
           UNION {local_key[p].key_ids : p \in done} = 0..(frost.k - 1)

\* "`threshold`: Should be the number of participants in this round, since we
\* stop looking for messages after finding the first `t` messages"
\* (run_signing): if it is, a signature is by all of them, so that they get the
\* same one, and no party that has all shares fails to aggregate them.
SignatureByAll ==
  Cardinality(frost.signers) = frost.threshold =>
    \A p \in frost.signers :
      /\ signature[p] \in {None, frost.signers}
      /\ signing[p] = "failed" => local_key[p] = None

\* A share may come before the last nonce, and is then dropped for good; if no
\* share overtakes a nonce, as with the broadcast channel of the tests, every
\* participant of a signing gets a signature.
AllSign ==
  (/\ frost.ordered
   /\ ~frost.protocol \/ validate_parameters(frost.n, frost.k, frost.t)
   /\ Cardinality(frost.signers) = frost.threshold
   /\ \A p \in PartyId : dkg[p] # "idle")
    ~> (\A p \in frost.signers : signature[p] # None)
=============================================================================

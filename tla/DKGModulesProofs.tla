-------------------------- MODULE DKGModulesProofs --------------------------
(***************************************************************************)
(* Invariants of the protocols that a node runs, for any number of         *)
(* parties, rounds, deliveries and keys: of the runs of MpEcdsa            *)
(* (ProtocolRun) and of the FROST protocols (WTFrost), as the modules of a *)
(* node interleave them.                                                   *)
(***************************************************************************)
EXTENDS DKGModules, FiniteSetTheorems, SequenceTheorems, TLAPS

Bag == [Message -> Nat]

\* The state of a run has its types.
RunTypes ==
  /\ kind \in Kinds
  /\ status \in [Party -> {"Beginning", "Running", "Complete", "Terminated"}]
  /\ protocol \in [Party -> {"idle", "waiting", "running", "voting", "finished",
                             "failed", "ended", "errored", "stopped"}]
  /\ outbound \in [Party -> BOOLEAN]
  /\ wire \subseteq Message
  /\ rx \in [Party -> Bag]
  /\ incoming \in [Party -> Bag]
  /\ outgoing \in [Party -> Seq(1..Rounds)]
  /\ round \in [Party -> 0..(Rounds + 1)]
  /\ received_messages \in [Party -> SUBSET Message]
  /\ sigs \in [Party -> SUBSET Party]
  /\ handled \in [Party -> Bag]

\* The wrapper has noted what it was given, and was given nothing of another run.
GivenOnce ==
  \A p \in Party, m \in Message :
    /\ incoming[p][m] > 0 => m.run = "this"
    /\ m \in received_messages[p] => m.run = "this"
    /\ handled[p][m] = IF m \in received_messages[p] THEN 1 ELSE 0

\* A handle is done only once its protocol is over; the outbound task is there
\* as long as the protocol speaks, and leaves only an empty channel behind when
\* the handler waits for it.
OutboundInv ==
  \A p \in Party :
    /\ IsDone(p) => protocol[p] \in {"ended", "errored", "stopped"}
    /\ Alive(p) => outbound[p]
    /\ protocol[p] \in {"finished", "failed"} /\ ~outbound[p] =>
         outgoing[p] = << >>
    /\ protocol[p] \in {"ended", "errored"} => outgoing[p] = << >>

\* What a state machine has said is on the wire, or still on its way there.
SaidOrWaiting ==
  \A p \in Party, r \in 1..Rounds :
    r <= round[p] =>
      \/ Said(p, r) \in wire
      \/ \E i \in 1..Len(outgoing[p]) : outgoing[p][i] = r

\* The partial signatures of a party are of others, and it has enough of them
\* when the voting stage ends well.
VotesCounted ==
  \A p \in Party :
    /\ p \notin sigs[p]
    /\ kind = "signing" /\ protocol[p] \in {"finished", "ended"} =>
         Cardinality(sigs[p]) = number_of_partial_sigs

RunInv == RunTypes /\ GivenOnce /\ OutboundInv /\ SaidOrWaiting /\ VotesCounted

\* A FROST keygen: what is on the wire and was received is of the parties, and a
\* key is stored with the commitments of all of them.
DkgMessage == [is : {"DKG"}, party_id : F!PartyId, over : {{}}]

DkgInv ==
  /\ frost \in FrostCourses
  /\ dkg \in [F!PartyId -> {"idle", "running", "done", "failed"}]
  /\ dkg_wire \in Seq(DkgMessage)
  /\ received_shares \in [F!PartyId -> SUBSET F!PartyId]
  /\ local_key = [p \in F!PartyId |-> local_key[p]]
  /\ \A p \in F!PartyId :
       local_key[p] # None =>
         local_key[p] = [polys |-> F!PartyId,
                         key_ids |-> F!generate_party_key_ids(frost.n, frost.k, p)]

\* A FROST signing: the messages are of signers.
SignMessage == [is : {"Sign", "SignFinal"}, party_id : frost.signers,
                over : SUBSET frost.signers]

SignTypes ==
  /\ signing \in [F!PartyId -> {"idle", "nonces", "shares", "done", "failed"}]
  /\ sign_wire \in Seq(SignMessage)
  /\ party_nonces \in [F!PartyId -> SUBSET frost.signers]
  /\ signature_shares = [p \in F!PartyId |-> signature_shares[p]]
  /\ signature = [p \in F!PartyId |-> signature[p]]
  /\ \A p \in F!PartyId : /\ DOMAIN signature_shares[p] \subseteq frost.signers
                          /\ signing[p] # "idle" => p \in frost.signers

\* A party that holds a share, or sent one, had the nonces of all signers.
OverAll ==
  /\ \A p \in F!PartyId :
       /\ signing[p] = "shares" => party_nonces[p] = frost.signers
       /\ \A q \in DOMAIN signature_shares[p] :
            signature_shares[p][q] = frost.signers
       /\ signature[p] \in {None, frost.signers}
  /\ \A i \in 1..Len(sign_wire) :
       sign_wire[i].is = "SignFinal" => sign_wire[i].over = frost.signers

\* A signing fails only where there is no key, and then none is to come.
FailsKeyless ==
  \A p \in F!PartyId :
    signing[p] = "failed" =>
      local_key[p] = None /\ dkg[p] \in {"done", "failed"}

\* The threshold is the number of the participants.
AllOf == Cardinality(frost.signers) = frost.threshold

SignInv == SignTypes /\ (AllOf => OverAll /\ FailsKeyless)
-----------------------------------------------------------------------------
(* The steps of a run *)

\* A behaviour of the modules is one of a run of MpEcdsa at its parties, with
\* stuttering: a module other than the one found, and the start of the worker,
\* leave the run alone.
LEMMA StepOfRun == [ModulesNext]_modulesVars => [Next]_vars
  BY DEF ModulesNext, modulesVars, initialize, MpEcdsa, Next

\* A step of a run is one of the actions of one party, on a message that was
\* gossiped.
LEMMA RunActions ==
  ASSUME Next
  PROVE  \E p \in Party :
           \/ initialize_protocol(p) \/ start(p)
           \/ \E m \in wire : \/ deliver_message(p, m)
                              \/ inbound_signed_message_receiver(p, m)
                              \/ Receive(p, m) \/ ReceiveVote(p, m)
           \/ Proceed(p) \/ CriticalError(p)
           \/ outgoing_to_wire(p) \/ OutgoingReceiverEnded(p)
           \/ protocol_ended(p) \/ shutdown(p) \/ drop(p)
  BY Zenon DEF Next, Step, Progress

\* A channel stays a bag, and only the count of the message changes.
LEMMA PutTake ==
  ASSUME NEW bag \in Bag, NEW m \in Message
  PROVE  /\ Put(bag, m) \in Bag
         /\ Put(bag, m)[m] = bag[m] + 1
         /\ bag[m] > 0 => Take(bag, m) \in Bag /\ Take(bag, m)[m] = bag[m] - 1
         /\ \A x \in Message \ {m} :
              Put(bag, m)[x] = bag[x] /\ Take(bag, m)[x] = bag[x]
  BY DEF Bag, Put, Take

\* The kinds and bounds of a run give it its types at the start.
LEMMA InitTypes == Init => RunTypes
  BY RunAssumption
  DEF Init, RunTypes, Bag, NoMessages, Earlier, Message

\* Every step keeps the types: a round is counted only up to the one after the
\* last, a message is taken only from a channel that holds it.
LEMMA TypesNext == RunTypes /\ [Next]_vars => RunTypes'
<1> SUFFICES ASSUME RunTypes, [Next]_vars PROVE RunTypes'
  OBVIOUS
<1> USE DEF RunTypes
<1>1. CASE UNCHANGED vars
  BY <1>1, Zenon DEF vars, tasks, setting, machine
<1>2. CASE Next
  <2>1. PICK p \in Party :
           \/ initialize_protocol(p) \/ start(p)
           \/ \E m \in wire : \/ deliver_message(p, m)
                              \/ inbound_signed_message_receiver(p, m)
                              \/ Receive(p, m) \/ ReceiveVote(p, m)
           \/ Proceed(p) \/ CriticalError(p)
           \/ outgoing_to_wire(p) \/ OutgoingReceiverEnded(p)
           \/ protocol_ended(p) \/ shutdown(p) \/ drop(p)
    BY <1>2, RunActions, Zenon
  <2>2. ASSUME NEW r \in 1..(Rounds + 1) PROVE Said(p, r) \in Message
    BY RunAssumption, Zenon DEF Said, Message
  <2>3. CASE initialize_protocol(p)
    BY <2>3, Zenon DEF initialize_protocol, setting, machine
  <2>4. CASE start(p)
    BY <2>4, Zenon DEF start, setting, machine
  <2>5. ASSUME NEW m \in wire, deliver_message(p, m) PROVE RunTypes'
    <3>1. rx' \in [Party -> Bag]
      BY <2>5, PutTake, Zenon DEF deliver_message
    <3> QED
      BY <2>5, <3>1, Zenon DEF deliver_message, tasks, machine
  <2>6. ASSUME NEW m \in wire, inbound_signed_message_receiver(p, m)
        PROVE  RunTypes'
    <3>1. rx' \in [Party -> Bag] /\ incoming' \in [Party -> Bag]
      BY <2>6, PutTake, Zenon DEF inbound_signed_message_receiver
    <3> QED
      BY <2>6, <3>1, Zenon DEF inbound_signed_message_receiver, setting, machine
  <2>7. ASSUME NEW m \in wire, Receive(p, m) PROVE RunTypes'
    <3>1. incoming' \in [Party -> Bag]
      BY <2>7, PutTake, Zenon DEF Receive
    <3>2. /\ handled' \in [Party -> Bag]
          /\ received_messages' \in [Party -> SUBSET Message]
          /\ round' = round
      <4>1. m \in Message /\ Put(handled[p], m) \in Bag
        BY PutTake, Zenon
      <4>2. CASE Outdated(p, m) \/ m \in received_messages[p]
        BY <2>7, <4>2, Zenon DEF Receive, handle_incoming, machine
      <4>3. CASE ~(Outdated(p, m) \/ m \in received_messages[p])
        <5>1. /\ handled' = [handled EXCEPT ![p] = Put(@, m)]
              /\ received_messages' = [received_messages EXCEPT ![p] = @ \cup {m}]
              /\ round' = round
          BY <2>7, <4>3, Zenon DEF Receive, handle_incoming
        <5> QED
          BY <4>1, <5>1, Zenon
      <4> QED
        BY <4>2, <4>3, Zenon
    <3> QED
      BY <2>7, <3>1, <3>2, Zenon DEF Receive, tasks, setting
  <2>8. ASSUME NEW m \in wire, ReceiveVote(p, m) PROVE RunTypes'
    <3>1. rx' \in [Party -> Bag]
      BY <2>8, PutTake, Zenon DEF ReceiveVote
    <3>2. sigs' \in [Party -> SUBSET Party]
      BY <2>8 DEF ReceiveVote, Message
    <3>3. /\ protocol' \in [Party -> {"idle", "waiting", "running", "voting",
                                      "finished", "failed", "ended", "errored",
                                      "stopped"}]
          /\ UNCHANGED <<status, outbound, kind, wire, incoming, outgoing,
                         machine>>
      BY <2>8, Zenon DEF ReceiveVote
    <3> QED
      BY <3>1, <3>2, <3>3, Zenon DEF machine
  <2>9. CASE Proceed(p)
    <3>1. /\ round' \in [Party -> 0..(Rounds + 1)]
          /\ UNCHANGED <<received_messages, handled>>
      BY <2>9, RunAssumption DEF Proceed, CanProceed, proceed
    <3>2. outgoing' \in [Party -> Seq(1..Rounds)]
      <4>1. CASE round[p] = Rounds
        BY <2>9, <4>1, Zenon DEF Proceed
      <4>2. CASE round[p] # Rounds
        <5>1. round[p] + 1 \in 1..Rounds
          BY <2>9, <4>2, RunAssumption DEF Proceed, CanProceed
        <5>2. Append(outgoing[p], round[p] + 1) \in Seq(1..Rounds)
          BY <5>1
        <5> QED
          BY <2>9, <4>2, <5>2, Zenon DEF Proceed
      <4> QED
        BY <4>1, <4>2, Zenon
    <3>3. /\ protocol' \in [Party -> {"idle", "waiting", "running", "voting",
                                      "finished", "failed", "ended", "errored",
                                      "stopped"}]
          /\ wire' \subseteq Message
      <4>1. Vote(p) \in Message
        BY RunAssumption DEF Vote, Said, Message
      <4> QED
        BY <2>9, <4>1, Zenon DEF Proceed, on_finish
    <3> QED
      BY <2>9, <3>1, <3>2, <3>3, Zenon DEF Proceed, setting
  <2>10. CASE CriticalError(p)
    BY <2>10, Zenon DEF CriticalError, setting, machine
  <2>11. CASE outgoing_to_wire(p)
    <3>1. /\ Head(outgoing[p]) \in 1..Rounds
          /\ Tail(outgoing[p]) \in Seq(1..Rounds)
      BY <2>11, HeadTailProperties, Zenon DEF outgoing_to_wire
    <3>2. Said(p, Head(outgoing[p])) \in Message
      BY <2>2, <3>1, RunAssumption
    <3>3. outgoing' \in [Party -> Seq(1..Rounds)] /\ wire' \subseteq Message
      BY <2>11, <3>1, <3>2 DEF outgoing_to_wire
    <3>4. outbound' \in [Party -> BOOLEAN]
      BY <2>11, Zenon DEF outgoing_to_wire, IsDone
    <3> QED
      BY <2>11, <3>3, <3>4, Zenon DEF outgoing_to_wire, setting, machine
  <2>12. CASE OutgoingReceiverEnded(p)
    BY <2>12 DEF OutgoingReceiverEnded, setting, machine
  <2>13. CASE protocol_ended(p)
    BY <2>13 DEF protocol_ended, Ended, setting, machine
  <2>14. CASE shutdown(p)
    BY <2>14, Zenon DEF shutdown, setting, machine
  <2>15. CASE drop(p)
    BY <2>15, Zenon DEF drop, tasks, setting, machine
  <2> QED
    BY <2>1, <2>3, <2>4, <2>5, <2>6, <2>7, <2>8, <2>9, <2>10, <2>11, <2>12,
       <2>13, <2>14, <2>15, Zenon
<1> QED
  BY <1>1, <1>2, Zenon
-----------------------------------------------------------------------------
(* What a state machine is given *)

\* inbound_signed_message_receiver lets in only what transform accepts, and the
\* wrapper notes a message before it hands it on; nobody else touches the
\* channel into the protocol or what was noted.
LEMMA GivenNext == RunTypes /\ GivenOnce /\ [Next]_vars => GivenOnce'
<1> SUFFICES ASSUME RunTypes, GivenOnce, [Next]_vars PROVE GivenOnce'
  OBVIOUS
<1> DEFINE quiet == UNCHANGED <<incoming, received_messages, handled>>
<1>1. ASSUME quiet PROVE GivenOnce'
  BY <1>1, Zenon DEF GivenOnce
<1>2. ASSUME NEW p \in Party, NEW m \in wire,
             inbound_signed_message_receiver(p, m)
      PROVE  GivenOnce'
  <2>1. m \in Message /\ incoming \in [Party -> Bag]
    BY DEF RunTypes
  <2>2. UNCHANGED <<received_messages, handled>>
    BY <1>2 DEF inbound_signed_message_receiver, machine
  <2>3. ASSUME NEW q \in Party, NEW x \in Message, incoming'[q][x] > 0
        PROVE  x.run = "this"
    <3>1. CASE q = p /\ x = m /\ transform(p, m)
      BY <3>1, Zenon DEF transform
    <3>2. CASE ~(q = p /\ x = m /\ transform(p, m))
      <4>1. incoming'[q][x] = incoming[q][x]
        BY <1>2, <2>1, <3>2, PutTake DEF inbound_signed_message_receiver
      <4> QED
        BY <2>3, <4>1, Zenon DEF GivenOnce
    <3> QED
      BY <3>1, <3>2, Zenon
  <2> QED
    BY <2>2, <2>3, Zenon DEF GivenOnce
<1>3. ASSUME NEW p \in Party, NEW m \in wire, Receive(p, m) PROVE GivenOnce'
  <2>1. m \in Message /\ incoming \in [Party -> Bag] /\ handled \in [Party -> Bag]
    BY Zenon DEF RunTypes
  <2>2. incoming[p][m] > 0 /\ m.run = "this"
    BY <1>3, <2>1, Zenon DEF Receive, GivenOnce
  <2>3. ASSUME NEW q \in Party, NEW x \in Message, incoming'[q][x] > 0
        PROVE  x.run = "this"
    <3>1. CASE q = p /\ x = m
      BY <2>2, <3>1, Zenon
    <3>2. CASE ~(q = p /\ x = m)
      <4>1. incoming'[q][x] = incoming[q][x]
        BY <1>3, <2>1, <3>2, PutTake DEF Receive
      <4> QED
        BY <2>3, <4>1, Zenon DEF GivenOnce
    <3> QED
      BY <3>1, <3>2, Zenon
  <2>4. CASE Outdated(p, m) \/ m \in received_messages[p]
    <3>1. UNCHANGED <<received_messages, handled>>
      BY <1>3, <2>4, Zenon DEF Receive, handle_incoming, machine
    <3> QED
      BY <2>3, <3>1, Zenon DEF GivenOnce
  <2>5. CASE ~(Outdated(p, m) \/ m \in received_messages[p])
    <3>1. /\ handled' = [handled EXCEPT ![p] = Put(@, m)]
          /\ received_messages' = [received_messages EXCEPT ![p] = @ \cup {m}]
      BY <1>3, <2>5, Zenon DEF Receive, handle_incoming
    <3>2. ASSUME NEW q \in Party, NEW x \in Message
          PROVE  /\ x \in received_messages'[q] => x.run = "this"
                 /\ handled'[q][x] = IF x \in received_messages'[q] THEN 1 ELSE 0
      <4>1. received_messages \in [Party -> SUBSET Message]
        BY Zenon DEF RunTypes
      <4>2. CASE q = p /\ x = m
        <5>1. handled[p][m] = 0
          BY <2>1, <2>5, Zenon DEF GivenOnce
        <5>2. handled'[p][m] = handled[p][m] + 1
          BY <2>1, <3>1, PutTake, Zenon
        <5> QED
          BY <2>2, <3>1, <4>1, <4>2, <5>1, <5>2
      <4>3. CASE ~(q = p /\ x = m)
        <5>1. handled'[q][x] = handled[q][x]
          BY <2>1, <3>1, <4>3, PutTake
        <5>2. x \in received_messages'[q] <=> x \in received_messages[q]
          BY <3>1, <4>1, <4>3, Zenon
        <5> QED
          BY <5>1, <5>2, Zenon DEF GivenOnce
      <4> QED
        BY <4>2, <4>3, Zenon
    <3> QED
      BY <2>3, <3>2, Zenon DEF GivenOnce
  <2> QED
    BY <2>4, <2>5, Zenon
<1>4. CASE UNCHANGED vars
  BY <1>1, <1>4, Zenon DEF vars, machine
<1>5. ASSUME NEW p \in Party,
             \/ initialize_protocol(p) \/ start(p)
             \/ \E m \in wire : deliver_message(p, m) \/ ReceiveVote(p, m)
             \/ Proceed(p) \/ CriticalError(p)
             \/ outgoing_to_wire(p) \/ OutgoingReceiverEnded(p)
             \/ protocol_ended(p) \/ shutdown(p) \/ drop(p)
      PROVE  quiet
  BY <1>5, Zenon DEF initialize_protocol, start, deliver_message, ReceiveVote,
     Proceed, proceed, CriticalError, outgoing_to_wire, OutgoingReceiverEnded,
     protocol_ended, shutdown, drop, machine
<1> HIDE DEF quiet
<1> QED
  BY <1>1, <1>2, <1>3, <1>4, <1>5, RunActions, Zenon
-----------------------------------------------------------------------------
(* What a state machine has said *)

\* The outbound task outlives the protocol until its channel is empty: it looks
\* at the status only after a message, and the status is not set before the
\* handler has waited for it.
LEMMA OutboundNext == RunTypes /\ OutboundInv /\ [Next]_vars => OutboundInv'
<1> SUFFICES ASSUME RunTypes, OutboundInv, [Next]_vars PROVE OutboundInv'
  OBVIOUS
<1> DEFINE quiet == UNCHANGED <<status, protocol, outbound, outgoing>>
<1>1. ASSUME quiet PROVE OutboundInv'
  BY <1>1, Zenon DEF OutboundInv, IsDone, Alive
<1>2. CASE UNCHANGED vars
  BY <1>1, <1>2, Zenon DEF vars, tasks
<1>3. ASSUME NEW p \in Party,
             \E m \in wire : \/ deliver_message(p, m) \/ Receive(p, m)
                             \/ inbound_signed_message_receiver(p, m)
      PROVE  quiet
  BY <1>3, Zenon DEF deliver_message, Receive, inbound_signed_message_receiver,
     tasks
<1> HIDE DEF quiet
<1> USE DEF RunTypes, OutboundInv, IsDone, Alive
<1>4. ASSUME NEW p \in Party, initialize_protocol(p) PROVE OutboundInv'
  BY <1>4, Zenon DEF initialize_protocol
<1>5. ASSUME NEW p \in Party, start(p) PROVE OutboundInv'
  BY <1>5, Zenon DEF start
<1>6. ASSUME NEW p \in Party, NEW m \in wire, ReceiveVote(p, m)
      PROVE  OutboundInv'
  <2>1. /\ protocol[p] = "voting"
        /\ \E end \in {"voting", "finished", "failed"} :
             protocol' = [protocol EXCEPT ![p] = end]
        /\ UNCHANGED <<status, outbound, outgoing>>
    BY <1>6, Zenon DEF ReceiveVote
  <2> QED
    BY <2>1, Zenon
<1>7. ASSUME NEW p \in Party, Proceed(p) PROVE OutboundInv'
  <2>1. /\ protocol[p] = "running"
        /\ \E end \in {"running", "voting", "finished"} :
             protocol' = [protocol EXCEPT ![p] = end]
        /\ \A q \in Party \ {p} : outgoing'[q] = outgoing[q]
        /\ protocol'[p] # "running" => outgoing' = outgoing
        /\ UNCHANGED <<status, outbound>>
    BY <1>7 DEF Proceed, CanProceed, on_finish
  <2> QED
    BY <2>1
<1>8. ASSUME NEW p \in Party, CriticalError(p) PROVE OutboundInv'
  BY <1>8 DEF CriticalError, CanProceed
<1>9. ASSUME NEW p \in Party, outgoing_to_wire(p) PROVE OutboundInv'
  <2>1. /\ outgoing[p] # << >> /\ outbound'[p] = ~IsDone(p)
        /\ \A q \in Party \ {p} : /\ outgoing'[q] = outgoing[q]
                                  /\ outbound'[q] = outbound[q]
        /\ UNCHANGED <<status, protocol>>
    BY <1>9, Zenon DEF outgoing_to_wire
  <2> QED
    BY <2>1
<1>10. ASSUME NEW p \in Party, OutgoingReceiverEnded(p) PROVE OutboundInv'
  BY <1>10, Zenon DEF OutgoingReceiverEnded
<1>11. ASSUME NEW p \in Party, protocol_ended(p) PROVE OutboundInv'
  BY <1>11, Zenon DEF protocol_ended, Ended
<1>12. ASSUME NEW p \in Party, shutdown(p) PROVE OutboundInv'
  BY <1>12, Zenon DEF shutdown
<1>13. ASSUME NEW p \in Party, drop(p) PROVE OutboundInv'
  BY <1>13, Zenon DEF drop, tasks
<1> HIDE DEF RunTypes, OutboundInv, IsDone, Alive
<1> QED
  BY <1>1, <1>2, <1>3, <1>4, <1>5, <1>6, <1>7, <1>8, <1>9, <1>10, <1>11,
     <1>12, <1>13, RunActions, Zenon

\* A round that the state machine has begun was said into the channel when it
\* began, and leaves the channel only for the wire.
LEMMA SaidNext == RunTypes /\ SaidOrWaiting /\ [Next]_vars => SaidOrWaiting'
<1> SUFFICES ASSUME RunTypes, SaidOrWaiting, [Next]_vars PROVE SaidOrWaiting'
  OBVIOUS
<1> DEFINE quiet == UNCHANGED <<wire, outgoing, round>>
<1>1. ASSUME quiet PROVE SaidOrWaiting'
  BY <1>1, Zenon DEF SaidOrWaiting
<1>2. CASE UNCHANGED vars
  BY <1>1, <1>2, Zenon DEF vars, machine
<1>3. ASSUME NEW p \in Party, Proceed(p) PROVE SaidOrWaiting'
  <2> SUFFICES ASSUME NEW q \in Party, NEW r \in 1..Rounds, r <= round'[q]
               PROVE  \/ Said(q, r) \in wire'
                      \/ \E i \in 1..Len(outgoing'[q]) : outgoing'[q][i] = r
    BY Zenon DEF SaidOrWaiting
  <2>1. /\ wire \subseteq wire'
        /\ round' = [round EXCEPT ![p] = @ + 1] /\ round[p] \in 0..Rounds
    BY <1>3 DEF Proceed, on_finish, proceed, CanProceed, RunTypes
  <2>2. CASE q = p /\ r = round[p] + 1
    <3>1. outgoing'[p] = Append(outgoing[p], r)
      BY <1>3, <2>2, RunAssumption DEF Proceed, RunTypes
    <3>2. outgoing[p] \in Seq(1..Rounds)
      BY Zenon DEF RunTypes
    <3>3. /\ Len(outgoing'[p]) = Len(outgoing[p]) + 1
          /\ outgoing'[p][Len(outgoing[p]) + 1] = r
      BY <3>1, <3>2, AppendProperties
    <3>4. Len(outgoing[p]) + 1 \in 1..Len(outgoing'[p])
      BY <3>2, <3>3, LenProperties
    <3> QED
      BY <2>2, <3>3, <3>4, Zenon
  <2>3. CASE ~(q = p /\ r = round[p] + 1)
    <3>1. r <= round[q]
      BY <2>1, <2>3, RunAssumption DEF RunTypes
    <3>2. CASE Said(q, r) \in wire
      BY <2>1, <3>2, Zenon
    <3>3. CASE \E i \in 1..Len(outgoing[q]) : outgoing[q][i] = r
      <4>1. PICK i \in 1..Len(outgoing[q]) : outgoing[q][i] = r
        BY <3>3, Zenon
      <4>2. outgoing[q] \in Seq(1..Rounds)
        BY Zenon DEF RunTypes
      <4>3. \/ outgoing'[q] = outgoing[q]
            \/ outgoing'[q] = Append(outgoing[q], round[p] + 1)
        BY <1>3 DEF Proceed, RunTypes
      <4>4. i \in 1..Len(outgoing'[q]) /\ outgoing'[q][i] = r
        BY <4>1, <4>2, <4>3, AppendProperties, LenProperties
      <4> QED
        BY <4>4, Zenon
    <3> QED
      BY <3>1, <3>2, <3>3, Zenon DEF SaidOrWaiting
  <2> QED
    BY <2>2, <2>3, Zenon
<1>4. ASSUME NEW p \in Party, outgoing_to_wire(p) PROVE SaidOrWaiting'
  <2> SUFFICES ASSUME NEW q \in Party, NEW r \in 1..Rounds, r <= round'[q]
               PROVE  \/ Said(q, r) \in wire'
                      \/ \E i \in 1..Len(outgoing'[q]) : outgoing'[q][i] = r
    BY Zenon DEF SaidOrWaiting
  <2>1. /\ outgoing[p] # << >> /\ outgoing[p] \in Seq(1..Rounds)
        /\ wire' = wire \cup {Said(p, Head(outgoing[p]))}
        /\ round' = round
        /\ outgoing'[p] = Tail(outgoing[p])
        /\ q # p => outgoing'[q] = outgoing[q]
    BY <1>4, Zenon DEF outgoing_to_wire, machine, RunTypes
  <2>2. CASE Said(q, r) \in wire
    BY <2>1, <2>2, Zenon
  <2>3. CASE \E i \in 1..Len(outgoing[q]) : outgoing[q][i] = r
    <3>1. CASE q # p
      BY <2>1, <2>3, <3>1, Zenon
    <3>2. CASE q = p
      <4>1. PICK i \in 1..Len(outgoing[p]) : outgoing[p][i] = r
        BY <2>3, <3>2, Zenon
      <4>2. CASE i = 1
        BY <2>1, <3>2, <4>1, <4>2
      <4>3. CASE i # 1
        <5>1. /\ Len(Tail(outgoing[p])) = Len(outgoing[p]) - 1
              /\ Tail(outgoing[p])[i - 1] = outgoing[p][i]
              /\ i - 1 \in 1..(Len(outgoing[p]) - 1)
          BY <2>1, <4>1, <4>3, LenProperties, HeadTailProperties
        <5> QED
          BY <2>1, <3>2, <4>1, <5>1, Zenon
      <4> QED
        BY <4>2, <4>3, Zenon
    <3> QED
      BY <3>1, <3>2, Zenon
  <2> QED
    BY <2>1, <2>2, <2>3, Zenon DEF SaidOrWaiting
<1>5. ASSUME NEW p \in Party,
             \/ initialize_protocol(p) \/ start(p)
             \/ \E m \in wire : \/ deliver_message(p, m)
                                \/ inbound_signed_message_receiver(p, m)
                                \/ Receive(p, m) \/ ReceiveVote(p, m)
             \/ CriticalError(p) \/ OutgoingReceiverEnded(p)
             \/ protocol_ended(p) \/ shutdown(p) \/ drop(p)
      PROVE  quiet
  BY <1>5, Zenon DEF initialize_protocol, start, deliver_message,
     inbound_signed_message_receiver, Receive, handle_incoming, ReceiveVote,
     CriticalError, OutgoingReceiverEnded, protocol_ended, shutdown, drop, machine
<1> HIDE DEF quiet
<1> QED
  BY <1>1, <1>2, <1>3, <1>4, <1>5, RunActions, Zenon
-----------------------------------------------------------------------------
(* Votes *)

\* transform drops one's own vote, and the voting stage ends well only with the
\* last partial signature.
LEMMA VotesNext == RunTypes /\ VotesCounted /\ [Next]_vars => VotesCounted'
<1> SUFFICES ASSUME RunTypes, VotesCounted, [Next]_vars PROVE VotesCounted'
  OBVIOUS
<1> USE DEF RunTypes, VotesCounted
<1> DEFINE counted(p) == \/ protocol'[p] = protocol[p]
                         \/ protocol'[p] \notin {"finished", "ended"}
                         \/ protocol[p] = "finished" \/ kind # "signing"
           quiet == UNCHANGED <<kind, sigs>> /\ \A p \in Party : counted(p)
<1>1. ASSUME quiet PROVE VotesCounted'
  BY <1>1, Zenon DEF number_of_partial_sigs
<1>2. CASE UNCHANGED vars
  BY <1>1, <1>2, Zenon DEF vars, tasks, setting
<1>3. ASSUME NEW p \in Party,
             \/ \E m \in wire : \/ deliver_message(p, m) \/ Receive(p, m)
                                \/ inbound_signed_message_receiver(p, m)
             \/ outgoing_to_wire(p) \/ OutgoingReceiverEnded(p) \/ drop(p)
      PROVE  quiet
  <2>1. UNCHANGED <<kind, sigs, protocol>>
    BY <1>3, Zenon DEF deliver_message, inbound_signed_message_receiver,
           Receive,
       outgoing_to_wire, OutgoingReceiverEnded, drop, tasks, setting
  <2> QED
    BY <2>1
<1>4. ASSUME NEW p \in Party,
             \/ initialize_protocol(p) \/ start(p) \/ CriticalError(p)
             \/ shutdown(p) \/ protocol_ended(p)
      PROVE  quiet
  BY <1>4, Zenon DEF initialize_protocol, start, CriticalError, shutdown,
     protocol_ended, Ended, setting
<1>5. ASSUME NEW p \in Party, Proceed(p) PROVE quiet
  BY <1>5, Zenon DEF Proceed, on_finish, setting
<1>6. ASSUME NEW p \in Party, NEW m \in wire, ReceiveVote(p, m)
      PROVE  VotesCounted'
  <2> DEFINE new == IF transform(p, m) THEN sigs[p] \cup {m.from} ELSE sigs[p]
             enough == Cardinality(new) = number_of_partial_sigs
  <2>1. /\ protocol[p] = "voting" /\ sigs' = [sigs EXCEPT ![p] = new]
        /\ \E end \in {"finished", "failed"} :
             protocol' = [protocol EXCEPT ![p] = IF enough THEN end ELSE @]
        /\ kind' = kind
    BY <1>6, Zenon DEF ReceiveVote
  <2>2. p \notin new
    BY DEF transform
  <2> HIDE DEF new
  <2>3. ASSUME NEW q \in Party
        PROVE  /\ q \notin sigs'[q]
               /\ kind' = "signing" /\ protocol'[q] \in {"finished", "ended"} =>
                    Cardinality(sigs'[q]) = number_of_partial_sigs
    BY <2>1, <2>2
  <2> QED
    BY <2>3, Zenon DEF number_of_partial_sigs
<1> HIDE DEF RunTypes, VotesCounted, quiet
<1> QED
  BY <1>1, <1>2, <1>3, <1>4, <1>5, <1>6, RunActions
-----------------------------------------------------------------------------
(* Invariants of a run *)

LEMMA InitRun == Init => RunInv
<1> SUFFICES ASSUME Init PROVE RunInv
  OBVIOUS
<1>1. RunTypes
  BY InitTypes
<1>2. GivenOnce
  BY DEF Init, GivenOnce, NoMessages
<1>3. OutboundInv
  BY Zenon DEF Init, OutboundInv, IsDone, Alive
<1>4. SaidOrWaiting
  BY DEF Init, SaidOrWaiting
<1>5. VotesCounted
  BY DEF Init, VotesCounted
<1> QED
  BY <1>1, <1>2, <1>3, <1>4, <1>5 DEF RunInv

\* RunInv is an invariant of the protocols that a node runs.
THEOREM RunInvariance == ModulesSpec => []RunInv
<1>1. ModulesInit => RunInv
  BY InitRun, Zenon DEF ModulesInit
<1>2. RunInv /\ [ModulesNext]_modulesVars => RunInv'
  BY StepOfRun, TypesNext, GivenNext, OutboundNext, SaidNext, VotesNext, Zenon
  DEF RunInv
<1> QED
  BY <1>1, <1>2, PTL DEF ModulesSpec

\* However often the gossip delivers a message, and whatever an earlier run has
\* left in it, handle_incoming of a state machine is called at most once for a
\* message of its run, and never for another.
THEOREM EachHandledOnce == ModulesSpec => []HandledOnce
<1>1. RunInv => HandledOnce
  BY DEF RunInv, GivenOnce, HandledOnce
<1> QED
  BY <1>1, RunInvariance, PTL

\* A run that came to its own end, well or with an error, has gossiped every
\* message of the rounds that its state machine began: at protocol_ended the
\* channel out of the protocol is empty.
THEOREM EndsFlushed == ModulesSpec => []FlushedAtEnd
<1>1. RunInv => FlushedAtEnd
  <2> SUFFICES ASSUME RunInv, NEW p \in Party,
                      protocol[p] \in {"ended", "errored"},
                      NEW r \in 1..Rounds, r <= round[p]
               PROVE  Said(p, r) \in wire
    BY Zenon DEF FlushedAtEnd
  <2>1. Len(outgoing[p]) = 0
    BY DEF RunInv, OutboundInv
  <2> QED
    BY <2>1 DEF RunInv, SaidOrWaiting
<1> QED
  BY <1>1, RunInvariance, PTL

\* A party of a voting stage that ended well has the partial signature of every
\* other member of the signing set: it counts as many as there are others, of
\* distinct senders, and not its own.
LEMMA VotesOfAll ==
  ASSUME RunInv, kind = "signing", NEW p \in Party, protocol[p] = "ended"
  PROVE  sigs[p] = Party \ {p}
<1>1. sigs[p] \subseteq Party \ {p}
  BY Zenon DEF RunInv, RunTypes, VotesCounted
<1>2. IsFiniteSet(Party \ {p}) /\ Cardinality(Party \ {p}) = Cardinality(Party) - 1
  BY RunAssumption, FS_RemoveElement, Zenon
<1>3. Cardinality(sigs[p]) = Cardinality(Party) - 1
  BY Zenon DEF RunInv, VotesCounted, number_of_partial_sigs
<1> QED
  BY <1>1, <1>2, <1>3, FS_Subset, Zenon
-----------------------------------------------------------------------------
(* The keys that a party of a FROST keygen owns *)

\* What the cover of 0..(k - 1) by generate_party_key_ids rests on.
LEMMA TimesMonotonic ==
  ASSUME NEW a \in Int, NEW b \in Int, NEW i \in Nat, a <= b
  PROVE  a * i <= b * i
<1>1. (b - a) * i >= 0
  OBVIOUS
<1>2. (b - a) * i = b * i - a * i
  OBVIOUS
<1>3. a * i \in Int /\ b * i \in Int
  OBVIOUS
<1> QED
  BY <1>1, <1>2, <1>3

\* No two parties own the same key.
LEMMA KeyIdsApart ==
  ASSUME NEW n \in Nat \ {0}, NEW k \in Nat,
         NEW p \in 0..(n - 1), NEW q \in 0..(n - 1), p # q
  PROVE  F!generate_party_key_ids(n, k, p) \cap F!generate_party_key_ids(n, k, q)
           = {}
<1> DEFINE i == k \div n
           ids(x) == (x * i)..((x + 1) * i - 1)
<1>1. i \in Nat
  OBVIOUS
<1> HIDE DEF i
<1>2. ASSUME NEW a \in Nat, NEW b \in Nat, a < b PROVE ids(a) \cap ids(b) = {}
  <2>1. (a + 1) * i <= b * i
    BY <1>1, <1>2, TimesMonotonic
  <2>2. (a + 1) * i \in Int /\ b * i \in Int
    BY <1>1
  <2> QED
    BY <2>1, <2>2
<1>3. ids(p) \cap ids(q) = {}
  <2>1. CASE p < q
    BY <1>2, <2>1
  <2>2. CASE q < p
    BY <1>2, <2>2
  <2> QED
    BY <2>1, <2>2
<1> QED
  BY <1>3, Zenon DEF F!generate_party_key_ids, i

\* If k is a multiple of n, each key is owned by a party.
LEMMA KeyIdsCover ==
  ASSUME NEW n \in Nat \ {0}, NEW k \in Nat, k % n = 0
  PROVE  UNION {F!generate_party_key_ids(n, k, p) : p \in 0..(n - 1)} = 0..(k - 1)
<1> DEFINE i == k \div n
           ids(x) == (x * i)..((x + 1) * i - 1)
<1>1. i \in Nat /\ k = n * i
  OBVIOUS
<1> HIDE DEF i
<1>2. ASSUME NEW p \in 0..(n - 1), NEW x \in ids(p) PROVE x \in 0..(k - 1)
  <2>1. (p + 1) * i <= n * i
    BY <1>1, TimesMonotonic
  <2>2. p * i \in Nat /\ (p + 1) * i \in Nat
    BY <1>1
  <2> QED
    BY <1>1, <2>1, <2>2
<1>3. ASSUME NEW x \in 0..(k - 1) PROVE \E p \in 0..(n - 1) : x \in ids(p)
  <2> DEFINE p == x \div i
  <2>1. i > 0
    BY <1>1
  <2>2. p \in Nat /\ p * i <= x /\ x < (p + 1) * i
    BY <1>1, <2>1
  <2> HIDE DEF p
  <2>3. p < n
    <3>1. SUFFICES ASSUME n <= p PROVE FALSE
      BY <2>2
    <3>2. n * i <= p * i
      BY <1>1, <2>2, <3>1, TimesMonotonic
    <3>3. n * i \in Int /\ p * i \in Int
      BY <1>1, <2>2
    <3> QED
      BY <1>1, <2>2, <3>2, <3>3
  <2>4. (p + 1) * i \in Int /\ p * i \in Int
    BY <1>1, <2>2
  <2>5. p \in 0..(n - 1) /\ x \in ids(p)
    BY <2>2, <2>3, <2>4
  <2> QED
    BY <2>5, Zenon
<1>4. UNION {ids(p) : p \in 0..(n - 1)} = 0..(k - 1)
  <2> HIDE DEF ids
  <2> QED
    BY <1>2, <1>3
<1> QED
  BY <1>4, Zenon DEF F!generate_party_key_ids, i
-----------------------------------------------------------------------------
(* FROST keygens *)

FrostNext ==
  \E p \in F!PartyId :
    \/ F!initialize_keygen_protocol(p) \/ F!initialize_signing_protocol(p)
    \/ F!Step(p)

\* A behaviour of the modules is one of the FROST protocols, with stuttering.
LEMMA StepOfFrost == [ModulesNext]_modulesVars => [FrostNext]_frostVars
  BY DEF ModulesNext, modulesVars, initialize, WTFrost, FrostNext

\* A step of FROST is one of the actions of one party.
LEMMA FrostActions ==
  ASSUME FrostNext
  PROVE  \E p \in F!PartyId :
           \/ F!initialize_keygen_protocol(p) \/ F!initialize_signing_protocol(p)
           \/ \E i \in DOMAIN dkg_wire : F!ReceiveDKG(p, i)
           \/ F!FinishDKG(p)
           \/ \E i \in DOMAIN sign_wire : \/ F!ReceiveSign(p, i)
                                          \/ F!ReceiveSignFinal(p, i)
           \/ F!SendShare(p) \/ F!AggregateShares(p)
  BY Zenon DEF FrostNext, F!Step

\* WTFrost counts with the same Cardinality.
LEMMA FrostCardinality == \A s : F!Cardinality(s) = Cardinality(s)
  BY Zenon DEF F!Cardinality, Cardinality

\* A party that has heard from as many parties as there are has heard from all.
LEMMA EnoughIsAll ==
  frost \in FrostCourses =>
    \A s \in SUBSET F!PartyId : Cardinality(s) >= frost.n => s = F!PartyId
<1> SUFFICES ASSUME frost \in FrostCourses, NEW s \in SUBSET F!PartyId,
                    Cardinality(s) >= frost.n
             PROVE  s = F!PartyId
  OBVIOUS
<1>1. frost.n \in Nat \ {0}
  BY FrostAssumption, Zenon
<1>2. IsFiniteSet(F!PartyId) /\ Cardinality(F!PartyId) = frost.n
  <2>1. 0 \in Int /\ frost.n - 1 \in Int /\ ~(0 > frost.n - 1)
    BY <1>1
  <2>2. /\ IsFiniteSet(0..(frost.n - 1))
        /\ Cardinality(0..(frost.n - 1)) = (frost.n - 1) - 0 + 1
    BY <2>1, FS_Interval, Zenon
  <2>3. (frost.n - 1) - 0 + 1 = frost.n
    BY <1>1
  <2> QED
    BY <2>2, <2>3, Zenon DEF F!PartyId
<1>3. Cardinality(s) \in Nat /\ Cardinality(s) <= frost.n
  BY <1>2, FS_Subset, FS_CardinalityType, Zenon
<1> QED
  BY <1>1, <1>2, <1>3, FS_Subset

LEMMA InitDkg == F!Init => DkgInv
<1> SUFFICES ASSUME F!Init PROVE DkgInv
  OBVIOUS
<1> QED
  BY DEF F!Init, DkgInv

\* A keygen stores its key only when it has a message of every party, whatever
\* order they came in and whichever were repeated.
LEMMA DkgNext == DkgInv /\ [FrostNext]_frostVars => DkgInv'
<1> SUFFICES ASSUME DkgInv, [FrostNext]_frostVars PROVE DkgInv'
  OBVIOUS
<1> DEFINE quiet == UNCHANGED <<frost, dkg, dkg_wire, received_shares, local_key>>
<1>1. ASSUME quiet PROVE DkgInv'
  <2>1. F!PartyId' = F!PartyId /\ DkgMessage' = DkgMessage
    BY <1>1, Zenon DEF F!PartyId, DkgMessage
  <2> QED
    BY <1>1, <2>1, Zenon DEF DkgInv
<1>2. CASE UNCHANGED frostVars
  BY <1>1, <1>2, Zenon DEF frostVars
<1>3. ASSUME NEW p \in F!PartyId,
             \/ F!initialize_signing_protocol(p)
             \/ \E i \in DOMAIN sign_wire : \/ F!ReceiveSign(p, i)
                                            \/ F!ReceiveSignFinal(p, i)
             \/ F!SendShare(p) \/ F!AggregateShares(p)
      PROVE  quiet
  BY <1>3, Zenon DEF F!initialize_signing_protocol, F!ReceiveSign,
     F!ReceiveSignFinal, F!SendShare, F!AggregateShares, F!keygenVars
<1>4. ASSUME NEW p \in F!PartyId, F!initialize_keygen_protocol(p) PROVE DkgInv'
  <2>1. /\ F!PartyId' = F!PartyId /\ DkgMessage' = DkgMessage
        /\ frost' = frost /\ local_key' = local_key
    BY <1>4, Zenon DEF F!initialize_keygen_protocol, F!PartyId, DkgMessage
  <2>2. dkg' \in [F!PartyId -> {"idle", "running", "done", "failed"}]
    BY <1>4, Zenon DEF F!initialize_keygen_protocol, DkgInv
  <2>3. dkg_wire' \in Seq(DkgMessage)
    <3>1. F!DKG(p) \in DkgMessage
      BY Zenon DEF F!DKG, DkgMessage
    <3>2. dkg_wire' = dkg_wire \/ dkg_wire' = Append(dkg_wire, F!DKG(p))
      BY <1>4, Zenon DEF F!initialize_keygen_protocol, F!send_message
    <3> QED
      BY <3>1, <3>2 DEF DkgInv
  <2>4. received_shares' \in [F!PartyId -> SUBSET F!PartyId]
    BY <1>4 DEF F!initialize_keygen_protocol, DkgInv
  <2> QED
    BY <2>1, <2>2, <2>3, <2>4, Zenon DEF DkgInv
<1>5. ASSUME NEW p \in F!PartyId, NEW i \in DOMAIN dkg_wire, F!ReceiveDKG(p, i)
      PROVE  DkgInv'
  <2>1. /\ F!PartyId' = F!PartyId /\ DkgMessage' = DkgMessage
        /\ UNCHANGED <<frost, dkg, dkg_wire, local_key>>
    BY <1>5, Zenon DEF F!ReceiveDKG, F!PartyId, DkgMessage
  <2>2. dkg_wire[i].party_id \in F!PartyId
    <3>1. dkg_wire \in Seq(DkgMessage) /\ i \in 1..Len(dkg_wire)
      BY DEF DkgInv
    <3>2. dkg_wire[i] \in DkgMessage
      BY <3>1, ElementOfSeq, Zenon
    <3> QED
      BY <3>2, Zenon DEF DkgMessage
  <2>3. received_shares' \in [F!PartyId -> SUBSET F!PartyId]
    BY <1>5, <2>2, Zenon DEF F!ReceiveDKG, DkgInv
  <2> QED
    BY <2>1, <2>3, Zenon DEF DkgInv
<1>6. ASSUME NEW p \in F!PartyId, F!FinishDKG(p) PROVE DkgInv'
  <2>1. /\ F!PartyId' = F!PartyId /\ DkgMessage' = DkgMessage
        /\ UNCHANGED <<frost, dkg_wire, received_shares>>
    BY <1>6, Zenon DEF F!FinishDKG, F!PartyId, DkgMessage
  <2>2. received_shares[p] = F!PartyId
    <3>1. received_shares[p] \in SUBSET F!PartyId /\ frost \in FrostCourses
      BY Zenon DEF DkgInv
    <3>2. Cardinality(received_shares[p]) >= frost.n
      BY <1>6, FrostCardinality, Zenon DEF F!FinishDKG, F!EnoughShares
    <3> QED
      BY <3>1, <3>2, EnoughIsAll, Zenon
  <2>3. local_key' = [local_key EXCEPT ![p] =
           [polys |-> F!PartyId,
            key_ids |-> F!generate_party_key_ids(frost.n, frost.k, p)]]
    BY <1>6, <2>2, Zenon DEF F!FinishDKG, F!compute_secret
  <2>4. dkg' \in [F!PartyId -> {"idle", "running", "done", "failed"}]
    BY <1>6, Zenon DEF F!FinishDKG, DkgInv
  <2>5. local_key' = [q \in F!PartyId |-> local_key'[q]]
    BY <2>3, Zenon DEF DkgInv
  <2>6. ASSUME NEW q \in F!PartyId, local_key'[q] # None
        PROVE  local_key'[q] =
                 [polys |-> F!PartyId,
                  key_ids |-> F!generate_party_key_ids(frost.n, frost.k, q)]
    BY <2>3, <2>6, Zenon DEF DkgInv
  <2>7. F!generate_party_key_ids(frost.n, frost.k, p)' =
        F!generate_party_key_ids(frost.n, frost.k, p)
    BY <2>1, Zenon DEF F!generate_party_key_ids
  <2> QED
    BY <2>1, <2>4, <2>5, <2>6, Zenon DEF DkgInv
<1> HIDE DEF quiet
<1> QED
  BY <1>1, <1>2, <1>3, <1>4, <1>5, <1>6, FrostActions, Zenon
-----------------------------------------------------------------------------
(* FROST signings *)

\* What is sent, and noted of what was received, is of the signers.
LEMMA SignTypesNext ==
  DkgInv /\ SignTypes /\ [FrostNext]_frostVars => SignTypes'
<1> SUFFICES ASSUME DkgInv, SignTypes, [FrostNext]_frostVars PROVE SignTypes'
  OBVIOUS
<1> DEFINE States == {"idle", "nonces", "shares", "done", "failed"}
           same == /\ frost' = frost /\ F!PartyId' = F!PartyId
                   /\ SignMessage' = SignMessage
           quiet == /\ frost' = frost
                    /\ UNCHANGED <<signing, sign_wire, party_nonces,
                                   signature_shares, signature>>
<1>1. ASSUME frost' = frost PROVE same
  BY <1>1 DEF F!PartyId, SignMessage
<1>2. ASSUME quiet PROVE SignTypes'
  BY <1>1, <1>2, Zenon DEF SignTypes
<1>3. CASE UNCHANGED frostVars
  BY <1>2, <1>3, Zenon DEF frostVars
<1>4. ASSUME NEW p \in F!PartyId,
             \/ F!initialize_keygen_protocol(p) \/ F!FinishDKG(p)
             \/ \E i \in DOMAIN dkg_wire : F!ReceiveDKG(p, i)
      PROVE  quiet
  BY <1>4, Zenon DEF F!initialize_keygen_protocol, F!FinishDKG, F!ReceiveDKG,
     F!signVars
<1>5. ASSUME NEW i \in DOMAIN sign_wire PROVE sign_wire[i] \in SignMessage
  <2>1. sign_wire \in Seq(SignMessage) /\ i \in 1..Len(sign_wire)
    BY DEF SignTypes
  <2> QED
    BY <2>1, ElementOfSeq, Zenon
<1>6. ASSUME NEW p \in F!PartyId, F!initialize_signing_protocol(p)
      PROVE  SignTypes'
  <2>1. p \in frost.signers /\ same /\ UNCHANGED <<signature_shares, signature>>
    BY <1>1, <1>6, Zenon DEF F!initialize_signing_protocol
  <2>2. /\ \E s \in {"nonces", "failed"} : signing' = [signing EXCEPT ![p] = s]
        /\ \/ party_nonces' = party_nonces
           \/ party_nonces' = [party_nonces EXCEPT ![p] = {p}]
        /\ sign_wire' = sign_wire \/ sign_wire' = Append(sign_wire, F!Sign(p))
    BY <1>6, Zenon DEF F!initialize_signing_protocol, F!send_message
  <2>3. signing' \in [F!PartyId -> States]
    BY <2>2, Zenon DEF SignTypes
  <2>4. party_nonces' \in [F!PartyId -> SUBSET frost.signers]
    BY <2>1, <2>2 DEF SignTypes
  <2>5. sign_wire' \in Seq(SignMessage)
    <3>1. F!Sign(p) \in SignMessage
      BY <2>1 DEF F!Sign, SignMessage
    <3> QED
      BY <2>2, <3>1 DEF SignTypes
  <2>6. \A q \in F!PartyId : signing'[q] # "idle" => q \in frost.signers
    BY <2>1, <2>2, Zenon DEF SignTypes
  <2> QED
    BY <2>1, <2>3, <2>4, <2>5, <2>6, Zenon DEF SignTypes
<1>7. ASSUME NEW p \in F!PartyId, NEW i \in DOMAIN sign_wire,
             F!ReceiveSign(p, i)
      PROVE  SignTypes'
  <2>1. same /\ UNCHANGED <<signing, sign_wire, signature_shares, signature>>
    BY <1>1, <1>7, Zenon DEF F!ReceiveSign
  <2>2. sign_wire[i].party_id \in frost.signers
    BY <1>5, Zenon DEF SignMessage
  <2>3. party_nonces' \in [F!PartyId -> SUBSET frost.signers]
    BY <1>7, <2>2, Zenon DEF F!ReceiveSign, SignTypes
  <2> QED
    BY <2>1, <2>3, Zenon DEF SignTypes
<1>8. ASSUME NEW p \in F!PartyId, F!SendShare(p) PROVE SignTypes'
  <2>1. same /\ UNCHANGED <<party_nonces, signature>>
    BY <1>1, <1>8, Zenon DEF F!SendShare
  <2>2. /\ p \in frost.signers
        /\ signing' = [signing EXCEPT ![p] = "shares"]
        /\ sign_wire' = Append(sign_wire, F!SignFinal(p, party_nonces[p]))
        /\ signature_shares' =
             [signature_shares EXCEPT ![p] = [q \in {p} |-> party_nonces[p]]]
    BY <1>8, Zenon DEF F!SendShare, F!send_message, SignTypes
  <2>3. signing' \in [F!PartyId -> States]
    BY <2>2, Zenon DEF SignTypes
  <2>4. sign_wire' \in Seq(SignMessage)
    <3>1. F!SignFinal(p, party_nonces[p]) \in SignMessage
      BY <2>2, Zenon DEF F!SignFinal, SignMessage, SignTypes
    <3> QED
      BY <2>2, <3>1 DEF SignTypes
  <2>5. /\ signature_shares' = [q \in F!PartyId |-> signature_shares'[q]]
        /\ \A q \in F!PartyId : /\ DOMAIN signature_shares'[q] \subseteq frost.signers
                                /\ signing'[q] # "idle" => q \in frost.signers
    BY <2>2, Zenon DEF SignTypes
  <2> QED
    BY <2>1, <2>3, <2>4, <2>5, Zenon DEF SignTypes
<1>9. ASSUME NEW p \in F!PartyId, NEW i \in DOMAIN sign_wire,
             F!ReceiveSignFinal(p, i)
      PROVE  SignTypes'
  <2>1. same /\ UNCHANGED <<signing, sign_wire, party_nonces, signature>>
    BY <1>1, <1>9 DEF F!ReceiveSignFinal
  <2>2. sign_wire[i].party_id \in frost.signers
    BY <1>5 DEF SignMessage
  <2>3. /\ signature_shares' = [q \in F!PartyId |-> signature_shares'[q]]
        /\ \A q \in F!PartyId : DOMAIN signature_shares'[q] \subseteq frost.signers
    BY <1>9, <2>2, Zenon DEF F!ReceiveSignFinal, SignTypes
  <2> QED
    BY <2>1, <2>3, Zenon DEF SignTypes
<1>10. ASSUME NEW p \in F!PartyId, F!AggregateShares(p) PROVE SignTypes'
  <2>1. same /\ UNCHANGED <<sign_wire, party_nonces, signature_shares>>
    BY <1>1, <1>10, Zenon DEF F!AggregateShares
  <2>2. signing[p] = "shares"
    BY <1>10, Zenon DEF F!AggregateShares
  <2>3. /\ signing' \in [F!PartyId -> States]
        /\ signature' = [q \in F!PartyId |-> signature'[q]]
        /\ \A q \in F!PartyId : signing'[q] # "idle" => q \in frost.signers
    BY <1>10, <2>2, Zenon DEF F!AggregateShares, SignTypes
  <2> QED
    BY <2>1, <2>3, Zenon DEF SignTypes
<1> HIDE DEF quiet
<1> QED
  BY <1>2, <1>3, <1>4, <1>6, <1>7, <1>8, <1>9, <1>10, FrostActions

\* As many signers as the threshold are all of them, if it is their number.
LEMMA ThresholdIsAll ==
  frost \in FrostCourses /\ AllOf =>
    \A s \in SUBSET frost.signers :
      Cardinality(s) >= frost.threshold => s = frost.signers
<1> SUFFICES ASSUME frost \in FrostCourses, AllOf, NEW s \in SUBSET frost.signers,
                    Cardinality(s) >= frost.threshold
             PROVE  s = frost.signers
  OBVIOUS
<1>1. /\ frost.n \in Nat \ {0} /\ frost.threshold \in Nat
      /\ frost.signers \in SUBSET (0..(frost.n - 1))
  BY FrostAssumption, Zenon
<1>2. IsFiniteSet(frost.signers)
  <2>1. 0 \in Int /\ frost.n - 1 \in Int
    BY <1>1
  <2>2. IsFiniteSet(0..(frost.n - 1))
    BY <2>1, FS_Interval, Zenon
  <2> QED
    BY <1>1, <2>2, FS_Subset, Zenon
<1>3. Cardinality(s) \in Nat /\ Cardinality(s) <= frost.threshold
  BY <1>2, FS_Subset, FS_CardinalityType, Zenon DEF AllOf
<1>4. Cardinality(s) = Cardinality(frost.signers)
  BY <1>1, <1>3 DEF AllOf
<1> QED
  BY <1>2, <1>4, FS_Subset, Zenon

\* A party stops waiting for nonces, and later for shares, when it has those of
\* all signers; so all shares are made over the same nonces, and aggregate.
LEMMA OverAllNext ==
  DkgInv /\ SignTypes /\ AllOf /\ OverAll /\ FailsKeyless /\ [FrostNext]_frostVars
    => OverAll' /\ FailsKeyless'
<1> SUFFICES ASSUME DkgInv, SignTypes, AllOf, OverAll, FailsKeyless,
                    [FrostNext]_frostVars
             PROVE  OverAll' /\ FailsKeyless'
  OBVIOUS
<1> DEFINE same == frost' = frost /\ F!PartyId' = F!PartyId
           over == /\ frost' = frost
                   /\ UNCHANGED <<signing, sign_wire, party_nonces,
                                  signature_shares, signature>>
           keys == UNCHANGED <<dkg, local_key>>
<1>1. ASSUME frost' = frost PROVE same
  BY <1>1, Zenon DEF F!PartyId
<1>2. ASSUME over PROVE OverAll'
  BY <1>1, <1>2, Zenon DEF OverAll
<1>3. ASSUME over, keys PROVE FailsKeyless'
  BY <1>1, <1>3, Zenon DEF FailsKeyless
<1>4. CASE UNCHANGED frostVars
  BY <1>2, <1>3, <1>4, Zenon DEF frostVars
<1>5. ASSUME NEW p \in F!PartyId,
             \/ F!initialize_keygen_protocol(p) \/ F!FinishDKG(p)
             \/ \E i \in DOMAIN dkg_wire : F!ReceiveDKG(p, i)
      PROVE  OverAll' /\ FailsKeyless'
  <2>1. over
    BY <1>5, Zenon DEF F!initialize_keygen_protocol, F!FinishDKG, F!ReceiveDKG,
       F!signVars
  <2>2. \/ keys
        \/ /\ dkg[p] \notin {"done", "failed"}
           /\ \A q \in F!PartyId \ {p} : dkg'[q] = dkg[q] /\ local_key'[q] = local_key[q]
    BY <1>5, Zenon DEF F!initialize_keygen_protocol, F!FinishDKG, F!ReceiveDKG,
           DkgInv
  <2>3. FailsKeyless'
    BY <1>1, <2>1, <2>2, Zenon DEF FailsKeyless
  <2> QED
    BY <1>2, <2>1, <2>3, Zenon
<1>6. ASSUME NEW p \in F!PartyId, F!initialize_signing_protocol(p)
      PROVE  OverAll' /\ FailsKeyless'
  <2>1. same /\ keys /\ UNCHANGED <<signature_shares, signature>>
    BY <1>1, <1>6, Zenon DEF F!initialize_signing_protocol, F!keygenVars
  <2>2. /\ signing[p] = "idle"
        /\ \/ /\ local_key[p] = None /\ dkg[p] \in {"done", "failed"}
              /\ signing' = [signing EXCEPT ![p] = "failed"]
              /\ UNCHANGED <<sign_wire, party_nonces>>
           \/ /\ signing' = [signing EXCEPT ![p] = "nonces"]
              /\ sign_wire' = Append(sign_wire, F!Sign(p))
              /\ party_nonces' = [party_nonces EXCEPT ![p] = {p}]
    BY <1>6, Zenon DEF F!initialize_signing_protocol, F!send_message
  <2>3. FailsKeyless'
    BY <2>1, <2>2, Zenon DEF FailsKeyless, SignTypes
  <2>4. ASSUME NEW i \in 1..Len(sign_wire'), sign_wire'[i].is = "SignFinal"
        PROVE  sign_wire'[i].over = frost.signers
    <3>1. F!Sign(p).is = "Sign" /\ sign_wire \in Seq(SignMessage)
      BY Zenon DEF F!Sign, SignTypes
    <3>2. i \in 1..Len(sign_wire) /\ sign_wire'[i] = sign_wire[i]
      BY <2>2, <2>4, <3>1, AppendProperties
    <3> QED
      BY <2>4, <3>2, Zenon DEF OverAll
  <2>5. \A q \in F!PartyId :
          signing'[q] = "shares" => party_nonces'[q] = frost.signers
    BY <2>2 DEF OverAll, SignTypes
  <2> QED
    BY <2>1, <2>3, <2>4, <2>5, Zenon DEF OverAll
<1>7. ASSUME NEW p \in F!PartyId, NEW i \in DOMAIN sign_wire, F!ReceiveSign(p, i)
      PROVE  OverAll' /\ FailsKeyless'
  <2>1. /\ same /\ keys
        /\ UNCHANGED <<signing, sign_wire, signature_shares, signature>>
    BY <1>1, <1>7, Zenon DEF F!ReceiveSign, F!keygenVars
  <2>2. /\ signing[p] = "nonces"
        /\ \A q \in F!PartyId \ {p} : party_nonces'[q] = party_nonces[q]
    BY <1>7, Zenon DEF F!ReceiveSign, SignTypes
  <2>3. \A q \in F!PartyId :
          signing'[q] = "shares" => party_nonces'[q] = frost.signers
    BY <2>1, <2>2, Zenon DEF OverAll
  <2>4. FailsKeyless'
    BY <2>1, Zenon DEF FailsKeyless
  <2> QED
    BY <2>1, <2>3, <2>4, Zenon DEF OverAll
<1>8. ASSUME NEW p \in F!PartyId, F!SendShare(p) PROVE OverAll' /\ FailsKeyless'
  <2>1. same /\ keys /\ UNCHANGED <<party_nonces, signature>>
    BY <1>1, <1>8, Zenon DEF F!SendShare, F!keygenVars
  <2>2. party_nonces[p] = frost.signers
    <3>1. Cardinality(party_nonces[p]) >= frost.threshold
      BY <1>8, FrostCardinality, Zenon DEF F!SendShare, F!EnoughNonces
    <3>2. party_nonces[p] \in SUBSET frost.signers /\ frost \in FrostCourses
      BY Zenon DEF SignTypes, DkgInv
    <3> QED
      BY <3>1, <3>2, ThresholdIsAll, Zenon
  <2>3. /\ signing' = [signing EXCEPT ![p] = "shares"]
        /\ sign_wire' = Append(sign_wire, F!SignFinal(p, frost.signers))
        /\ signature_shares' =
             [signature_shares EXCEPT ![p] = [q \in {p} |-> frost.signers]]
    BY <1>8, <2>2, Zenon DEF F!SendShare, F!send_message
  <2>4. FailsKeyless'
    BY <2>1, <2>3, Zenon DEF FailsKeyless, SignTypes
  <2>5. ASSUME NEW i \in 1..Len(sign_wire'), sign_wire'[i].is = "SignFinal"
        PROVE  sign_wire'[i].over = frost.signers
    <3>1. /\ F!SignFinal(p, frost.signers).over = frost.signers
          /\ sign_wire \in Seq(SignMessage)
      BY Zenon DEF F!SignFinal, SignTypes
    <3>2. \/ sign_wire'[i] = F!SignFinal(p, frost.signers)
          \/ i \in 1..Len(sign_wire) /\ sign_wire'[i] = sign_wire[i]
      BY <2>3, <3>1, AppendProperties
    <3> QED
      BY <2>5, <3>1, <3>2, Zenon DEF OverAll
  <2>6. ASSUME NEW q \in F!PartyId
        PROVE  /\ signing'[q] = "shares" => party_nonces'[q] = frost.signers
               /\ \A x \in DOMAIN signature_shares'[q] :
                    signature_shares'[q][x] = frost.signers
    BY <2>1, <2>2, <2>3, Zenon DEF OverAll, SignTypes
  <2> QED
    BY <2>1, <2>4, <2>5, <2>6, Zenon DEF OverAll
<1>9. ASSUME NEW p \in F!PartyId, NEW i \in DOMAIN sign_wire,
             F!ReceiveSignFinal(p, i)
      PROVE  OverAll' /\ FailsKeyless'
  <2>1. /\ same /\ keys
        /\ UNCHANGED <<signing, sign_wire, party_nonces, signature>>
    BY <1>1, <1>9, Zenon DEF F!ReceiveSignFinal, F!keygenVars
  <2>2. sign_wire[i].is = "SignFinal" => sign_wire[i].over = frost.signers
    BY DEF OverAll, SignTypes
  <2>3. ASSUME NEW q \in F!PartyId, NEW x \in DOMAIN signature_shares'[q]
        PROVE  signature_shares'[q][x] = frost.signers
    BY <1>9, <2>2, <2>3, Zenon DEF F!ReceiveSignFinal, OverAll, SignTypes
  <2>4. FailsKeyless'
    BY <2>1, Zenon DEF FailsKeyless
  <2> QED
    BY <2>1, <2>3, <2>4, Zenon DEF OverAll
<1>10. ASSUME NEW p \in F!PartyId, F!AggregateShares(p)
       PROVE  OverAll' /\ FailsKeyless'
  <2>1. same /\ keys /\ UNCHANGED <<sign_wire, party_nonces, signature_shares>>
    BY <1>1, <1>10, Zenon DEF F!AggregateShares, F!keygenVars
  <2>2. signing[p] = "shares" /\ party_nonces[p] = frost.signers
    BY <1>10, Zenon DEF F!AggregateShares, OverAll
  <2>3. DOMAIN signature_shares[p] = frost.signers
    <3>1. Cardinality(DOMAIN signature_shares[p]) >= frost.threshold
      BY <1>10, FrostCardinality, Zenon DEF F!AggregateShares,
             F!EnoughSignatureShares
    <3>2. /\ DOMAIN signature_shares[p] \in SUBSET frost.signers
          /\ frost \in FrostCourses
      BY Zenon DEF SignTypes, DkgInv
    <3> QED
      BY <3>1, <3>2, ThresholdIsAll, Zenon
  <2>4. F!Aggregates(p)
    BY <2>2, <2>3, Zenon DEF F!Aggregates, OverAll
  <2>5. /\ signing' = [signing EXCEPT ![p] = "done"]
        /\ signature' = [signature EXCEPT ![p] = frost.signers]
    BY <1>10, <2>2, <2>4, Zenon DEF F!AggregateShares
  <2>6. FailsKeyless'
    BY <2>1, <2>5, Zenon DEF FailsKeyless, SignTypes
  <2>7. ASSUME NEW q \in F!PartyId
        PROVE  /\ signing'[q] = "shares" => party_nonces'[q] = frost.signers
               /\ signature'[q] \in {None, frost.signers}
    BY <2>1, <2>5, Zenon DEF OverAll, SignTypes
  <2> QED
    BY <2>1, <2>6, <2>7, Zenon DEF OverAll
<1> HIDE DEF over, keys
<1> QED
  BY <1>4, <1>5, <1>6, <1>7, <1>8, <1>9, <1>10, FrostActions, Zenon

LEMMA InitSign == F!Init => SignInv
<1> SUFFICES ASSUME F!Init PROVE SignInv
  OBVIOUS
<1>1. SignTypes
  <2>1. << >> \in Seq(SignMessage)
    OBVIOUS
  <2> QED
    BY <2>1 DEF F!Init, SignTypes
<1>2. OverAll /\ FailsKeyless
  BY DEF F!Init, OverAll, FailsKeyless
<1> QED
  BY <1>1, <1>2, Zenon DEF SignInv
-----------------------------------------------------------------------------
(* Invariants of FROST *)

\* DkgInv and SignInv are invariants of the protocols that a node runs.
THEOREM FrostInvariance == ModulesSpec => [](DkgInv /\ SignInv)
<1>1. ModulesInit => DkgInv /\ SignInv
  BY InitDkg, InitSign, Zenon DEF ModulesInit
<1>2. DkgInv /\ SignInv /\ [ModulesNext]_modulesVars => DkgInv' /\ SignInv'
  <2> SUFFICES ASSUME DkgInv, SignInv, [FrostNext]_frostVars
               PROVE  DkgInv' /\ SignInv'
    BY StepOfFrost, Zenon
  <2>1. DkgInv' /\ SignTypes'
    BY DkgNext, SignTypesNext, Zenon DEF SignInv
  <2>2. frost' = frost
    BY Zenon DEF frostVars, FrostNext, F!Step, F!initialize_keygen_protocol,
       F!initialize_signing_protocol, F!ReceiveDKG, F!FinishDKG, F!ReceiveSign,
       F!ReceiveSignFinal, F!SendShare, F!AggregateShares
  <2>3. AllOf' => OverAll' /\ FailsKeyless'
    <3>1. AllOf' <=> AllOf
      BY <2>2 DEF AllOf
    <3> QED
      BY <3>1, OverAllNext DEF SignInv
  <2> QED
    BY <2>1, <2>3, Zenon DEF SignInv
<1> QED
  BY <1>1, <1>2, PTL DEF ModulesSpec

\* All parties that finish a FROST keygen hold the commitments of all parties, in
\* whatever order run_dkg receives them; no two own the same key, and together
\* they own all keys if each is to own the same number: for any number of parties
\* and keys.
THEOREM KeysAgree == ModulesSpec => []KeyAgrees
<1>1. DkgInv => KeyAgrees
  <2> SUFFICES ASSUME DkgInv PROVE F!KeyAgrees
    BY Zenon DEF KeyAgrees
  <2> DEFINE done == {p \in F!PartyId : local_key[p] # None}
             ids(p) == F!generate_party_key_ids(frost.n, frost.k, p)
  <2>1. frost.n \in Nat \ {0} /\ frost.k \in Nat
    BY FrostAssumption, Zenon DEF DkgInv
  <2>2. ASSUME NEW p \in done
        PROVE  local_key[p].polys = F!PartyId /\ local_key[p].key_ids = ids(p)
    BY DEF DkgInv
  <2>3. ASSUME NEW p \in done, NEW q \in done, p # q
        PROVE  local_key[p].key_ids \cap local_key[q].key_ids = {}
    <3>1. p \in 0..(frost.n - 1) /\ q \in 0..(frost.n - 1)
      BY Zenon DEF F!PartyId
    <3>2. ids(p) \cap ids(q) = {}
      BY <2>1, <2>3, <3>1, KeyIdsApart, Zenon
    <3> QED
      BY <2>2, <3>2, Zenon
  <2>4. ASSUME done = F!PartyId, frost.k % frost.n = 0
        PROVE  UNION {local_key[p].key_ids : p \in done} = 0..(frost.k - 1)
    <3> HIDE DEF ids
    <3>1. {local_key[p].key_ids : p \in done} = {ids(p) : p \in F!PartyId}
      BY <2>2, <2>4
    <3>2. UNION {ids(p) : p \in F!PartyId} = 0..(frost.k - 1)
      BY <2>1, <2>4, KeyIdsCover, Zenon DEF F!PartyId, ids
    <3> QED
      BY <3>1, <3>2, Zenon
  <2> QED
    BY <2>2, <2>3, <2>4 DEF F!KeyAgrees
<1> QED
  BY <1>1, FrostInvariance, PTL

\* A signature is by all participants.  In FROST, if the threshold is their
\* number, every signature is over the nonces of all signers and a party with a
\* key never fails to aggregate; in MpEcdsa, a voting stage that ends well has
\* the partial signature of every other party.
THEOREM SignedByAll == ModulesSpec => []SignatureByAll
<1>1. DkgInv /\ SignInv /\ RunInv => SignatureByAll
  <2> SUFFICES ASSUME DkgInv, SignInv, RunInv PROVE SignatureByAll
    OBVIOUS
  <2>1. F!SignatureByAll
    <3> SUFFICES ASSUME AllOf, NEW p \in frost.signers
                 PROVE  /\ signature[p] \in {None, frost.signers}
                        /\ signing[p] = "failed" => local_key[p] = None
      BY FrostCardinality DEF F!SignatureByAll, AllOf
    <3>1. p \in F!PartyId
      BY FrostAssumption DEF DkgInv, F!PartyId
    <3> QED
      BY <3>1, Zenon DEF SignInv, OverAll, FailsKeyless
  <2> QED
    BY <2>1, VotesOfAll DEF SignatureByAll
<1> QED
  BY <1>1, FrostInvariance, RunInvariance, PTL
=============================================================================

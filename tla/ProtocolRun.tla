---------------------------- MODULE ProtocolRun ----------------------------
(***************************************************************************)
(* One run of a round protocol at its parties (dkg-gadget/src/             *)
(* async_protocols: new_inner, incoming.rs, state_machine_wrapper.rs), set *)
(* up by dkg_modules/mp_ecdsa.rs.  A run is set up with its handle, waits  *)
(* for the start signal, and then has three tasks at each party: the       *)
(* inbound one filters what the gossip delivers, the protocol itself       *)
(* drives the wrapped state machine, and the outbound one signs what the   *)
(* state machine has to say and hands it to the gossip.  They meet in      *)
(* channels and in the status of the handle.  The run is a keygen, or a    *)
(* signing: there the rounds are the offline stage, and the protocol goes  *)
(* on to the voting stage (ecdsa/sign), where each party broadcasts its    *)
(* partial signature and collects those of the others.                     *)
(*                                                                         *)
(* The state machine inside (multi-party-ecdsa, round-based) is external:  *)
(* in each round it broadcasts one message, keeps the messages it is given *)
(* for this and for later rounds, and proceeds once it has the ones of all *)
(* others.  The gossip delivers in any order and more than once; channels  *)
(* are bags.                                                               *)
(***************************************************************************)
EXTENDS Integers, FiniteSets, Sequences

CONSTANTS
  Party,
  Rounds,       \* rounds of the protocol
  Failing,      \* parties whose state machine may meet a critical error
  Stoppable,    \* parties whose run may be shut down as stalled
  EarlierFrom,  \* parties of an earlier run whose messages still go around
  Kinds,        \* "keygen", "signing"
  Gossips       \* bounds: kind -> functions from party and sender to the
                \* number of deliveries of one message

ASSUME RunAssumption ==
  /\ IsFiniteSet(Party)
  /\ Rounds \in Nat \ {0}
  /\ Failing \subseteq Party /\ Stoppable \subseteq Party
  /\ EarlierFrom \subseteq Party
  /\ Kinds \subseteq {"keygen", "signing"}
  /\ \A k \in Kinds : Gossips[k] \subseteq [Party -> [Party -> Nat]]

VARIABLES
  status,             \* party -> MetaHandlerStatus of its handle
  protocol,           \* party -> state of the protocol task
  inbound, outbound,  \* party -> whether the task runs
  kind, copies,       \* the run and the gossip of this behaviour
  wire,               \* messages that were gossiped
  delivered,          \* party -> message -> deliveries so far
  rx,                 \* party -> the channels rx_keygen_signing and, for the
                      \* votes, rx_voting
  incoming,           \* party -> the channel into the protocol
  outgoing,           \* party -> the channel out of it, in order
  round,              \* party -> current_round of the state machine
  store,              \* party -> messages that the state machine was given
  received_messages,  \* party -> messages noted by the wrapper
  round_blame,        \* party -> blamed_parties of CurrentRoundBlame
  sigs,               \* party -> parties whose partial signature it has
  handled             \* history: party -> message -> sm.handle_incoming calls

tasks == <<protocol, inbound, outbound>>
machine == <<round, store, received_messages, round_blame, handled>>
setting == <<kind, copies, delivered, sigs>>
vars == <<status, tasks, setting, wire, rx, incoming, outgoing, machine>>

\* The run that a message is of stands for its stage, session and associated
\* block; the gossip still has messages of an earlier run.
Message == [from : Party, round : 1..(Rounds + 1), run : {"this", "earlier"}]
Said(p, r) == [from |-> p, round |-> r, run |-> "this"]

\* The vote of a party, which comes after its rounds.
Vote(p) == Said(p, Rounds + 1)
IsVote(m) == m.round = Rounds + 1

Earlier ==
  {[from |-> p, round |-> IF kind = "keygen" THEN 1 ELSE Rounds + 1,
    run |-> "earlier"] : p \in EarlierFrom}

NoMessages == [m \in Message |-> 0]
Put(bag, m) == [bag EXCEPT ![m] = @ + 1]
Take(bag, m) == [bag EXCEPT ![m] = @ - 1]

Init ==
  /\ status = [p \in Party |-> "Beginning"]
  /\ protocol = [p \in Party |-> "idle"]
  /\ inbound = [p \in Party |-> FALSE]
  /\ outbound = [p \in Party |-> FALSE]
  /\ kind \in Kinds
  /\ copies \in Gossips[kind]
  /\ wire = Earlier
  /\ delivered = [p \in Party |-> NoMessages]
  /\ rx = [p \in Party |-> NoMessages]
  /\ incoming = [p \in Party |-> NoMessages]
  /\ outgoing = [p \in Party |-> << >>]
  /\ round = [p \in Party |-> 0]
  /\ store = [p \in Party |-> {}]
  /\ received_messages = [p \in Party |-> {}]
  /\ round_blame = [p \in Party |-> {}]
  /\ sigs = [p \in Party |-> {}]
  /\ handled = [p \in Party |-> NoMessages]

\* The protocol holds its channels until the voting stage is over.
Alive(p) == protocol[p] \in {"running", "voting"}

IsDone(p) == status[p] \in {"Complete", "Terminated"}
-----------------------------------------------------------------------------
(* Set-up and start *)

\* The handle is made, with its channels, and the protocol is spawned.
initialize_protocol(p) ==
  /\ protocol[p] = "idle"
  /\ protocol' = [protocol EXCEPT ![p] = "waiting"]
  /\ UNCHANGED <<status, inbound, outbound, wire, setting, rx, incoming,
                 outgoing, machine>>

\* The start signal: the status becomes Keygen (or OfflineAndVoting), the state
\* machine is wrapped, and new_inner spawns the other two tasks.
start(p) ==
  /\ protocol[p] = "waiting"
  /\ status' = [status EXCEPT ![p] = "Running"]
  /\ protocol' = [protocol EXCEPT ![p] = "running"]
  /\ inbound' = [inbound EXCEPT ![p] = TRUE]
  /\ outbound' = [outbound EXCEPT ![p] = TRUE]
  /\ UNCHANGED <<wire, setting, rx, incoming, outgoing, machine>>
-----------------------------------------------------------------------------
(* The handle and the inbound task *)

\* deliver_message: a handle that is done takes no more messages.  A vote waits
\* in a channel of its own for the voting stage.
deliver_message(p, m) ==
  /\ m \in wire
  /\ delivered[p][m] < copies[p][m.from]
  /\ protocol[p] # "idle" /\ ~IsDone(p)
  /\ delivered' = [delivered EXCEPT ![p] = Put(@, m)]
  /\ rx' = [rx EXCEPT ![p] = Put(@, m)]
  /\ UNCHANGED <<status, tasks, kind, copies, sigs, wire, incoming, outgoing, machine>>

\* transform: not of another run, not one's own.
transform(p, m) == m.from # p /\ m.run = "this"

\* The task forwards a message to the protocol, if that still listens, and only
\* then looks whether the run is done.
inbound_signed_message_receiver(p, m) ==
  /\ inbound[p] /\ rx[p][m] > 0 /\ ~IsVote(m)
  /\ rx' = [rx EXCEPT ![p] = Take(@, m)]
  /\ incoming' = IF transform(p, m) /\ Alive(p)
                 THEN [incoming EXCEPT ![p] = Put(@, m)] ELSE incoming
  /\ inbound' = [inbound EXCEPT ![p] = ~IsDone(p)]
  /\ UNCHANGED <<status, protocol, outbound, wire, setting, outgoing,
                 machine>>
-----------------------------------------------------------------------------
(* The protocol task *)

Missing(p, r, messages) == {q \in Party \ {p} : Said(q, r) \notin messages}

\* Mutant: messages of the current round are outdated, too.
OutdatedUpToNow(p, m) == m.round <= round[p]
Outdated(p, m) == m.round < round[p]

\* Mutant: received messages are not looked up.
NotNoted(p, m) ==
  IF Outdated(p, m)
  THEN UNCHANGED machine
  ELSE /\ store' = [store EXCEPT ![p] = @ \cup {m}]
       /\ handled' = [handled EXCEPT ![p] = Put(@, m)]
       /\ round_blame' =
            [round_blame EXCEPT ![p] = Missing(p, round[p], store'[p])]
       /\ UNCHANGED <<round, received_messages>>

\* handle_incoming of the wrapper: what is outdated or was received before is
\* ignored; anything else is noted, then handled, and the blame is updated.
handle_incoming(p, m) ==
  IF Outdated(p, m) \/ m \in received_messages[p]
  THEN UNCHANGED machine
  ELSE /\ received_messages' = [received_messages EXCEPT ![p] = @ \cup {m}]
       /\ store' = [store EXCEPT ![p] = @ \cup {m}]
       /\ handled' = [handled EXCEPT ![p] = Put(@, m)]
       /\ round_blame' =
            [round_blame EXCEPT ![p] = Missing(p, round[p], store'[p])]
       /\ UNCHANGED round

Receive(p, m) ==
  /\ protocol[p] = "running" /\ incoming[p][m] > 0
  /\ incoming' = [incoming EXCEPT ![p] = Take(@, m)]
  /\ handle_incoming(p, m)
  /\ UNCHANGED <<status, tasks, wire, setting, rx, outgoing>>

CanProceed(p) ==
  /\ protocol[p] = "running" /\ round[p] <= Rounds
  /\ round[p] = 0 \/ Missing(p, round[p], store[p]) = {}

\* proceed of the wrapper, which updates the blame for the new round.
proceed(p) ==
  /\ round' = [round EXCEPT ![p] = @ + 1]
  /\ round_blame' = [round_blame EXCEPT ![p] =
                       IF round[p] = Rounds THEN {}
                       ELSE Missing(p, round[p] + 1, store[p])]
  /\ UNCHANGED <<store, received_messages, handled>>

\* on_finish, and the end of new_inner's loop: the channel out of the protocol is
\* closed and the inbound task is aborted.  That of an offline stage starts the
\* voting stage instead: new_voting gossips the vote past the outbound task, and
\* the channels stay.
on_finish(p) ==
  IF kind = "signing"
  THEN /\ protocol' = [protocol EXCEPT ![p] = "voting"]
       /\ wire' = wire \cup {Vote(p)}
       /\ UNCHANGED inbound
  ELSE /\ protocol' = [protocol EXCEPT ![p] = "finished"]
       /\ inbound' = [inbound EXCEPT ![p] = FALSE]
       /\ UNCHANGED wire

\* The state machine proceeds, and speaks or is finished.
Proceed(p) ==
  /\ CanProceed(p)
  /\ proceed(p)
  /\ IF round[p] = Rounds
     THEN on_finish(p) /\ UNCHANGED outgoing
     ELSE /\ outgoing' = [outgoing EXCEPT ![p] = Append(@, round[p] + 1)]
          /\ UNCHANGED <<protocol, inbound, wire>>
  /\ UNCHANGED <<status, outbound, setting, rx, incoming>>

\* A critical error ends the loop; others leave it running.
CriticalError(p) ==
  /\ p \in Failing /\ CanProceed(p) /\ round[p] > 0
  /\ protocol' = [protocol EXCEPT ![p] = "failed"]
  /\ inbound' = [inbound EXCEPT ![p] = FALSE]
  /\ UNCHANGED <<status, outbound, wire, setting, rx, incoming, outgoing,
                 machine>>
-----------------------------------------------------------------------------
(* The voting stage *)

\* "we only need a threshold count of sigs": the signing set has one member more.
number_of_partial_sigs == Cardinality(Party) - 1

\* The loop of new_voting: a message that transform drops, or a second one of its
\* sender, is skipped.  The last one ends the stage: the signature is completed,
\* verified and stored, or there is an error.
ReceiveVote(p, m) ==
  LET new == IF transform(p, m) THEN sigs[p] \cup {m.from} ELSE sigs[p]
      enough == Cardinality(new) = number_of_partial_sigs
  IN  /\ protocol[p] = "voting" /\ IsVote(m) /\ rx[p][m] > 0
      /\ rx' = [rx EXCEPT ![p] = Take(@, m)]
      /\ sigs' = [sigs EXCEPT ![p] = new]
      /\ \E end \in {"finished"} \cup IF p \in Failing THEN {"failed"} ELSE {} :
           protocol' = [protocol EXCEPT ![p] = IF enough THEN end ELSE @]
      /\ inbound' = [inbound EXCEPT ![p] = @ /\ ~enough]
      /\ UNCHANGED <<status, outbound, kind, copies, delivered, wire, incoming,
                     outgoing, machine>>
-----------------------------------------------------------------------------
(* The outbound task and the end of a run *)

\* A message goes to the gossip; then the task ends if the run is done.
outgoing_to_wire(p) ==
  /\ outbound[p] /\ outgoing[p] # << >>
  /\ wire' = wire \cup {Said(p, Head(outgoing[p]))}
  /\ outgoing' = [outgoing EXCEPT ![p] = Tail(@)]
  /\ outbound' = [outbound EXCEPT ![p] = ~IsDone(p)]
  /\ UNCHANGED <<status, protocol, inbound, setting, rx, incoming, machine>>

\* The channel is empty and its sender is gone with the protocol.
OutgoingReceiverEnded(p) ==
  /\ outbound[p] /\ outgoing[p] = << >> /\ ~Alive(p)
  /\ outbound' = [outbound EXCEPT ![p] = FALSE]
  /\ UNCHANGED <<status, protocol, inbound, wire, setting, rx, incoming,
                 outgoing, machine>>

\* The status is set by a signing that ends, with whatever result; an error of a
\* keygen leaves it as it is.
Ended(p) ==
  /\ protocol' = [protocol EXCEPT ![p] =
                    IF @ = "finished" THEN "ended" ELSE "errored"]
  /\ status' = [status EXCEPT ![p] =
                  IF protocol[p] = "finished" \/ kind = "signing"
                  THEN "Complete" ELSE @]

\* Mutant: nobody waits for the outbound task.
NotAwaited(p) ==
  /\ protocol[p] \in {"finished", "failed"}
  /\ Ended(p)
  /\ UNCHANGED <<inbound, outbound, wire, setting, rx, incoming, outgoing,
                 machine>>

\* The handler waits for the outbound task, then the status is set.
protocol_ended(p) ==
  /\ protocol[p] \in {"finished", "failed"} /\ ~outbound[p]
  /\ Ended(p)
  /\ UNCHANGED <<inbound, outbound, wire, setting, rx, incoming, outgoing,
                 machine>>

\* The stop signal wins the select of the handler: the protocol future is
\* dropped where it stands.  Dropping the handle of a spawned task detaches it.
shutdown(p) ==
  /\ p \in Stoppable
  /\ protocol[p] \notin {"idle", "ended", "errored", "stopped"}
  /\ protocol' = [protocol EXCEPT ![p] = "stopped"]
  /\ UNCHANGED <<status, inbound, outbound, wire, setting, rx, incoming,
                 outgoing, machine>>

\* The work manager drops the primary handle of a job that is over.
drop(p) ==
  /\ protocol[p] \in {"errored", "stopped"} /\ ~IsDone(p)
  /\ status' = [status EXCEPT ![p] = "Terminated"]
  /\ UNCHANGED <<tasks, wire, setting, rx, incoming, outgoing, machine>>

\* What the executor, the gossip and the work manager do for a run of p that goes
\* on.  There is a last such step, as each message is sent and handled once.
Progress(p) ==
  \/ \E m \in wire : \/ delivered[p][m] = 0 /\ deliver_message(p, m)
                     \/ inbound_signed_message_receiver(p, m)
                     \/ Receive(p, m) \/ ReceiveVote(p, m)
  \/ start(p) \/ Proceed(p) \/ CriticalError(p)
  \/ outgoing_to_wire(p) \/ OutgoingReceiverEnded(p)
  \/ protocol_ended(p) \/ drop(p)

Step(p) ==
  \/ Progress(p)
  \/ \E m \in wire : deliver_message(p, m)
  \/ shutdown(p)

Next == \E p \in Party : initialize_protocol(p) \/ Step(p)

-----------------------------------------------------------------------------
(* Properties *)

\* "make sure that we haven't already received the same message (... we don't
\* want to process the same message twice)" (handle_incoming): however often the
\* gossip delivers a message, a state machine is given it at most once, and
\* never one of another run.
HandledOnce ==
  \A p \in Party, m \in Message :
    handled[p][m] <= IF m.run = "this" THEN 1 ELSE 0

\* "after flushing the messages to the network" (new_inner): a run that came to
\* its own end has gossiped all that its state machine had to say, though its
\* outbound task breaks off once the handle is done; the others need it.
FlushedAtEnd ==
  \A p \in Party : protocol[p] \in {"ended", "errored"} =>
    \A r \in 1..Rounds : r <= round[p] => Said(p, r) \in wire

\* Every party completes the run it has set up, in whatever order the messages
\* of the rounds and the votes overtake one another, and whoever is first to
\* leave, unless some party fails or is stopped.
AllComplete ==
  (\A p \in Party : protocol[p] # "idle")
    ~> (\/ \A p \in Party : protocol[p] = "ended" /\ status[p] = "Complete"
        \/ \E p \in Party : protocol[p] \in {"errored", "stopped"})
=============================================================================

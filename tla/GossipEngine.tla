---------------------------- MODULE GossipEngine ----------------------------
(***************************************************************************)
(* The gossip handlers of connected nodes (dkg-gadget/src/gossip_engine):  *)
(* what a node knows that its peers know, to whom it passes a message on,  *)
(* which peer it takes for which authority, and what it hands to the       *)
(* worker.  The network service below it is external: it gives each node a *)
(* queue of events, delivers in order and loses what is written to a       *)
(* stream that is closed.                                                  *)
(*                                                                         *)
(* Messages are values with an author and a recipient.  Reputation is left *)
(* out but for the report of a peer that repeats itself.                   *)
(***************************************************************************)
EXTENDS Integers, FiniteSets, Sequences, SequencesExt

CONSTANTS
  Node,                \* peer ids
  Authority,
  AuthorityOf,         \* the authority that runs under a peer id
  Link,                \* pairs of nodes that may connect
  SignedMessage,
  Author,              \* message -> the node that gossips it
  Recipient,           \* message -> an authority, or Nobody
  MAX_KNOWN_MESSAGES,
  MAX_DUPLICATED_MESSAGES_PER_PEER,
  MaxOpened,           \* bound: how often each link is opened
  Nobody

\* What a node keeps of a peer: what the peer knows, oldest first, how often it
\* repeated a message that it had sent before, and its authority.
Peer == [known_messages : Seq(SignedMessage),
         message_counter : [SignedMessage -> Nat],
         authority_id : Authority \cup {Nobody}]

ASSUME GossipAssumption ==
  /\ IsFiniteSet(Node)
  /\ AuthorityOf \in [Node -> Authority]
  /\ Link \subseteq {l \in SUBSET Node : Cardinality(l) = 2}
  /\ Author \in [SignedMessage -> Node]
  /\ Recipient \in [SignedMessage -> Authority \cup {Nobody}]
  /\ MAX_KNOWN_MESSAGES \in Nat \ {0}
  /\ MAX_DUPLICATED_MESSAGES_PER_PEER \in Nat /\ MaxOpened \in Nat
  /\ Nobody \notin Authority \cup Node /\ Nobody \notin Peer

VARIABLES
  open,                     \* links that are open
  opened,                   \* link -> how often it was opened
  events,                   \* node -> events of the network service, in order
  to_send,                  \* messages that their authors have not gossiped
  peers,                    \* node -> node -> Peer, or Nobody
  authority_id_to_peer_id,  \* node -> authority -> node, or Nobody
  pending_messages_peers,   \* node -> message -> the peers it came from
  received,                 \* node -> messages handed to the worker
  reported                  \* node -> peers reported for repeating a message

network == <<open, opened>>
gossipVars == <<network, events, to_send, peers, authority_id_to_peer_id,
                pending_messages_peers, received, reported>>

NewPeer == [known_messages |-> << >>,
            message_counter |-> [m \in SignedMessage |-> 0],
            authority_id |-> Nobody]

Opened(q) == [is |-> "opened", from |-> q, message |-> Nobody]
Closed(q) == [is |-> "closed", from |-> q, message |-> Nobody]
Handshake(q) == [is |-> "handshake", from |-> q, message |-> Nobody]
Signed(q, m) == [is |-> "signed", from |-> q, message |-> m]

GossipInit ==
  /\ open = {}
  /\ opened = [l \in Link |-> 0]
  /\ events = [n \in Node |-> << >>]
  /\ to_send = SignedMessage
  /\ peers = [n \in Node |-> [q \in Node |-> Nobody]]
  /\ authority_id_to_peer_id = [n \in Node |-> [a \in Authority |-> Nobody]]
  /\ pending_messages_peers = [n \in Node |-> [m \in SignedMessage |-> {}]]
  /\ received = [n \in Node |-> {}]
  /\ reported = [n \in Node |-> {}]

Connected(n) == {q \in Node : peers[n][q] # Nobody}
-----------------------------------------------------------------------------
(* The network service *)

Connect(l) ==
  /\ l \notin open /\ opened[l] < MaxOpened
  /\ open' = open \cup {l}
  /\ opened' = [opened EXCEPT ![l] = @ + 1]
  /\ events' = [n \in Node |-> IF n \in l
                  THEN Append(events[n], Opened(CHOOSE q \in l \ {n} : TRUE))
                  ELSE events[n]]
  /\ UNCHANGED <<to_send, peers, authority_id_to_peer_id,
                 pending_messages_peers, received, reported>>

Disconnect(l) ==
  /\ l \in open /\ opened[l] < MaxOpened
  /\ open' = open \ {l}
  /\ events' = [n \in Node |-> IF n \in l
                  THEN Append(events[n], Closed(CHOOSE q \in l \ {n} : TRUE))
                  ELSE events[n]]
  /\ UNCHANGED <<opened, to_send, peers, authority_id_to_peer_id,
                 pending_messages_peers, received, reported>>

\* write_notification of one value from n to each of the nodes in tos.  The
\* queue of n itself starts with the event being handled, or with nothing.
Written(n, queue, tos, value) ==
  [q \in Node |-> IF q = n THEN queue
                  ELSE IF q \in tos /\ {n, q} \in open
                  THEN Append(events[q], value) ELSE events[q]]
-----------------------------------------------------------------------------
(* What peers know *)

\* LruHashSet::insert, with the exclusive limit.
LruInsert(known, m) ==
  LET new == Append(RemoveFirst(known, m), m)
  IN  IF Len(new) >= MAX_KNOWN_MESSAGES THEN Tail(new) ELSE new

Knows(ps, q, m) == m \in Range(ps[q].known_messages)

\* Mutant: what is known is known to all peers.
NotedForAll(ps, qs, m) ==
  [q \in Node |-> IF ps[q] # Nobody
                  THEN [ps[q] EXCEPT !.known_messages = LruInsert(@, m)]
                  ELSE ps[q]]

\* The message is known to the peers in qs.
Noted(ps, qs, m) ==
  [q \in Node |-> IF q \in qs
                  THEN [ps[q] EXCEPT !.known_messages = LruInsert(@, m)]
                  ELSE ps[q]]

\* gossip_dkg_signed_message and send_signed_dkg_message: to the recipient, if
\* it is a peer, and to all other peers, unless they know it.
GossipTo(n, ps, m) == {q \in Connected(n) : ~Knows(ps, q, m)}

\* n gossips m, its peers being ps and its events queue.
Gossiped(n, ps, queue, m) ==
  /\ events' = Written(n, queue, GossipTo(n, ps, m), Signed(n, m))
  /\ peers' = [peers EXCEPT ![n] = Noted(ps, Connected(n), m)]

\* The worker gossips a message of its own.
gossip(m) ==
  /\ m \in to_send
  /\ to_send' = to_send \ {m}
  /\ Gossiped(Author[m], peers[Author[m]], events[Author[m]], m)
  /\ UNCHANGED <<network, authority_id_to_peer_id, pending_messages_peers,
                 received, reported>>
-----------------------------------------------------------------------------
(* handle_network_event *)

Event(n, is) == events[n] # << >> /\ Head(events[n]).is = is

NotificationStreamOpened(n) ==
  LET remote == Head(events[n]).from
  IN  /\ Event(n, "opened")
      /\ events' = Written(n, Tail(events[n]), {remote}, Handshake(n))
      /\ peers' = [peers EXCEPT ![n][remote] = NewPeer]
      /\ UNCHANGED <<network, to_send, authority_id_to_peer_id,
                     pending_messages_peers, received, reported>>

\* Mutant: the authority of the peer is kept.
AuthorityKept(n, remote) == authority_id_to_peer_id

\* Without the authority of a peer that is gone.
WithoutAuthority(n, remote) ==
  IF peers[n][remote] = Nobody \/ peers[n][remote].authority_id = Nobody
  THEN authority_id_to_peer_id
  ELSE [authority_id_to_peer_id EXCEPT
          ![n][peers[n][remote].authority_id] = Nobody]

NotificationStreamClosed(n) ==
  LET remote == Head(events[n]).from
  IN  /\ Event(n, "closed")
      /\ events' = [events EXCEPT ![n] = Tail(@)]
      /\ peers' = [peers EXCEPT ![n][remote] = Nobody]
      /\ authority_id_to_peer_id' = WithoutAuthority(n, remote)
      /\ UNCHANGED <<network, to_send, pending_messages_peers, received,
                     reported>>

on_handshake_message(n) ==
  LET who == Head(events[n]).from
  IN  /\ Event(n, "handshake")
      /\ events' = [events EXCEPT ![n] = Tail(@)]
      /\ peers' = IF peers[n][who] = Nobody THEN peers
                  ELSE [peers EXCEPT ![n][who].authority_id = AuthorityOf[who]]
      /\ authority_id_to_peer_id' =
           [authority_id_to_peer_id EXCEPT ![n][AuthorityOf[who]] = who]
      /\ UNCHANGED <<network, to_send, pending_messages_peers, received,
                     reported>>

\* A message from a peer goes to the worker, new or not, and is passed on.
\* The stream was opened before, so the peer is known.
on_signed_dkg_message(n) ==
  LET who == Head(events[n]).from
      m == Head(events[n]).message
      repeated == who \in pending_messages_peers[n][m]
      old == peers[n][who].message_counter[m]
      counted == IF repeated
                 THEN [peers[n] EXCEPT ![who].message_counter[m] = @ + 1]
                 ELSE peers[n]
  IN  /\ Event(n, "signed")
      /\ peers[n][who] # Nobody
      /\ pending_messages_peers' =
           [pending_messages_peers EXCEPT ![n][m] = @ \cup {who}]
      /\ received' = [received EXCEPT ![n] = @ \cup {m}]
      /\ reported' =
           IF repeated /\ old >= MAX_DUPLICATED_MESSAGES_PER_PEER
           THEN [reported EXCEPT ![n] = @ \cup {who}] ELSE reported
      /\ Gossiped(n, Noted(counted, {who}, m), Tail(events[n]), m)
      /\ UNCHANGED <<network, to_send, authority_id_to_peer_id>>

handle_network_event(n) ==
  \/ NotificationStreamOpened(n) \/ NotificationStreamClosed(n)
  \/ on_handshake_message(n)
  \/ on_signed_dkg_message(n)

GossipNext ==
  \/ \E l \in Link : Connect(l) \/ Disconnect(l)
  \/ \E m \in SignedMessage : gossip(m)
  \/ \E n \in Node : handle_network_event(n)

GossipSpec == GossipInit /\ [][GossipNext]_gossipVars

\* Links open in the end, and the tasks of a node handle what there is.
Fairness ==
  /\ \A l \in Link : WF_gossipVars(Connect(l))
  /\ \A m \in SignedMessage : WF_gossipVars(gossip(m))
  /\ \A n \in Node : WF_gossipVars(handle_network_event(n))

FairSpec == GossipSpec /\ Fairness
-----------------------------------------------------------------------------
(* Properties *)

\* If no authority has two peer ids, it is looked up as the one connected peer
\* that has shaken hands as it.
AuthorityIsPeer ==
  \A n, q \in Node, a \in Authority :
    authority_id_to_peer_id[n][a] = q
      <=> q \in Connected(n) /\ peers[n][q].authority_id = a

\* All links are there, and both ends have handled that they were opened.
Up == \A l \in Link :
        /\ l \in open /\ opened[l] = MaxOpened
        /\ \A n \in l : \A e \in Range(events[n]) : e.is \notin {"opened", "closed"}

\* A message gossiped when all links are up reaches the workers of all nodes,
\* over several hops, whoever is its recipient.
ReachesAll ==
  \A m \in SignedMessage :
    Up /\ m \in to_send ~> \A n \in Node \ {Author[m]} : m \in received[n]
=============================================================================

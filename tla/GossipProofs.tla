--------------------------- MODULE GossipProofs -----------------------------
(***************************************************************************)
(* The gossip handlers know which peer is which authority, for any nodes   *)
(* and links, however streams end and begin again.                         *)
(***************************************************************************)
EXTENDS GossipEngine, FiniteSetTheorems, SequenceTheorems,
        WellFoundedInduction, TLAPS

\* What the network service tells a node.
Happening ==
  {Opened(q) : q \in Node} \cup {Closed(q) : q \in Node}
    \cup {Handshake(q) : q \in Node}
    \cup {Signed(q, m) : q \in Node, m \in SignedMessage}

\* What an event says of the stream from q before and after it: a stream is
\* opened when it is closed, and all else comes from one that is open.
Follows(e, q, before, after) ==
  IF e.from # q THEN after <=> before
  ELSE /\ before <=> e.is # "opened"
       /\ after <=> e.is # "closed"

\* The stream from q is open, by what the node has handled, where the events es
\* begin, if known, and in fact, where they end, if live.  In between it is open
\* at the places in U.
Stream(es, q, known, live) ==
  \E U \in SUBSET (1..(Len(es) + 1)) :
    /\ 1 \in U <=> known
    /\ Len(es) + 1 \in U <=> live
    /\ \A i \in 1..Len(es) : Follows(es[i], q, i \in U, i + 1 \in U)

GossipTypes ==
  /\ open \subseteq Link
  /\ events \in [Node -> Seq(Happening)]
  /\ to_send \subseteq SignedMessage
  /\ peers \in [Node -> [Node -> Peer \cup {Nobody}]]
  /\ authority_id_to_peer_id \in [Node -> [Authority -> Node \cup {Nobody}]]

\* A peer is taken for its own authority, if for any, and the authority is then
\* looked up as that peer.
PeersSound(ps, ids) ==
  \A q \in Node :
    /\ ps[q] # Nobody => ps[q].authority_id \in {Nobody, AuthorityOf[q]}
    /\ \A a \in Authority :
         ids[a] = q <=> ps[q] # Nobody /\ ps[q].authority_id = a

Streams(es, n, ps) ==
  \A q \in Node : Stream(es, q, ps[q] # Nobody, {n, q} \in open)

GossipInv ==
  /\ GossipTypes
  /\ \A n \in Node : /\ Streams(events[n], n, peers[n])
                     /\ PeersSound(peers[n], authority_id_to_peer_id[n])

\* Every set of naturals but the empty one has a least element.
LEMMA LeastNat ==
  ASSUME NEW S \in SUBSET Nat, S # {}
  PROVE  \E x \in S : \A y \in S : x <= y
<1> DEFINE R == OpToRel(<, Nat)
<1>1. IsWellFoundedOn(R, Nat)
  BY NatLessThanWellFounded, Zenon
<1>2. \A x, y \in Nat : x < y => <<x, y>> \in R
  BY DEF OpToRel
<1> HIDE DEF R
<1>3. PICK x \in S : \A y \in S : ~ (<<y, x>> \in R)
  BY <1>1, WFMin, Zenon
<1>4. ASSUME NEW y \in S
      PROVE  x <= y
  <2>1. ~ (y < x)
    BY <1>2, <1>3, Zenon
  <2> QED
    BY <2>1
<1> QED
  BY <1>4

LEMMA Happens ==
  /\ \A e \in Happening : /\ e.from \in Node
                          /\ e.is = "signed" => e.message \in SignedMessage
  /\ \A q \in Node :
       /\ Opened(q) \in Happening /\ Opened(q).from = q
       /\ Opened(q).is = "opened"
       /\ Closed(q) \in Happening /\ Closed(q).from = q
       /\ Closed(q).is = "closed"
       /\ Handshake(q) \in Happening /\ Handshake(q).from = q
       /\ Handshake(q).is = "handshake"
       /\ \A m \in SignedMessage : /\ Signed(q, m) \in Happening
                                   /\ Signed(q, m).from = q
                                   /\ Signed(q, m).is = "signed"
<1> DEFINE o == {Opened(q) : q \in Node}
           c == {Closed(q) : q \in Node}
           h == {Handshake(q) : q \in Node}
           s == {Signed(q, m) : q \in Node, m \in SignedMessage}
<1>1. \A q \in Node : /\ Opened(q) \in o /\ Closed(q) \in c
                     /\ Handshake(q) \in h
                     /\ \A m \in SignedMessage : Signed(q, m) \in s
  OBVIOUS
<1>2. /\ \A e \in o : \E q \in Node : e = Opened(q)
      /\ \A e \in c : \E q \in Node : e = Closed(q)
      /\ \A e \in h : \E q \in Node : e = Handshake(q)
      /\ \A e \in s : \E q \in Node, m \in SignedMessage : e = Signed(q, m)
  OBVIOUS
<1>3. Happening = o \cup c \cup h \cup s
  BY DEF Happening
<1>4. /\ \A q \in Node : /\ Opened(q).from = q
                        /\ Opened(q).is = "opened"
                        /\ Closed(q).from = q
                        /\ Closed(q).is = "closed"
                        /\ Handshake(q).from = q
                        /\ Handshake(q).is = "handshake"
      /\ \A q \in Node, m \in SignedMessage : /\ Signed(q, m).from = q
                                             /\ Signed(q, m).is = "signed"
                                             /\ Signed(q, m).message = m
  BY DEF Opened, Closed, Handshake, Signed
<1> HIDE DEF o, c, h, s
<1>5. ASSUME NEW e \in Happening
      PROVE  e.from \in Node /\ (e.is = "signed" => e.message \in SignedMessage)
  <2>1. CASE e \in o
    BY <1>2, <1>4, <2>1
  <2>2. CASE e \in c
    BY <1>2, <1>4, <2>2
  <2>3. CASE e \in h
    BY <1>2, <1>4, <2>3
  <2>4. CASE e \in s
    BY <1>2, <1>4, <2>4
  <2> QED
    BY <1>3, <2>1, <2>2, <2>3, <2>4, Zenon
<1> QED
  BY <1>1, <1>3, <1>4, <1>5

\* An event at the end of the queue says what has become of the stream.
LEMMA StreamAppend ==
  ASSUME NEW es \in Seq(Happening), NEW q \in Node, NEW e \in Happening,
         NEW known \in BOOLEAN, NEW live \in BOOLEAN, NEW now_live \in BOOLEAN,
         Stream(es, q, known, live), Follows(e, q, live, now_live)
  PROVE  Stream(Append(es, e), q, known, now_live)
<1>1. PICK U \in SUBSET (1..(Len(es) + 1)) :
        /\ 1 \in U <=> known
        /\ Len(es) + 1 \in U <=> live
        /\ \A i \in 1..Len(es) : Follows(es[i], q, i \in U, i + 1 \in U)
  BY DEF Stream
<1> DEFINE fs == Append(es, e)
           last == Len(es) + 2
           V == IF now_live THEN U \cup {last} ELSE U
<1>2. /\ Len(es) \in Nat /\ Len(fs) = Len(es) + 1 /\ fs[Len(es) + 1] = e
      /\ \A i \in 1..Len(es) : fs[i] = es[i]
  BY AppendProperties, LenProperties
<1>3. last \notin U /\ last = Len(fs) + 1
  BY <1>2
<1>4. V \in SUBSET (1..(Len(fs) + 1))
  <2>1. 1..(Len(es) + 1) \subseteq 1..last /\ last \in 1..last
    BY <1>2
  <2> HIDE DEF last
  <2> QED
    BY <1>3, <2>1, Zenon
<1>5. \A i \in 1..(Len(es) + 1) : i \in V <=> i \in U
  BY <1>2
<1>6. last \in V <=> now_live
  BY <1>3, Zenon
<1> HIDE DEF V, fs
<1>7. ASSUME NEW i \in 1..Len(fs)
      PROVE  Follows(fs[i], q, i \in V, i + 1 \in V)
  <2>1. CASE i = Len(es) + 1
    <3>1. fs[i] = e /\ i + 1 = last /\ (i \in V <=> live)
      BY <1>1, <1>2, <1>5, <2>1
    <3> HIDE DEF last
    <3> QED
      BY <1>6, <3>1, Zenon DEF Follows
  <2>2. CASE i # Len(es) + 1
    <3>1. i \in 1..Len(es) /\ i + 1 \in 1..(Len(es) + 1)
      BY <1>2, <2>2
    <3>2. /\ fs[i] = es[i] /\ (i \in V <=> i \in U)
          /\ (i + 1 \in V <=> i + 1 \in U)
      BY <1>2, <1>5, <3>1, Zenon
    <3>3. Follows(es[i], q, i \in U, i + 1 \in U)
      BY <1>1, <3>1, Zenon
    <3> QED
      BY <3>2, <3>3, Zenon DEF Follows
  <2> QED
    BY <2>1, <2>2, Zenon
<1>8. 1 \in V <=> known
  BY <1>1, <1>2, <1>5
<1> QED
  BY <1>3, <1>4, <1>6, <1>7, <1>8, Zenon DEF Stream, fs

\* What the event that is handled says is known from then on.
LEMMA StreamTail ==
  ASSUME NEW es \in Seq(Happening), es # << >>, NEW q \in Node,
         NEW known \in BOOLEAN, NEW live \in BOOLEAN,
         Stream(es, q, known, live)
  PROVE  \E then \in BOOLEAN : /\ Follows(Head(es), q, known, then)
                               /\ Stream(Tail(es), q, then, live)
<1>1. PICK U \in SUBSET (1..(Len(es) + 1)) :
        /\ 1 \in U <=> known
        /\ Len(es) + 1 \in U <=> live
        /\ \A i \in 1..Len(es) : Follows(es[i], q, i \in U, i + 1 \in U)
  BY DEF Stream
<1> DEFINE fs == Tail(es)
           V == {i \in 1..Len(es) : i + 1 \in U}
           then == 2 \in U
<1>2. /\ Len(es) \in Nat \ {0} /\ Len(fs) = Len(es) - 1 /\ Head(es) = es[1]
      /\ \A i \in 1..Len(fs) : fs[i] = es[i + 1]
  BY HeadTailProperties, LenProperties, EmptySeq
<1>3. /\ V \in SUBSET (1..(Len(fs) + 1))
      /\ \A i \in 1..Len(es) : i \in V <=> i + 1 \in U
  BY <1>2
<1>4. (1 \in V <=> then) /\ (Len(fs) + 1 \in V <=> live)
  BY <1>1, <1>2, <1>3
<1>5. Follows(Head(es), q, known, then)
  BY <1>1, <1>2 DEF Follows
<1> HIDE DEF V, fs
<1>6. ASSUME NEW i \in 1..Len(fs)
      PROVE  Follows(fs[i], q, i \in V, i + 1 \in V)
  <2>1. i \in 1..Len(es) /\ i + 1 \in 1..Len(es)
    BY <1>2
  <2>2. /\ fs[i] = es[i + 1] /\ (i \in V <=> i + 1 \in U)
        /\ (i + 1 \in V <=> (i + 1) + 1 \in U)
    BY <1>2, <1>3, <2>1, Zenon
  <2>3. Follows(es[i + 1], q, i + 1 \in U, (i + 1) + 1 \in U)
    BY <1>1, <2>1, Zenon
  <2> QED
    BY <2>2, <2>3, Zenon DEF Follows
<1>7. Stream(fs, q, then, live)
  BY <1>3, <1>4, <1>6, Zenon DEF Stream
<1>8. then \in BOOLEAN
  OBVIOUS
<1> QED
  BY <1>5, <1>7, <1>8, Zenon DEF fs

\* A link has two ends.
LEMMA Ends ==
  ASSUME NEW l \in Link, NEW n \in l
  PROVE  LET q == CHOOSE q \in l \ {n} : TRUE
         IN  n \in Node /\ q \in Node /\ q # n /\ l = {n, q}
<1>1. l \in SUBSET Node /\ IsFiniteSet(Node) /\ Cardinality(l) = 2
  BY GossipAssumption, Zenon
<1>2. IsFiniteSet(l)
  BY <1>1, FS_Subset, Zenon
<1>3. IsFiniteSet(l \ {n}) /\ Cardinality(l \ {n}) = 1
  BY <1>1, <1>2, FS_RemoveElement
<1>4. PICK x : l \ {n} = {x}
  BY <1>3, FS_Singleton, Zenon
<1> QED
  BY <1>1, <1>4, Zenon

\* LruHashSet::insert
LEMMA LruType ==
  ASSUME NEW ms \in Seq(SignedMessage), NEW m \in SignedMessage
  PROVE  LruInsert(ms, m) \in Seq(SignedMessage)
<1> DEFINE I == {i \in 1..Len(ms) : ms[i] = m}
           rest == RemoveFirst(ms, m)
<1>1. Len(ms) \in Nat /\ \A i \in 1..Len(ms) : ms[i] \in SignedMessage
  BY LenProperties, ElementOfSeq, Zenon
<1>2. rest \in Seq(SignedMessage)
  <2>1. CASE I = {}
    BY <2>1, Zenon DEF RemoveFirst
  <2>2. CASE I # {}
    <3> DEFINE i == Min(I)
               front == SubSeq(ms, 1, i - 1)
               back == SubSeq(ms, i + 1, Len(ms))
    <3>1. PICK x \in I : \A y \in I : x <= y
      <4>1. I \in SUBSET Nat
        BY <1>1
      <4> HIDE DEF I
      <4> QED
        BY <2>2, <4>1, LeastNat, Zenon
    <3>2. i \in 1..Len(ms)
      BY <3>1, Zenon DEF Min
    <3>3. rest = front \o back
      BY <2>2, Zenon DEF RemoveFirst, RemoveAt, SelectInSeq
    <3> HIDE DEF i
    <3>4. front \in Seq(SignedMessage)
      <4>1. 1 \in Int /\ i - 1 \in Int /\ \A k \in 1..(i - 1) : ms[k] \in SignedMessage
        BY <1>1, <3>2
      <4> QED
        BY <4>1, SubSeqProperties, Zenon
    <3>5. back \in Seq(SignedMessage)
      <4>1. /\ i + 1 \in Int /\ Len(ms) \in Int
            /\ \A k \in (i + 1)..Len(ms) : ms[k] \in SignedMessage
        BY <1>1, <3>2
      <4> QED
        BY <4>1, SubSeqProperties, Zenon
    <3> HIDE DEF front, back
    <3> QED
      BY <3>3, <3>4, <3>5, ConcatProperties, Zenon
  <2> QED
    BY <2>1, <2>2, Zenon
<1> HIDE DEF rest
<1>3. Append(rest, m) \in Seq(SignedMessage) /\ Append(rest, m) # << >>
  BY <1>2, AppendProperties
<1>4. Tail(Append(rest, m)) \in Seq(SignedMessage)
  BY <1>3, HeadTailProperties, Zenon
<1> QED
  BY <1>3, <1>4, Zenon DEF LruInsert, rest

Peers == [Node -> Peer \cup {Nobody}]

\* The same peers, whatever they know by now.
SamePeers(ps, qs) ==
  \A q \in Node : /\ qs[q] = Nobody <=> ps[q] = Nobody
                  /\ ps[q] # Nobody => qs[q].authority_id = ps[q].authority_id

\* Noting what peers know, how often they repeat themselves and who they are.
LEMMA PeerNoted ==
  ASSUME NEW p \in Peer
  PROVE  /\ \A ks \in Seq(SignedMessage) :
              /\ [p EXCEPT !.known_messages = ks] \in Peer
              /\ [p EXCEPT !.known_messages = ks].authority_id = p.authority_id
         /\ \A c \in [SignedMessage -> Nat] :
              /\ [p EXCEPT !.message_counter = c] \in Peer
              /\ [p EXCEPT !.message_counter = c].authority_id = p.authority_id
         /\ \A a \in Authority :
              /\ [p EXCEPT !.authority_id = a] \in Peer
              /\ [p EXCEPT !.authority_id = a].authority_id = a
  BY Zenon DEF Peer

\* send_signed_dkg_message changes what peers know, and nothing else of them.
LEMMA NotedPeers ==
  ASSUME NEW ps \in Peers, NEW m \in SignedMessage,
         NEW qs \in SUBSET Node, \A q \in qs : ps[q] # Nobody
  PROVE  /\ Noted(ps, qs, m) \in Peers
         /\ SamePeers(ps, Noted(ps, qs, m))
<1> DEFINE rs == Noted(ps, qs, m)
<1>1. ASSUME NEW q \in Node
      PROVE  /\ rs[q] \in Peer \cup {Nobody}
             /\ rs[q] = Nobody <=> ps[q] = Nobody
             /\ ps[q] # Nobody => rs[q].authority_id = ps[q].authority_id
  <2>1. CASE q \in qs
    <3> DEFINE ks == LruInsert(ps[q].known_messages, m)
    <3>1. ps[q] \in Peer
      BY <2>1, Zenon DEF Peers
    <3>2. ks \in Seq(SignedMessage)
      BY <3>1, LruType, Zenon DEF Peer
    <3>3. rs[q] = [ps[q] EXCEPT !.known_messages = ks]
      BY <2>1, Zenon DEF Noted
    <3> HIDE DEF rs, ks
    <3>4. rs[q] \in Peer /\ rs[q].authority_id = ps[q].authority_id
      BY <3>1, <3>2, <3>3, PeerNoted
    <3> QED
      BY GossipAssumption, <2>1, <3>4, Zenon
  <2>2. CASE q \notin qs
    <3>1. rs[q] = ps[q]
      BY <2>2, Zenon DEF Noted
    <3> QED
      BY <3>1, Zenon DEF Peers
  <2> QED
    BY <2>1, <2>2, Zenon
<1>2. rs = [q \in Node |-> rs[q]]
  BY DEF Noted
<1> HIDE DEF rs
<1>3. rs \in Peers
  BY <1>1, <1>2, Zenon DEF Peers
<1> QED
  BY <1>1, <1>3 DEF SamePeers, rs

\* A step of node n, by what it makes of its peers, and by the queues: what is
\* written to the others keeps to the streams as they see them.
LEMMA OnePeer ==
  ASSUME GossipInv, NEW n \in Node, NEW ps \in Peers,
         NEW ids \in [Authority -> Node \cup {Nobody}],
         peers' = [peers EXCEPT ![n] = ps],
         authority_id_to_peer_id' = [authority_id_to_peer_id EXCEPT ![n] = ids],
         open' = open, to_send' \subseteq SignedMessage,
         events' \in [Node -> Seq(Happening)],
         Streams(events'[n], n, ps), PeersSound(ps, ids),
         \A r \in Node \ {n} : Streams(events'[r], r, peers[r])
  PROVE  GossipInv'
<1>1. /\ peers \in [Node -> Peers]
      /\ authority_id_to_peer_id \in [Node -> [Authority -> Node \cup {Nobody}]]
  BY Zenon DEF GossipInv, GossipTypes, Peers
<1>2. GossipTypes'
  <2>1. peers' \in [Node -> Peers]
    BY <1>1, Zenon
  <2>2. authority_id_to_peer_id'
          \in [Node -> [Authority -> Node \cup {Nobody}]]
    BY <1>1, Zenon
  <2> QED
    BY <2>1, <2>2, Zenon DEF GossipInv, GossipTypes, Peers, Peer
<1>3. ASSUME NEW r \in Node
      PROVE  /\ Streams(events'[r], r, peers'[r])
             /\ PeersSound(peers'[r], authority_id_to_peer_id'[r])
  <2>1. CASE r = n
    <3>1. peers'[r] = ps /\ authority_id_to_peer_id'[r] = ids
      BY <1>1, <2>1, Zenon
    <3> QED
      BY <2>1, <3>1, Zenon
  <2>2. CASE r # n
    <3>1. /\ peers'[r] = peers[r]
          /\ authority_id_to_peer_id'[r] = authority_id_to_peer_id[r]
      BY <1>1, <2>2, Zenon
    <3> QED
      BY <2>2, <3>1, Zenon DEF GossipInv
  <2> QED
    BY <2>1, <2>2, Zenon
<1>4. \A r \in Node : Streams(events[r], r, peers[r])'
  BY <1>3, Zenon DEF Streams
<1>5. \A r \in Node : PeersSound(peers[r], authority_id_to_peer_id[r])'
  BY <1>3, Zenon DEF PeersSound
<1> QED
  BY <1>2, <1>4, <1>5, Zenon DEF GossipInv

\* write_notification: what n writes to a stream that is open comes from one
\* that the other end sees open after all it has still to handle.
LEMMA Writes ==
  ASSUME GossipInv, NEW n \in Node, NEW es \in Seq(Happening),
         NEW tos \in SUBSET Node, NEW value \in Happening, value.from = n,
         value.is \notin {"opened", "closed"},
         events' = Written(n, es, tos, value)
  PROVE  /\ events' \in [Node -> Seq(Happening)] /\ events'[n] = es
         /\ \A r \in Node \ {n} : Streams(events'[r], r, peers[r])
<1>1. \A r \in Node : events[r] \in Seq(Happening)
  BY Zenon DEF GossipInv, GossipTypes
<1>2. events' = [r \in Node |-> IF r = n THEN es
                                ELSE IF r \in tos /\ {n, r} \in open
                                THEN Append(events[r], value) ELSE events[r]]
  BY Zenon DEF Written
<1>3. events' \in [Node -> Seq(Happening)] /\ events'[n] = es
  <2>1. \A r \in Node : Append(events[r], value) \in Seq(Happening)
    BY <1>1, AppendProperties, Zenon
  <2> QED
    BY <1>1, <1>2, <2>1
<1>4. ASSUME NEW r \in Node \ {n}, NEW q \in Node
      PROVE  Stream(events'[r], q, peers[r][q] # Nobody, {r, q} \in open)
  <2> DEFINE known == peers[r][q] # Nobody
             live == {r, q} \in open
  <2>1. Stream(events[r], q, known, live)
    BY DEF GossipInv, Streams
  <2>2. CASE r \in tos /\ {n, r} \in open
    <3>1. events'[r] = Append(events[r], value)
      BY <1>2, <2>2, Zenon
    <3>2. q = n => live
      BY <2>2, Zenon
    <3>3. known \in BOOLEAN /\ live \in BOOLEAN
      OBVIOUS
    <3> HIDE DEF known, live
    <3>4. Follows(value, q, live, live)
      BY <3>2, Zenon DEF Follows
    <3>5. Stream(Append(events[r], value), q, known, live)
      BY <1>1, <2>1, <3>3, <3>4, StreamAppend
    <3> QED
      BY <3>1, <3>5, Zenon DEF known, live
  <2>3. CASE ~(r \in tos /\ {n, r} \in open)
    <3>1. events'[r] = events[r]
      BY <1>2, <2>3, Zenon
    <3> QED
      BY <2>1, <3>1, Zenon
  <2> QED
    BY <2>2, <2>3, Zenon
<1> QED
  BY <1>3, <1>4, Zenon DEF Streams

\* The event that a node handles: what it says of the stream that it comes from
\* is how the node sees it, and how it has to see it afterwards.
LEMMA HandledEvent ==
  ASSUME GossipInv, NEW n \in Node, events[n] # << >>
  PROVE  LET e == Head(events[n])
             es == Tail(events[n])
         IN  /\ e.from \in Node /\ es \in Seq(Happening)
             /\ e.is = "signed" => e.message \in SignedMessage
             /\ peers[n][e.from] # Nobody <=> e.is # "opened"
             /\ Stream(es, e.from, e.is # "closed", {n, e.from} \in open)
             /\ \A q \in Node \ {e.from} :
                  Stream(es, q, peers[n][q] # Nobody, {n, q} \in open)
<1> DEFINE e == Head(events[n])
           es == Tail(events[n])
<1>1. events[n] \in Seq(Happening)
  BY DEF GossipInv, GossipTypes
<1>2. e \in Happening /\ es \in Seq(Happening)
  BY <1>1, HeadTailProperties, Zenon
<1>3. e.from \in Node /\ (e.is = "signed" => e.message \in SignedMessage)
  BY <1>2, Happens, Zenon
<1>4. ASSUME NEW q \in Node
      PROVE  \E then \in BOOLEAN :
               /\ Follows(e, q, peers[n][q] # Nobody, then)
               /\ Stream(es, q, then, {n, q} \in open)
  <2> DEFINE known == peers[n][q] # Nobody
             live == {n, q} \in open
  <2>1. Stream(events[n], q, known, live)
    BY DEF GossipInv, Streams
  <2>2. known \in BOOLEAN /\ live \in BOOLEAN
    OBVIOUS
  <2> HIDE DEF known, live
  <2>3. \E then \in BOOLEAN : Follows(e, q, known, then) /\ Stream(es, q, then, live)
    BY <1>1, <2>1, <2>2, StreamTail
  <2> QED
    BY <2>3, Zenon DEF known, live
<1>5. ASSUME NEW q \in Node \ {e.from}
      PROVE  Stream(es, q, peers[n][q] # Nobody, {n, q} \in open)
  <2>1. PICK then \in BOOLEAN : /\ Follows(e, q, peers[n][q] # Nobody, then)
                                /\ Stream(es, q, then, {n, q} \in open)
    BY <1>4, Zenon
  <2>2. then <=> peers[n][q] # Nobody
    BY <2>1, Zenon DEF Follows
  <2> QED
    BY <2>1, <2>2, Zenon DEF Stream
<1>6. /\ peers[n][e.from] # Nobody <=> e.is # "opened"
      /\ Stream(es, e.from, e.is # "closed", {n, e.from} \in open)
  <2>1. PICK then \in BOOLEAN :
          /\ Follows(e, e.from, peers[n][e.from] # Nobody, then)
          /\ Stream(es, e.from, then, {n, e.from} \in open)
    BY <1>3, <1>4, Zenon
  <2>2. /\ then <=> e.is # "closed"
        /\ peers[n][e.from] # Nobody <=> e.is # "opened"
    BY <2>1, Zenon DEF Follows
  <2> QED
    BY <2>1, <2>2, Zenon DEF Stream
<1> QED
  BY <1>2, <1>3, <1>5, <1>6, Zenon

\* The part of one node.
LEMMA PartOfGossip ==
  ASSUME GossipInv, NEW n \in Node
  PROVE  /\ peers[n] \in Peers
         /\ authority_id_to_peer_id[n] \in [Authority -> Node \cup {Nobody}]
         /\ events[n] \in Seq(Happening)
         /\ Streams(events[n], n, peers[n])
         /\ PeersSound(peers[n], authority_id_to_peer_id[n])
         /\ authority_id_to_peer_id =
              [authority_id_to_peer_id EXCEPT ![n] = authority_id_to_peer_id[n]]
  BY DEF GossipInv, GossipTypes, Peers

\* A stream is opened: no authority led to a peer that was not there.
LEMMA OpenedEvent ==
  ASSUME GossipInv, NEW n \in Node,
         NotificationStreamOpened(n)
  PROVE  GossipInv'
<1> DEFINE remote == Head(events[n]).from
           es == Tail(events[n])
           ps == [peers[n] EXCEPT ![remote] = NewPeer]
           ids == authority_id_to_peer_id[n]
<1>1. /\ events[n] # << >> /\ Head(events[n]).is = "opened"
      /\ events' = Written(n, es, {remote}, Handshake(n))
      /\ peers' = [peers EXCEPT ![n] = ps]
      /\ UNCHANGED <<open, to_send, authority_id_to_peer_id>>
  BY DEF NotificationStreamOpened, Event, network
<1>2. /\ remote \in Node /\ es \in Seq(Happening) /\ peers[n][remote] = Nobody
      /\ Stream(es, remote, TRUE, {n, remote} \in open)
      /\ \A q \in Node \ {remote} :
           Stream(es, q, peers[n][q] # Nobody, {n, q} \in open)
  <2>1. Head(events[n]).is # "closed"
    BY <1>1, Zenon
  <2> QED
    BY <1>1, <2>1, HandledEvent, Zenon DEF Stream
<1>3. /\ peers[n] \in Peers /\ ids \in [Authority -> Node \cup {Nobody}]
      /\ PeersSound(peers[n], ids)
      /\ authority_id_to_peer_id = [authority_id_to_peer_id EXCEPT ![n] = ids]
  BY PartOfGossip, Zenon
<1>4. /\ NewPeer \in Peer /\ NewPeer # Nobody
      /\ NewPeer.authority_id = Nobody
  <2>1. << >> \in Seq(SignedMessage) /\ [m \in SignedMessage |-> 0] \in [SignedMessage -> Nat]
    OBVIOUS
  <2>2. NewPeer \in Peer
    BY <2>1, Zenon DEF NewPeer, Peer
  <2> QED
    BY GossipAssumption, <2>2, Zenon DEF NewPeer
<1>5. /\ ps \in Peers /\ ps[remote] = NewPeer
      /\ \A q \in Node \ {remote} : ps[q] = peers[n][q]
  BY <1>2, <1>3, <1>4, Zenon DEF Peers
<1>6. /\ Handshake(n) \in Happening /\ Handshake(n).from = n
      /\ Handshake(n).is \notin {"opened", "closed"}
  BY Happens
<1> HIDE DEF remote, es, ps, ids
<1>7. /\ events' \in [Node -> Seq(Happening)] /\ events'[n] = es
      /\ \A r \in Node \ {n} : Streams(events'[r], r, peers[r])
  <2>1. {remote} \in SUBSET Node
    BY <1>2, Zenon
  <2> QED
    BY <1>1, <1>2, <1>6, <2>1, Writes, Zenon
<1>8. Streams(es, n, ps)
  <2> SUFFICES ASSUME NEW q \in Node
               PROVE  Stream(es, q, ps[q] # Nobody, {n, q} \in open)
    BY Zenon DEF Streams
  <2>1. CASE q = remote
    BY <1>2, <1>4, <1>5, <2>1, Zenon DEF Stream
  <2>2. CASE q # remote
    BY <1>2, <1>5, <2>2, Zenon
  <2> QED
    BY <2>1, <2>2, Zenon
<1>9. PeersSound(ps, ids)
  <2>1. Nobody \notin Authority
    BY GossipAssumption, Zenon
  <2> QED
    BY <1>2, <1>3, <1>4, <1>5, <2>1 DEF PeersSound
<1>10. /\ to_send' \subseteq SignedMessage /\ open' = open
       /\ authority_id_to_peer_id' = [authority_id_to_peer_id EXCEPT ![n] = ids]
       /\ Streams(events'[n], n, ps)
  BY <1>1, <1>3, <1>7, <1>8, Zenon DEF GossipInv, GossipTypes
<1> QED
  BY <1>1, <1>3, <1>5, <1>7, <1>9, <1>10, OnePeer, Zenon

\* An event is handled that makes the node write nothing.
LEMMA QuietEvent ==
  ASSUME GossipInv, NEW n \in Node, NEW es \in Seq(Happening),
         events' = [events EXCEPT ![n] = es]
  PROVE  /\ events' \in [Node -> Seq(Happening)] /\ events'[n] = es
         /\ \A r \in Node \ {n} : Streams(events'[r], r, peers[r])
  BY DEF GossipInv, GossipTypes

\* A stream is closed: the peer is gone, and so is its authority.
LEMMA ClosedEvent ==
  ASSUME GossipInv, NEW n \in Node,
         NotificationStreamClosed(n)
  PROVE  GossipInv'
<1> DEFINE remote == Head(events[n]).from
           es == Tail(events[n])
           ps == [peers[n] EXCEPT ![remote] = Nobody]
           old == authority_id_to_peer_id[n]
           a == peers[n][remote].authority_id
           ids == IF a = Nobody THEN old ELSE [old EXCEPT ![a] = Nobody]
<1>1. /\ events[n] # << >> /\ Head(events[n]).is = "closed"
      /\ events' = [events EXCEPT ![n] = es]
      /\ peers' = [peers EXCEPT ![n] = ps]
      /\ authority_id_to_peer_id' = WithoutAuthority(n, remote)
      /\ UNCHANGED <<open, to_send>>
  BY DEF NotificationStreamClosed, Event, network
<1>2. /\ remote \in Node /\ es \in Seq(Happening) /\ peers[n][remote] # Nobody
      /\ Stream(es, remote, FALSE, {n, remote} \in open)
      /\ \A q \in Node \ {remote} :
           Stream(es, q, peers[n][q] # Nobody, {n, q} \in open)
  BY <1>1, HandledEvent, Zenon DEF Stream
<1>3. /\ peers[n] \in Peers /\ old \in [Authority -> Node \cup {Nobody}]
      /\ PeersSound(peers[n], old)
      /\ authority_id_to_peer_id = [authority_id_to_peer_id EXCEPT ![n] = old]
  BY PartOfGossip, Zenon
<1>4. authority_id_to_peer_id' = [authority_id_to_peer_id EXCEPT ![n] = ids]
  BY <1>1, <1>2, <1>3, Zenon DEF WithoutAuthority
<1>5. a \in Authority \cup {Nobody} /\ Nobody \notin Authority /\ Nobody \notin Node
  <2>1. peers[n][remote] \in Peer
    BY <1>2, <1>3 DEF Peers
  <2> QED
    BY GossipAssumption, <2>1 DEF Peer
<1>6. /\ ps \in Peers /\ ps[remote] = Nobody
      /\ \A q \in Node \ {remote} : ps[q] = peers[n][q]
  BY <1>2, <1>3 DEF Peers
<1> HIDE DEF remote, es, ps, old
<1>7. /\ ids \in [Authority -> Node \cup {Nobody}]
      /\ a \in Authority => ids[a] = Nobody
      /\ \A c \in Authority : c # a => ids[c] = old[c]
  BY <1>3, <1>5, Zenon
<1> HIDE DEF ids
<1>8. Streams(es, n, ps)
  <2> SUFFICES ASSUME NEW q \in Node
               PROVE  Stream(es, q, ps[q] # Nobody, {n, q} \in open)
    BY Zenon DEF Streams
  <2>1. CASE q = remote
    BY <1>2, <1>6, <2>1, Zenon DEF Stream
  <2>2. CASE q # remote
    BY <1>2, <1>6, <2>2, Zenon
  <2> QED
    BY <2>1, <2>2, Zenon
<1>9. PeersSound(ps, ids)
  <2> SUFFICES ASSUME NEW q \in Node
               PROVE  /\ ps[q] # Nobody
                           => ps[q].authority_id \in {Nobody, AuthorityOf[q]}
                      /\ \A c \in Authority :
                           ids[c] = q <=> ps[q] # Nobody
                                          /\ ps[q].authority_id = c
    BY Zenon DEF PeersSound
  <2>1. \A c \in Authority : old[c] = remote <=> a = c
    BY <1>2, <1>3, Zenon DEF PeersSound
  <2>2. CASE q = remote
    BY <1>5, <1>6, <1>7, <2>1, <2>2
  <2>3. CASE q # remote
    <3>1. ps[q] = peers[n][q]
      BY <1>6, <2>3, Zenon
    <3>2. \A c \in Authority : ids[c] = q <=> old[c] = q
      BY <1>5, <1>7, <2>1, <2>3
    <3> QED
      BY <1>3, <3>1, <3>2 DEF PeersSound
  <2> QED
    BY <2>2, <2>3, Zenon
<1>10. /\ events' \in [Node -> Seq(Happening)] /\ Streams(events'[n], n, ps)
       /\ \A r \in Node \ {n} : Streams(events'[r], r, peers[r])
  BY <1>1, <1>2, <1>8, QuietEvent, Zenon
<1>11. to_send' \subseteq SignedMessage /\ open' = open
  BY <1>1, Zenon DEF GossipInv, GossipTypes
<1> QED
  BY <1>1, <1>4, <1>6, <1>7, <1>9, <1>10, <1>11, OnePeer, Zenon

\* on_handshake_message: the peer is there, and no other has its authority.
LEMMA HandshakeEvent ==
  ASSUME GossipInv, NEW n \in Node,
         \A q, r \in Node : AuthorityOf[q] = AuthorityOf[r] => q = r,
         on_handshake_message(n)
  PROVE  GossipInv'
<1> DEFINE who == Head(events[n]).from
           es == Tail(events[n])
           a == AuthorityOf[who]
           peer == [peers[n][who] EXCEPT !.authority_id = a]
           ps == [peers[n] EXCEPT ![who] = peer]
           old == authority_id_to_peer_id[n]
           ids == [old EXCEPT ![a] = who]
<1>1. /\ events[n] # << >> /\ Head(events[n]).is = "handshake"
      /\ events' = [events EXCEPT ![n] = es]
      /\ peers' = IF peers[n][who] = Nobody THEN peers
                  ELSE [peers EXCEPT ![n][who].authority_id = a]
      /\ authority_id_to_peer_id' =
           [authority_id_to_peer_id EXCEPT ![n][a] = who]
      /\ UNCHANGED <<open, to_send>>
  BY DEF on_handshake_message, Event, network
<1>2. /\ who \in Node /\ es \in Seq(Happening) /\ peers[n][who] # Nobody
      /\ Stream(es, who, TRUE, {n, who} \in open)
      /\ \A q \in Node \ {who} :
           Stream(es, q, peers[n][q] # Nobody, {n, q} \in open)
  <2>1. Head(events[n]).is # "closed" /\ Head(events[n]).is # "opened"
    BY <1>1, Zenon
  <2> QED
    BY <1>1, <2>1, HandledEvent, Zenon DEF Stream
<1>3. /\ peers[n] \in Peers /\ old \in [Authority -> Node \cup {Nobody}]
      /\ PeersSound(peers[n], old)
  BY PartOfGossip, Zenon
<1>4. /\ peers' = [peers EXCEPT ![n] = ps]
      /\ authority_id_to_peer_id' = [authority_id_to_peer_id EXCEPT ![n] = ids]
  BY <1>1, <1>2, Zenon
<1>5. a \in Authority /\ Nobody \notin Authority /\ Nobody \notin Peer
  BY GossipAssumption, <1>2, Zenon
<1>6. peer \in Peer /\ peer.authority_id = a /\ peer # Nobody
  <2>1. peers[n][who] \in Peer
    BY <1>2, <1>3, Zenon DEF Peers
  <2> QED
    BY <1>5, <2>1, PeerNoted
<1> HIDE DEF peer
<1>7. /\ ps \in Peers /\ ps[who] = peer
      /\ \A q \in Node \ {who} : ps[q] = peers[n][q]
  BY <1>2, <1>3, <1>6, Zenon DEF Peers
<1>8. /\ ids \in [Authority -> Node \cup {Nobody}] /\ ids[a] = who
      /\ \A c \in Authority : c # a => ids[c] = old[c]
  BY <1>2, <1>3, <1>5, Zenon
<1> HIDE DEF who, es, ps, old, ids, a
<1>9. Streams(es, n, ps)
  <2> SUFFICES ASSUME NEW q \in Node
               PROVE  Stream(es, q, ps[q] # Nobody, {n, q} \in open)
    BY Zenon DEF Streams
  <2>1. CASE q = who
    BY <1>2, <1>6, <1>7, <2>1, Zenon DEF Stream
  <2>2. CASE q # who
    BY <1>2, <1>7, <2>2, Zenon
  <2> QED
    BY <2>1, <2>2, Zenon
<1>10. PeersSound(ps, ids)
  <2> SUFFICES ASSUME NEW q \in Node
               PROVE  /\ ps[q] # Nobody
                           => ps[q].authority_id \in {Nobody, AuthorityOf[q]}
                      /\ \A c \in Authority :
                           ids[c] = q <=> ps[q] # Nobody
                                          /\ ps[q].authority_id = c
    BY Zenon DEF PeersSound
  <2>1. CASE q = who
    <3>1. \A c \in Authority : old[c] = who => c = a
      BY <1>2, <1>3, <1>5 DEF PeersSound, a
    <3> QED
      BY <1>6, <1>7, <1>8, <2>1, <3>1, Zenon DEF a
  <2>2. CASE q # who
    <3>1. ps[q] = peers[n][q] /\ AuthorityOf[q] # a
      BY <1>2, <1>7, <2>2, Zenon DEF a
    <3>2. ps[q] # Nobody => ps[q].authority_id # a
      BY <1>3, <1>5, <3>1 DEF PeersSound
    <3> QED
      BY <1>3, <1>8, <2>2, <3>1, <3>2 DEF PeersSound
  <2> QED
    BY <2>1, <2>2, Zenon
<1>11. /\ events' \in [Node -> Seq(Happening)] /\ Streams(events'[n], n, ps)
       /\ \A r \in Node \ {n} : Streams(events'[r], r, peers[r])
  <2>1. events' = [events EXCEPT ![n] = es]
    BY <1>1, Zenon DEF es
  <2> QED
    BY <1>2, <1>9, <2>1, QuietEvent, Zenon
<1>12. to_send' \subseteq SignedMessage /\ open' = open
  BY <1>1, Zenon DEF GossipInv, GossipTypes
<1> QED
  BY <1>4, <1>7, <1>8, <1>10, <1>11, <1>12, OnePeer, Zenon

\* gossip_dkg_signed_message, with what else has changed of the peers.
LEMMA Gossips ==
  ASSUME GossipInv, NEW n \in Node, NEW m \in SignedMessage,
         NEW ps \in Peers, SamePeers(peers[n], ps), NEW es \in Seq(Happening),
         Streams(es, n, peers[n]), Gossiped(n, ps, es, m),
         UNCHANGED <<open, authority_id_to_peer_id>>, to_send' \subseteq SignedMessage
  PROVE  GossipInv'
<1> DEFINE qs == Connected(n)
           rs == Noted(ps, qs, m)
           tos == GossipTo(n, ps, m)
           ids == authority_id_to_peer_id[n]
<1>1. /\ events' = Written(n, es, tos, Signed(n, m))
      /\ peers' = [peers EXCEPT ![n] = rs]
  BY Zenon DEF Gossiped
<1>2. tos \in SUBSET Node /\ qs \in SUBSET Node /\ \A q \in qs : ps[q] # Nobody
  BY Zenon DEF GossipTo, Connected, SamePeers
<1>3. rs \in Peers /\ SamePeers(ps, rs)
  BY <1>2, NotedPeers, Zenon
<1>4. /\ Signed(n, m) \in Happening /\ Signed(n, m).from = n
      /\ Signed(n, m).is \notin {"opened", "closed"}
  BY Happens, Zenon
<1>5. /\ ids \in [Authority -> Node \cup {Nobody}] /\ PeersSound(peers[n], ids)
      /\ authority_id_to_peer_id' = [authority_id_to_peer_id EXCEPT ![n] = ids]
  BY PartOfGossip, Zenon
<1> HIDE DEF qs, rs, tos, ids
<1>6. /\ events' \in [Node -> Seq(Happening)] /\ events'[n] = es
      /\ \A r \in Node \ {n} : Streams(events'[r], r, peers[r])
  BY <1>1, <1>2, <1>4, Writes
<1>7. SamePeers(peers[n], rs)
  BY <1>3, Zenon DEF SamePeers
<1>8. Streams(es, n, rs)
  BY <1>7, Zenon DEF SamePeers, Streams, Stream
<1>9. PeersSound(rs, ids)
  BY <1>5, <1>7 DEF SamePeers, PeersSound
<1>10. Streams(events'[n], n, rs) /\ open' = open
  BY <1>6, <1>8, Zenon
<1> QED
  BY <1>1, <1>3, <1>5, <1>6, <1>9, <1>10, OnePeer, Zenon

\* on_signed_dkg_message: the peer is there, so that its message is counted,
\* noted and passed on.
LEMMA SignedEvent ==
  ASSUME GossipInv, NEW n \in Node,
         on_signed_dkg_message(n)
  PROVE  GossipInv'
<1> DEFINE who == Head(events[n]).from
           m == Head(events[n]).message
           es == Tail(events[n])
           repeated == who \in pending_messages_peers[n][m]
           times == [peers[n][who].message_counter EXCEPT ![m] = @ + 1]
           peer == [peers[n][who] EXCEPT !.message_counter = times]
           counted == IF repeated THEN [peers[n] EXCEPT ![who] = peer]
                      ELSE peers[n]
           noted == Noted(counted, {who}, m)
<1>1. /\ events[n] # << >> /\ Head(events[n]).is = "signed"
      /\ Gossiped(n, noted, es, m)
      /\ UNCHANGED <<open, to_send, authority_id_to_peer_id>>
  BY Zenon DEF on_signed_dkg_message, Event, network
<1>2. /\ who \in Node /\ m \in SignedMessage /\ es \in Seq(Happening)
      /\ peers[n][who] # Nobody
      /\ Stream(es, who, TRUE, {n, who} \in open)
      /\ \A q \in Node \ {who} :
           Stream(es, q, peers[n][q] # Nobody, {n, q} \in open)
  <2>1. Head(events[n]).is # "closed" /\ Head(events[n]).is # "opened"
    BY <1>1, Zenon
  <2> QED
    BY <1>1, <2>1, HandledEvent, Zenon DEF Stream
<1>3. peers[n] \in Peers /\ peers[n][who] \in Peer
  BY <1>2, PartOfGossip DEF Peers
<1>4. peer \in Peer /\ peer.authority_id = peers[n][who].authority_id
  <2>1. times \in [SignedMessage -> Nat]
    <3> DEFINE c == peers[n][who].message_counter
    <3>1. c \in [SignedMessage -> Nat]
      BY <1>3, Zenon DEF Peer
    <3> HIDE DEF c
    <3>2. c[m] + 1 \in Nat
      BY <1>2, <3>1
    <3>3. [c EXCEPT ![m] = c[m] + 1] \in [SignedMessage -> Nat]
      BY <3>1, <3>2, Zenon
    <3> QED
      BY <3>3, Zenon DEF c
  <2> HIDE DEF times
  <2> QED
    BY <1>3, <2>1, PeerNoted, Zenon
<1> HIDE DEF peer, who, es, m, repeated
<1>5. counted \in Peers /\ SamePeers(peers[n], counted)
  <2>1. peer # Nobody
    BY GossipAssumption, <1>4, Zenon
  <2>2. counted \in Peers
    BY <1>2, <1>3, <1>4 DEF Peers
  <2> QED
    BY <1>2, <1>3, <1>4, <2>1, <2>2 DEF SamePeers, Peers
<1> HIDE DEF counted
<1>6. noted \in Peers /\ SamePeers(counted, noted)
  <2>1. {who} \in SUBSET Node /\ \A q \in {who} : counted[q] # Nobody
    BY <1>2, <1>5, Zenon DEF SamePeers
  <2> QED
    BY <1>2, <1>5, <2>1, NotedPeers
<1> HIDE DEF noted
<1>7. SamePeers(peers[n], noted)
  BY <1>5, <1>6, Zenon DEF SamePeers
<1>8. Streams(es, n, peers[n])
  <2> SUFFICES ASSUME NEW q \in Node
               PROVE  Stream(es, q, peers[n][q] # Nobody, {n, q} \in open)
    BY Zenon DEF Streams
  <2>1. CASE q = who
    BY <1>2, <2>1, Zenon DEF Stream
  <2>2. CASE q # who
    BY <1>2, <2>2
  <2> QED
    BY <2>1, <2>2, Zenon
<1>9. to_send' \subseteq SignedMessage
  BY <1>1, Zenon DEF GossipInv, GossipTypes
<1> QED
  BY <1>1, <1>2, <1>6, <1>7, <1>8, <1>9, Gossips, Zenon

\* A link that opens or closes: both ends are told of it, after all that was
\* sent over it.
LEMMA LinkChanges ==
  ASSUME GossipInv, NEW l \in Link,
         NEW tell \in [Node -> Happening],
         events' = [n \in Node |-> IF n \in l THEN Append(events[n], tell[n])
                                   ELSE events[n]],
         open' \subseteq Link, \A k : k # l => (k \in open' <=> k \in open),
         \A n, q \in Node :
           n # q /\ l = {n, q} =>
             tell[n].from = q /\ Follows(tell[n], q, l \in open, l \in open'),
         UNCHANGED <<to_send, peers, authority_id_to_peer_id>>
  PROVE  GossipInv'
<1>1. \A n \in Node : events[n] \in Seq(Happening)
  BY Zenon DEF GossipInv, GossipTypes
<1>2. GossipTypes'
  <2>1. \A n \in Node : Append(events[n], tell[n]) \in Seq(Happening)
    BY <1>1, AppendProperties, Zenon
  <2>2. events' \in [Node -> Seq(Happening)]
    BY <1>1, <2>1, Zenon
  <2> QED
    BY <2>2, Zenon DEF GossipInv, GossipTypes, Peer
<1>3. ASSUME NEW n \in Node, NEW q \in Node
      PROVE  Stream(events'[n], q, peers[n][q] # Nobody, {n, q} \in open')
  <2> DEFINE known == peers[n][q] # Nobody
             before == {n, q} \in open
             after == {n, q} \in open'
  <2>1. Stream(events[n], q, known, before)
    BY Zenon DEF GossipInv, Streams
  <2>2. CASE n \in l
    <3>1. PICK r \in Node : r # n /\ l = {n, r}
      <4> DEFINE r == CHOOSE r \in l \ {n} : TRUE
      <4>1. r \in Node /\ r # n /\ l = {n, r}
        BY <2>2, Ends
      <4> QED
        BY <4>1, Zenon
    <3>2. tell[n].from = r /\ Follows(tell[n], r, l \in open, l \in open')
      BY <3>1, Zenon
    <3>3. Follows(tell[n], q, before, after)
      <4>1. CASE q = r
        BY <3>1, <3>2, <4>1, Zenon
      <4>2. CASE q # r
        <5>1. {n, q} # l
          BY <3>1, <4>2, Zenon
        <5>2. before <=> after
          BY <5>1, Zenon
        <5> HIDE DEF before, after
        <5> QED
          BY <3>2, <4>2, <5>2, Zenon DEF Follows
      <4> QED
        BY <4>1, <4>2, Zenon
    <3>4. /\ events'[n] = Append(events[n], tell[n]) /\ tell[n] \in Happening
          /\ known \in BOOLEAN /\ before \in BOOLEAN /\ after \in BOOLEAN
      BY <2>2
    <3> HIDE DEF known, before, after
    <3>5. Stream(events'[n], q, known, after)
      BY <1>1, <2>1, <3>3, <3>4, StreamAppend
    <3> QED
      BY <3>5, Zenon DEF known, after
  <2>3. CASE n \notin l
    <3>1. events'[n] = events[n] /\ {n, q} # l
      BY <2>3, Zenon
    <3>2. before <=> after
      BY <3>1, Zenon
    <3> HIDE DEF known, before, after
    <3>3. Stream(events'[n], q, known, after)
      BY <2>1, <3>1, <3>2, Zenon DEF Stream
    <3> QED
      BY <3>3, Zenon DEF known, after
  <2> QED
    BY <2>2, <2>3, Zenon
<1>4. \A n \in Node : Streams(events[n], n, peers[n])'
  BY <1>3, Zenon DEF Streams
<1>5. \A n \in Node : PeersSound(peers[n], authority_id_to_peer_id[n])'
  BY DEF GossipInv, PeersSound
<1> QED
  BY <1>2, <1>4, <1>5 DEF GossipInv

\* Every step of the gossip handlers and of the network below them.
LEMMA GossipStep ==
  ASSUME \A q, r \in Node : AuthorityOf[q] = AuthorityOf[r] => q = r,
         GossipInv, [GossipNext]_gossipVars
  PROVE  GossipInv'
<1>1. ASSUME NEW l \in Link, Connect(l)
      PROVE  GossipInv'
  <2> DEFINE other(n) == CHOOSE q \in l \ {n} : TRUE
             tell == [n \in Node |-> Opened(IF n \in l THEN other(n)
                                            ELSE n)]
  <2>1. \A n \in l : n \in Node /\ other(n) \in Node /\ l = {n, other(n)}
    BY Ends
  <2>2. tell \in [Node -> Happening]
    BY <2>1, Happens
  <2>3. events' = [n \in Node |-> IF n \in l THEN Append(events[n], tell[n])
                                  ELSE events[n]]
    BY <1>1 DEF Connect
  <2>4. /\ l \notin open /\ open' = open \cup {l} /\ open' \subseteq Link
        /\ UNCHANGED <<to_send, peers, authority_id_to_peer_id>>
    BY <1>1, Zenon DEF Connect, GossipInv, GossipTypes
  <2>5. ASSUME NEW n \in Node, NEW q \in Node, n # q, l = {n, q}
        PROVE  tell[n].from = q /\ Follows(tell[n], q, l \in open, l \in open')
    <3>1. n \in l /\ other(n) = q
      BY <2>5, Zenon
    <3>2. tell[n] = Opened(q)
      BY <3>1, Zenon
    <3> QED
      BY <2>4, <3>2, Happens DEF Follows
  <2> HIDE DEF tell
  <2> QED
    BY <2>2, <2>3, <2>4, <2>5, LinkChanges, Zenon
<1>2. ASSUME NEW l \in Link, Disconnect(l)
      PROVE  GossipInv'
  <2> DEFINE other(n) == CHOOSE q \in l \ {n} : TRUE
             tell == [n \in Node |-> Closed(IF n \in l THEN other(n)
                                            ELSE n)]
  <2>1. \A n \in l : n \in Node /\ other(n) \in Node /\ l = {n, other(n)}
    BY Ends
  <2>2. tell \in [Node -> Happening]
    BY <2>1, Happens
  <2>3. events' = [n \in Node |-> IF n \in l THEN Append(events[n], tell[n])
                                  ELSE events[n]]
    BY <1>2 DEF Disconnect
  <2>4. /\ l \in open /\ open' = open \ {l} /\ open' \subseteq Link
        /\ UNCHANGED <<to_send, peers, authority_id_to_peer_id>>
    BY <1>2, Zenon DEF Disconnect, GossipInv, GossipTypes
  <2>5. ASSUME NEW n \in Node, NEW q \in Node, n # q, l = {n, q}
        PROVE  tell[n].from = q /\ Follows(tell[n], q, l \in open, l \in open')
    <3>1. n \in l /\ other(n) = q
      BY <2>5, Zenon
    <3>2. tell[n] = Closed(q)
      BY <3>1, Zenon
    <3> QED
      BY <2>4, <3>2, Happens DEF Follows
  <2> HIDE DEF tell
  <2> QED
    BY <2>2, <2>3, <2>4, <2>5, LinkChanges
<1>3. ASSUME NEW m \in SignedMessage, gossip(m)
      PROVE  GossipInv'
  <2> DEFINE n == Author[m]
  <2>1. n \in Node
    BY GossipAssumption, Zenon
  <2>2. /\ Gossiped(n, peers[n], events[n], m)
        /\ UNCHANGED <<open, authority_id_to_peer_id>>
        /\ to_send' \subseteq SignedMessage
    BY <1>3, Zenon DEF gossip, network, GossipInv, GossipTypes
  <2> HIDE DEF n
  <2>3. /\ peers[n] \in Peers /\ events[n] \in Seq(Happening)
        /\ Streams(events[n], n, peers[n])
    BY <2>1, PartOfGossip, Zenon
  <2>4. SamePeers(peers[n], peers[n])
    BY Zenon DEF SamePeers
  <2> QED
    BY <2>1, <2>2, <2>3, <2>4, Gossips, Zenon
<1>4. ASSUME NEW n \in Node, handle_network_event(n)
      PROVE  GossipInv'
  BY <1>4, OpenedEvent, ClosedEvent, HandshakeEvent, SignedEvent
     DEF handle_network_event
<1>5. CASE UNCHANGED gossipVars
  <2>1. UNCHANGED <<open, events, to_send, peers, authority_id_to_peer_id>>
    BY <1>5, Zenon DEF gossipVars, network
  <2>2. GossipTypes'
    BY <2>1, Zenon DEF GossipInv, GossipTypes, Peer
  <2>3. \A n \in Node : Streams(events[n], n, peers[n])'
    BY <2>1, Zenon DEF GossipInv, Streams
  <2>4. \A n \in Node : PeersSound(peers[n], authority_id_to_peer_id[n])'
    BY <2>1 DEF GossipInv, PeersSound
  <2> QED
    BY <2>2, <2>3, <2>4, Zenon DEF GossipInv
<1> QED
  BY <1>1, <1>2, <1>3, <1>4, <1>5, Zenon DEF GossipNext

\* The invariant of the gossip handlers holds in every state: what a node has
\* still to handle tells of each stream what became of it, in order.
THEOREM GossipInvariance ==
  ASSUME \A q, r \in Node : AuthorityOf[q] = AuthorityOf[r] => q = r
  PROVE  GossipSpec => []GossipInv
<1>1. GossipInit => GossipInv
  <2> SUFFICES ASSUME GossipInit
               PROVE  GossipInv
    OBVIOUS
  <2>1. /\ open = {} /\ events = [n \in Node |-> << >>] /\ to_send = SignedMessage
        /\ peers = [n \in Node |-> [q \in Node |-> Nobody]]
        /\ authority_id_to_peer_id =
             [n \in Node |-> [a \in Authority |-> Nobody]]
    BY Zenon DEF GossipInit
  <2>2. GossipTypes
    BY <2>1 DEF GossipTypes
  <2>3. ASSUME NEW n \in Node, NEW q \in Node
        PROVE  Stream(events[n], q, peers[n][q] # Nobody, {n, q} \in open)
    <3>1. events[n] = << >> /\ peers[n][q] = Nobody /\ {n, q} \notin open
      BY <2>1, Zenon
    <3>2. Len(events[n]) = 0 /\ 1..Len(events[n]) = {}
      BY <3>1
    <3>3. {} \in SUBSET (1..(Len(events[n]) + 1))
      OBVIOUS
    <3> QED
      BY <3>1, <3>2, <3>3, Zenon DEF Stream
  <2>4. \A n \in Node : PeersSound(peers[n], authority_id_to_peer_id[n])
    BY GossipAssumption, <2>1, Zenon DEF PeersSound
  <2> QED
    BY <2>2, <2>3, <2>4, Zenon DEF GossipInv, Streams
<1>2. GossipInv /\ [GossipNext]_gossipVars => GossipInv'
  BY GossipStep, Zenon
<1> QED
  BY <1>1, <1>2, PTL DEF GossipSpec

\* An authority is looked up as the one connected peer that has shaken hands as
\* it, if no two peers have one authority: streams that end and begin again
\* leave no entry of a peer that is gone, nor take one from a peer that is there.
THEOREM AuthoritiesArePeers ==
  ASSUME \A q, r \in Node : AuthorityOf[q] = AuthorityOf[r] => q = r
  PROVE  GossipSpec => []AuthorityIsPeer
<1>1. GossipInv => AuthorityIsPeer
  BY DEF GossipInv, PeersSound, AuthorityIsPeer, Connected
<1> QED
  BY <1>1, GossipInvariance, PTL
=============================================================================

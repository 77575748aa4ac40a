--------------------- MODULE NetChannelDelivery_proofs ---------------------
(***************************************************************************)
(* What two netchannels deliver: each direction implements ReliableStream, *)
(* and a buffer has each fragment once.  NetChannelPair_proofs has what    *)
(* the bits and the sequence numbers say; here the invariant relates the   *)
(* receiver's buffer to the sender's front transfer, block by block.       *)
(***************************************************************************)
EXTENDS NetChannelPair_proofs

-----------------------------------------------------------------------------
(* What is assumed of the messages *)

(* No batch and no packet ends in so much padding that the reader takes it *)
(* for one more message (see Decodes): the finding of the run              *)
(* batch_padding_is_not_a_nop, left aside.                                 *)
Decodable ==
    /\ \A count \in MessageCounts : Decodes(0, count)
    /\ \A count \in UnreliableCounts, i \in Subchannel, d \in StreamData :
          Decodes(ReliableBits([subchannel |-> i, stream |-> d]), count)

(* Numbers of messages that are Decodable: a batch of any number but 3, 7, *)
(* ..., packets with an even number.  The server has 1 and 0.              *)
LEMMA DecodableCounts ==
    ASSUME \A count \in MessageCounts : count % 4 # 3,
           \A count \in UnreliableCounts : count % 2 = 0
    PROVE  Decodable
<1>1. ASSUME NEW count \in MessageCounts PROVE Decodes(0, count)
  <2>1. count \in Nat /\ count % 4 # 3
    BY PairAssumption
  <2>2. (-(0 + count * 6)) % 8 < 6
    BY <2>1
  <2> QED BY <2>2 DEF Decodes, NETMSG_TYPE_BITS
<1>2. ASSUME NEW count \in UnreliableCounts, NEW bits \in {7, 27, 55}
      PROVE  Decodes(bits, count)
  <2>1. count \in Nat /\ count % 2 = 0
    BY PairAssumption
  <2>2. (-(bits + count * 6)) % 8 < 6
    BY <2>1
  <2> QED BY <2>2 DEF Decodes, NETMSG_TYPE_BITS
<1>3. ASSUME NEW i \in Subchannel, NEW d \in StreamData
      PROVE  ReliableBits([subchannel |-> i, stream |-> d]) \in {7, 27, 55}
  <2> DEFINE r == [subchannel |-> i, stream |-> d]
  <2>1. r # None /\ d # None /\ r.stream = d
    BY NoneAssumption
  <2>2. ReliableBits(r) = 5 + IF d.single_block THEN 2
                              ELSE 22 + IF d.start_fragment = 0 THEN 28 ELSE 0
    BY <2>1 DEF ReliableBits, MAX_FILE_SIZE_BITS, FRAGMENT_BITS
  <2> QED BY <2>2
<1> QED BY <1>1, <1>2, <1>3 DEF Decodable

-----------------------------------------------------------------------------
(* The invariant of a direction: c sends to d, q is what c has queued, r   *)
(* what d has returned.                                                    *)

(* The fragments that subchannel i carries, counted from 1 as in a buffer. *)
Carried(c, i) ==
    (c.subchannels[i].start_fragment + 1) ..
       (c.subchannels[i].start_fragment + c.subchannels[i].num_fragments)

(* The subchannels whose block the receiver has yet to read: their bits    *)
(* differ.                                                                 *)
Missing(c, d) ==
    {i \in Busy(c) : c.out_reliable_state[i] # d.in_reliable_state[i]}

(* The fragments of the front transfer that the receiver has read: those   *)
(* that were ever sent, less those on missing blocks.                      *)
Held(c, d) ==
    {k \in 1 .. SentFragments(Head(c.outgoing)) :
        \A i \in Missing(c, d) : k \notin Carried(c, i)}

(* A buffer that has exactly the fragments in H of a transfer. *)
Holds(transfer, H, incoming) ==
    /\ incoming.bytes = transfer.bytes
    /\ incoming.acked_fragments = Cardinality(H)
    /\ incoming.data =
          [k \in 1 .. BytesToFragments(transfer.bytes) |->
              IF k \in H THEN transfer.payload ELSE Zero]

(* The front transfer is on its way: no fragment has been read, or the     *)
(* first one has, and with it the size, and some are missing.              *)
Receiving(c, d) ==
    \/ d.incoming = None /\ Held(c, d) = {}
    \/ /\ d.incoming # None
       /\ 1 \in Held(c, d)
       /\ Held(c, d) # 1 .. BytesToFragments(Head(c.outgoing).bytes)
       /\ Holds(Head(c.outgoing), Held(c, d), d.incoming)

(* It has been returned, and the sender has yet to hear of it. *)
Returned(c, d) ==
    /\ d.incoming = None
    /\ Missing(c, d) = {}
    /\ SentFragments(Head(c.outgoing)) = BytesToFragments(Head(c.outgoing).bytes)

(* The receiver is at the sender's front transfer, or one further. *)
Progress(c, d, q, r) ==
    IF c.outgoing = <<>> THEN d.incoming = None /\ Len(r) = Len(q)
    ELSE \/ Len(r) = Len(q) - Len(c.outgoing) /\ Receiving(c, d)
         \/ Len(r) = Len(q) - Len(c.outgoing) + 1 /\ Returned(c, d)

(* What is left to send is the end of what was queued. *)
Backlog(c, q) ==
    /\ q \in Seq(Payload)
    /\ \A n \in 1 .. Len(q) : q[n].id = n /\ q[n].count \in MessageCounts
    /\ Len(c.outgoing) <= Len(q)
    /\ \A n \in 1 .. Len(c.outgoing) :
          /\ c.outgoing[n].payload = q[Len(q) - Len(c.outgoing) + n]
          /\ c.outgoing[n].bytes \in TransferBytes

(* What was returned is the beginning of it. *)
Prefix(q, r) ==
    /\ r \in Seq(Payload)
    /\ Len(r) <= Len(q)
    /\ \A n \in 1 .. Len(r) : r[n] = q[n]

(* A packet that may still be accepted has the block of its subchannel. *)
BlocksMatch(c, d, data) ==
    /\ \A pk \in data : pk.messages \in UnreliableCounts
    /\ \A i \in Subchannel : \A pk \in InFlight(d, data, i) :
          pk.reliable.stream = StreamOf(c, i)

Delivery(c, d, data, q, r) ==
    /\ Backlog(c, q) /\ Prefix(q, r)
    /\ Progress(c, d, q, r)
    /\ BlocksMatch(c, d, data)

(* Both directions. *)
Deliveries ==
    \A p \in Peer :
        Delivery(channel[p], channel[Other(p)], network[Other(p)],
                 queued[p], received[Other(p)])

-----------------------------------------------------------------------------
(* Fragments of the front transfer                                         *)

(* The block of a busy subchannel is a part of what was sent, not empty,   *)
(* and shares nothing with another.                                        *)
LEMMA BlockFacts ==
    ASSUME NEW c, ChannelOK(c), NEW i \in Busy(c)
    PROVE  /\ i \in Subchannel /\ c.outgoing # <<>>
           /\ c.subchannels[i].start_fragment \in Nat
           /\ c.subchannels[i].num_fragments \in Nat \ {0}
           /\ c.subchannels[i].start_fragment + c.subchannels[i].num_fragments
                 <= SentFragments(Head(c.outgoing))
           /\ Carried(c, i) # {}
           /\ Carried(c, i) \subseteq 1 .. SentFragments(Head(c.outgoing))
           /\ \A j \in Busy(c) : i # j => Carried(c, i) \cap Carried(c, j) = {}
<1> DEFINE s == c.subchannels
           sent == SentFragments(Head(c.outgoing))
<1>1. i \in Subchannel /\ c.outgoing # <<>> /\ BlocksDisjoint(c)
  BY BusyIn DEF ChannelOK, Accounting
<1>2. ASSUME NEW j \in Busy(c)
      PROVE  /\ s[j].start_fragment \in Nat
             /\ s[j].num_fragments \in Nat \ {0}
             /\ s[j].start_fragment + s[j].num_fragments <= sent
  <2>1. s[j] \in SubChannel
    BY BusyIn, ChannelTypes
  <2> QED BY <1>1, <2>1 DEF BlocksDisjoint, SubChannel
<1>3. sent \in Nat
  BY <1>1, FrontCounts
<1> HIDE DEF sent
<1>4. /\ s[i].start_fragment + 1 \in Carried(c, i)
      /\ Carried(c, i) \subseteq 1 .. sent
  BY <1>2, <1>3 DEF Carried
<1>5. ASSUME NEW j \in Busy(c), i # j PROVE Carried(c, i) \cap Carried(c, j) = {}
  <2>1. \/ s[i].start_fragment + s[i].num_fragments <= s[j].start_fragment
        \/ s[j].start_fragment + s[j].num_fragments <= s[i].start_fragment
    BY <1>1, <1>5 DEF BlocksDisjoint
  <2> QED BY <1>2, <2>1 DEF Carried
<1> QED BY <1>1, <1>2, <1>4, <1>5 DEF sent

(* Some fragments of the front transfer are held. *)
LEMMA HeldFacts ==
    ASSUME NEW c, ChannelOK(c), NEW d, c.outgoing # <<>>
    PROVE  LET total == BytesToFragments(Head(c.outgoing).bytes)
           IN  /\ Held(c, d) \in SUBSET (1 .. total)
               /\ IsFiniteSet(Held(c, d))
               /\ Cardinality(Held(c, d)) \in Nat
               /\ Cardinality(Held(c, d)) <= total
               /\ Cardinality(Held(c, d)) = total <=> Held(c, d) = 1 .. total
<1> DEFINE total == BytesToFragments(Head(c.outgoing).bytes)
           sent == SentFragments(Head(c.outgoing))
           H == Held(c, d)
<1>1. total \in Nat /\ sent \in Nat /\ sent <= total
  BY FrontCounts
<1>2. H \subseteq 1 .. sent
  BY DEF Held
<1> HIDE DEF total, sent, H
<1>3. H \in SUBSET (1 .. total)
  BY <1>1, <1>2
<1>4. IsFiniteSet(1 .. total) /\ Cardinality(1 .. total) = total
  BY <1>1, FS_Interval
<1>5. /\ IsFiniteSet(H) /\ Cardinality(H) <= total
      /\ Cardinality(H) = total => H = 1 .. total
  BY <1>3, <1>4, FS_Subset
<1>6. Cardinality(H) \in Nat
  BY <1>5, FS_CardinalityType
<1> QED BY <1>3, <1>4, <1>5, <1>6 DEF total, H

(* What is held depends on the sender's subchannels and on the bits. *)
LEMMA HeldSame ==
    ASSUME NEW c, NEW d, NEW e,
           \A i \in Subchannel : e.in_reliable_state[i] = d.in_reliable_state[i]
    PROVE  Missing(c, e) = Missing(c, d) /\ Held(c, e) = Held(c, d)
<1>1. Missing(c, e) = Missing(c, d)
  BY DEF Missing, Busy
<1> QED BY <1>1 DEF Held

(* Reading a missing block adds its fragments, and no fragment twice. *)
LEMMA HeldGrows ==
    ASSUME NEW c, ChannelOK(c), NEW d, NEW e, NEW i \in Missing(c, d),
           d.in_reliable_state \in [Subchannel -> BOOLEAN],
           e.in_reliable_state = [d.in_reliable_state EXCEPT ![i] = ~ @]
    PROVE  /\ Missing(c, e) = Missing(c, d) \ {i}
           /\ Held(c, e) = Held(c, d) \cup Carried(c, i)
           /\ Cardinality(Held(c, e))
                = Cardinality(Held(c, d)) + c.subchannels[i].num_fragments
<1> DEFINE s == c.subchannels[i]
<1>1. /\ i \in Busy(c) /\ i \in Subchannel
      /\ c.out_reliable_state[i] # d.in_reliable_state[i]
  BY BusyIn DEF Missing
<1>2. /\ c.out_reliable_state \in [Subchannel -> BOOLEAN]
      /\ e.in_reliable_state[i] # d.in_reliable_state[i]
      /\ \A j \in Subchannel \ {i} : e.in_reliable_state[j] = d.in_reliable_state[j]
  BY <1>1, ChannelTypes
<1>3. Missing(c, e) = Missing(c, d) \ {i}
  <2>1. c.out_reliable_state[i] = e.in_reliable_state[i]
    BY <1>1, <1>2
  <2> QED BY <1>2, <2>1, BusyIn DEF Missing
<1>4. /\ s.start_fragment \in Nat /\ s.num_fragments \in Nat \ {0}
      /\ c.outgoing # <<>>
      /\ Carried(c, i) \subseteq 1 .. SentFragments(Head(c.outgoing))
      /\ \A j \in Busy(c) : i # j => Carried(c, i) \cap Carried(c, j) = {}
  BY <1>1, BlockFacts
<1>5. Missing(c, d) \subseteq Busy(c)
  BY DEF Missing
<1>6. Held(c, e) = Held(c, d) \cup Carried(c, i)
  BY <1>3, <1>4, <1>5 DEF Held
<1>7. Held(c, d) \cap Carried(c, i) = {}
  BY DEF Held
<1>8. IsFiniteSet(Carried(c, i)) /\ Cardinality(Carried(c, i)) = s.num_fragments
  <2> DEFINE a == s.start_fragment
             n == s.num_fragments
  <2>1. a \in Nat /\ n \in Nat \ {0}
    BY <1>4
  <2> HIDE DEF a, n
  <2>2. /\ IsFiniteSet((a + 1) .. (a + n))
        /\ Cardinality((a + 1) .. (a + n))
             = IF a + 1 > a + n THEN 0 ELSE (a + n) - (a + 1) + 1
    BY <2>1, FS_Interval
  <2>3. Cardinality((a + 1) .. (a + n)) = n
    BY <2>1, <2>2
  <2> QED BY <2>2, <2>3 DEF a, n, Carried
<1>9. IsFiniteSet(Held(c, d)) /\ Cardinality(Held(c, d)) \in Nat
  BY <1>4, HeldFacts
<1>10. Cardinality(Held(c, d) \cup Carried(c, i))
         = Cardinality(Held(c, d)) + s.num_fragments
  <2>1. Cardinality(Held(c, d) \cap Carried(c, i)) = 0
    BY <1>7, FS_EmptySet
  <2>2. Cardinality(Held(c, d) \cup Carried(c, i))
          = Cardinality(Held(c, d)) + Cardinality(Carried(c, i))
              - Cardinality(Held(c, d) \cap Carried(c, i))
    BY <1>8, <1>9, FS_Union
  <2> QED BY <1>4, <1>8, <1>9, <2>1, <2>2
<1> QED BY <1>3, <1>6, <1>10

(* What write_packet writes for a busy subchannel. *)
LEMMA StreamFacts ==
    ASSUME NEW c, ChannelOK(c), NEW i \in Busy(c)
    PROVE  LET d == StreamOf(c, i)
               s == c.subchannels[i]
           IN  /\ d \in StreamData
               /\ d.start_fragment = s.start_fragment
               /\ d.payload = Head(c.outgoing).payload
               /\ NumFragments(d) = s.num_fragments
               /\ s.start_fragment = 0 => d.bytes = Head(c.outgoing).bytes
<1> DEFINE s == c.subchannels[i]
           front == Head(c.outgoing)
           total == BytesToFragments(front.bytes)
           single == s.num_fragments = total
           d == StreamOf(c, i)
<1>1. c.outgoing # <<>> /\ i \in Subchannel
  BY BlockFacts
<1>2. d = [single_block |-> single,
           start_fragment |-> s.start_fragment,
           num_fragments |-> s.num_fragments,
           bytes |-> IF single \/ s.start_fragment = 0 THEN front.bytes ELSE 0,
           payload |-> front.payload]
  BY <1>1 DEF StreamOf
<1>3. /\ front \in OutgoingReliableData /\ front.bytes \in Nat
      /\ front.payload \in Payload
  BY <1>1, FrontCounts DEF OutgoingReliableData
<1>4. s.start_fragment \in Nat /\ s.num_fragments \in Nat
  BY BlockFacts
<1> HIDE DEF s, front, d
<1>5. /\ d.start_fragment = s.start_fragment /\ d.payload = front.payload
      /\ d.num_fragments = s.num_fragments /\ d.single_block = single
      /\ single \/ s.start_fragment = 0 => d.bytes = front.bytes
  BY <1>2
<1>6. NumFragments(d) = s.num_fragments
  BY <1>5 DEF NumFragments
<1>7. d \in StreamData
  BY <1>2, <1>3, <1>4 DEF StreamData
<1> QED BY <1>5, <1>6, <1>7 DEF s, front, d

-----------------------------------------------------------------------------
(* What a direction depends on                                             *)

(* Only the sending half of the sender matters. *)
LEMMA SenderSame ==
    ASSUME NEW c, NEW d, NEW data, NEW q, NEW r, Delivery(c, d, data, q, r), NEW e,
           e.outgoing = c.outgoing, e.subchannels = c.subchannels,
           e.out_reliable_state = c.out_reliable_state
    PROVE  Delivery(e, d, data, q, r)
<1>1. /\ Missing(e, d) = Missing(c, d)
      /\ \A i : Carried(e, i) = Carried(c, i)
      /\ \A i : StreamOf(e, i) = StreamOf(c, i)
  BY DEF Missing, Busy, Carried, StreamOf
<1>2. Held(e, d) = Held(c, d)
  BY <1>1 DEF Held
<1>3. Progress(e, d, q, r)
  BY <1>1, <1>2 DEF Delivery, Progress, Receiving, Returned
<1> QED BY <1>1, <1>3 DEF Delivery, Backlog, BlocksMatch

(* Only the receiving half of the receiver matters. *)
LEMMA ReceiverSame ==
    ASSUME NEW c, NEW d, NEW data, NEW q, NEW r, Delivery(c, d, data, q, r), NEW e,
           e.in_sequence_nr = d.in_sequence_nr, e.incoming = d.incoming,
           e.in_reliable_state = d.in_reliable_state
    PROVE  Delivery(c, e, data, q, r)
<1>1. Missing(c, e) = Missing(c, d) /\ Held(c, e) = Held(c, d)
  BY HeldSame
<1>2. Progress(c, e, q, r)
  BY <1>1 DEF Delivery, Progress, Receiving, Returned
<1>3. BlocksMatch(c, e, data)
  BY DEF Delivery, BlocksMatch, InFlight
<1> QED BY <1>2, <1>3 DEF Delivery

(* The transfers of two channels are the same but for their counters. *)
SameTransfers(c, e) ==
    /\ c.outgoing \in Seq(OutgoingReliableData)
    /\ e.outgoing \in Seq(OutgoingReliableData)
    /\ Len(e.outgoing) = Len(c.outgoing)
    /\ \A n \in 1 .. Len(c.outgoing) :
          /\ e.outgoing[n].payload = c.outgoing[n].payload
          /\ e.outgoing[n].bytes = c.outgoing[n].bytes

(* Then what is written for a subchannel with the same block is the same. *)
LEMMA SameStreams ==
    ASSUME NEW c, NEW e, SameTransfers(c, e), NEW i,
           e.subchannels[i].start_fragment = c.subchannels[i].start_fragment,
           e.subchannels[i].num_fragments = c.subchannels[i].num_fragments
    PROVE  StreamOf(e, i) = StreamOf(c, i)
<1>1. CASE c.outgoing = <<>>
  <2>1. e.outgoing = <<>>
    BY <1>1 DEF SameTransfers
  <2> QED BY <1>1, <2>1 DEF StreamOf
<1>2. CASE c.outgoing # <<>>
  <2>1. /\ e.outgoing # <<>> /\ Head(e.outgoing).payload = Head(c.outgoing).payload
        /\ Head(e.outgoing).bytes = Head(c.outgoing).bytes
    <3>1. /\ 1 \in 1 .. Len(c.outgoing) /\ e.outgoing # <<>>
          /\ Head(c.outgoing) = c.outgoing[1] /\ Head(e.outgoing) = e.outgoing[1]
      BY <1>2 DEF SameTransfers
    <3> QED BY <3>1 DEF SameTransfers
  <2> QED BY <1>2, <2>1 DEF StreamOf
<1> QED BY <1>1, <1>2

(* A sender whose missing blocks and sent fragments are the same is as     *)
(* good.                                                                   *)
LEMMA SenderSimilar ==
    ASSUME NEW c, NEW d, NEW data, NEW q, NEW r, Delivery(c, d, data, q, r),
           NEW e, SameTransfers(c, e),
           c.outgoing # <<>> => Held(e, d) = Held(c, d),
           c.outgoing # <<>> => (Returned(c, d) => Returned(e, d)),
           NEW more, BlocksMatch(e, d, more)
    PROVE  Delivery(e, d, more, q, r)
<1>1. Backlog(e, q)
  BY DEF Delivery, Backlog, SameTransfers
<1>2. Progress(e, d, q, r)
  <2>1. CASE c.outgoing = <<>>
    BY <2>1 DEF Delivery, Progress, SameTransfers
  <2>2. CASE c.outgoing # <<>>
    <3>1. /\ e.outgoing # <<>>
          /\ Head(e.outgoing).payload = Head(c.outgoing).payload
          /\ Head(e.outgoing).bytes = Head(c.outgoing).bytes
      <4>1. /\ 1 \in 1 .. Len(c.outgoing) /\ e.outgoing # <<>>
            /\ Head(c.outgoing) = c.outgoing[1] /\ Head(e.outgoing) = e.outgoing[1]
        BY <2>2 DEF SameTransfers
      <4> QED BY <4>1 DEF SameTransfers
    <3>2. Receiving(c, d) => Receiving(e, d)
      BY <2>2, <3>1 DEF Receiving, Holds
    <3> QED BY <2>2, <3>1, <3>2 DEF Delivery, Progress, SameTransfers
  <2> QED BY <2>1, <2>2
<1> QED BY <1>1, <1>2 DEF Delivery

-----------------------------------------------------------------------------
(* The sender queues *)

(* A transfer that nothing was sent of: nothing of it is held. *)
LEMMA NothingHeld ==
    ASSUME NEW c, NEW d, SentFragments(Head(c.outgoing)) = 0
    PROVE  Held(c, d) = {}
  BY DEF Held

(* What is queued joins what is left to send. *)
LEMMA QueueDelivers ==
    ASSUME NEW c, NEW d, NEW data, NEW q, NEW r, Delivery(c, d, data, q, r),
           ChannelOK(c),
           \A i \in Subchannel :
              c.subchannels[i].state = "Free" => InFlight(d, data, i) = {},
           NEW payload \in Payload, payload.id = Len(q) + 1,
           payload.count \in MessageCounts,
           NEW bytes \in TransferBytes,
           NEW e, e = QueueReliableMessages(c, payload, bytes)
    PROVE  /\ Delivery(e, d, data, Append(q, payload), r)
           /\ Len(e.outgoing) = Len(c.outgoing) + 1
<1> DEFINE transfer == [payload |-> payload, bytes |-> bytes,
                        acked_fragments |-> 0, pending_fragments |-> 0]
           Q == Append(q, payload)
<1>1. /\ c \in Channel /\ c.outgoing \in Seq(OutgoingReliableData)
      /\ Backlog(c, q) /\ Prefix(q, r) /\ Progress(c, d, q, r)
      /\ BlocksMatch(c, d, data)
  BY DEF ChannelOK, Channel, Delivery
<1>2. transfer \in OutgoingReliableData /\ SentFragments(transfer) = 0
  BY PairAssumption DEF OutgoingReliableData, SentFragments
<1>3. transfer.payload = payload /\ transfer.bytes = bytes
  OBVIOUS
<1>4. /\ e.outgoing = Append(c.outgoing, transfer)
      /\ e.subchannels = c.subchannels
      /\ e.out_reliable_state = c.out_reliable_state
  BY <1>1 DEF QueueReliableMessages, Channel
<1> HIDE DEF transfer, Q
<1>5. /\ Len(e.outgoing) = Len(c.outgoing) + 1 /\ e.outgoing # <<>>
      /\ \A n \in 1 .. Len(c.outgoing) : e.outgoing[n] = c.outgoing[n]
      /\ e.outgoing[Len(c.outgoing) + 1] = transfer
      /\ Len(c.outgoing) \in Nat
  BY <1>1, <1>2, <1>4
<1>6. /\ Q \in Seq(Payload) /\ Len(Q) = Len(q) + 1 /\ Len(q) \in Nat
      /\ \A n \in 1 .. Len(q) : Q[n] = q[n]
      /\ Q[Len(q) + 1] = payload
  BY <1>1 DEF Q, Backlog
<1>7. Backlog(e, Q)
  <2>1. ASSUME NEW n \in 1 .. Len(Q) PROVE Q[n].id = n /\ Q[n].count \in MessageCounts
    <3>1. CASE n \in 1 .. Len(q)
      BY <1>1, <1>6, <3>1 DEF Backlog
    <3>2. CASE n = Len(q) + 1
      BY <1>6, <3>2
    <3> QED BY <1>6, <3>1, <3>2
  <2>2. ASSUME NEW n \in 1 .. Len(e.outgoing)
        PROVE  /\ e.outgoing[n].payload = Q[Len(Q) - Len(e.outgoing) + n]
               /\ e.outgoing[n].bytes \in TransferBytes
    <3>1. Len(Q) - Len(e.outgoing) = Len(q) - Len(c.outgoing)
      BY <1>5, <1>6
    <3>2. CASE n \in 1 .. Len(c.outgoing)
      <4>1. Len(q) - Len(c.outgoing) + n \in 1 .. Len(q)
        BY <1>1, <1>5, <1>6, <3>2 DEF Backlog
      <4> QED BY <1>1, <1>5, <1>6, <3>1, <3>2, <4>1 DEF Backlog
    <3>3. CASE n = Len(c.outgoing) + 1
      <4> DEFINE K == Len(c.outgoing)
                 L == Len(q)
      <4>1. K \in Nat /\ L \in Nat /\ n = K + 1
        BY <1>5, <1>6, <3>3
      <4> HIDE DEF K, L
      <4>2. L - K + n = L + 1
        BY <4>1
      <4>3. Len(q) - Len(c.outgoing) + n = Len(q) + 1
        BY <4>2 DEF K, L
      <4>4. Q[Len(Q) - Len(e.outgoing) + n] = payload
        BY <1>6, <3>1, <4>3
      <4>5. e.outgoing[n] = transfer
        BY <1>5, <3>3
      <4> QED BY <1>3, <4>4, <4>5
    <3>4. n \in 1 .. Len(c.outgoing) \/ n = Len(c.outgoing) + 1
      <4> DEFINE K == Len(c.outgoing)
      <4>1. K \in Nat /\ n \in 1 .. (K + 1)
        BY <1>5
      <4> HIDE DEF K
      <4>2. n \in 1 .. K \/ n = K + 1
        BY <4>1
      <4> QED BY <4>2 DEF K
    <3> QED BY <3>2, <3>3, <3>4
  <2>3. Len(e.outgoing) <= Len(Q)
    BY <1>1, <1>5, <1>6 DEF Backlog
  <2> QED BY <1>6, <2>1, <2>2, <2>3 DEF Backlog
<1>8. Prefix(Q, r)
  BY <1>1, <1>6 DEF Prefix
<1>9. CASE c.outgoing = <<>>
  <2>1. Busy(c) = {} /\ Busy(e) = {}
    BY <1>4, <1>9 DEF ChannelOK, Accounting, Busy
  <2>2. Head(e.outgoing) = transfer
    BY <1>2, <1>4, <1>9
  <2>3. Receiving(e, d)
    BY <1>1, <1>2, <1>9, <2>2, NothingHeld DEF Progress, Receiving
  <2>4. Len(r) = Len(Q) - Len(e.outgoing)
    BY <1>1, <1>5, <1>6, <1>9 DEF Progress
  <2>5. Progress(e, d, Q, r)
    BY <1>5, <2>3, <2>4 DEF Progress
  <2>6. BlocksMatch(e, d, data)
    <3>1. ASSUME NEW i \in Subchannel PROVE InFlight(d, data, i) = {}
      <4>1. c.subchannels[i].state = "Free"
        BY <2>1 DEF Busy
      <4> QED BY <4>1
    <3> QED BY <1>1, <3>1 DEF BlocksMatch
  <2> QED BY <1>5, <1>7, <1>8, <2>5, <2>6 DEF Delivery, Q
<1>10. CASE c.outgoing # <<>>
  <2>1. Head(e.outgoing) = Head(c.outgoing)
    BY <1>1, <1>2, <1>4, <1>10
  <2>2. Missing(e, d) = Missing(c, d) /\ \A i : Carried(e, i) = Carried(c, i)
    BY <1>4 DEF Missing, Busy, Carried
  <2>3. Held(e, d) = Held(c, d)
    BY <2>1, <2>2 DEF Held
  <2>4. Len(Q) - Len(e.outgoing) = Len(q) - Len(c.outgoing)
    BY <1>5, <1>6
  <2>5. Progress(e, d, Q, r)
    BY <1>1, <1>5, <1>10, <2>1, <2>2, <2>3, <2>4 DEF Progress, Receiving, Returned
  <2>6. \A i : StreamOf(e, i) = StreamOf(c, i)
    BY <1>4, <1>5, <1>10, <2>1 DEF StreamOf
  <2> QED BY <1>1, <1>5, <1>7, <1>8, <2>5, <2>6 DEF Delivery, BlocksMatch, Q
<1> QED BY <1>9, <1>10

-----------------------------------------------------------------------------
(* The sender writes                                                       *)

(* A subchannel is filled: its block is one more that is missing, and      *)
(* nothing of it was sent before, so what is held stays the same.          *)
LEMMA FillDelivers ==
    ASSUME NEW c, NEW d, NEW data, NEW q, NEW r, Delivery(c, d, data, q, r),
           ChannelOK(c), NEW i, NEW n, Fillable(c, i, n),
           c.out_reliable_state[i] = d.in_reliable_state[i],
           InFlight(d, data, i) = {},
           NEW f, Fills(c, i, n, f)
    PROVE  Delivery(f, d, data, q, r)
<1> DEFINE sent == SentFragments(Head(c.outgoing))
           total == BytesToFragments(Head(c.outgoing).bytes)
<1>1. /\ i \in Subchannel /\ n \in Nat \ {0} /\ c.outgoing # <<>>
      /\ c.subchannels[i].state = "Free" /\ sent + n <= total
  BY DEF Fillable
<1>2. /\ sent \in Nat /\ total \in Nat
      /\ Head(c.outgoing) \in OutgoingReliableData /\ Head(c.outgoing) = c.outgoing[1]
  BY <1>1, FrontCounts
<1>3. /\ Head(f.outgoing).payload = Head(c.outgoing).payload
      /\ Head(f.outgoing).bytes = Head(c.outgoing).bytes
      /\ SentFragments(Head(f.outgoing)) = sent + n
  <2>1. Head(f.outgoing) =
           [Head(c.outgoing) EXCEPT
              !.pending_fragments = Head(c.outgoing).pending_fragments + n]
    BY DEF Fills
  <2> DEFINE front == Head(c.outgoing)
             g == Head(f.outgoing)
  <2>2. /\ front \in OutgoingReliableData
        /\ g = [front EXCEPT !.pending_fragments = front.pending_fragments + n]
    BY <1>2, <2>1
  <2> HIDE DEF front, g
  <2>3. /\ g.payload = front.payload /\ g.bytes = front.bytes
        /\ g.acked_fragments = front.acked_fragments
        /\ g.pending_fragments = front.pending_fragments + n
        /\ front.acked_fragments \in Int /\ front.pending_fragments \in Int
    BY <2>2 DEF OutgoingReliableData
  <2>4. SentFragments(g) = SentFragments(front) + n
    BY <1>1, <2>3 DEF SentFragments
  <2> QED BY <2>3, <2>4 DEF front, g
<1>4. SameTransfers(c, f)
  <2>1. /\ c.outgoing \in Seq(OutgoingReliableData) /\ f.outgoing # <<>>
        /\ f.outgoing \in Seq(OutgoingReliableData)
        /\ Len(f.outgoing) = Len(c.outgoing)
        /\ \A k \in 2 .. Len(c.outgoing) : f.outgoing[k] = c.outgoing[k]
    BY DEF ChannelOK, Channel, Fills
  <2>2. Head(f.outgoing) = f.outgoing[1]
    BY <2>1
  <2>3. ASSUME NEW k \in 1 .. Len(c.outgoing)
        PROVE  /\ f.outgoing[k].payload = c.outgoing[k].payload
               /\ f.outgoing[k].bytes = c.outgoing[k].bytes
    <3>1. CASE k = 1
      BY <1>2, <1>3, <2>2, <3>1
    <3>2. CASE k # 1
      BY <2>1, <3>2
    <3> QED BY <3>1, <3>2
  <2> QED BY <2>1, <2>3 DEF SameTransfers
<1>5. /\ f.out_reliable_state[i] # d.in_reliable_state[i]
      /\ \A j \in Subchannel \ {i} : f.out_reliable_state[j] = c.out_reliable_state[j]
      /\ \A j \in Subchannel \ {i} : f.subchannels[j] = c.subchannels[j]
      /\ f.subchannels[i].state = "WaitingToSend"
      /\ f.subchannels[i].start_fragment = sent
      /\ f.subchannels[i].num_fragments = n
  <2>1. c.out_reliable_state \in [Subchannel -> BOOLEAN]
    BY ChannelTypes
  <2> QED BY <1>1, <2>1 DEF Fills
<1>6. Missing(f, d) = Missing(c, d) \cup {i} /\ i \notin Missing(c, d)
  <2>1. Busy(f) = Busy(c) \cup {i} /\ i \notin Busy(c)
    BY <1>1, <1>5 DEF Busy
  <2> QED BY <1>5, <2>1, BusyIn DEF Missing
<1>7. /\ Carried(f, i) = (sent + 1) .. (sent + n)
      /\ \A j \in Subchannel \ {i} : Carried(f, j) = Carried(c, j)
  BY <1>5 DEF Carried
<1>8. Held(f, d) = Held(c, d)
  <2>1. Missing(c, d) \subseteq Subchannel \ {i}
    BY <1>6, BusyIn DEF Missing
  <2>2. \A j \in Missing(c, d) : Carried(f, j) = Carried(c, j)
    BY <1>7, <2>1
  <2> HIDE DEF sent
  <2>3. 1 .. (sent + n) = (1 .. sent) \cup ((sent + 1) .. (sent + n))
    BY <1>1, <1>2
  <2>4. (1 .. sent) \cap ((sent + 1) .. (sent + n)) = {}
    BY <1>1, <1>2
  <2>5. /\ Held(f, d) = {k \in 1 .. (sent + n) :
                            \A j \in Missing(f, d) : k \notin Carried(f, j)}
        /\ Held(c, d) = {k \in 1 .. sent :
                            \A j \in Missing(c, d) : k \notin Carried(c, j)}
    BY <1>3 DEF Held, sent
  <2> QED BY <1>6, <1>7, <2>2, <2>3, <2>4, <2>5
<1>9. ~ Returned(c, d)
  <2>1. sent # total
    BY <1>1, <1>2
  <2> QED BY <2>1 DEF Returned
<1>10. BlocksMatch(f, d, data)
  <2>1. ASSUME NEW j \in Subchannel \ {i} PROVE StreamOf(f, j) = StreamOf(c, j)
    BY <1>4, <1>5, SameStreams
  <2> QED BY <2>1 DEF Delivery, BlocksMatch
<1> QED BY <1>4, <1>8, <1>9, <1>10, SenderSimilar

(* A waiting subchannel is sent: the packet has its block. *)
LEMMA SendDelivers ==
    ASSUME NEW f, NEW d, NEW data, NEW q, NEW r, Delivery(f, d, data, q, r),
           ChannelOK(f), NEW count \in UnreliableCounts, NEW i \in Subchannel,
           f.subchannels[i].state = "WaitingToSend",
           NEW k, PacketOf(f, count, [subchannel |-> i, stream |-> StreamOf(f, i)], k),
           NEW e, Sends(f, i, f.out_sequence_nr, e)
    PROVE  Delivery(e, d, data \cup {k}, q, r)
<1>1. SameTransfers(f, e) /\ e.outgoing = f.outgoing
  BY DEF ChannelOK, Channel, Sends, SameTransfers
<1>2. /\ e.out_reliable_state = f.out_reliable_state
      /\ \A j \in Subchannel :
            /\ e.subchannels[j].state = "Free" <=> f.subchannels[j].state = "Free"
            /\ e.subchannels[j].start_fragment = f.subchannels[j].start_fragment
            /\ e.subchannels[j].num_fragments = f.subchannels[j].num_fragments
  <2>1. f.subchannels[i] \in SubChannel
    BY ChannelTypes
  <2>2. /\ e.subchannels[i].state = "WaitingForAck"
        /\ e.subchannels[i].num_fragments = f.subchannels[i].num_fragments
        /\ e.subchannels[i].start_fragment = f.subchannels[i].start_fragment
    BY <2>1 DEF Sends, SubChannel
  <2> QED BY <2>2 DEF Sends
<1>3. Missing(e, d) = Missing(f, d) /\ \A j \in Subchannel : Carried(e, j) = Carried(f, j)
  BY <1>2 DEF Missing, Busy, Carried
<1>4. Held(e, d) = Held(f, d)
  <2>1. Missing(f, d) \subseteq Subchannel
    BY BusyIn DEF Missing
  <2> QED BY <1>1, <1>3, <2>1 DEF Held
<1>5. Returned(f, d) => Returned(e, d)
  BY <1>1, <1>3 DEF Returned
<1>6. BlocksMatch(e, d, data \cup {k})
  <2>1. ASSUME NEW j \in Subchannel, NEW pk \in InFlight(d, data \cup {k}, j)
        PROVE  pk.reliable.stream = StreamOf(e, j)
    <3>1. StreamOf(e, j) = StreamOf(f, j)
      BY <1>1, <1>2, SameStreams
    <3>2. CASE pk \in data
      <4>1. pk \in InFlight(d, data, j)
        BY <3>2 DEF InFlight
      <4> QED BY <3>1, <4>1 DEF Delivery, BlocksMatch
    <3>3. CASE pk = k
      <4>1. pk.reliable = [subchannel |-> i, stream |-> StreamOf(f, i)]
            /\ pk.reliable.subchannel = j
        BY <3>3 DEF PacketOf, InFlight
      <4> QED BY <3>1, <4>1
    <3> QED BY <3>2, <3>3 DEF InFlight
  <2> QED BY <2>1 DEF Delivery, BlocksMatch, PacketOf
<1> QED BY <1>1, <1>4, <1>5, <1>6, SenderSimilar

(* A packet without reliable data adds nothing to read. *)
LEMMA EmptyDelivers ==
    ASSUME NEW f, NEW d, NEW data, NEW q, NEW r, Delivery(f, d, data, q, r),
           NEW count \in UnreliableCounts, NEW k, PacketOf(f, count, None, k)
    PROVE  Delivery(f, d, data \cup {k}, q, r)
<1>1. \A i : InFlight(d, data \cup {k}, i) = InFlight(d, data, i)
  BY DEF InFlight, PacketOf
<1> QED BY <1>1 DEF Delivery, BlocksMatch, PacketOf

(* The receiving half is left alone by a write. *)
SameReceiving(c, e) ==
    /\ e.in_sequence_nr = c.in_sequence_nr
    /\ e.incoming = c.incoming
    /\ e.in_reliable_state = c.in_reliable_state

(* What write_packet writes belongs to the front transfer. *)
LEMMA WriteDelivers ==
    ASSUME NEW c, NEW d, NEW acks, NEW data, Half(c, d, acks, data),
           NEW q, NEW r, Delivery(c, d, data, q, r), NEW count \in UnreliableCounts
    PROVE  LET w == WritePacket(c, count)
           IN  /\ Delivery(w.channel, d, data \cup {w.packet}, q, r)
               /\ SameReceiving(c, w.channel)
               /\ Len(w.channel.outgoing) = Len(c.outgoing)
<1> DEFINE f == FillOutgoingSubchannel(c)
           e == WritePacket(c, count).channel
           k == WritePacket(c, count).packet
<1>1. ChannelOK(c) /\ count \in Nat
  BY PairAssumption DEF Half
<1>2. ChannelOK(f) /\ WritesFilled(f, count, e, k)
  BY <1>1, FillOK, WriteCases DEF Filling
<1>3. Delivery(f, d, data, q, r) /\ SameReceiving(c, f) /\ Len(f.outgoing) = Len(c.outgoing)
  <2>1. CASE f = c
    BY <2>1 DEF SameReceiving
  <2>2. ASSUME NEW i, NEW n, Fillable(c, i, n), f = Filled(c, i, n)
        PROVE  /\ Delivery(f, d, data, q, r) /\ SameReceiving(c, f)
               /\ Len(f.outgoing) = Len(c.outgoing)
    <3> HIDE DEF f
    <3>1. Fills(c, i, n, f)
      BY <1>1, <2>2, FilledFields
    <3>2. i \in Subchannel /\ c.subchannels[i].state = "Free"
      BY <2>2 DEF Fillable
    <3>3. FreeAgrees(c, d, acks, data, i)
      BY <3>2 DEF Half, Direction, SubchannelOK
    <3>4. Delivery(f, d, data, q, r)
      BY <1>1, <2>2, <3>1, <3>3, FillDelivers DEF FreeAgrees
    <3> QED BY <3>1, <3>4 DEF Fills, SameReceiving
  <2> QED BY <1>1, <2>1, <2>2, FillCases
<1> HIDE DEF f, e, k
<1>4. CASE PacketOf(f, count, None, k) /\ e = [f EXCEPT !.out_sequence_nr = @ + 1]
  <2>1. Delivery(f, d, data \cup {k}, q, r)
    BY <1>3, <1>4, EmptyDelivers
  <2>2. /\ SameReceiving(f, e) /\ e.outgoing = f.outgoing
        /\ e.subchannels = f.subchannels
        /\ e.out_reliable_state = f.out_reliable_state
    BY <1>2, <1>4, NumberedFields DEF SameReceiving
  <2>3. Delivery(e, d, data \cup {k}, q, r)
    BY <2>1, <2>2, SenderSame
  <2> QED BY <1>3, <2>2, <2>3 DEF SameReceiving, e, k
<1>5. ASSUME NEW i \in Subchannel,
             f.subchannels[i].state = "WaitingToSend",
             PacketOf(f, count, [subchannel |-> i, stream |-> StreamOf(f, i)], k),
             Sends(f, i, f.out_sequence_nr, e)
      PROVE  /\ Delivery(e, d, data \cup {k}, q, r)
             /\ SameReceiving(c, e) /\ Len(e.outgoing) = Len(c.outgoing)
  <2>1. Delivery(e, d, data \cup {k}, q, r)
    BY <1>2, <1>3, <1>5, SendDelivers
  <2> QED BY <1>3, <1>5, <2>1 DEF Sends, SameReceiving
<1> QED BY <1>2, <1>4, <1>5 DEF WritesFilled, e, k

-----------------------------------------------------------------------------
(* The sender reads an acknowledgement                                     *)

(* A transfer that is not empty has a fragment. *)
LEMMA TransferHasFragments ==
    ASSUME NEW bytes \in TransferBytes
    PROVE  BytesToFragments(bytes) \in Nat \ {0}
<1> DEFINE F == FRAGMENT_SIZE
           n == bytes + F - 1
<1>1. bytes \in Nat \ {0} /\ F \in Nat \ {0}
  BY PairAssumption, ConfigurationAssumption
<1>2. BytesToFragments(bytes) = n \div F /\ BytesToFragments(bytes) \in Nat
  BY <1>1, BytesToFragmentsType DEF BytesToFragments
<1>3. n \in Nat /\ n >= F
  BY <1>1
<1> HIDE DEF n, F
<1>4. n \div F # 0
  BY <1>1, <1>3
<1> QED BY <1>2, <1>4

(* The blocks acknowledged were read, and none of their packets can be     *)
(* read again; so nothing that is held changes.                            *)
LEMMA UpdateDelivers ==
    ASSUME NEW c, NEW d, NEW acks, NEW data, Half(c, d, acks, data),
           NEW q, NEW r, Delivery(c, d, data, q, r),
           NEW pk \in Fresh(c, acks), NEW u, u = UpdateOutgoingSubchannels(c, pk)
    PROVE  /\ Delivery(u, d, data, q, r)
           /\ Len(u.outgoing) = Len(c.outgoing)
           /\ \A i \in Subchannel :
                 u.subchannels[i].state = "Free" => InFlight(d, data, i) = {}
<1> DEFINE A == AckedSubchannels(c, pk)
           D == DroppedSubchannels(c, pk)
           n == Cardinality(FragmentsIn(c.subchannels, A))
<1>1. ChannelOK(c) /\ ChannelOK(d) /\ data \subseteq Packet
  BY DEF Half
<1>2. UpdatesFields(c, A, D, u)
  BY <1>1, UpdateFields
<1>3. A \subseteq Subchannel
  BY DEF AckedSubchannels, Visited
<1>4. ASSUME NEW i \in A
      PROVE  c.out_reliable_state[i] = d.in_reliable_state[i] /\ InFlight(d, data, i) = {}
  <2>1. c.subchannels[i].state = "WaitingForAck" /\ BitAcked(c, pk, i)
    BY DEF AckedSubchannels
  <2>2. SentOrReceived(c, d, acks, data, i)
    BY <1>3, <2>1 DEF Half, Direction, SubchannelOK
  <2>3. /\ c.out_reliable_state[i] = d.in_reliable_state[i]
        /\ c.subchannels[i].send_seq_nr <= d.in_sequence_nr
    BY <2>1, <2>2 DEF SentOrReceived
  <2>4. ASSUME NEW k \in InFlight(d, data, i) PROVE FALSE
    <3>1. k.sequence = c.subchannels[i].send_seq_nr /\ k.sequence > d.in_sequence_nr
      BY <2>2 DEF SentOrReceived, InFlight
    <3>2. d.in_sequence_nr \in Nat /\ k.sequence \in Nat
      BY <1>1, ChannelTypes, PacketTypes DEF InFlight
    <3> QED BY <2>3, <3>1, <3>2
  <2> QED BY <2>3, <2>4
<1>5. n \in Nat
  BY <1>1, <1>3, FragmentsFinite DEF ChannelOK, Channel
<1> HIDE DEF A, D, n
<1>6. /\ UpdatesSubs(c.subchannels, A, D, u.subchannels)
      /\ c.outgoing = <<>> => u.outgoing = <<>>
      /\ c.outgoing # <<>> => Moves(c.outgoing, n, u.outgoing)
      /\ u.out_reliable_state = c.out_reliable_state
  BY <1>2 DEF UpdatesFields, n
<1>7. SameTransfers(c, u)
  <2>1. /\ c.outgoing \in Seq(OutgoingReliableData)
        /\ u.outgoing \in Seq(OutgoingReliableData)
    BY <1>1, <1>2 DEF ChannelOK, Channel, UpdatesFields
  <2>2. CASE c.outgoing = <<>>
    BY <1>6, <2>1, <2>2 DEF SameTransfers
  <2>3. CASE c.outgoing # <<>>
    <3>1. Moves(c.outgoing, n, u.outgoing)
      BY <1>6, <2>3
    <3>2. Head(u.outgoing) = u.outgoing[1] /\ Head(c.outgoing) = c.outgoing[1]
      BY <2>1, <2>3, <3>1 DEF Moves
    <3>3. ASSUME NEW k \in 1 .. Len(c.outgoing)
          PROVE  /\ u.outgoing[k].payload = c.outgoing[k].payload
                 /\ u.outgoing[k].bytes = c.outgoing[k].bytes
      <4>1. CASE k = 1
        BY <3>1, <3>2, <4>1 DEF Moves
      <4>2. CASE k # 1
        <5>1. k \in 2 .. Len(c.outgoing)
          BY <4>2
        <5> QED BY <3>1, <5>1 DEF Moves
      <4> QED BY <4>1, <4>2
    <3> QED BY <2>1, <3>1, <3>3 DEF Moves, SameTransfers
  <2> QED BY <2>2, <2>3
<1>8. /\ \A i \in A : u.subchannels[i].state = "Free"
      /\ \A i \in Subchannel \ A :
            /\ u.subchannels[i].state = "Free" <=> c.subchannels[i].state = "Free"
            /\ u.subchannels[i].num_fragments = c.subchannels[i].num_fragments
            /\ u.subchannels[i].start_fragment = c.subchannels[i].start_fragment
  BY <1>6 DEF UpdatesSubs, FreeSubChannel
<1>9. Missing(u, d) = Missing(c, d) /\ Missing(c, d) \subseteq Subchannel \ A
  <2>1. Busy(u) = Busy(c) \ A
    BY <1>3, <1>8 DEF Busy
  <2> QED BY <1>4, <1>6, <2>1, BusyIn DEF Missing
<1>10. ASSUME c.outgoing # <<>>
       PROVE  /\ SentFragments(Head(u.outgoing)) = SentFragments(Head(c.outgoing))
              /\ Head(u.outgoing).bytes = Head(c.outgoing).bytes
  <2> DEFINE front == Head(c.outgoing)
             g == Head(u.outgoing)
  <2>1. /\ g.bytes = front.bytes
        /\ g.acked_fragments = front.acked_fragments + n
        /\ g.pending_fragments = front.pending_fragments - n
    BY <1>6, <1>10 DEF Moves
  <2>2. front \in OutgoingReliableData
    BY <1>1, <1>10, FrontCounts
  <2>3. front.acked_fragments \in Int /\ front.pending_fragments \in Int
    BY <2>2 DEF OutgoingReliableData
  <2> HIDE DEF front, g
  <2>4. SentFragments(g) = SentFragments(front)
    BY <1>5, <2>1, <2>3 DEF SentFragments
  <2> QED BY <2>1, <2>4 DEF front, g
<1>11. c.outgoing # <<>> => Held(u, d) = Held(c, d)
  <2>1. \A i \in Missing(c, d) : Carried(u, i) = Carried(c, i)
    BY <1>8, <1>9 DEF Carried
  <2> QED BY <1>9, <1>10, <2>1 DEF Held
<1>12. c.outgoing # <<>> => (Returned(c, d) => Returned(u, d))
  BY <1>9, <1>10 DEF Returned
<1>13. BlocksMatch(u, d, data)
  <2>1. ASSUME NEW i \in Subchannel \ A PROVE StreamOf(u, i) = StreamOf(c, i)
    BY <1>7, <1>8, SameStreams
  <2> QED BY <1>4, <2>1 DEF Delivery, BlocksMatch
<1>14. ASSUME NEW i \in Subchannel, u.subchannels[i].state = "Free"
       PROVE  InFlight(d, data, i) = {}
  <2>1. CASE i \in A
    BY <1>4, <2>1
  <2>2. CASE i \notin A
    <3>1. c.subchannels[i].state = "Free"
      BY <1>8, <1>14, <2>2
    <3> QED BY <3>1 DEF Half, Direction, SubchannelOK, FreeAgrees
  <2> QED BY <2>1, <2>2
<1> QED BY <1>7, <1>11, <1>12, <1>13, <1>14, SenderSimilar DEF SameTransfers

(* A transfer that is dropped has been returned, and of the next one       *)
(* nothing was sent.                                                       *)
LEMMA PopDelivers ==
    ASSUME NEW c, ChannelOK(c), NEW d, NEW data,
           NEW q, NEW r, Delivery(c, d, data, q, r),
           \A i \in Subchannel :
              c.subchannels[i].state = "Free" => InFlight(d, data, i) = {},
           NEW e, e = PopCompletedOutgoingTransfers(c)
    PROVE  /\ Delivery(e, d, data, q, r)
           /\ \/ Len(e.outgoing) = Len(c.outgoing)
              \/ /\ Len(c.outgoing) = Len(e.outgoing) + 1
                 /\ Len(q) - Len(c.outgoing) < Len(r)
<1> DEFINE front == Head(c.outgoing)
           total == BytesToFragments(front.bytes)
           sent == SentFragments(front)
           done == c.outgoing # <<>> /\ front.acked_fragments = total
<1>1. CASE ~ done
  BY <1>1 DEF PopCompletedOutgoingTransfers
<1>2. CASE done
  <2>1. e = [c EXCEPT !.outgoing = Tail(c.outgoing)]
    BY <1>2 DEF PopCompletedOutgoingTransfers
  <2>2. /\ c \in Channel /\ Accounting(c) /\ c.outgoing # <<>>
        /\ c.outgoing \in Seq(OutgoingReliableData)
    BY <1>2 DEF ChannelOK, Channel
  <2>3. /\ e.outgoing = Tail(c.outgoing) /\ e.subchannels = c.subchannels
        /\ e.out_reliable_state = c.out_reliable_state
    BY <2>1, <2>2 DEF Channel
  <2>4. /\ Len(c.outgoing) = Len(e.outgoing) + 1 /\ Len(e.outgoing) \in Nat
        /\ \A n \in 1 .. Len(e.outgoing) : e.outgoing[n] = c.outgoing[n + 1]
        /\ e.outgoing \in Seq(OutgoingReliableData)
        /\ front = c.outgoing[1]
    BY <2>2, <2>3
  <2>5. Busy(c) = {} /\ Busy(e) = {}
    <3>1. Busy(c) = {}
      BY <1>2, CompleteIsIdle
    <3> QED BY <2>3, <3>1 DEF Busy
  <2>6. Missing(c, d) = {}
    BY <2>5 DEF Missing
  <2>7. Backlog(c, q) /\ Len(q) \in Nat
    <3>1. Backlog(c, q)
      BY DEF Delivery
    <3>2. q \in Seq(Payload)
      BY <3>1 DEF Backlog
    <3> QED BY <3>1, <3>2
  <2>8. total \in Nat \ {0}
    <3>1. 1 \in 1 .. Len(c.outgoing)
      BY <2>4
    <3>2. front.bytes \in TransferBytes
      BY <2>4, <2>7, <3>1 DEF Backlog
    <3> QED BY <3>2, TransferHasFragments
  <2>9. sent = total
    <3>1. /\ front \in OutgoingReliableData /\ front.pending_fragments \in Nat
          /\ sent \in Nat /\ sent <= total
      BY <2>2, FrontCounts
    <3>2. front.acked_fragments \in Nat
      BY <3>1 DEF OutgoingReliableData
    <3>3. sent = front.acked_fragments + front.pending_fragments
      BY DEF SentFragments
    <3> HIDE DEF front, total, sent
    <3> QED BY <1>2, <2>8, <3>1, <3>2, <3>3
  <2>10. Held(c, d) = 1 .. total
    BY <2>6, <2>9 DEF Held
  <2>11. ~ Receiving(c, d)
    <3>1. 1 \in 1 .. total
      BY <2>8
    <3> QED BY <2>10, <3>1 DEF Receiving
  <2>12. Returned(c, d) /\ Len(r) = Len(q) - Len(c.outgoing) + 1
    BY <2>2, <2>11 DEF Delivery, Progress
  <2> HIDE DEF front, total, sent, done
  <2>13. Len(r) = Len(q) - Len(e.outgoing) /\ d.incoming = None
    BY <2>4, <2>7, <2>12 DEF Returned
  <2>14. Backlog(e, q)
    <3>1. /\ q \in Seq(Payload) /\ Len(c.outgoing) <= Len(q)
          /\ \A n \in 1 .. Len(q) : q[n].id = n /\ q[n].count \in MessageCounts
      BY <2>7 DEF Backlog
    <3>2. ASSUME NEW n \in 1 .. Len(e.outgoing)
          PROVE  /\ e.outgoing[n].payload = q[Len(q) - Len(e.outgoing) + n]
                 /\ e.outgoing[n].bytes \in TransferBytes
      <4>1. /\ n + 1 \in 1 .. Len(c.outgoing)
            /\ Len(q) - Len(c.outgoing) + (n + 1) = Len(q) - Len(e.outgoing) + n
        <5> DEFINE K == Len(e.outgoing)
                   L == Len(q)
        <5>1. K \in Nat /\ L \in Nat /\ n \in 1 .. K /\ Len(c.outgoing) = K + 1
          BY <2>4, <2>7
        <5> HIDE DEF K, L
        <5>2. n + 1 \in 1 .. (K + 1) /\ L - (K + 1) + (n + 1) = L - K + n
          BY <5>1
        <5> QED BY <5>1, <5>2 DEF K, L
      <4>2. /\ c.outgoing[n + 1].payload = q[Len(q) - Len(c.outgoing) + (n + 1)]
            /\ c.outgoing[n + 1].bytes \in TransferBytes
        BY <2>7, <4>1 DEF Backlog
      <4> QED BY <2>4, <4>1, <4>2
    <3>3. Len(e.outgoing) <= Len(q)
      BY <2>4, <2>7, <3>1
    <3> QED BY <3>1, <3>2, <3>3 DEF Backlog
  <2>15. Progress(e, d, q, r)
    <3>1. CASE e.outgoing = <<>>
      BY <2>7, <2>13, <3>1 DEF Progress
    <3>2. CASE e.outgoing # <<>>
      <4>1. /\ 1 \in 1 .. Len(e.outgoing) /\ 2 \in 2 .. Len(c.outgoing)
            /\ Head(e.outgoing) = c.outgoing[2]
        BY <2>4, <3>2
      <4>2. SentFragments(Head(e.outgoing)) = 0
        BY <2>2, <4>1 DEF Accounting, OnlyFrontStarted, SentFragments
      <4>3. Receiving(e, d)
        BY <2>13, <4>2, NothingHeld DEF Receiving
      <4> QED BY <2>13, <3>2, <4>3 DEF Progress
    <3> QED BY <3>1, <3>2
  <2>16. BlocksMatch(e, d, data)
    <3>1. \A i \in Subchannel : InFlight(d, data, i) = {}
      BY <2>5 DEF Busy
    <3> QED BY <3>1 DEF Delivery, BlocksMatch
  <2>17. Len(q) - Len(c.outgoing) < Len(r)
    BY <2>4, <2>7, <2>12
  <2> QED BY <2>4, <2>14, <2>15, <2>16, <2>17 DEF Delivery
<1> QED BY <1>1, <1>2

(* What read_header does to the transfers of the sender. *)
LEMMA AckDelivers ==
    ASSUME NEW c, NEW d, NEW acks, NEW data, Half(c, d, acks, data),
           NEW q, NEW r, Delivery(c, d, data, q, r),
           NEW pk \in acks
    PROVE  LET h == ReadHeader(c, pk)
           IN  /\ Delivery(h, d, data, q, r)
               /\ \/ Len(h.outgoing) = Len(c.outgoing)
                  \/ /\ Len(c.outgoing) = Len(h.outgoing) + 1
                     /\ Len(q) - Len(c.outgoing) < Len(r)
<1> DEFINE h == ReadHeader(c, pk)
           u == UpdateOutgoingSubchannels(c, pk)
           v == [u EXCEPT !.in_sequence_nr = pk.sequence,
                          !.out_sequence_nr_ack = pk.sequence_ack]
<1>1. CASE ~ Accepts(c, pk)
  <2>1. h = c
    BY <1>1 DEF ReadHeader, HeaderOk
  <2> QED BY <2>1
<1>2. CASE Accepts(c, pk)
  <2>1. HeaderOk(c, pk) /\ pk \in Fresh(c, acks) /\ ChannelOK(c) /\ pk \in Packet
    BY <1>2, AcceptsIsHeaderOk DEF Accepts, Fresh, Half
  <2>2. h = PopCompletedOutgoingTransfers(v)
    BY <2>1 DEF ReadHeader
  <2>3. /\ Delivery(u, d, data, q, r) /\ Len(u.outgoing) = Len(c.outgoing)
        /\ \A i \in Subchannel :
              u.subchannels[i].state = "Free" => InFlight(d, data, i) = {}
    BY <2>1, UpdateDelivers
  <2>4. u \in Channel /\ Accounting(u)
    BY <2>1, UpdateOK DEF Updates, ChannelOK
  <2> HIDE DEF u
  <2>5. /\ v \in Channel
        /\ v.outgoing = u.outgoing /\ v.subchannels = u.subchannels
        /\ v.out_reliable_state = u.out_reliable_state
    BY <2>1, <2>4, PacketTypes DEF Channel
  <2> HIDE DEF v, h
  <2>6. ChannelOK(v)
    BY <2>4, <2>5, AccountingSame DEF ChannelOK
  <2>7. Delivery(v, d, data, q, r)
    BY <2>3, <2>5, SenderSame
  <2>8. /\ Delivery(h, d, data, q, r)
        /\ \/ Len(h.outgoing) = Len(v.outgoing)
           \/ /\ Len(v.outgoing) = Len(h.outgoing) + 1
              /\ Len(q) - Len(v.outgoing) < Len(r)
    BY <2>2, <2>3, <2>5, <2>6, <2>7, PopDelivers
  <2> QED BY <2>3, <2>5, <2>8 DEF h
<1> QED BY <1>1, <1>2

-----------------------------------------------------------------------------
(* The receiver reads a packet                                             *)

(* A receiver that has read a newer packet accepts fewer. *)
LEMMA BlocksLater ==
    ASSUME NEW c, NEW d, NEW data \in SUBSET Packet, BlocksMatch(c, d, data), NEW e,
           d.in_sequence_nr \in Nat, e.in_sequence_nr \in Nat,
           d.in_sequence_nr <= e.in_sequence_nr
    PROVE  BlocksMatch(c, e, data)
<1>1. ASSUME NEW i \in Subchannel, NEW pk \in InFlight(e, data, i)
      PROVE  pk \in InFlight(d, data, i)
  <2>1. pk.sequence \in Nat /\ pk.sequence > e.in_sequence_nr
    BY PacketTypes DEF InFlight
  <2> QED BY <2>1 DEF InFlight
<1> QED BY <1>1 DEF BlocksMatch

(* A packet that may be accepted and has a block has a missing one. *)
LEMMA InFlightIsMissing ==
    ASSUME NEW c, NEW d, NEW acks, NEW data, Half(c, d, acks, data),
           NEW i \in Subchannel, NEW pk \in InFlight(d, data, i)
    PROVE  i \in Missing(c, d)
<1>1. /\ ChannelOK(c) /\ ChannelOK(d) /\ pk \in Packet /\ SubchannelOK(c, d, acks, data, i)
  BY DEF Half, Direction, InFlight
<1>2. c.subchannels[i].state = "WaitingForAck"
  BY <1>1, ChannelTypes DEF SubchannelOK, FreeAgrees, WaitingDiffers
<1>3. SentOrReceived(c, d, acks, data, i)
  BY <1>1, <1>2 DEF SubchannelOK
<1>4. pk.sequence = c.subchannels[i].send_seq_nr /\ pk.sequence > d.in_sequence_nr
  BY <1>3 DEF SentOrReceived, InFlight
<1>5. pk.sequence \in Nat /\ d.in_sequence_nr \in Nat
  BY <1>1, ChannelTypes, PacketTypes
<1>6. c.out_reliable_state[i] # d.in_reliable_state[i]
  BY <1>3, <1>4, <1>5 DEF SentOrReceived
<1> QED BY <1>2, <1>6 DEF Missing, Busy

(* Writing fragments of the front transfer that are not held. *)
LEMMA BufferGrows ==
    ASSUME NEW incoming \in IncomingReliableData, NEW transfer, NEW H,
           Holds(transfer, H, incoming),
           NEW d, d.payload = transfer.payload,
           NEW K, K = (d.start_fragment + 1) .. (d.start_fragment + NumFragments(d)),
           Cardinality(H \cup K) = Cardinality(H) + NumFragments(d)
    PROVE  Holds(transfer, H \cup K, WriteFragments(incoming, d))
<1> DEFINE n == NumFragments(d)
           total == BytesToFragments(transfer.bytes)
           data == [k \in DOMAIN incoming.data |->
                      IF k \in (d.start_fragment + 1) .. (d.start_fragment + n)
                      THEN d.payload ELSE incoming.data[k]]
           after == WriteFragments(incoming, d)
<1>1. after = [incoming EXCEPT !.acked_fragments = @ + n, !.data = data]
  BY DEF WriteFragments
<1>2. /\ DOMAIN incoming.data = 1 .. total
      /\ \A k \in 1 .. total :
            incoming.data[k] = IF k \in H THEN transfer.payload ELSE Zero
      /\ incoming.bytes = transfer.bytes
      /\ incoming.acked_fragments = Cardinality(H)
  BY DEF Holds
<1>3. data = [k \in 1 .. total |-> IF k \in H \cup K THEN transfer.payload ELSE Zero]
  BY <1>2
<1> HIDE DEF data, after, total, n
<1>4. /\ after.bytes = incoming.bytes /\ after.data = data
      /\ after.acked_fragments = incoming.acked_fragments + n
  BY <1>1 DEF IncomingReliableData
<1>5. Holds(transfer, H \cup K, after)
  BY <1>2, <1>3, <1>4 DEF Holds, total, n
<1> QED BY <1>5 DEF after

(* A full buffer has the payload of its transfer. *)
LEMMA FullBuffer ==
    ASSUME NEW incoming \in IncomingReliableData, NEW transfer,
           transfer.bytes \in TransferBytes,
           Holds(transfer, 1 .. BytesToFragments(transfer.bytes), incoming)
    PROVE  Content(incoming.data) = transfer.payload
<1> DEFINE total == BytesToFragments(transfer.bytes)
           data == incoming.data
<1>1. total \in Nat \ {0}
  BY TransferHasFragments
<1>2. data \in Seq(Payload)
  BY DEF IncomingReliableData
<1>3. DOMAIN data = 1 .. total /\ \A k \in 1 .. total : data[k] = transfer.payload
  BY DEF Holds
<1> HIDE DEF total, data
<1>4. 1 \in 1 .. total /\ data # <<>>
  <2>1. 1 \in 1 .. total
    BY <1>1
  <2>2. DOMAIN <<>> = {}
    OBVIOUS
  <2> QED BY <1>3, <2>1, <2>2
<1> QED BY <1>3, <1>4 DEF Content, data

(* What a step of read_packet returns: nothing, or the next batch. *)
Delivers(q, r, payloads) ==
    \/ payloads = <<>>
    \/ Len(r) < Len(q) /\ payloads = <<q[Len(r) + 1]>>

(* The next batch joins what was returned. *)
LEMMA PrefixGrows ==
    ASSUME NEW q, NEW r, Prefix(q, r), q \in Seq(Payload), Len(r) < Len(q)
    PROVE  /\ Prefix(q, r \o <<q[Len(r) + 1]>>)
           /\ Len(r \o <<q[Len(r) + 1]>>) = Len(r) + 1
<1> DEFINE x == q[Len(r) + 1]
           s == r \o <<x>>
<1>1. r \in Seq(Payload) /\ \A n \in 1 .. Len(r) : r[n] = q[n]
  BY DEF Prefix
<1>2. Len(r) \in Nat /\ Len(q) \in Nat
  BY <1>1
<1>3. x \in Payload
  BY <1>2
<1> HIDE DEF x
<1>4. s = Append(r, x)
  BY <1>1, <1>3
<1>5. /\ s \in Seq(Payload) /\ Len(s) = Len(r) + 1
      /\ \A n \in 1 .. Len(r) : s[n] = r[n]
      /\ s[Len(r) + 1] = x
  BY <1>1, <1>3, <1>4
<1> HIDE DEF s
<1>6. ASSUME NEW n \in 1 .. Len(s) PROVE s[n] = q[n]
  <2>1. CASE n \in 1 .. Len(r)
    BY <1>1, <1>5, <2>1
  <2>2. CASE n = Len(r) + 1
    BY <1>5, <2>2 DEF x
  <2>3. n \in 1 .. Len(r) \/ n = Len(r) + 1
    BY <1>2, <1>5
  <2> QED BY <2>1, <2>2, <2>3
<1>7. Prefix(q, s) /\ Len(s) = Len(r) + 1
  BY <1>2, <1>5, <1>6 DEF Prefix
<1> QED BY <1>7 DEF s, x

(* read_packet after its header, for a packet that has a block: an error   *)
(* that keeps the bit, some fragments, or the last ones.                   *)
ReadsBlock(h, pk, e, payloads) ==
    LET d == pk.reliable.stream
        started == Started(h.incoming, d)
        after == WriteFragments(started, d)
        bits == [h.in_reliable_state EXCEPT ![pk.reliable.subchannel] = ~ @]
    IN  /\ FragmentError(started, d) =>
              e = [h EXCEPT !.incoming = started] /\ payloads = <<>>
        /\ ~ FragmentError(started, d) /\ ~ Complete(after) =>
              /\ e = [h EXCEPT !.incoming = after, !.in_reliable_state = bits]
              /\ payloads = <<>>
        /\ ~ FragmentError(started, d) /\ Complete(after) /\ ~ ReliableError(after) =>
              /\ e = [h EXCEPT !.incoming = None, !.in_reliable_state = bits]
              /\ payloads = IF Decodes(ReliableBits(pk.reliable), pk.messages)
                            THEN <<Content(after.data)>> ELSE <<>>

(* read_packet is ReadsBlock for such a packet. *)
LEMMA ReadBlock ==
    ASSUME NEW c, NEW pk, HeaderOk(c, pk), pk.reliable # None,
           pk.reliable.stream # None, ReadHeader(c, pk) \in Channel
    PROVE  ReadsBlock(ReadHeader(c, pk), pk,
                      ReadPacket(c, pk).channel, ReadPacket(c, pk).payloads)
<1> DEFINE h == ReadHeader(c, pk)
           e == ReadPacket(c, pk).channel
           payloads == ReadPacket(c, pk).payloads
           started == Started(h.incoming, pk.reliable.stream)
           after == WriteFragments(started, pk.reliable.stream)
           bits == [h.in_reliable_state EXCEPT ![pk.reliable.subchannel] = ~ @]
<1> DEFINE r == pk.reliable
           incoming == ReadIncomingData(h.incoming, r.stream)
           read == [h EXCEPT !.incoming = incoming,
                             !.in_reliable_state[r.subchannel] = ~ @]
<1>1. incoming = IF FragmentError(started, r.stream) THEN started ELSE after
  BY DEF ReadIncomingData
<1> HIDE DEF incoming
<1>2. CASE FragmentError(started, r.stream)
  <2>1. e = [h EXCEPT !.incoming = incoming] /\ payloads = <<>>
    BY <1>2 DEF ReadPacket, incoming
  <2> QED BY <1>1, <1>2, <2>1 DEF ReadsBlock
<1>3. CASE ~ FragmentError(started, r.stream)
  <2>1. read = [h EXCEPT !.incoming = after, !.in_reliable_state = bits]
    BY <1>1, <1>3 DEF Channel
  <2>2. [read EXCEPT !.incoming = None]
          = [h EXCEPT !.incoming = None, !.in_reliable_state = bits]
    BY <2>1 DEF Channel
  <2> HIDE DEF read
  <2>3. ~ Complete(incoming) => e = read /\ payloads = <<>>
    BY <1>3 DEF ReadPacket, ReliableError, incoming, read
  <2>4. Complete(incoming) /\ ~ ReliableError(incoming) =>
          /\ e = [read EXCEPT !.incoming = None]
          /\ payloads = IF Decodes(ReliableBits(r), pk.messages)
                        THEN <<Content(incoming.data)>> ELSE <<>>
    BY <1>3 DEF ReadPacket, incoming, read
  <2> HIDE DEF started, after, bits, h, e, payloads
  <2> QED BY <1>1, <1>3, <2>1, <2>2, <2>3, <2>4
          DEF ReadsBlock, started, after, bits, h, e, payloads
<1> QED BY <1>2, <1>3

(* A packet whose block may be read: it is missing, and what the packet    *)
(* says of it is what the front transfer has.  It is read, unless nothing  *)
(* is there to add it to.                                                  *)
LEMMA BlockDelivers ==
    ASSUME Decodable,
           NEW c, NEW d, NEW acks, NEW data, Half(c, d, acks, data),
           NEW q, NEW r, Delivery(c, d, data, q, r),
           NEW pk \in data, HeaderOk(d, pk), pk.reliable # None,
           NEW e, e = ReadPacket(d, pk).channel,
           NEW payloads, payloads = ReadPacket(d, pk).payloads
    PROVE  /\ Delivery(c, e, data, q, r \o payloads) /\ Delivers(q, r, payloads)
           /\ \/ c.subchannels[pk.reliable.subchannel].start_fragment = 0
              \/ d.incoming # None
              => pk.reliable.subchannel \notin Missing(c, e)
<1> DEFINE i == pk.reliable.subchannel
           s == c.subchannels[i]
           front == Head(c.outgoing)
           total == BytesToFragments(front.bytes)
           ds == pk.reliable.stream
           h == ReadHeader(d, pk)
           started == Started(h.incoming, ds)
           after == WriteFragments(started, ds)
           bits == [h.in_reliable_state EXCEPT ![i] = ~ @]
           K == Carried(c, i)
           H == Held(c, d)
\* What the packet has, and where the transfer is.
<1>1. /\ ChannelOK(c) /\ ChannelOK(d) /\ data \in SUBSET Packet /\ pk \in Packet
      /\ Backlog(c, q) /\ Prefix(q, r) /\ Progress(c, d, q, r)
      /\ BlocksMatch(c, d, data)
  BY DEF Half, Delivery
<1>2. i \in Subchannel
  BY <1>1 DEF Packet
<1>3. pk \in InFlight(d, data, i)
  BY DEF HeaderOk, Accepts, InFlight
<1>4. i \in Missing(c, d) /\ i \in Busy(c)
  BY <1>2, <1>3, InFlightIsMissing DEF Missing
<1>5. /\ c.outgoing # <<>> /\ s.start_fragment \in Nat
      /\ s.num_fragments \in Nat \ {0}
      /\ s.start_fragment + s.num_fragments <= SentFragments(front)
  BY <1>1, <1>4, BlockFacts
<1>6. SentFragments(front) \in Nat /\ total \in Nat /\ SentFragments(front) <= total
  BY <1>1, <1>5, FrontCounts
<1>7. /\ ds \in StreamData /\ ds # None
      /\ ds.start_fragment = s.start_fragment /\ ds.payload = front.payload
      /\ NumFragments(ds) = s.num_fragments
      /\ s.start_fragment = 0 => ds.bytes = front.bytes
  <2>1. ds = StreamOf(c, i)
    BY <1>1, <1>2, <1>3 DEF BlocksMatch
  <2> QED BY <1>1, <1>4, <2>1, StreamFacts, NoneAssumption
<1>8. front.bytes \in TransferBytes /\ front.payload = q[Len(q) - Len(c.outgoing) + 1]
  <2>1. 1 \in 1 .. Len(c.outgoing) /\ front = c.outgoing[1]
    BY <1>1, <1>5, FrontCounts DEF ChannelOK, Channel
  <2> QED BY <1>1, <2>1 DEF Backlog
<1>9. Receiving(c, d) /\ Len(r) = Len(q) - Len(c.outgoing)
  BY <1>1, <1>4, <1>5 DEF Progress, Returned
<1>10. Len(r) < Len(q) /\ q \in Seq(Payload) /\ front.payload = q[Len(r) + 1]
       /\ Len(c.outgoing) \in Nat /\ Len(q) \in Nat
  <2>1. /\ c.outgoing \in Seq(OutgoingReliableData) /\ q \in Seq(Payload)
        /\ Len(c.outgoing) # 0
    BY <1>1, <1>5 DEF ChannelOK, Channel, Backlog
  <2> DEFINE k == Len(c.outgoing)
             l == Len(q)
  <2>2. k \in Nat \ {0} /\ l \in Nat
    BY <2>1
  <2> HIDE DEF k, l
  <2>3. l - k < l
    BY <2>2
  <2> QED BY <1>8, <1>9, <2>1, <2>2, <2>3 DEF k, l
\* What reading its header leaves alone.
<1>11. ReadsHeader(d, pk, h)
  BY <1>1, ReadHeaderOK
<1>12. /\ h \in Channel /\ h.incoming = d.incoming
       /\ h.in_reliable_state = d.in_reliable_state /\ h.in_sequence_nr = pk.sequence
  BY <1>11 DEF ReadsHeader, ChannelOK
<1>13. /\ d.in_sequence_nr \in Nat /\ pk.sequence \in Nat
       /\ d.in_sequence_nr <= pk.sequence
       /\ d.in_reliable_state \in [Subchannel -> BOOLEAN]
       /\ d.incoming \in IncomingReliableData \cup {None}
  <2>1. d.in_sequence_nr \in Nat /\ pk.sequence \in Nat /\ pk.sequence > d.in_sequence_nr
    BY <1>1, ChannelTypes, PacketTypes DEF HeaderOk, Accepts
  <2> QED BY <1>1, <2>1, ChannelTypes DEF ChannelOK, Channel
<1>14. /\ FragmentError(started, ds) =>
             e = [h EXCEPT !.incoming = started] /\ payloads = <<>>
       /\ ~ FragmentError(started, ds) /\ ~ Complete(after) =>
             /\ e = [h EXCEPT !.incoming = after, !.in_reliable_state = bits]
             /\ payloads = <<>>
       /\ ~ FragmentError(started, ds) /\ Complete(after) /\ ~ ReliableError(after) =>
                /\ e = [h EXCEPT !.incoming = None, !.in_reliable_state = bits]
                /\ payloads = IF Decodes(ReliableBits(pk.reliable), pk.messages)
                              THEN <<Content(after.data)>> ELSE <<>>
  <2>1. ReadsBlock(h, pk, e, payloads)
    BY <1>7, <1>12, ReadBlock
  <2> QED BY <2>1 DEF ReadsBlock
<1>15. e.in_sequence_nr \in Nat /\ e.in_sequence_nr = pk.sequence
  <2>1. Reads(d, pk, e)
    BY <1>1, ReadOK
  <2> QED BY <1>13, <2>1 DEF Reads
<1>16. BlocksMatch(c, e, data)
  BY <1>1, <1>13, <1>15, BlocksLater
<1> HIDE DEF h, started, after, bits
\* A block in the middle, and nothing to add it to: an error.
<1>17. CASE s.start_fragment # 0 /\ d.incoming = None
  <2>1. started = None
    BY <1>7, <1>12, <1>17 DEF started, Started
  <2>2. FragmentError(started, ds)
    BY <2>1 DEF FragmentError
  <2>3. e = [h EXCEPT !.incoming = None] /\ payloads = <<>>
    BY <1>14, <2>1, <2>2
  <2>4. e.incoming = d.incoming /\ e.in_reliable_state = d.in_reliable_state
    BY <1>12, <1>17, <2>3 DEF Channel
  <2>5. Missing(c, e) = Missing(c, d) /\ Held(c, e) = Held(c, d)
    BY <2>4, HeldSame
  <2>6. Progress(c, e, q, r)
    BY <1>1, <2>4, <2>5 DEF Progress, Receiving, Returned
  <2>7. r \o payloads = r
    BY <1>1, <2>3 DEF Prefix
  <2> QED BY <1>1, <1>16, <1>17, <2>3, <2>6, <2>7 DEF Delivery, Delivers
\* The first block starts a buffer, and others add to one.
<1>18. CASE s.start_fragment = 0 \/ d.incoming # None
  <2>1. started \in IncomingReliableData /\ Holds(front, H, started)
    <3>1. CASE s.start_fragment = 0
      <4>1. 1 \in K
        BY <1>5, <3>1 DEF Carried
      <4>2. 1 \notin H
        BY <1>4, <4>1 DEF Held
      <4>3. d.incoming = None /\ H = {}
        BY <1>9, <4>2 DEF Receiving
      <4>4. started = NewIncoming(front.bytes)
        BY <1>7, <3>1 DEF started, Started
      <4>5. front.bytes \in Nat
        BY <1>8, PairAssumption
      <4>6. started \in IncomingReliableData
        BY <4>4, <4>5, NewIncomingType
      <4>7. Cardinality({}) = 0
        BY FS_EmptySet
      <4>8. Holds(front, {}, started)
        BY <4>4, <4>7 DEF Holds, NewIncoming
      <4> QED BY <4>3, <4>6, <4>8
    <3>2. CASE s.start_fragment # 0
      <4>1. d.incoming # None
        BY <1>18, <3>2
      <4>2. started = d.incoming
        BY <1>7, <1>12, <3>2 DEF started, Started
      <4> QED BY <1>9, <1>13, <4>1, <4>2 DEF Receiving
    <3> QED BY <3>1, <3>2
  <2>2. ~ FragmentError(started, ds)
    <3>1. started # None
      BY <2>1, NoneAssumption
    <3>2. BytesToFragments(started.bytes) = total
      BY <2>1 DEF Holds
    <3>3. ~ (ds.start_fragment + NumFragments(ds) > total)
      <4> DEFINE a == s.start_fragment
                 n == s.num_fragments
                 sent == SentFragments(front)
      <4>1. /\ a \in Nat /\ n \in Nat /\ sent \in Nat /\ total \in Nat
            /\ a + n <= sent /\ sent <= total
        BY <1>5, <1>6
      <4>2. ds.start_fragment = a /\ NumFragments(ds) = n
        BY <1>7
      <4> HIDE DEF a, n, sent, total, ds
      <4> QED BY <4>1, <4>2
    <3> HIDE DEF ds, total
    <3> QED BY <3>1, <3>2, <3>3 DEF FragmentError
  <2> DEFINE x == [h EXCEPT !.incoming = after, !.in_reliable_state = bits]
             y == [h EXCEPT !.incoming = None, !.in_reliable_state = bits]
  <2>3. /\ x.in_reliable_state = bits /\ y.in_reliable_state = bits
        /\ x.incoming = after /\ y.incoming = None
        /\ bits = [d.in_reliable_state EXCEPT ![i] = ~ @]
    BY <1>12 DEF Channel, bits
  <2> HIDE DEF x, y
  <2>4. ASSUME NEW z, z.in_reliable_state = bits
        PROVE  /\ Missing(c, z) = Missing(c, d) \ {i}
               /\ Held(c, z) = H \cup K
               /\ Cardinality(H \cup K) = Cardinality(H) + s.num_fragments
    <3>1. /\ Missing(c, z) = Missing(c, d) \ {i}
          /\ Held(c, z) = H \cup K
          /\ Cardinality(Held(c, z)) = Cardinality(H) + s.num_fragments
      BY <1>1, <1>4, <1>13, <2>3, <2>4, HeldGrows
    <3> QED BY <3>1
  <2>5. Cardinality(H \cup K) = Cardinality(H) + s.num_fragments
    BY <2>3, <2>4
  <2>6. Holds(front, H \cup K, after)
    <3>1. K = (ds.start_fragment + 1) .. (ds.start_fragment + NumFragments(ds))
      BY <1>7 DEF Carried
    <3>2. Cardinality(H \cup K) = Cardinality(H) + NumFragments(ds)
      BY <1>7, <2>5
    <3> HIDE DEF K, H, front, ds
    <3> QED BY <1>7, <2>1, <3>1, <3>2, BufferGrows DEF after
  <2>7. after \in IncomingReliableData /\ after # None
    BY <1>7, <2>1, WriteFragmentsType, NoneAssumption DEF after
  <2>8. /\ H \cup K \in SUBSET (1 .. total)
        /\ Cardinality(H \cup K) \in Nat /\ Cardinality(H \cup K) <= total
        /\ Cardinality(H \cup K) = total <=> H \cup K = 1 .. total
    <3>1. Held(c, x) = H \cup K
      BY <2>3, <2>4
    <3> QED BY <1>1, <1>5, <3>1, HeldFacts
  <2>9. Complete(after) <=> H \cup K = 1 .. total
    BY <1>6, <2>6, <2>7, <2>8 DEF Complete, Holds
  \* Some fragments are missing still.
  <2>10. CASE H \cup K # 1 .. total
    <3>1. e = x /\ payloads = <<>>
      BY <1>14, <2>2, <2>9, <2>10 DEF x
    <3>2. Held(c, e) = H \cup K /\ e.incoming = after
      BY <2>3, <2>4, <3>1
    <3>3. 1 \in H \cup K
      <4>1. s.start_fragment = 0 => 1 \in K
        BY <1>5 DEF Carried
      <4>2. d.incoming # None => 1 \in H
        BY <1>9 DEF Receiving
      <4> QED BY <1>18, <4>1, <4>2
    <3>4. Receiving(c, e)
      BY <2>6, <2>7, <2>10, <3>2, <3>3 DEF Receiving
    <3>5. Progress(c, e, q, r)
      BY <1>5, <1>9, <3>4 DEF Progress
    <3>6. r \o payloads = r
      BY <1>1, <3>1 DEF Prefix
    <3>7. i \notin Missing(c, e)
      BY <2>3, <2>4, <3>1
    <3> QED BY <1>1, <1>16, <3>1, <3>5, <3>6, <3>7 DEF Delivery, Delivers
  \* These were the last.
  <2>11. CASE H \cup K = 1 .. total
    <3>1. Content(after.data) = front.payload
      BY <1>8, <2>6, <2>7, <2>11, FullBuffer
    <3>2. Decodes(0, front.payload.count)
      <4>1. Len(r) + 1 \in 1 .. Len(q)
        <5>1. Len(r) \in Nat
          BY <1>1 DEF Prefix
        <5> QED BY <1>10, <5>1
      <4>2. front.payload.count \in MessageCounts
        BY <1>1, <1>10, <4>1 DEF Backlog
      <4> QED BY <4>2 DEF Decodable
    <3>3. ~ ReliableError(after)
      <4>1. after.acked_fragments = total /\ after.bytes = front.bytes
        BY <2>6, <2>8, <2>11 DEF Holds
      <4> QED BY <1>6, <3>1, <3>2, <4>1 DEF ReliableError
    <3>4. Decodes(ReliableBits(pk.reliable), pk.messages)
      <4>1. pk.messages \in UnreliableCounts
        BY <1>1 DEF BlocksMatch
      <4>2. pk.reliable = [subchannel |-> i, stream |-> ds]
        BY <1>1 DEF Packet
      <4> HIDE DEF i, ds
      <4>3. Decodes(ReliableBits([subchannel |-> i, stream |-> ds]), pk.messages)
        BY <1>2, <1>7, <4>1 DEF Decodable
      <4> QED BY <4>2, <4>3
    <3>5. e = y /\ payloads = <<front.payload>>
      BY <1>14, <2>2, <2>9, <2>11, <3>1, <3>3, <3>4 DEF y
    <3>6. payloads = <<q[Len(r) + 1]>>
      BY <1>10, <3>5
    <3>7. /\ Missing(c, e) = Missing(c, d) \ {i}
          /\ Held(c, e) = 1 .. total /\ e.incoming = None
      BY <2>3, <2>4, <2>11, <3>5
    <3>8. SentFragments(front) = total
      <4>1. total \in Nat \ {0}
        BY <1>8, TransferHasFragments
      <4>2. total \in 1 .. total
        BY <4>1
      <4>3. total \in 1 .. SentFragments(front)
        BY <3>7, <4>2 DEF Held
      <4> QED BY <1>6, <4>3
    <3>9. Missing(c, e) = {}
      <4>1. ASSUME NEW j \in Missing(c, e) PROVE FALSE
        <5>1. j \in Busy(c) /\ Held(c, e) \cap Carried(c, j) = {}
          BY <4>1 DEF Missing, Held
        <5>2. Carried(c, j) # {} /\ Carried(c, j) \subseteq 1 .. SentFragments(front)
          BY <1>1, <5>1, BlockFacts
        <5> QED BY <3>7, <3>8, <5>1, <5>2
      <4> QED BY <4>1
    <3>10. Returned(c, e)
      BY <3>7, <3>8, <3>9 DEF Returned
    <3>11. Prefix(q, r \o payloads) /\ Len(r \o payloads) = Len(r) + 1
      BY <1>1, <1>10, <3>6, PrefixGrows
    <3>12. Progress(c, e, q, r \o payloads)
      BY <1>5, <1>9, <3>10, <3>11 DEF Progress
    <3> QED BY <1>1, <1>10, <1>16, <3>6, <3>9, <3>11, <3>12 DEF Delivery, Delivers
  <2> QED BY <2>10, <2>11
<1> QED BY <1>17, <1>18

(* A packet is read, whatever it is. *)
LEMMA DataDelivers ==
    ASSUME Decodable,
           NEW c, NEW d, NEW acks, NEW data, Half(c, d, acks, data),
           NEW q, NEW r, Delivery(c, d, data, q, r),
           NEW pk \in data, NEW e, e = ReadPacket(d, pk).channel,
           NEW payloads, payloads = ReadPacket(d, pk).payloads
    PROVE  Delivery(c, e, data, q, r \o payloads) /\ Delivers(q, r, payloads)
<1> DEFINE h == ReadHeader(d, pk)
<1>1. CASE HeaderOk(d, pk) /\ pk.reliable # None
  BY <1>1, BlockDelivers
<1>2. CASE ~ (HeaderOk(d, pk) /\ pk.reliable # None)
  <2>1. e = h /\ payloads = <<>>
    BY <1>2 DEF ReadPacket
  <2>2. /\ ChannelOK(d) /\ pk \in Packet /\ data \in SUBSET Packet
        /\ Prefix(q, r) /\ Backlog(c, q) /\ Progress(c, d, q, r)
        /\ BlocksMatch(c, d, data)
    BY DEF Half, Delivery
  <2>3. ReadsHeader(d, pk, h)
    BY <2>2, ReadHeaderOK
  <2> HIDE DEF h
  <2>4. e.incoming = d.incoming /\ e.in_reliable_state = d.in_reliable_state
    BY <2>1, <2>3 DEF ReadsHeader
  <2>5. Missing(c, e) = Missing(c, d) /\ Held(c, e) = Held(c, d)
    BY <2>4, HeldSame
  <2>6. Progress(c, e, q, r)
    BY <2>2, <2>4, <2>5 DEF Progress, Receiving, Returned
  <2>7. /\ d.in_sequence_nr \in Nat /\ e.in_sequence_nr \in Nat
        /\ d.in_sequence_nr <= e.in_sequence_nr
    <3>1. d.in_sequence_nr \in Nat /\ pk.sequence \in Nat
      BY <2>2, ChannelTypes, PacketTypes
    <3>2. HeaderOk(d, pk) => pk.sequence > d.in_sequence_nr
      BY DEF HeaderOk, Accepts
    <3> QED BY <2>1, <2>3, <3>1, <3>2 DEF ReadsHeader
  <2>8. BlocksMatch(c, e, data)
    BY <2>2, <2>7, BlocksLater
  <2>9. r \o payloads = r
    BY <2>1, <2>2 DEF Prefix
  <2> QED BY <2>1, <2>2, <2>6, <2>8, <2>9 DEF Delivery, Delivers
<1> QED BY <1>1, <1>2

-----------------------------------------------------------------------------
(* The invariant is inductive                                              *)

(* The direction in which p sends. *)
Way(p) ==
    Delivery(channel[p], channel[Other(p)], network[Other(p)],
             queued[p], received[Other(p)])

(* A step of the abstract stream in which p sends, or none. *)
StreamStep(p) == [Stream(p)!Next]_(Stream(p)!vars)

(* Nothing was queued. *)
LEMMA DeliveriesInit == Init => Deliveries
<1> DEFINE c == NewChannel(Challenge)
<1>1. c.outgoing = <<>> /\ c.incoming = None
  BY DEF NewChannel
<1> HIDE DEF c
<1>2. Delivery(c, c, {}, <<>>, <<>>)
  <2>1. <<>> \in Seq(Payload) /\ Len(<<>>) = 0
    OBVIOUS
  <2>2. Backlog(c, <<>>) /\ Prefix(<<>>, <<>>) /\ Progress(c, c, <<>>, <<>>)
    BY <1>1, <2>1 DEF Backlog, Prefix, Progress
  <2>3. BlocksMatch(c, c, {})
    BY DEF BlocksMatch, InFlight
  <2> QED BY <2>2, <2>3 DEF Delivery
<1>3. ASSUME Init, NEW p \in Peer PROVE Way(p)
  <2>1. Other(p) \in Peer
    BY OtherPeer
  <2> QED BY <1>2, <1>3, <2>1 DEF Init, Way, c
<1> QED BY <1>3 DEF Deliveries, Way

(* The two directions, seen from the peer that takes a step. *)
LEMMA BothWays ==
    ASSUME Deliveries, NEW p \in Peer
    PROVE  /\ Delivery(channel[p], channel[Other(p)], network[Other(p)],
                       queued[p], received[Other(p)])
           /\ Delivery(channel[Other(p)], channel[p], network[p],
                       queued[Other(p)], received[p])
  BY OtherPeer DEF Deliveries

(* It is enough to look at the directions of these two. *)
LEMMA BothSteps ==
    ASSUME NEW p \in Peer,
           Delivery(channel[p], channel[Other(p)], network[Other(p)],
                    queued[p], received[Other(p)])',
           Delivery(channel[Other(p)], channel[p], network[p],
                    queued[Other(p)], received[p])',
           StreamStep(p), StreamStep(Other(p))
    PROVE  Deliveries' /\ \A s \in Peer : StreamStep(s)
<1>1. ASSUME NEW s \in Peer
      PROVE  /\ Delivery(channel[s], channel[Other(s)], network[Other(s)],
                         queued[s], received[Other(s)])'
             /\ StreamStep(s)
  <2>1. CASE s = p
    BY <2>1
  <2>2. CASE s = Other(p)
    BY <2>2, OtherPeer
  <2> QED BY <2>1, <2>2, OtherPeer
<1> QED BY <1>1 DEF Deliveries

(* queue_reliable_messages: a batch joins the stream. *)
LEMMA QueueStreams ==
    ASSUME IInv, Deliveries, NEW p \in Peer, Queue(p)
    PROVE  Deliveries' /\ \A s \in Peer : StreamStep(s)
<1> DEFINE o == Other(p)
<1>1. o \in Peer /\ o # p /\ Other(o) = p
  BY OtherPeer
<1>2. PICK bytes \in TransferBytes, count \in MessageCounts :
        LET payload == [id |-> Len(queued[p]) + 1, count |-> count]
        IN  /\ channel' = [channel EXCEPT
                              ![p] = QueueReliableMessages(@, payload, bytes)]
            /\ queued' = [queued EXCEPT ![p] = Append(@, payload)]
  BY DEF Queue
<1> DEFINE payload == [id |-> Len(queued[p]) + 1, count |-> count]
           e == QueueReliableMessages(channel[p], payload, bytes)
<1>3. /\ Len(queued[p]) \in Nat /\ Len(queued[p]) < MaxTransfers[p]
      /\ MaxTransfers[p] \in Nat
  BY PairAssumption DEF IInv, TypeOK, Queue
<1>4. /\ payload \in Payload /\ payload.id = Len(queued[p]) + 1
      /\ payload.count \in MessageCounts /\ bytes \in Nat
      /\ payload \in [id : 1 .. MaxTransfers[p], count : MessageCounts]
  BY <1>3, PairAssumption DEF Payload
<1> HIDE DEF payload
<1>5. /\ channel' = [channel EXCEPT ![p] = e]
      /\ queued' = [queued EXCEPT ![p] = Append(@, payload)]
      /\ network' = network /\ received' = received
  BY <1>2 DEF Queue, payload
<1>6. ChannelOK(e) /\ SameSubchannels(channel[p], e)
  BY <1>4, InvHalves, QueueOK
<1>7. \A i \in Subchannel :
         channel[p].subchannels[i].state = "Free"
            => InFlight(channel[o], network[o], i) = {}
  BY InvHalves DEF Half, Direction, SubchannelOK, FreeAgrees
<1>8. /\ Delivery(e, channel[o], network[o], Append(queued[p], payload), received[o])
      /\ Len(e.outgoing) = Len(channel[p].outgoing) + 1
  BY <1>4, <1>7, BothWays, InvHalves, QueueDelivers
<1> HIDE DEF e
<1>9. Delivery(channel[o], e, network[p], queued[o], received[p])
  BY <1>6, BothWays, ReceiverSame DEF SameSubchannels
<1>10. /\ channel'[p] = e /\ channel'[o] = channel[o]
       /\ queued'[p] = Append(queued[p], payload) /\ queued'[o] = queued[o]
  BY <1>1, <1>5 DEF IInv, TypeOK
<1>11. StreamStep(p)
  <2>1. Len(queued'[p]) = Len(queued[p]) + 1
    BY <1>4, <1>10 DEF IInv, TypeOK
  <2>2. Len(channel[p].outgoing) \in Nat
    BY InvHalves DEF ChannelOK, Channel
  <2>3. Len(queued'[p]) - Len(channel'[p].outgoing)
          = Len(queued[p]) - Len(channel[p].outgoing)
    <3> DEFINE k == Len(channel[p].outgoing)
               l == Len(queued[p])
    <3>1. k \in Nat /\ l \in Nat /\ Len(channel'[p].outgoing) = k + 1
      BY <1>3, <1>8, <1>10, <2>2
    <3> HIDE DEF k, l
    <3>2. (l + 1) - (k + 1) = l - k
      BY <3>1
    <3> QED BY <2>1, <3>1, <3>2 DEF k, l
  <2>4. Stream(p)!Queue
    BY <1>4, <1>5, <1>10, <2>3 DEF Stream!Queue
  <2> QED BY <2>4 DEF StreamStep, Stream!Next
<1>12. StreamStep(o)
  BY <1>1, <1>5, <1>10 DEF StreamStep, Stream!vars
<1> QED BY <1>5, <1>8, <1>9, <1>10, <1>11, <1>12, BothSteps

(* write_packet: nothing that the stream sees. *)
LEMMA WriteStreams ==
    ASSUME IInv, Deliveries, NEW p \in Peer, Write(p)
    PROVE  Deliveries' /\ \A s \in Peer : StreamStep(s)
<1> DEFINE o == Other(p)
<1>1. o \in Peer /\ o # p /\ Other(o) = p
  BY OtherPeer
<1>2. PICK count \in UnreliableCounts :
        LET w == WritePacket(channel[p], count)
        IN  /\ channel' = [channel EXCEPT ![p] = w.channel]
            /\ network' = [network EXCEPT ![o] = @ \cup {w.packet}]
  BY DEF Write
<1> DEFINE e == WritePacket(channel[p], count).channel
           k == WritePacket(channel[p], count).packet
<1>3. /\ channel' = [channel EXCEPT ![p] = e]
      /\ network' = [network EXCEPT ![o] = @ \cup {k}]
      /\ queued' = queued /\ received' = received
  BY <1>2 DEF Write
<1>4. /\ Delivery(e, channel[o], network[o] \cup {k}, queued[p], received[o])
      /\ SameReceiving(channel[p], e)
      /\ Len(e.outgoing) = Len(channel[p].outgoing)
  BY BothWays, InvHalves, WriteDelivers
<1> HIDE DEF e, k
<1>5. Delivery(channel[o], e, network[p], queued[o], received[p])
  BY <1>4, BothWays, ReceiverSame DEF SameReceiving
<1>6. /\ channel'[p] = e /\ channel'[o] = channel[o]
      /\ network'[o] = network[o] \cup {k} /\ network'[p] = network[p]
  BY <1>1, <1>3 DEF IInv, TypeOK
<1>7. StreamStep(p) /\ StreamStep(o)
  BY <1>1, <1>3, <1>4, <1>6 DEF StreamStep, Stream!vars
<1> QED BY <1>3, <1>4, <1>5, <1>6, <1>7, BothSteps

(* read_packet: the reader's own stream may complete a batch, and the      *)
(* other's may deliver one.                                                *)
LEMMA ReadStreams ==
    ASSUME Decodable, IInv, Deliveries, NEW p \in Peer, Read(p)
    PROVE  Deliveries' /\ \A s \in Peer : StreamStep(s)
<1> DEFINE o == Other(p)
<1>1. o \in Peer /\ o # p /\ Other(o) = p
  BY OtherPeer
<1>2. PICK pk \in network[p] :
        LET r == ReadPacket(channel[p], pk)
        IN  /\ channel' = [channel EXCEPT ![p] = r.channel]
            /\ received' = [received EXCEPT ![p] = @ \o r.payloads]
  BY DEF Read
<1> DEFINE h == ReadHeader(channel[p], pk)
           e == ReadPacket(channel[p], pk).channel
           payloads == ReadPacket(channel[p], pk).payloads
<1>3. /\ channel' = [channel EXCEPT ![p] = e]
      /\ received' = [received EXCEPT ![p] = @ \o payloads]
      /\ network' = network /\ queued' = queued
  BY <1>2 DEF Read
<1>4. pk \in Packet /\ SameSending(h, e)
  <2>1. pk \in Packet
    BY DEF IInv, TypeOK
  <2> QED BY <2>1, InvHalves, ReadOK
<1>5. /\ Delivery(h, channel[o], network[o], queued[p], received[o])
      /\ \/ Len(h.outgoing) = Len(channel[p].outgoing)
         \/ /\ Len(channel[p].outgoing) = Len(h.outgoing) + 1
            /\ Len(queued[p]) - Len(channel[p].outgoing) < Len(received[o])
  <2>1. Half(channel[p], channel[o], network[p], network[o])
    BY InvHalves
  <2>2. Delivery(channel[p], channel[o], network[o], queued[p], received[o])
    BY BothWays
  <2> QED BY <2>1, <2>2, AckDelivers
<1>6. /\ Delivery(channel[o], e, network[p], queued[o], received[p] \o payloads)
      /\ Delivers(queued[o], received[p], payloads)
  BY BothWays, InvHalves, DataDelivers
<1> HIDE DEF h, e, payloads
<1>7. Delivery(e, channel[o], network[o], queued[p], received[o])
  BY <1>4, <1>5, SenderSame DEF SameSending
<1>8. /\ channel'[p] = e /\ channel'[o] = channel[o]
      /\ received'[p] = received[p] \o payloads /\ received'[o] = received[o]
  BY <1>1, <1>3 DEF IInv, TypeOK
<1>9. StreamStep(p)
  <2>1. e.outgoing = h.outgoing
    BY <1>4 DEF SameSending
  <2>2. CASE Len(h.outgoing) = Len(channel[p].outgoing)
    BY <1>1, <1>3, <1>8, <2>1, <2>2 DEF StreamStep, Stream!vars
  <2>3. CASE /\ Len(channel[p].outgoing) = Len(h.outgoing) + 1
             /\ Len(queued[p]) - Len(channel[p].outgoing) < Len(received[o])
    <3>1. Len(queued[p]) \in Nat /\ Len(channel[p].outgoing) \in Nat
      BY InvHalves DEF IInv, TypeOK, ChannelOK, Channel
    <3> DEFINE k == Len(channel[p].outgoing)
               l == Len(queued[p])
               j == Len(h.outgoing)
    <3>2. k \in Nat /\ l \in Nat /\ k = j + 1 /\ j \in Nat
      <4>1. h.outgoing \in Seq(OutgoingReliableData)
        BY <1>4, InvHalves, ReadHeaderOK DEF h, ReadsHeader, ChannelOK, Channel
      <4> QED BY <2>3, <3>1, <4>1
    <3> HIDE DEF k, l, j
    <3>3. l - j = (l - k) + 1
      BY <3>2
    <3>4. Len(queued'[p]) - Len(channel'[p].outgoing)
            = (Len(queued[p]) - Len(channel[p].outgoing)) + 1
      BY <1>3, <1>8, <2>1, <3>3 DEF k, l, j
    <3>5. Stream(p)!Complete
      BY <1>3, <1>8, <2>3, <3>4 DEF Stream!Complete
    <3> QED BY <3>5 DEF StreamStep, Stream!Next
  <2> QED BY <1>5, <2>2, <2>3
<1>10. StreamStep(o)
  <2>1. CASE payloads = <<>>
    <3>1. received'[p] = received[p]
      BY <1>8, <2>1 DEF IInv, TypeOK
    <3> QED BY <1>1, <1>3, <1>8, <3>1 DEF StreamStep, Stream!vars
  <2>2. CASE /\ Len(received[p]) < Len(queued[o])
             /\ payloads = <<queued[o][Len(received[p]) + 1]>>
    <3>1. received'[p] = Append(received[p], queued[o][Len(received[p]) + 1])
      <4>1. received[p] \in Seq(Payload)
        BY DEF IInv, TypeOK
      <4> QED BY <1>8, <2>2, <4>1
    <3>2. Stream(o)!Receive
      BY <1>1, <1>3, <1>8, <2>2, <3>1 DEF Stream!Receive
    <3> QED BY <3>2 DEF StreamStep, Stream!Next
  <2> QED BY <1>6, <2>1, <2>2 DEF Delivers
<1> QED BY <1>3, <1>6, <1>7, <1>8, <1>9, <1>10, BothSteps

(* Every step keeps both directions, and is a step or a stutter of each    *)
(* stream.                                                                 *)
LEMMA DeliveriesNext ==
    ASSUME Decodable, IInv, Deliveries, [Next]_vars
    PROVE  Deliveries' /\ \A s \in Peer : StreamStep(s)
<1>1. ASSUME UNCHANGED <<channel, network, queued, received>>
      PROVE  Deliveries' /\ \A s \in Peer : StreamStep(s)
  <2>1. Deliveries'
    BY <1>1 DEF Deliveries
  <2>2. ASSUME NEW s \in Peer PROVE StreamStep(s)
    BY <1>1 DEF StreamStep, Stream!vars
  <2> QED BY <2>1, <2>2
<1>2. ASSUME NEW p \in Peer, Queue(p)
      PROVE  Deliveries' /\ \A s \in Peer : StreamStep(s)
  BY <1>2, QueueStreams
<1>3. ASSUME NEW p \in Peer, Write(p)
      PROVE  Deliveries' /\ \A s \in Peer : StreamStep(s)
  BY <1>3, WriteStreams
<1>4. ASSUME NEW p \in Peer, Panic(p)
      PROVE  Deliveries' /\ \A s \in Peer : StreamStep(s)
  BY <1>1, <1>4 DEF Panic
<1>5. ASSUME NEW p \in Peer, Read(p)
      PROVE  Deliveries' /\ \A s \in Peer : StreamStep(s)
  BY <1>5, ReadStreams
<1>6. CASE UNCHANGED vars
  BY <1>1, <1>6 DEF vars
<1> QED BY <1>2, <1>3, <1>4, <1>5, <1>6 DEF Next

(* So both hold in every reachable state. *)
LEMMA AlwaysDeliveries ==
    ASSUME Decodable
    PROVE  Spec => [](IInv /\ Deliveries)
<1>1. Init => IInv /\ Deliveries
  BY InvInit, DeliveriesInit
<1>2. (IInv /\ Deliveries) /\ [Next]_vars => (IInv /\ Deliveries)'
  BY InvNext, DeliveriesNext
<1> QED BY <1>1, <1>2, PTL DEF Spec

-----------------------------------------------------------------------------
(* What two netchannels deliver, whatever the network does                 *)

(* A buffer counts each fragment once and never mixes two transfers,       *)
(* although blocks are sent again and packets are read twice.              *)
THEOREM FragmentsOnce ==
    ASSUME Decodable
    PROVE  Spec => []EachFragmentOnce
<1>1. ASSUME IInv, Deliveries PROVE EachFragmentOnce
  <2>1. ASSUME NEW p \in Peer, channel[p].incoming # None
        PROVE  LET incoming == channel[p].incoming
               IN  /\ incoming.acked_fragments
                         = Cardinality({k \in DOMAIN incoming.data :
                                           incoming.data[k] # Zero})
                   /\ \A k, l \in DOMAIN incoming.data :
                         Zero \notin {incoming.data[k], incoming.data[l]} =>
                             incoming.data[k] = incoming.data[l]
    <3> DEFINE incoming == channel[p].incoming
               c == channel[Other(p)]
               q == queued[Other(p)]
               front == Head(c.outgoing)
               H == Held(c, channel[p])
    <3>1. /\ Backlog(c, q) /\ ChannelOK(c)
          /\ Progress(c, channel[p], q, received[p])
      BY <1>1, BothWays, InvHalves DEF Delivery, Half
    <3>2. c.outgoing # <<>> /\ Holds(front, H, incoming)
      BY <2>1, <3>1 DEF Progress, Receiving, Returned
    <3>3. H \subseteq 1 .. BytesToFragments(front.bytes)
      BY <3>1, <3>2, HeldFacts
    <3>4. front.payload # Zero
      <4>1. /\ c.outgoing \in Seq(OutgoingReliableData) /\ q \in Seq(Payload)
            /\ Len(c.outgoing) <= Len(q) /\ front = c.outgoing[1]
        BY <3>1, <3>2 DEF ChannelOK, Channel, Backlog
      <4> DEFINE n == Len(q) - Len(c.outgoing) + 1
      <4>2. 1 \in 1 .. Len(c.outgoing) /\ n \in 1 .. Len(q)
        <5> DEFINE k == Len(c.outgoing)
                   l == Len(q)
        <5>1. k \in Nat \ {0} /\ l \in Nat /\ k <= l
          BY <3>2, <4>1
        <5> HIDE DEF k, l
        <5>2. 1 \in 1 .. k /\ l - k + 1 \in 1 .. l
          BY <5>1
        <5> QED BY <5>2 DEF k, l
      <4> HIDE DEF c, front, q
      <4>3. c.outgoing[1].payload = q[n] /\ q[n].id = n
        BY <3>1, <4>2 DEF Backlog
      <4>4. n # 0
        BY <4>2
      <4> HIDE DEF n
      <4> QED BY <4>1, <4>3, <4>4 DEF Zero
    <3> HIDE DEF incoming, c, q, front, H
    <3>5. /\ DOMAIN incoming.data = 1 .. BytesToFragments(front.bytes)
          /\ \A k \in DOMAIN incoming.data :
                incoming.data[k] = IF k \in H THEN front.payload ELSE Zero
          /\ incoming.acked_fragments = Cardinality(H)
      BY <3>2 DEF Holds
    <3>6. {k \in DOMAIN incoming.data : incoming.data[k] # Zero} = H
      BY <3>3, <3>4, <3>5
    <3> QED BY <3>5, <3>6 DEF incoming
  <2> QED BY <2>1 DEF EachFragmentOnce
<1> QED BY <1>1, AlwaysDeliveries, PTL

(* Each direction implements ReliableStream: the batches given to          *)
(* queue_reliable_messages come out of read_packet whole, once each and in *)
(* order, and pop_completed_outgoing_transfers forgets only what came out. *)
THEOREM DeliveredInOrder ==
    ASSUME Decodable
    PROVE  Spec => InOrderDelivery
<1>1. ASSUME Init PROVE \A p \in Peer : Stream(p)!Init
  <2>1. ASSUME NEW p \in Peer PROVE Stream(p)!Init
    <3>1. Other(p) \in Peer
      BY OtherPeer
    <3>2. NewChannel(Challenge).outgoing = <<>>
      BY DEF NewChannel
    <3>3. queued[p] = <<>> /\ received[Other(p)] = <<>> /\ channel[p].outgoing = <<>>
      BY <1>1, <3>1, <3>2 DEF Init
    <3> QED BY <3>3 DEF Stream!Init
  <2> QED BY <2>1
<1>2. ASSUME IInv, Deliveries, [Next]_vars
      PROVE  \A p \in Peer : [Stream(p)!Next]_(Stream(p)!vars)
  BY <1>2, DeliveriesNext DEF StreamStep
<1>3. IInv /\ Deliveries /\ [Next]_vars
        => [\A p \in Peer : [Stream(p)!Next]_(Stream(p)!vars)]_vars
  BY <1>2
<1> QED BY <1>1, <1>3, AlwaysDeliveries, PTL DEF Spec, InOrderDelivery

(* What the sender has forgotten as acknowledged the receiver has          *)
(* returned: the sentence at line 937 is true of batches that decode.      *)
THEOREM AckedIsReturned ==
    ASSUME Decodable
    PROVE  Spec => []NoAckedLoss
<1>1. ASSUME IInv, Deliveries PROVE NoAckedLoss
  <2>1. ASSUME NEW p \in Peer
        PROVE  Len(queued[p]) - Len(channel[p].outgoing) <= Len(received[Other(p)])
    <3> DEFINE c == channel[p]
               q == queued[p]
               r == received[Other(p)]
    <3>1. /\ Backlog(c, q) /\ ChannelOK(c) /\ Prefix(q, r)
          /\ Progress(c, channel[Other(p)], q, r)
      BY <1>1, BothWays, InvHalves DEF Delivery
    <3>2. Len(c.outgoing) \in Nat /\ Len(q) \in Nat /\ Len(r) \in Nat
      BY <3>1 DEF ChannelOK, Channel, Backlog, Prefix
    <3> HIDE DEF c, q, r
    <3>3. Len(q) - Len(c.outgoing) <= Len(r)
      <4>1. c.outgoing = <<>> => Len(c.outgoing) = 0
        OBVIOUS
      <4> QED BY <3>1, <3>2, <4>1 DEF Progress
    <3> QED BY <3>3 DEF c, q, r
  <2> QED BY <2>1 DEF NoAckedLoss
<1> QED BY <1>1, AlwaysDeliveries, PTL

=============================================================================

--------------------- MODULE NetChannelRecovery_proofs ---------------------
(***************************************************************************)
(* Recovery for every value of the constants: from every reachable state   *)
(* of NetChannelPair an exchange of packets without loss, a bounded number *)
(* of times, completes every transfer, so no state is wedged.              *)
(* An exchange is two deliveries, one each way.  After the first, what the *)
(* peers know of each other is current; after the second, the blocks the   *)
(* peers had on the way have been reported as arrived or sent again; from  *)
(* then on every exchange takes something off what is left to transfer on  *)
(* each side.  The invariant that this needs beside those of the modules   *)
(* above is Orderly: the front transfer is unfinished and its header block *)
(* is in flight in the lowest subchannel until it has been acknowledged.   *)
(***************************************************************************)
EXTENDS NetChannelDelivery_proofs, WellFoundedInduction

-----------------------------------------------------------------------------
(* Induction up to a bound, for a set in the place of a predicate. *)
LEMMA InductionUpTo ==
    ASSUME NEW n \in Nat, NEW T,
           0 \in T, \A k \in 0 .. (n-1) : k \in T => k + 1 \in T
    PROVE  n \in T
<1> DEFINE R == {ss \in Nat \X Nat : ss[1] < ss[2]}
           Bad == (0 .. n) \ T
<1>1. IsWellFoundedOn(R, Nat)
  <2>1. OpToRel(<, Nat) = R
    BY DEF OpToRel
  <2> QED BY <2>1, NatLessThanWellFounded
<1>2. Bad \subseteq Nat
  OBVIOUS
<1>3. SUFFICES ASSUME Bad # {} PROVE FALSE
  OBVIOUS
<1>4. PICK x \in Bad : \A y \in Bad : ~ (<<y, x>> \in R)
  <2> HIDE DEF R, Bad
  <2> QED BY <1>1, <1>2, <1>3, WFMin
<1>5. x # 0 /\ x \in 0 .. n
  OBVIOUS
<1>6. x - 1 \in 0 .. (n-1) /\ <<x - 1, x>> \in R
  BY <1>5
<1>7. x - 1 \in T
  BY <1>4, <1>6
<1>8. x = (x - 1) + 1
  BY <1>5
<1> QED BY <1>6, <1>7, <1>8

(* find_subchannel finds a subchannel when there is one. *)
LEMMA FindsLowest ==
    ASSUME NEW c, NEW state, FindSubchannel(c, state) = {}, NEW i \in Subchannel
    PROVE  c.subchannels[i].state # state
<1> DEFINE T == {k \in Nat : \A j \in 0 .. k : c.subchannels[j].state # state}
<1>1. i \in Nat /\ 0 .. i \subseteq Subchannel
  BY ConfigurationAssumption DEF Subchannel
<1>2. ASSUME NEW k \in 0 .. i, \A j \in 0 .. (k-1) : c.subchannels[j].state # state
      PROVE  k \in T
  <2>1. c.subchannels[k].state # state
    BY <1>1, <1>2 DEF FindSubchannel
  <2> QED BY <1>1, <1>2, <2>1
<1>3. 0 \in T
  BY <1>1, <1>2
<1>4. ASSUME NEW k \in 0 .. (i-1), k \in T PROVE k + 1 \in T
  <2>1. k + 1 \in 0 .. i /\ 0 .. ((k + 1) - 1) = 0 .. k
    BY <1>1
  <2> QED BY <1>2, <1>4, <2>1
<1> HIDE DEF T
<1>5. i \in T
  BY <1>1, <1>3, <1>4, InductionUpTo
<1> QED BY <1>1, <1>5 DEF T

-----------------------------------------------------------------------------
(* Recovery: no state wedges a pair of channels                            *)

(* The block that starts at fragment 0, and has the size, is in the lowest *)
(* subchannel: it was filled when all were free.                           *)
HeaderFirst(c) ==
    \A i \in Busy(c) : c.subchannels[i].start_fragment = 0 => i = 0

(* The transfer at the front has something left to acknowledge. *)
Unfinished(c) ==
    c.outgoing # <<>> =>
        Head(c.outgoing).acked_fragments < BytesToFragments(Head(c.outgoing).bytes)

Orderly(c) == c.challenge = Challenge /\ HeaderFirst(c) /\ Unfinished(c)

(* No block waits for an acknowledgement. *)
Quiet(c) == \A i \in Subchannel : c.subchannels[i].state # "WaitingForAck"

(* d has read the newest packet of c. *)
Heard(c, d) == d.in_sequence_nr = c.out_sequence_nr - 1

(* d has read a block that c still has to hear of. *)
Arrived(c, d) ==
    \E i \in Subchannel : /\ c.subchannels[i].state = "WaitingForAck"
                          /\ c.out_reliable_state[i] = d.in_reliable_state[i]

(* How many fragments c has left to get acknowledged, where no transfer    *)
(* has more than F: the measure that exchanges decrease.                   *)
Left(c, F) ==
    IF c.outgoing = <<>> THEN 0
    ELSE Len(c.outgoing) * F - Head(c.outgoing).acked_fragments

(* F bounds the fragments of a transfer. *)
Fits(F) == F \in Nat /\ \A bytes \in TransferBytes : BytesToFragments(bytes) <= F

(* The transfers at the front are at the same point. *)
SameFront(c, e) ==
    /\ Len(e.outgoing) = Len(c.outgoing)
    /\ e.outgoing = <<>> <=> c.outgoing = <<>>
    /\ c.outgoing # <<>> =>
          /\ Head(e.outgoing).acked_fragments = Head(c.outgoing).acked_fragments
          /\ Head(e.outgoing).bytes = Head(c.outgoing).bytes

(* Then they have as much left. *)
LEMMA SameLeft ==
    ASSUME NEW c, NEW e, SameFront(c, e), NEW F
    PROVE  /\ Left(e, F) = Left(c, F)
           /\ Unfinished(c) => Unfinished(e)
  BY DEF SameFront, Left, Unfinished

(* The measure is a number, and 0 when nothing is left. *)
LEMMA LeftFacts ==
    ASSUME NEW c, ChannelOK(c), Unfinished(c), NEW q, Backlog(c, q),
           NEW F, Fits(F)
    PROVE  /\ Left(c, F) \in Nat
           /\ Left(c, F) = 0 <=> c.outgoing = <<>>
<1>1. CASE c.outgoing = <<>>
  BY <1>1 DEF Left
<1>2. CASE c.outgoing # <<>>
  <2> DEFINE n == Len(c.outgoing)
             acked == Head(c.outgoing).acked_fragments
             total == BytesToFragments(Head(c.outgoing).bytes)
  <2>1. /\ c.outgoing \in Seq(OutgoingReliableData)
        /\ Head(c.outgoing) = c.outgoing[1] /\ n \in Nat \ {0}
    BY <1>2 DEF ChannelOK, Channel
  <2>2. Head(c.outgoing).bytes \in TransferBytes
    <3>1. 1 \in 1 .. Len(c.outgoing)
      BY <2>1
    <3> QED BY <2>1, <3>1 DEF Backlog
  <2>3. acked \in Nat /\ total \in Nat /\ acked < total /\ total <= F /\ F \in Nat
    BY <1>2, <2>2, TransferHasFragments, FrontCounts
       DEF Unfinished, Fits, OutgoingReliableData
  <2>4. Left(c, F) = n * F - acked
    BY <1>2 DEF Left
  <2> HIDE DEF n, acked, total
  <2>5. PICK m \in Nat : n = m + 1
    <3>1. n - 1 \in Nat /\ n = (n - 1) + 1
      BY <2>1
    <3> QED BY <3>1
  <2>6. n * F = m * F + F /\ m * F \in Nat
    BY <2>3, <2>5
  <2> HIDE DEF Left
  <2>7. Left(c, F) = m * F + (F - acked) /\ F - acked \in Nat \ {0}
    BY <2>3, <2>4, <2>6
  <2>8. Left(c, F) \in Nat \ {0}
    BY <2>6, <2>7
  <2> QED BY <1>2, <2>8
<1> QED BY <1>1, <1>2

(* fill_outgoing_subchannel starts a transfer in the lowest subchannel. *)
LEMMA FillOrderly ==
    ASSUME NEW c, ChannelOK(c), Orderly(c)
    PROVE  LET f == FillOutgoingSubchannel(c)
           IN  Orderly(f) /\ SameFront(c, f)
<1> DEFINE f == FillOutgoingSubchannel(c)
<1>1. CASE f = c
  BY <1>1 DEF SameFront
<1>2. ASSUME NEW i, NEW n, Fillable(c, i, n), f = Filled(c, i, n)
      PROVE  Orderly(f) /\ SameFront(c, f)
  <2>1. f.challenge = c.challenge
    BY <1>2 DEF Filled, ChannelOK, Channel
  <2> HIDE DEF f
  <2>2. Fills(c, i, n, f)
    BY <1>2, FilledFields
  <2>3. /\ i \in Subchannel /\ c.outgoing # <<>>
        /\ \A j \in 0 .. (i-1) : c.subchannels[j].state # "Free"
    BY <1>2 DEF Fillable
  <2>4. SameFront(c, f)
    <3>1. Head(c.outgoing) \in OutgoingReliableData
      BY <2>3, FrontCounts
    <3> QED BY <2>2, <2>3, <3>1 DEF Fills, SameFront, OutgoingReliableData
  <2>5. ASSUME NEW j \in Busy(f), f.subchannels[j].start_fragment = 0
        PROVE  j = 0
    <3>1. j \in Subchannel /\ f.subchannels[j].state # "Free"
      BY DEF Busy
    <3>2. CASE j # i
      BY <2>2, <2>5, <3>1, <3>2 DEF Fills, Orderly, HeaderFirst, Busy
    <3>3. CASE j = i
      <4>1. SentFragments(Head(c.outgoing)) = 0
        BY <2>2, <2>5, <3>3 DEF Fills
      <4>2. ASSUME NEW m \in Busy(c) PROVE FALSE
        <5> DEFINE a == c.subchannels[m].start_fragment
                   l == c.subchannels[m].num_fragments
        <5>1. a \in Nat /\ l \in Nat \ {0} /\ a + l <= 0
          BY <4>1, BlockFacts
        <5> HIDE DEF a, l
        <5> QED BY <5>1
      <4>3. i \in Nat /\ (i # 0 => 0 \in 0 .. (i-1) /\ 0 \in Subchannel)
        BY <2>3, ConfigurationAssumption DEF Subchannel
      <4> QED BY <2>3, <3>3, <4>2, <4>3 DEF Busy
    <3> QED BY <3>2, <3>3
  <2>6. HeaderFirst(f)
    BY <2>5 DEF HeaderFirst
  <2> QED BY <2>1, <2>4, <2>6, SameLeft DEF Orderly
<1> QED BY <1>1, <1>2, FillCases

(* write_packet puts the challenge in the packet. *)
LEMMA WriteChallenge ==
    ASSUME NEW c, ChannelOK(c), Orderly(c), NEW count
    PROVE  LET w == WritePacket(c, count)
           IN  w.channel.challenge = Challenge /\ w.packet.challenge = Challenge
<1> DEFINE f == FillOutgoingSubchannel(c)
           ready == FindSubchannel(f, "WaitingToSend")
           i == CHOOSE j \in ready : TRUE
           sent == IF ready = {} \/ f.outgoing = <<>> THEN f
                   ELSE [f EXCEPT !.subchannels[i].state = "WaitingForAck",
                                  !.subchannels[i].send_seq_nr = f.out_sequence_nr]
           w == WritePacket(c, count)
<1>1. /\ w.channel = [sent EXCEPT !.out_sequence_nr = @ + 1]
      /\ w.packet.challenge = f.challenge
  BY DEF WritePacket
<1>2. f \in Channel /\ f.challenge = Challenge
  BY FillOK, FillOrderly DEF Filling, ChannelOK, Orderly
<1> HIDE DEF f, ready, i, w
<1>3. [sent EXCEPT !.out_sequence_nr = @ + 1].challenge = f.challenge
  BY <1>2 DEF Channel
<1> HIDE DEF sent
<1> QED BY <1>1, <1>2, <1>3 DEF w

(* Sending a subchannel moves no block. *)
LEMMA SendOrderly ==
    ASSUME NEW f, ChannelOK(f), Orderly(f), NEW i \in Subchannel, NEW n, NEW e,
           f.subchannels[i].state = "WaitingToSend",
           Sends(f, i, n, e)
    PROVE  HeaderFirst(e) /\ SameFront(f, e)
<1>1. ASSUME NEW j \in Busy(e)
      PROVE  /\ j \in Busy(f)
             /\ e.subchannels[j].start_fragment = f.subchannels[j].start_fragment
  <2>1. j \in Subchannel /\ e.subchannels[j].state # "Free"
    BY DEF Busy
  <2>2. CASE j = i
    <3>1. f.subchannels[i] \in SubChannel
      BY ChannelTypes
    <3> QED BY <2>2, <3>1 DEF Sends, Busy, SubChannel
  <2>3. CASE j # i
    BY <2>1, <2>3 DEF Sends, Busy
  <2> QED BY <2>2, <2>3
<1> QED BY <1>1 DEF Orderly, HeaderFirst, SameFront, Sends

(* write_packet keeps the order, and acknowledges nothing. *)
LEMMA WriteOrderly ==
    ASSUME NEW c, ChannelOK(c), Orderly(c), NEW count \in Nat
    PROVE  LET w == WritePacket(c, count)
           IN  /\ Orderly(w.channel) /\ SameFront(c, w.channel)
               /\ w.packet.challenge = Challenge
<1> DEFINE f == FillOutgoingSubchannel(c)
           e == WritePacket(c, count).channel
           k == WritePacket(c, count).packet
<1>1. ChannelOK(f) /\ Orderly(f) /\ SameFront(c, f)
  BY FillOK, FillOrderly DEF Filling
<1>2. WritesFilled(f, count, e, k)
  BY WriteCases
<1>3. e.challenge = Challenge /\ k.challenge = Challenge
  BY WriteChallenge
<1> HIDE DEF f, e, k
<1>4. HeaderFirst(e) /\ SameFront(f, e)
  <2>1. CASE e = [f EXCEPT !.out_sequence_nr = @ + 1]
    <3>1. e.subchannels = f.subchannels /\ e.outgoing = f.outgoing
      BY <1>1, <2>1 DEF ChannelOK, Channel
    <3> QED BY <1>1, <3>1 DEF Orderly, HeaderFirst, Busy, SameFront
  <2> QED BY <1>1, <1>2, <2>1, SendOrderly DEF WritesFilled
<1>5. SameFront(c, e)
  BY <1>1, <1>4 DEF SameFront
<1> QED BY <1>1, <1>3, <1>4, <1>5, SameLeft DEF Orderly, e, k

(* A sender that waits for nothing and has something left sends a block,   *)
(* and the receiver can use it: it has the size, or the receiver knows it. *)
LEMMA WriteProgress ==
    ASSUME NEW c, NEW d, NEW acks, NEW data, Half(c, d, acks, data), Orderly(c),
           NEW q, NEW r, Delivery(c, d, data, q, r), NEW count \in UnreliableCounts,
           Quiet(c), c.outgoing # <<>>,
           NEW e, e = WritePacket(c, count).channel,
           NEW k, k = WritePacket(c, count).packet
    PROVE  /\ k.reliable # None /\ k.reliable.subchannel \in Subchannel
           /\ e.subchannels[k.reliable.subchannel].state = "WaitingForAck"
           /\ \/ e.subchannels[k.reliable.subchannel].start_fragment = 0
              \/ d.incoming # None
<1> DEFINE f == FillOutgoingSubchannel(c)
           front == Head(f.outgoing)
<1>1. ChannelOK(c) /\ count \in Nat
  BY PairAssumption DEF Half
<1>2. ChannelOK(f) /\ Orderly(f) /\ SameFront(c, f) /\ WritesFilled(f, count, e, k)
  BY <1>1, FillOK, FillOrderly, WriteCases DEF Filling
<1> DEFINE more == data \cup {k}
<1>3. Half(e, d, acks, more)
  BY <1>1, WriteOK, DataWrite
<1>4. Delivery(e, d, more, q, r)
  BY WriteDelivers
<1> HIDE DEF more
<1>5. /\ \/ f = c /\ NothingToFill(c)
         \/ Busy(f) # {}
      /\ Quiet(f)
  <2>1. CASE f = c /\ NothingToFill(c)
    BY <2>1
  <2>2. ASSUME NEW i, NEW n, Fillable(c, i, n), f = Filled(c, i, n)
        PROVE  Busy(f) # {} /\ Quiet(f)
    <3> HIDE DEF f
    <3>1. i \in Subchannel /\ Fills(c, i, n, f)
      BY <1>1, <2>2, FilledFields DEF Fillable
    <3>2. f.subchannels[i].state = "WaitingToSend"
      BY <3>1 DEF Fills
    <3> QED BY <3>1, <3>2 DEF Fills, Busy, Quiet
  <2> QED BY <1>1, <2>1, <2>2, FillCases
<1> HIDE DEF f
<1>6. Busy(f) # {}
  <2> SUFFICES ASSUME f = c, NothingToFill(c), Busy(c) = {} PROVE FALSE
    BY <1>5
  <2>1. /\ front.acked_fragments < BytesToFragments(front.bytes)
        /\ front.acked_fragments \in Nat /\ front.pending_fragments \in Nat
        /\ front.pending_fragments = Cardinality(FragmentsIn(c.subchannels, {}))
    BY <1>1, <1>2, FrontCounts
       DEF Orderly, Unfinished, ChannelOK, Accounting, OutgoingReliableData
  <2>2. front.pending_fragments = 0
    BY <2>1, FragmentsNone
  <2>3. SentFragments(front) # BytesToFragments(front.bytes)
    BY <1>1, <2>1, <2>2 DEF SentFragments
  <2>4. 0 \in FindSubchannel(c, "Free")
    BY ConfigurationAssumption DEF Busy, FindSubchannel, Subchannel
  <2> QED BY <2>3, <2>4 DEF NothingToFill
<1>7. PICK m \in Busy(f) : TRUE
  BY <1>6
<1>8. FindSubchannel(f, "WaitingToSend") # {}
  <2>1. m \in Subchannel /\ f.subchannels[m].state = "WaitingToSend"
    BY <1>2, <1>5, <1>7, ChannelTypes DEF Busy, Quiet
  <2> SUFFICES ASSUME FindSubchannel(f, "WaitingToSend") = {} PROVE FALSE
    OBVIOUS
  <2> QED BY <2>1, FindsLowest
<1>9. PICK i \in Subchannel :
        /\ f.subchannels[i].state = "WaitingToSend"
        /\ \A j \in 0 .. (i-1) : f.subchannels[j].state # "WaitingToSend"
        /\ PacketOf(f, count, [subchannel |-> i, stream |-> StreamOf(f, i)], k)
        /\ Sends(f, i, f.out_sequence_nr, e)
  BY <1>2, <1>8 DEF WritesFilled
<1>10. /\ k.reliable = [subchannel |-> i, stream |-> StreamOf(f, i)]
      /\ k.sequence = f.out_sequence_nr
      /\ e.outgoing = f.outgoing
      /\ e.subchannels[i].state = "WaitingForAck"
      /\ \A j \in Subchannel \ {i} : e.subchannels[j] = f.subchannels[j]
  <2>1. f.subchannels[i] \in SubChannel
    BY <1>2, ChannelTypes
  <2> QED BY <1>9, <2>1 DEF PacketOf, Sends, SubChannel
<1>11. k.reliable # None /\ k.reliable.subchannel = i
  <2> DEFINE block == [subchannel |-> i, stream |-> StreamOf(f, i)]
  <2>1. StreamOf(f, i) \in StreamData
    BY <1>2, <1>9, StreamFacts DEF Busy
  <2>2. block \in [subchannel : Subchannel, stream : StreamData]
    BY <2>1
  <2>3. block # None
    BY <2>2, NoneAssumption
  <2> QED BY <1>10, <2>3
<1>12. ASSUME d.incoming = None
       PROVE  e.subchannels[i].start_fragment = 0
  <2>1. /\ ChannelOK(e) /\ i \in Busy(e) /\ e.outgoing # <<>>
        /\ HeaderFirst(e)
    BY <1>2, <1>9, <1>10, <1>3, SendOrderly DEF Half, Busy, SameFront
  <2>2. k \in InFlight(d, more, i)
    <3>1. k.sequence > d.in_sequence_nr
      <4>1. Writes(c, e, k) /\ d.in_sequence_nr < c.out_sequence_nr
        BY <1>1, WriteOK DEF Half, Numbering
      <4>2. c.out_sequence_nr \in Nat /\ d.in_sequence_nr \in Nat
        BY ChannelTypes DEF Half
      <4> QED BY <4>1, <4>2 DEF Writes
    <3> QED BY <1>11, <3>1 DEF InFlight, more
  <2>3. i \in Missing(e, d)
    BY <1>3, <2>2, InFlightIsMissing
  <2>4. Held(e, d) = {}
    <3> QED BY <1>12, <1>4, <2>1, <2>3 DEF Delivery, Progress, Receiving, Returned
  <2>5. 1 \in 1 .. SentFragments(Head(e.outgoing))
    <3> DEFINE a == e.subchannels[i].start_fragment
               l == e.subchannels[i].num_fragments
               sent == SentFragments(Head(e.outgoing))
    <3>1. a \in Nat /\ l \in Nat \ {0} /\ a + l <= sent /\ sent \in Nat
      BY <2>1, BlockFacts, FrontCounts
    <3> HIDE DEF a, l, sent
    <3>2. 1 \in 1 .. sent
      BY <3>1
    <3> QED BY <3>2 DEF sent
  <2>6. PICK j \in Missing(e, d) : 1 \in Carried(e, j)
    BY <2>4, <2>5 DEF Held
  <2>7. e.subchannels[j].start_fragment = 0 /\ j \in Busy(e) /\ j = 0
    <3> DEFINE a == e.subchannels[j].start_fragment
    <3>1. j \in Busy(e)
      BY DEF Missing
    <3>2. a \in Nat /\ a + 1 <= 1
      BY <2>1, <2>6, <3>1, BlockFacts DEF Carried
    <3> HIDE DEF a
    <3>3. a = 0
      BY <3>2
    <3> QED BY <2>1, <3>1, <3>3 DEF HeaderFirst, a
  <2>8. j = i
    <3> SUFFICES ASSUME j # i PROVE FALSE
      OBVIOUS
    <3>1. j \in Subchannel /\ e.subchannels[j].state # "Free"
      BY <2>7 DEF Busy
    <3>2. 0 \in 0 .. (i-1)
      BY <2>7, ConfigurationAssumption DEF Subchannel
    <3>3. f.subchannels[j].state # "WaitingToSend" /\ f.subchannels[j] = e.subchannels[j]
      BY <1>9, <1>10, <2>7, <3>1, <3>2
    <3> QED BY <1>2, <1>5, <3>1, <3>3, ChannelTypes DEF Quiet
  <2> QED BY <2>7, <2>8
<1> QED BY <1>9, <1>10, <1>11, <1>12

(* pop_completed_outgoing_transfers leaves a transfer that is not          *)
(* finished, and no more to acknowledge.                                   *)
LEMMA PopOrderly ==
    ASSUME NEW v, ChannelOK(v), v.challenge = Challenge, HeaderFirst(v),
           NEW q, Backlog(v, q), NEW F, Fits(F)
    PROVE  LET h == PopCompletedOutgoingTransfers(v)
           IN  /\ Orderly(h) /\ h.subchannels = v.subchannels
               /\ Left(h, F) \in Nat /\ Left(v, F) \in Int /\ Left(h, F) <= Left(v, F)
<1> DEFINE h == PopCompletedOutgoingTransfers(v)
           front == Head(v.outgoing)
           total == BytesToFragments(front.bytes)
           done == v.outgoing # <<>> /\ front.acked_fragments = total
<1>1. /\ v \in Channel /\ v.outgoing \in Seq(OutgoingReliableData)
      /\ Len(v.outgoing) \in Nat
  BY DEF ChannelOK, Channel
<1>2. ASSUME v.outgoing # <<>>
      PROVE  /\ front.acked_fragments \in Nat /\ front.acked_fragments <= total
             /\ total \in Nat /\ total <= F /\ F \in Nat
  <2>1. /\ front \in OutgoingReliableData /\ front.pending_fragments \in Nat
        /\ SentFragments(front) <= total /\ total \in Nat
    BY <1>2, FrontCounts
  <2>2. front.acked_fragments \in Nat /\ front.acked_fragments <= total
    BY <2>1 DEF SentFragments, OutgoingReliableData
  <2>3. front.bytes \in TransferBytes
    <3>1. 1 \in 1 .. Len(v.outgoing) /\ front = v.outgoing[1]
      BY <1>1, <1>2
    <3> QED BY <3>1 DEF Backlog
  <2> QED BY <2>1, <2>2, <2>3 DEF Fits
<1>3. CASE ~ done
  <2>1. h = v
    BY <1>3 DEF PopCompletedOutgoingTransfers
  <2>2. Orderly(h)
    <3>1. v.outgoing # <<>> => front.acked_fragments < total
      BY <1>2, <1>3
    <3> QED BY <2>1, <3>1 DEF Orderly, Unfinished
  <2>3. Left(h, F) \in Nat
    BY <2>1, <2>2, LeftFacts DEF Orderly
  <2> QED BY <2>1, <2>2, <2>3
<1>4. CASE done
  <2> DEFINE rest == Tail(v.outgoing)
             n == Len(v.outgoing)
  <2>1. h = [v EXCEPT !.outgoing = rest]
    BY <1>4 DEF PopCompletedOutgoingTransfers
  <2>2. /\ h.outgoing = rest /\ h.subchannels = v.subchannels
        /\ h.challenge = v.challenge
    BY <1>1, <2>1 DEF Channel
  <2>3. /\ rest \in Seq(OutgoingReliableData)
        /\ n \in Nat \ {0} /\ Len(rest) = n - 1
        /\ rest # <<>> => n >= 2 /\ Head(rest) = v.outgoing[2]
    BY <1>1, <1>4
  <2> HIDE DEF h, rest
  <2>4. ASSUME rest # <<>>
        PROVE  Head(rest).acked_fragments = 0 /\ BytesToFragments(Head(rest).bytes) > 0
    <3>1. 2 \in 2 .. Len(v.outgoing) /\ 2 \in 1 .. Len(v.outgoing)
      BY <2>3, <2>4
    <3>2. Head(rest).acked_fragments = 0
      BY <1>4, <2>3, <2>4, <3>1 DEF ChannelOK, Accounting, OnlyFrontStarted
    <3>3. Head(rest).bytes \in TransferBytes
      BY <2>3, <2>4, <3>1 DEF Backlog
    <3>4. BytesToFragments(Head(rest).bytes) \in Nat \ {0}
      BY <3>3, TransferHasFragments
    <3> QED BY <3>2, <3>4
  <2>5. Orderly(h)
    BY <2>2, <2>4 DEF Orderly, HeaderFirst, Busy, Unfinished
  <2>6. Left(v, F) = n * F - total
    BY <1>4 DEF Left
  <2>7. Left(h, F) = IF rest = <<>> THEN 0 ELSE (n - 1) * F
    <3>1. CASE rest = <<>>
      BY <2>2, <3>1 DEF Left
    <3>2. CASE rest # <<>>
      <4> DEFINE m == n - 1
      <4>1. F \in Nat /\ m \in Nat
        BY <1>2, <1>4, <2>3
      <4>2. Left(h, F) = m * F - 0
        BY <2>2, <2>3, <2>4, <3>2 DEF Left
      <4> HIDE DEF m, n
      <4>3. Left(h, F) = m * F
        BY <4>1, <4>2
      <4> QED BY <3>2, <4>3 DEF m
    <3> QED BY <3>1, <3>2
  <2>8. F \in Nat /\ total \in Nat /\ total <= F
    BY <1>2, <1>4
  <2> HIDE DEF n, total
  <2>9. PICK m \in Nat : n = m + 1
    <3>1. n - 1 \in Nat /\ n = (n - 1) + 1
      BY <2>3
    <3> QED BY <3>1
  <2>10. n - 1 = m /\ n * F = m * F + F /\ m * F \in Nat
    BY <2>8, <2>9
  <2> HIDE DEF Left
  <2>11. Left(v, F) = m * F + (F - total) /\ F - total \in Nat
    BY <2>6, <2>8, <2>10
  <2>12. Left(h, F) = 0 \/ Left(h, F) = m * F
    BY <2>7, <2>10
  <2>13. Left(h, F) \in Nat /\ Left(v, F) \in Int /\ Left(h, F) <= Left(v, F)
    BY <2>10, <2>11, <2>12
  <2> QED BY <2>2, <2>5, <2>13 DEF h
<1> QED BY <1>3, <1>4

(* update_outgoing_subchannels moves no block, and takes what it           *)
(* acknowledges from the measure.                                          *)
LEMMA UpdateOrderly ==
    ASSUME NEW c, ChannelOK(c), Orderly(c), NEW pk, NEW F, F \in Nat
    PROVE  LET u == UpdateOutgoingSubchannels(c, pk)
               n == Cardinality(FragmentsIn(c.subchannels, AckedSubchannels(c, pk)))
           IN  /\ u.challenge = Challenge /\ HeaderFirst(u)
               /\ n \in Nat /\ (AckedSubchannels(c, pk) # {} => n > 0)
               /\ Left(u, F) = Left(c, F) - n
<1> DEFINE u == UpdateOutgoingSubchannels(c, pk)
           A == AckedSubchannels(c, pk)
           D == DroppedSubchannels(c, pk)
           n == Cardinality(FragmentsIn(c.subchannels, A))
<1>1. /\ c \in Channel /\ c.subchannels \in [Subchannel -> SubChannel]
      /\ c.outgoing \in Seq(OutgoingReliableData)
      /\ A \in SUBSET Busy(c) /\ Busy(c) \in SUBSET Subchannel
  BY DEF ChannelOK, Channel, AckedSubchannels, Visited, Busy
<1>2. UpdatesFields(c, A, D, u)
  BY UpdateFields
<1>3. u.challenge = Challenge
  BY <1>1 DEF Orderly, UpdateOutgoingSubchannels, Channel
<1> HIDE DEF u, A, D
<1>4. n \in Nat
  BY <1>1, FragmentsFinite
<1>5. ASSUME NEW i \in A PROVE n > 0
  <2> DEFINE one == Cardinality(FragmentsIn(c.subchannels, {i}))
             rest == Cardinality(FragmentsIn(c.subchannels, A \ {i}))
  <2>1. c.subchannels[i].num_fragments \in Nat \ {0}
    BY <1>1, BlockFacts
  <2>2. one = c.subchannels[i].num_fragments
    BY <1>1, FragmentsOne
  <2>3. n = one + rest
    BY <1>1, FragmentsSplit
  <2>4. rest \in Nat
    BY <1>1, FragmentsFinite
  <2> HIDE DEF one, rest, n
  <2> QED BY <2>1, <2>2, <2>3, <2>4
<1>6. HeaderFirst(u)
  <2>1. ASSUME NEW i \in Busy(u)
        PROVE  /\ i \in Busy(c)
               /\ u.subchannels[i].start_fragment = c.subchannels[i].start_fragment
    <3>1. i \in Subchannel /\ i \notin A
      BY <1>2 DEF Busy, UpdatesFields, UpdatesSubs, FreeSubChannel
    <3> QED BY <1>2, <3>1 DEF Busy, UpdatesFields, UpdatesSubs
  <2> QED BY <2>1 DEF HeaderFirst, Orderly
<1>7. Left(u, F) = Left(c, F) - n
  <2>1. CASE c.outgoing = <<>>
    <3>1. Busy(c) = {}
      BY <2>1 DEF ChannelOK, Accounting
    <3>2. n = 0
      BY <1>1, <3>1, FragmentsNone
    <3>3. u.outgoing = <<>>
      BY <1>2, <2>1 DEF UpdatesFields
    <3> QED BY <2>1, <3>2, <3>3 DEF Left
  <2>2. CASE c.outgoing # <<>>
    <3> DEFINE m == Len(c.outgoing) * F
               acked == Head(c.outgoing).acked_fragments
    <3>1. Moves(c.outgoing, n, u.outgoing)
      BY <1>2, <2>2 DEF UpdatesFields
    <3>2. /\ Left(u, F) = m - (acked + n)
          /\ Left(c, F) = m - acked
      BY <2>2, <3>1 DEF Moves, Left
    <3>3. m \in Int /\ acked \in Nat
      <4>1. Len(c.outgoing) \in Nat
        BY <1>1
      <4> HIDE DEF Left
      <4> QED BY <2>2, <4>1, FrontCounts DEF OutgoingReliableData
    <3> HIDE DEF m, acked, n, Left
    <3>4. Left(u, F) = Left(c, F) - n
      BY <1>4, <3>2, <3>3
    <3> QED BY <3>4
  <2> QED BY <2>1, <2>2
<1> QED BY <1>3, <1>4, <1>5, <1>6, <1>7 DEF u, A

(* read_header keeps the order; what it acknowledges leaves the measure;   *)
(* and when it is the answer to the newest packet, nothing waits any more. *)
LEMMA AckProgress ==
    ASSUME NEW c, NEW d, NEW acks, NEW data, Half(c, d, acks, data), Orderly(c),
           NEW q, NEW r, Delivery(c, d, data, q, r), NEW pk \in acks, Accepts(c, pk),
           NEW F, Fits(F), NEW h, h = ReadHeader(c, pk)
    PROVE  /\ Orderly(h)
           /\ Left(h, F) \in Nat /\ Left(c, F) \in Nat /\ Left(h, F) <= Left(c, F)
           /\ \A i \in Subchannel :
                 c.subchannels[i].state = "WaitingForAck" /\ BitAcked(c, pk, i)
                    => Left(h, F) < Left(c, F)
           /\ pk.sequence_ack = c.out_sequence_nr - 1 => Quiet(h)
<1> DEFINE A == AckedSubchannels(c, pk)
           D == DroppedSubchannels(c, pk)
           n == Cardinality(FragmentsIn(c.subchannels, A))
           u == UpdateOutgoingSubchannels(c, pk)
           v == [u EXCEPT !.in_sequence_nr = pk.sequence,
                          !.out_sequence_nr_ack = pk.sequence_ack]
<1>1. /\ HeaderOk(c, pk) /\ pk \in Fresh(c, acks) /\ ChannelOK(c) /\ pk \in Packet
      /\ Backlog(c, q) /\ F \in Nat
  BY AcceptsIsHeaderOk DEF Accepts, Fresh, Half, Delivery, Fits
<1>2. h = PopCompletedOutgoingTransfers(v)
  BY <1>1 DEF ReadHeader
<1>3. /\ u.challenge = Challenge /\ HeaderFirst(u)
      /\ n \in Nat /\ (A # {} => n > 0)
      /\ Left(u, F) = Left(c, F) - n
  BY <1>1, UpdateOrderly
<1>4. Backlog(u, q)
  BY <1>1, UpdateDelivers DEF Delivery
<1>5. UpdatesFields(c, A, D, u) /\ u \in Channel /\ Accounting(u)
  BY <1>1, UpdateFields, UpdateOK DEF Updates, ChannelOK
<1>6. \A i \in Subchannel : c.subchannels[i].state = "WaitingForAck" =>
         /\ BitAcked(c, pk, i) => i \in A
         /\ ~ BitAcked(c, pk, i) /\ c.subchannels[i].send_seq_nr <= pk.sequence_ack
               => i \in D
  <2>1. Visited(c, pk) = Subchannel
    <3>1. \A i \in Subchannel : 0 .. i \subseteq Subchannel
      BY ConfigurationAssumption DEF Subchannel
    <3> QED BY <1>1, <3>1 DEF Visited, HeaderOk
  <2> QED BY <2>1 DEF AckedSubchannels, DroppedSubchannels
<1> HIDE DEF A, D, u
<1>7. /\ v \in Channel
      /\ v.outgoing = u.outgoing /\ v.subchannels = u.subchannels
      /\ v.challenge = u.challenge
  BY <1>1, <1>5, PacketTypes DEF Channel
<1> HIDE DEF v, n
<1>8. /\ ChannelOK(v) /\ v.challenge = Challenge /\ HeaderFirst(v) /\ Backlog(v, q)
      /\ Left(v, F) = Left(u, F)
  <2>1. Accounting(v)
    BY <1>5, <1>7, AccountingSame
  <2> QED BY <1>3, <1>4, <1>7, <2>1 DEF ChannelOK, HeaderFirst, Busy, Backlog, Left
<1>9. /\ Orderly(h) /\ h.subchannels = u.subchannels
      /\ Left(h, F) \in Nat /\ Left(u, F) \in Int /\ Left(h, F) <= Left(u, F)
  BY <1>2, <1>7, <1>8, PopOrderly
<1>10. Left(c, F) \in Nat
  BY <1>1, LeftFacts DEF Orderly
<1>11. ASSUME pk.sequence_ack = c.out_sequence_nr - 1, NEW i \in Subchannel
       PROVE  h.subchannels[i].state # "WaitingForAck"
  <2>1. CASE i \in A
    BY <1>5, <1>9, <2>1 DEF UpdatesFields, UpdatesSubs, FreeSubChannel
  <2>2. CASE i \in D
    BY <1>5, <1>9, <2>2 DEF UpdatesFields, UpdatesSubs
  <2>3. CASE i \notin A \cup D
    <3> SUFFICES ASSUME c.subchannels[i].state = "WaitingForAck" PROVE FALSE
      BY <1>5, <1>9, <2>3 DEF UpdatesFields, UpdatesSubs
    <3>1. c.subchannels[i].send_seq_nr < c.out_sequence_nr
      BY DEF Half, Direction, SubchannelOK, SentOrReceived
    <3>2. c.subchannels[i].send_seq_nr \in Int /\ c.out_sequence_nr \in Nat
      BY <1>1, ChannelTypes
    <3>3. c.subchannels[i].send_seq_nr <= pk.sequence_ack
      BY <1>11, <3>1, <3>2
    <3> QED BY <1>6, <2>3, <3>3
  <2> QED BY <2>1, <2>2, <2>3
<1>12. /\ Left(h, F) <= Left(c, F)
       /\ A # {} => Left(h, F) < Left(c, F)
  BY <1>3, <1>9, <1>10
<1> QED BY <1>6, <1>9, <1>10, <1>11, <1>12 DEF Quiet

(* The next packet of c is not too far from the last one that d has read.  *)
Near(c, d) == c.out_sequence_nr - (d.in_sequence_nr + 1) <= max_packets_dropped

(* A pair of channels that can be reached, whatever the network holds.     *)
Reachable(a, b) ==
    /\ Orderly(a) /\ Orderly(b) /\ Near(a, b) /\ Near(b, a)
    /\ \E toA, toB, sentA, sentB, gotA, gotB :
          /\ Half(a, b, toA, toB) /\ Half(b, a, toB, toA)
          /\ Delivery(a, b, toB, sentA, gotB) /\ Delivery(b, a, toA, sentB, gotA)

(* What one packet that arrives, from a to b, makes of them: a2 and b2.    *)
Progresses(a, b, a2, b2, F) ==
    /\ Reachable(a2, b2)
    /\ Heard(a2, b2) /\ (Heard(b, a) => Heard(b2, a2) /\ Quiet(b2))
    /\ Left(a, F) \in Nat /\ Left(b, F) \in Nat
    /\ Left(a2, F) = Left(a, F)
    /\ Left(b2, F) \in Nat /\ Left(b2, F) <= Left(b, F)
    /\ Arrived(b, a) => Left(b2, F) < Left(b, F)
    /\ Quiet(a) => Left(a2, F) = 0 \/ Arrived(a2, b2)

(* read_packet leaves the challenge alone after its header. *)
LEMMA ReadChallenge ==
    ASSUME NEW c, NEW pk, ReadHeader(c, pk) \in Channel
    PROVE  ReadPacket(c, pk).channel.challenge = ReadHeader(c, pk).challenge
<1> DEFINE h == ReadHeader(c, pk)
           r == pk.reliable
           hasData == r # None /\ r.stream # None
           incoming == IF hasData THEN ReadIncomingData(h.incoming, r.stream)
                       ELSE h.incoming
           read == [h EXCEPT !.incoming = incoming,
                             !.in_reliable_state[r.subchannel] = ~ @]
           e == ReadPacket(c, pk).channel
<1>1. e \in {h, [h EXCEPT !.incoming = incoming], read, [read EXCEPT !.incoming = None]}
  BY DEF ReadPacket
<1> HIDE DEF h, incoming, e
<1>2. /\ [h EXCEPT !.incoming = incoming].challenge = h.challenge
      /\ read.challenge = h.challenge
      /\ [read EXCEPT !.incoming = None].challenge = h.challenge
  BY DEF Channel, h
<1> HIDE DEF read
<1> QED BY <1>1, <1>2 DEF h, e

(* A packet that is sent and read at once makes progress. *)
LEMMA PacketProgress ==
    ASSUME Decodable, 0 \in UnreliableCounts, NEW F, Fits(F),
           NEW a, NEW b, Reachable(a, b),
           NEW a2, a2 = WritePacket(a, 0).channel,
           NEW k, k = WritePacket(a, 0).packet,
           NEW b2, b2 = ReadPacket(b, k).channel
    PROVE  Progresses(a, b, a2, b2, F)
<1> DEFINE h == ReadHeader(b, k)
<1>1. PICK toA, toB, sentA, sentB, gotA, gotB :
          /\ Half(a, b, toA, toB) /\ Half(b, a, toB, toA)
          /\ Delivery(a, b, toB, sentA, gotB) /\ Delivery(b, a, toA, sentB, gotA)
  BY DEF Reachable
<1>2. /\ Orderly(a) /\ Orderly(b) /\ Near(a, b) /\ Near(b, a)
      /\ ChannelOK(a) /\ ChannelOK(b)
  BY <1>1 DEF Reachable, Half
<1> DEFINE data == toB \cup {k}
\* a writes.
<1>3. Writes(a, a2, k)
  BY <1>2, WriteOK
<1>4. Half(a2, b, toA, data)
  BY <1>1, <1>3, DataWrite
<1>5. Half(b, a2, data, toA)
  <2>1. \A pk \in toB : pk.sequence < a.out_sequence_nr
    BY <1>1 DEF Half, Numbering
  <2> QED BY <1>1, <1>3, <2>1, AckWrite
<1>6. Delivery(a2, b, data, sentA, gotB) /\ SameReceiving(a, a2)
  BY <1>1, WriteDelivers
<1>7. Delivery(b, a2, toA, sentB, gotA)
  BY <1>1, <1>6, ReceiverSame DEF SameReceiving
<1>8. Orderly(a2) /\ SameFront(a, a2) /\ k.challenge = Challenge
  BY <1>2, WriteOrderly
\* b accepts it.
<1>9. /\ a.out_sequence_nr \in Nat /\ a.in_sequence_nr \in Nat
      /\ b.out_sequence_nr \in Nat /\ b.in_sequence_nr \in Nat
      /\ k \in Packet /\ k \in data
  BY <1>2, <1>3, ChannelTypes DEF Writes
<1>10. Accepts(b, k) /\ HeaderOk(b, k)
  <2>1. k.sequence = a.out_sequence_nr /\ b.in_sequence_nr < a.out_sequence_nr
    BY <1>1, <1>3 DEF Writes, Half, Numbering
  <2>2. Accepts(b, k)
    BY <1>2, <1>8, <1>9, <2>1 DEF Accepts, Orderly, Near
  <2> QED BY <1>5, <1>9, <2>2, AcceptsIsHeaderOk
<1> HIDE DEF data
<1>11. Reads(b, k, b2) /\ SameSending(h, b2)
  BY <1>2, <1>9, ReadOK
<1>12. Half(a2, b2, toA, data)
  BY <1>4, <1>9, <1>11, DataRead
<1>13. Half(b2, a2, data, toA)
  BY <1>5, <1>9, <1>11, AckRead
<1>14. Delivery(a2, b2, data, sentA, gotB \o ReadPacket(b, k).payloads)
  BY <1>4, <1>6, <1>9, DataDelivers
<1>15. Delivery(b2, a2, toA, sentB, gotA)
  <2>1. Delivery(h, a2, toA, sentB, gotA)
    BY <1>5, <1>7, <1>9, AckDelivers
  <2> HIDE DEF h
  <2> QED BY <1>11, <2>1, SenderSame DEF SameSending
\* What b makes of the acknowledgement.
<1>16. /\ Orderly(h)
       /\ Left(h, F) \in Nat /\ Left(b, F) \in Nat /\ Left(h, F) <= Left(b, F)
       /\ \A i \in Subchannel :
             b.subchannels[i].state = "WaitingForAck" /\ BitAcked(b, k, i)
                => Left(h, F) < Left(b, F)
       /\ k.sequence_ack = b.out_sequence_nr - 1 => Quiet(h)
  BY <1>2, <1>5, <1>7, <1>9, <1>10, AckProgress
<1>17. b2.challenge = h.challenge
  <2>1. h \in Channel
    BY <1>2, <1>9, ReadHeaderOK DEF ReadsHeader, ChannelOK
  <2> QED BY <2>1, ReadChallenge
<1> HIDE DEF h
<1>18. Orderly(b2) /\ Left(b2, F) = Left(h, F) /\ (Quiet(h) => Quiet(b2))
  BY <1>11, <1>16, <1>17
     DEF SameSending, Orderly, HeaderFirst, Busy, Unfinished, Left, Quiet
<1>19. Arrived(b, a) => Left(b2, F) < Left(b, F)
  BY <1>3, <1>16, <1>18 DEF Arrived, BitAcked, Writes
<1>20. Heard(b, a) => Heard(b2, a2) /\ Quiet(b2)
  BY <1>3, <1>11, <1>16, <1>18 DEF Heard, Writes, Reads
\* What a has achieved.
<1>21. Heard(a2, b2)
  BY <1>3, <1>9, <1>10, <1>11 DEF Heard, Writes, Reads
<1>22. Near(a2, b2) /\ Near(b2, a2)
  <2>1. /\ a2.out_sequence_nr = a.out_sequence_nr + 1
        /\ a2.in_sequence_nr = a.in_sequence_nr
        /\ b2.out_sequence_nr = b.out_sequence_nr
        /\ b2.in_sequence_nr = a.out_sequence_nr
    BY <1>3, <1>10, <1>11 DEF Writes, Reads
  <2> QED BY <1>2, <1>9, <2>1, ConfigurationAssumption DEF Near
<1>23. Left(a2, F) = Left(a, F) /\ Left(a, F) \in Nat
  BY <1>1, <1>2, <1>8, SameLeft, LeftFacts DEF Orderly, Delivery
<1>24. ASSUME Quiet(a), Left(a2, F) # 0
       PROVE  Arrived(a2, b2)
  <2> DEFINE i == k.reliable.subchannel
  <2>1. a.outgoing # <<>>
    BY <1>23, <1>24 DEF Left
  <2>2. /\ k.reliable # None /\ i \in Subchannel
        /\ a2.subchannels[i].state = "WaitingForAck"
        /\ a2.subchannels[i].start_fragment = 0 \/ b.incoming # None
    BY <1>1, <1>2, <1>24, <2>1, WriteProgress
  <2>3. i \notin Missing(a2, b2)
    BY <1>4, <1>6, <1>9, <1>10, <2>2, BlockDelivers
  <2> QED BY <2>2, <2>3 DEF Missing, Busy, Arrived
<1>25. Reachable(a2, b2)
  <2>1. \E x, y, s, t, g, w :
           /\ Half(a2, b2, x, y) /\ Half(b2, a2, y, x)
           /\ Delivery(a2, b2, y, s, w) /\ Delivery(b2, a2, x, t, g)
    <3> DEFINE w == gotB \o ReadPacket(b, k).payloads
    <3>1. Delivery(a2, b2, data, sentA, w)
      BY <1>14
    <3> HIDE DEF w
    <3> QED BY <1>12, <1>13, <1>15, <3>1
  <2> QED BY <1>8, <1>18, <1>22, <2>1 DEF Reachable
<1> QED BY <1>16, <1>18, <1>19, <1>20, <1>21, <1>23, <1>24, <1>25 DEF Progresses

-----------------------------------------------------------------------------
(* Exchanges                                                               *)

(* One packet each way, p's first. *)
Exchange(p, s) == Deliver(Other(p), Deliver(p, s))

(* What n exchanges have made of the channels s: from the first on, p      *)
(* waits for nothing when it writes; from the second on, p has read what   *)
(* the other side sent; then each makes progress in every exchange.        *)
Stage(p, s, n, F, K) ==
    LET a == s[p]
        b == s[Other(p)]
    IN  /\ s \in [Peer -> Channel] /\ Reachable(a, b)
        /\ Left(a, F) \in 0 .. K /\ Left(b, F) \in 0 .. K
        /\ n >= 1 => Quiet(a) /\ Heard(b, a)
        /\ n >= 2 => Left(b, F) = 0 \/ Arrived(b, a)
        /\ Left(a, F) = 0 \/ Left(a, F) + n <= K + 1
        /\ Left(b, F) = 0 \/ Left(b, F) + n <= K + 2

(* Deliver is such a packet. *)
LEMMA DeliverProgress ==
    ASSUME Decodable, 0 \in UnreliableCounts, NEW F, Fits(F),
           NEW p \in Peer, NEW s \in [Peer -> Channel], Reachable(s[p], s[Other(p)])
    PROVE  LET t == Deliver(p, s)
           IN  /\ t \in [Peer -> Channel]
               /\ Progresses(s[p], s[Other(p)], t[p], t[Other(p)], F)
<1> DEFINE o == Other(p)
           a2 == WritePacket(s[p], 0).channel
           k == WritePacket(s[p], 0).packet
           b2 == ReadPacket(s[o], k).channel
           t == Deliver(p, s)
<1>1. o \in Peer /\ o # p
  BY OtherPeer
<1>2. Progresses(s[p], s[o], a2, b2, F)
  BY PacketProgress
<1>3. t = [s EXCEPT ![p] = a2, ![o] = b2]
  BY <1>1 DEF Deliver
<1> HIDE DEF o, a2, k, b2, t
<1>4. a2 \in Channel /\ b2 \in Channel
  BY <1>2 DEF Progresses, Reachable, Half, ChannelOK
<1>5. t \in [Peer -> Channel] /\ t[p] = a2 /\ t[o] = b2
  BY <1>1, <1>3, <1>4
<1> QED BY <1>2, <1>5 DEF o, t

(* Neither channel is special. *)
LEMMA ReachableBack == ASSUME NEW a, NEW b, Reachable(a, b) PROVE Reachable(b, a)
  BY DEF Reachable

(* One more exchange. *)
LEMMA ExchangeProgress ==
    ASSUME Decodable, 0 \in UnreliableCounts, NEW F, Fits(F), NEW K \in Nat,
           NEW p \in Peer, NEW n \in Nat, NEW s, Stage(p, s, n, F, K)
    PROVE  Stage(p, Exchange(p, s), n + 1, F, K)
<1> DEFINE o == Other(p)
           t == Deliver(p, s)
           w == Deliver(o, t)
<1>1. o \in Peer /\ Other(o) = p
  BY OtherPeer
<1>2. s \in [Peer -> Channel] /\ Reachable(s[p], s[o])
  BY DEF Stage
<1>3. t \in [Peer -> Channel] /\ Progresses(s[p], s[o], t[p], t[o], F)
  BY <1>2, DeliverProgress
<1>4. Reachable(t[o], t[p])
  BY <1>3, ReachableBack DEF Progresses
<1> HIDE DEF o, t
<1>5. w \in [Peer -> Channel] /\ Progresses(t[o], t[p], w[o], w[p], F)
  BY <1>1, <1>3, <1>4, DeliverProgress
<1> HIDE DEF w
<1>6. Reachable(w[p], w[o])
  BY <1>5, ReachableBack DEF Progresses
<1> DEFINE la == Left(s[p], F)
           la1 == Left(t[p], F)
           la2 == Left(w[p], F)
           lb == Left(s[o], F)
           lb1 == Left(t[o], F)
           lb2 == Left(w[o], F)
\* p: it writes, then reads the answer.
<1>7. /\ la \in Nat /\ la1 = la /\ la2 \in Nat /\ la2 <= la1
      /\ Arrived(t[p], t[o]) => la2 < la1
      /\ Quiet(s[p]) => la1 = 0 \/ Arrived(t[p], t[o])
      /\ Quiet(w[p]) /\ Heard(w[o], w[p])
  BY <1>3, <1>5 DEF Progresses
\* The other side: it reads, then writes.
<1>8. /\ lb \in Nat /\ lb1 \in Nat /\ lb1 <= lb /\ lb2 = lb1
      /\ Arrived(s[o], s[p]) => lb1 < lb
      /\ Heard(s[o], s[p]) => lb2 = 0 \/ Arrived(w[o], w[p])
  BY <1>3, <1>5 DEF Progresses
<1>9. /\ n >= 1 => Quiet(s[p]) /\ Heard(s[o], s[p])
      /\ n >= 2 => lb = 0 \/ Arrived(s[o], s[p])
      /\ la \in 0 .. K /\ lb \in 0 .. K
      /\ la = 0 \/ la + n <= K + 1
      /\ lb = 0 \/ lb + n <= K + 2
  BY DEF Stage, o
<1> HIDE DEF la, la1, la2, lb, lb1, lb2
<1>10. n + 1 >= 2 => lb2 = 0 \/ Arrived(w[o], w[p])
  BY <1>8, <1>9
<1>11. la2 \in 0 .. K /\ (la2 = 0 \/ la2 + (n + 1) <= K + 1)
  BY <1>7, <1>9
<1>12. lb2 \in 0 .. K /\ (lb2 = 0 \/ lb2 + (n + 1) <= K + 2)
  BY <1>8, <1>9
<1> QED
  BY <1>5, <1>6, <1>7, <1>8, <1>10, <1>11, <1>12 DEF Stage, Exchange, la2, lb2, w, t, o

(* Exchanges is that many of them: the recursive function exists. *)
LEMMA ExchangesUnfold ==
    ASSUME NEW p, NEW n \in Nat
    PROVE  \E f : /\ f[0] = channel
                  /\ \A k \in 1 .. n : f[k] = Exchange(p, f[k-1])
                  /\ Exchanges(p, n) = f[n]
<1> DEFINE Is(m, f) == f = [k \in 0 .. m |-> IF k = 0 THEN channel
                                            ELSE Exchange(p, f[k-1])]
           T == {m \in 0 .. n : \E f : Is(m, f)}
           after == CHOOSE f : Is(n, f)
<1>1. 0 \in T
  <2>1. Is(0, [k \in 0 .. 0 |-> channel])
    OBVIOUS
  <2>2. \E f : Is(0, f)
    BY <2>1
  <2> QED BY <2>2
<1>2. ASSUME NEW k \in 0 .. (n-1), k \in T
      PROVE  k + 1 \in T
  <2>1. PICK f : Is(k, f)
    BY <1>2
  <2> DEFINE g == [j \in 0 .. (k + 1) |-> IF j = k + 1 THEN Exchange(p, f[k])
                                          ELSE f[j]]
  <2>2. ASSUME NEW j \in 0 .. (k + 1)
        PROVE  g[j] = IF j = 0 THEN channel ELSE Exchange(p, g[j-1])
    <3>1. CASE j = k + 1
      BY <3>1
    <3>2. CASE j # k + 1
      <4>1. j \in 0 .. k
        BY <3>2
      <4>2. g[j] = f[j] /\ (j # 0 => g[j-1] = f[j-1])
        BY <4>1
      <4> QED BY <2>1, <4>1, <4>2
    <3> QED BY <3>1, <3>2
  <2>3. Is(k + 1, g)
    BY <2>2
  <2>4. k + 1 \in 0 .. n
    OBVIOUS
  <2> QED BY <2>3, <2>4
<1>3. n \in T
  <2> HIDE DEF T
  <2> QED BY <1>1, <1>2, InductionUpTo
<1>4. \E f : Is(n, f)
  BY <1>3
<1>5. Is(n, after)
  <2> HIDE DEF Is
  <2> QED BY <1>4
<1>6. Exchanges(p, n) = after[n]
  BY DEF Exchanges, Exchange
<1> HIDE DEF after
<1>7. /\ after[0] = channel
      /\ \A k \in 1 .. n : after[k] = Exchange(p, after[k-1])
  BY <1>5
<1> QED BY <1>6, <1>7

(* So the stages are reached one by one. *)
LEMMA ExchangesProgress ==
    ASSUME Decodable, 0 \in UnreliableCounts, NEW F, Fits(F), NEW K \in Nat,
           NEW p \in Peer, Stage(p, channel, 0, F, K), NEW n \in Nat
    PROVE  Stage(p, Exchanges(p, n), n, F, K)
<1>1. PICK f : /\ f[0] = channel
               /\ \A k \in 1 .. n : f[k] = Exchange(p, f[k-1])
               /\ Exchanges(p, n) = f[n]
  BY ExchangesUnfold
<1> DEFINE T == {k \in Nat : Stage(p, f[k], k, F, K)}
<1>2. 0 \in T
  BY <1>1
<1>3. ASSUME NEW k \in 0 .. (n-1), k \in T PROVE k + 1 \in T
  <2>1. k \in Nat /\ k + 1 \in 1 .. n /\ (k + 1) - 1 = k
    OBVIOUS
  <2>2. Stage(p, f[k], k, F, K)
    BY <1>3
  <2>3. f[k + 1] = Exchange(p, f[k])
    <3> DEFINE j == k + 1
    <3>1. j \in 1 .. n /\ j - 1 = k
      BY <2>1
    <3> HIDE DEF j
    <3>2. f[j] = Exchange(p, f[k])
      BY <1>1, <3>1
    <3> QED BY <3>2 DEF j
  <2>4. Stage(p, f[k + 1], k + 1, F, K)
    BY <2>1, <2>2, <2>3, ExchangeProgress
  <2> QED BY <2>1, <2>4
<1>4. n \in T
  <2> HIDE DEF T
  <2> QED BY <1>2, <1>3, InductionUpTo
<1> QED BY <1>1, <1>4

-----------------------------------------------------------------------------
(* The states that Recovery starts from                                    *)

(* What a reachable channel is besides IInv and Deliveries. *)
OrderlyPeer(p) ==
    /\ Orderly(channel[p])
    /\ channel[p].out_sequence_nr <= MaxSequence[p] + 1
    /\ Len(queued[p]) <= MaxTransfers[p]

OrderlyPeers == \A p \in Peer : OrderlyPeer(p)

(* The gaps that losses have left so far are not too long for the peers.   *)
WithinReach == \A p \in Peer : Near(channel[p], channel[Other(p)])

(* A new channel is orderly. *)
LEMMA OrderlyInit == Init => OrderlyPeers
<1> SUFFICES ASSUME Init, NEW p \in Peer PROVE OrderlyPeer(p)
  BY DEF OrderlyPeers
<1> DEFINE c == NewChannel(Challenge)
<1>1. /\ c.challenge = Challenge /\ c.outgoing = <<>> /\ c.out_sequence_nr = 1
      /\ \A i \in Subchannel : c.subchannels[i].state = "Free"
  BY DEF NewChannel, FreeSubChannel
<1> HIDE DEF c
<1>2. Orderly(c)
  BY <1>1 DEF Orderly, HeaderFirst, Unfinished, Busy
<1>3. channel[p] = c /\ queued[p] = <<>> /\ Len(<<>>) = 0
  BY DEF Init, c
<1>4. MaxSequence[p] \in Nat /\ MaxTransfers[p] \in Nat
  BY PairAssumption
<1> QED BY <1>1, <1>2, <1>3, <1>4 DEF OrderlyPeer

(* queue_reliable_messages keeps a channel orderly. *)
LEMMA QueueOrderly ==
    ASSUME NEW c, ChannelOK(c), Orderly(c), NEW payload \in Payload,
           NEW bytes \in TransferBytes
    PROVE  Orderly(QueueReliableMessages(c, payload, bytes))
<1> DEFINE e == QueueReliableMessages(c, payload, bytes)
           item == [payload |-> payload, bytes |-> bytes,
                    acked_fragments |-> 0, pending_fragments |-> 0]
<1>1. c \in Channel /\ c.outgoing \in Seq(OutgoingReliableData)
  BY DEF ChannelOK, Channel
<1>2. bytes \in Nat /\ item \in OutgoingReliableData
  BY PairAssumption DEF OutgoingReliableData
<1>3. /\ e.challenge = c.challenge /\ e.subchannels = c.subchannels
      /\ e.outgoing = Append(c.outgoing, item)
  BY <1>1 DEF QueueReliableMessages, Channel
<1>4. item.acked_fragments = 0 /\ item.bytes = bytes
  OBVIOUS
<1> HIDE DEF e, item
<1>5. 0 < BytesToFragments(bytes)
  <2>1. BytesToFragments(bytes) \in Nat \ {0}
    BY TransferHasFragments
  <2> QED BY <2>1
<1>6. Head(e.outgoing) = IF c.outgoing = <<>> THEN item ELSE Head(c.outgoing)
  BY <1>1, <1>2, <1>3
<1>7. Unfinished(e)
  BY <1>4, <1>5, <1>6 DEF Unfinished, Orderly
<1> QED BY <1>3, <1>7 DEF Orderly, HeaderFirst, Busy, e

(* So does read_packet. *)
LEMMA ReadOrderly ==
    ASSUME NEW c, NEW d, NEW acks, NEW data, Half(c, d, acks, data), Orderly(c),
           NEW q, NEW r, Delivery(c, d, data, q, r), NEW pk \in acks,
           NEW F, Fits(F)
    PROVE  Orderly(ReadPacket(c, pk).channel)
<1> DEFINE h == ReadHeader(c, pk)
           e == ReadPacket(c, pk).channel
<1>1. ChannelOK(c) /\ pk \in Packet
  BY DEF Half
<1>2. Reads(c, pk, e) /\ SameSending(h, e)
  BY <1>1, ReadOK
<1>3. CASE ~ Accepts(c, pk)
  BY <1>2, <1>3 DEF Reads
<1>4. CASE Accepts(c, pk)
  <2>1. Orderly(h)
    BY <1>4, AckProgress
  <2>2. e.challenge = h.challenge
    BY <1>1, ReadHeaderOK, ReadChallenge DEF ReadsHeader, ChannelOK
  <2> HIDE DEF h, e
  <2>3. Orderly(e)
    BY <1>2, <2>1, <2>2 DEF SameSending, Orderly, HeaderFirst, Busy, Unfinished
  <2> QED BY <2>3 DEF e
<1> QED BY <1>3, <1>4

(* Every step keeps both channels orderly. *)
LEMMA OrderlyNext ==
    ASSUME IInv, Deliveries, OrderlyPeers, [Next]_vars, NEW F, Fits(F)
    PROVE  OrderlyPeers'
<1>1. ASSUME NEW p \in Peer PROVE OrderlyPeer(p)
  BY DEF OrderlyPeers
<1>2. /\ channel \in [Peer -> Channel] /\ queued \in [Peer -> Seq(Payload)]
      /\ MaxSequence \in [Peer -> Nat] /\ MaxTransfers \in [Peer -> Nat]
  BY PairAssumption DEF IInv, TypeOK
<1>3. ASSUME UNCHANGED <<channel, queued>> PROVE OrderlyPeers'
  BY <1>3 DEF OrderlyPeers, OrderlyPeer
<1>4. ASSUME NEW p \in Peer, Queue(p) PROVE OrderlyPeers'
  <2>1. PICK bytes \in TransferBytes, count \in MessageCounts :
          LET payload == [id |-> Len(queued[p]) + 1, count |-> count]
          IN  /\ channel' = [channel EXCEPT
                                ![p] = QueueReliableMessages(@, payload, bytes)]
              /\ queued' = [queued EXCEPT ![p] = Append(@, payload)]
    BY <1>4 DEF Queue
  <2> DEFINE payload == [id |-> Len(queued[p]) + 1, count |-> count]
             e == QueueReliableMessages(channel[p], payload, bytes)
  <2>2. payload \in Payload
    <3>1. Len(queued[p]) \in Nat
      BY <1>2
    <3> QED BY <3>1, PairAssumption DEF Payload
  <2> HIDE DEF payload
  <2>3. Orderly(e)
    BY <1>1, <2>2, InvHalves, QueueOrderly DEF OrderlyPeer
  <2>4. e.out_sequence_nr = channel[p].out_sequence_nr
    BY <1>2 DEF QueueReliableMessages, Channel
  <2>5. /\ channel' = [channel EXCEPT ![p] = e]
        /\ queued' = [queued EXCEPT ![p] = Append(@, payload)]
    BY <2>1 DEF payload
  <2> HIDE DEF e
  <2>6. Len(queued'[p]) <= MaxTransfers[p]
    <3> DEFINE l == Len(queued[p])
               m == MaxTransfers[p]
    <3>1. l \in Nat /\ m \in Nat /\ l < m
      BY <1>2, <1>4 DEF Queue
    <3>2. Len(queued'[p]) = l + 1
      BY <1>2, <2>2, <2>5
    <3> HIDE DEF l, m
    <3>3. l + 1 <= m
      BY <3>1
    <3> QED BY <3>2, <3>3 DEF m
  <2>7. ASSUME NEW s \in Peer PROVE OrderlyPeer(s)'
    <3>1. CASE s = p
      BY <1>1, <1>2, <2>3, <2>4, <2>5, <2>6, <3>1 DEF OrderlyPeer
    <3>2. CASE s # p
      BY <1>1, <1>2, <2>5, <3>2 DEF OrderlyPeer
    <3> QED BY <3>1, <3>2
  <2> QED BY <2>7 DEF OrderlyPeers
<1>5. ASSUME NEW p \in Peer, Write(p) PROVE OrderlyPeers'
  <2>1. PICK count \in UnreliableCounts :
          channel' = [channel EXCEPT ![p] = WritePacket(channel[p], count).channel]
    BY <1>5 DEF Write
  <2> DEFINE e == WritePacket(channel[p], count).channel
             k == WritePacket(channel[p], count).packet
  <2>2. count \in Nat /\ ChannelOK(channel[p])
    BY InvHalves, PairAssumption
  <2>3. Orderly(e)
    BY <1>1, <2>2, WriteOrderly DEF OrderlyPeer
  <2>4. Writes(channel[p], e, k)
    BY <2>2, WriteOK
  <2>5. channel' = [channel EXCEPT ![p] = e] /\ queued' = queued
    BY <1>5, <2>1 DEF Write
  <2> HIDE DEF e, k
  <2>6. e.out_sequence_nr <= MaxSequence[p] + 1
    <3>1. channel[p].out_sequence_nr \in Nat /\ MaxSequence[p] \in Nat
      BY <1>2, <2>2, ChannelTypes
    <3> QED BY <1>5, <2>4, <3>1 DEF Write, Writes
  <2>7. ASSUME NEW s \in Peer PROVE OrderlyPeer(s)'
    <3>1. CASE s = p
      BY <1>1, <1>2, <2>3, <2>5, <2>6, <3>1 DEF OrderlyPeer
    <3>2. CASE s # p
      BY <1>1, <1>2, <2>5, <3>2 DEF OrderlyPeer
    <3> QED BY <3>1, <3>2
  <2> QED BY <2>7 DEF OrderlyPeers
<1>6. ASSUME NEW p \in Peer, Read(p) PROVE OrderlyPeers'
  <2>1. PICK pk \in network[p] :
          channel' = [channel EXCEPT ![p] = ReadPacket(channel[p], pk).channel]
    BY <1>6 DEF Read
  <2> DEFINE e == ReadPacket(channel[p], pk).channel
  <2>2. /\ Half(channel[p], channel[Other(p)], network[p], network[Other(p)])
        /\ Delivery(channel[p], channel[Other(p)], network[Other(p)],
                    queued[p], received[Other(p)])
    BY InvHalves, BothWays
  <2>3. Orderly(channel[p])
    BY <1>1 DEF OrderlyPeer
  <2>4. Orderly(e)
    BY <2>2, <2>3, ReadOrderly
  <2>5. Reads(channel[p], pk, e)
    BY <2>2, ReadOK DEF Half
  <2>6. channel' = [channel EXCEPT ![p] = e] /\ queued' = queued
    BY <1>6, <2>1 DEF Read
  <2> HIDE DEF e
  <2>7. ASSUME NEW s \in Peer PROVE OrderlyPeer(s)'
    <3>1. CASE s = p
      BY <1>1, <1>2, <2>4, <2>5, <2>6, <3>1 DEF OrderlyPeer, Reads
    <3>2. CASE s # p
      BY <1>1, <1>2, <2>6, <3>2 DEF OrderlyPeer
    <3> QED BY <3>1, <3>2
  <2> QED BY <2>7 DEF OrderlyPeers
<1>7. ASSUME NEW p \in Peer, Panic(p) PROVE OrderlyPeers'
  BY <1>3, <1>7 DEF Panic
<1>8. CASE UNCHANGED vars
  BY <1>3, <1>8 DEF vars
<1> QED BY <1>4, <1>5, <1>6, <1>7, <1>8 DEF Next

(* So both are, in every reachable state. *)
LEMMA OrderlyInvariance ==
    ASSUME Decodable, NEW F, Fits(F)
    PROVE  Spec => []OrderlyPeers
<1>1. IInv /\ Deliveries /\ OrderlyPeers /\ [Next]_vars => OrderlyPeers'
  BY OrderlyNext
<1> QED BY <1>1, OrderlyInit, AlwaysDeliveries, PTL DEF Spec

(* M transfers have at most M times F fragments left. *)
LEMMA LeftBound ==
    ASSUME NEW c, ChannelOK(c), Orderly(c), NEW q, Backlog(c, q),
           NEW F, Fits(F), NEW M \in Nat, Len(q) <= M, NEW K \in Nat, M * F <= K
    PROVE  Left(c, F) \in 0 .. K
<1>1. Left(c, F) \in Nat
  BY LeftFacts DEF Orderly
<1>2. CASE c.outgoing = <<>>
  BY <1>2 DEF Left
<1>3. CASE c.outgoing # <<>>
  <2> DEFINE n == Len(c.outgoing)
             acked == Head(c.outgoing).acked_fragments
  <2>1. n \in Nat /\ n <= M
    <3>1. Len(c.outgoing) \in Nat /\ Len(q) \in Nat /\ Len(c.outgoing) <= Len(q)
      BY DEF ChannelOK, Channel, Backlog
    <3> QED BY <3>1
  <2>2. acked \in Nat /\ F \in Nat
    BY <1>3, FrontCounts DEF OutgoingReliableData, Fits
  <2>3. Left(c, F) = n * F - acked
    BY <1>3 DEF Left
  <2> HIDE DEF n, acked, Left
  <2>4. PICK m \in Nat : M = n + m
    <3>1. M - n \in Nat /\ M = n + (M - n)
      BY <2>1
    <3> QED BY <3>1
  <2>5. M * F = n * F + m * F /\ n * F \in Nat /\ m * F \in Nat
    BY <2>1, <2>2, <2>4
  <2> QED BY <1>1, <2>2, <2>3, <2>5
<1> QED BY <1>2, <1>3

(* From such a state the exchanges start. *)
LEMMA ReachableStart ==
    ASSUME IInv, Deliveries, OrderlyPeers, WithinReach,
           NEW F, Fits(F), NEW K \in Nat,
           \A p \in Peer : MaxTransfers[p] * F <= K,
           NEW p \in Peer
    PROVE  Stage(p, channel, 0, F, K)
<1> DEFINE o == Other(p)
           a == channel[p]
           b == channel[o]
<1>1. o \in Peer
  BY OtherPeer
<1>2. /\ Half(a, b, network[p], network[o]) /\ Half(b, a, network[o], network[p])
      /\ ChannelOK(a) /\ ChannelOK(b)
  BY InvHalves DEF Half
<1>3. /\ Delivery(a, b, network[o], queued[p], received[o])
      /\ Delivery(b, a, network[p], queued[o], received[p])
  BY BothWays
<1>4. OrderlyPeer(p) /\ OrderlyPeer(o)
  BY <1>1 DEF OrderlyPeers
<1>5. Near(a, b) /\ Near(b, a)
  <2>1. Near(channel[o], channel[Other(o)]) /\ Other(o) = p
    BY <1>1, OtherPeer DEF WithinReach
  <2> QED BY <2>1 DEF WithinReach
<1>6. Reachable(a, b)
  BY <1>2, <1>3, <1>4, <1>5 DEF Reachable, OrderlyPeer
<1>7. Left(a, F) \in 0 .. K /\ Left(b, F) \in 0 .. K
  <2>1. MaxTransfers[p] \in Nat /\ MaxTransfers[o] \in Nat
    BY <1>1, PairAssumption
  <2> QED BY <1>1, <1>2, <1>3, <1>4, <2>1, LeftBound DEF OrderlyPeer, Delivery
<1>8. channel \in [Peer -> Channel]
  BY DEF IInv, TypeOK
<1> HIDE DEF a, b
<1>9. Left(a, F) + 0 <= K + 1 /\ Left(b, F) + 0 <= K + 2
  BY <1>7
<1> QED BY <1>6, <1>7, <1>8, <1>9 DEF Stage, a, b, o

(* No loss, delay or repetition wedges a pair of netchannels: as long as   *)
(* fewer packets in a row were lost than max_packets_dropped allows, one   *)
(* exchange per fragment left and two more complete whatever was queued,   *)
(* on both sides.                                                          *)
THEOREM RecoversWithinReach ==
    ASSUME Decodable, 0 \in UnreliableCounts, NEW F, Fits(F),
           \A p \in Peer : MaxTransfers[p] * F + 2 <= RecoveryExchanges
    PROVE  Spec => [](WithinReach => Recovery)
<1> DEFINE n == RecoveryExchanges
           K == n - 2
<1>1. n \in Nat /\ K \in Nat /\ \A p \in Peer : MaxTransfers[p] * F <= K
  <2>1. PICK p \in Peer : TRUE
    BY PairAssumption
  <2>2. \A s \in Peer : MaxTransfers[s] * F \in Nat
    BY PairAssumption DEF Fits
  <2> QED BY <2>1, <2>2, PairAssumption
<1>2. ASSUME IInv, Deliveries, OrderlyPeers, WithinReach PROVE Recovery
  <2> SUFFICES ASSUME NEW p \in Peer, NEW q \in Peer
               PROVE  Exchanges(p, n)[q].outgoing = <<>>
    BY DEF Recovery
  <2> DEFINE s == Exchanges(p, n)
             la == Left(s[p], F)
             lb == Left(s[Other(p)], F)
  <2>1. Stage(p, channel, 0, F, K)
    BY <1>1, <1>2, ReachableStart
  <2> HIDE DEF K
  <2>2. Stage(p, s, n, F, K)
    BY <1>1, <2>1, ExchangesProgress
  <2> HIDE DEF s
  <2>3. /\ la \in Nat /\ lb \in Nat /\ Reachable(s[p], s[Other(p)])
        /\ la = 0 \/ la + n <= K + 1
        /\ lb = 0 \/ lb + n <= K + 2
    BY <1>1, <2>2 DEF Stage
  <2> HIDE DEF la, lb
  <2>4. la = 0 /\ lb = 0
    BY <1>1, <2>3 DEF K
  <2>5. ASSUME NEW a, NEW b, Reachable(a, b), Left(a, F) = 0 PROVE a.outgoing = <<>>
    BY <2>5, LeftFacts DEF Reachable, Half, Delivery, Orderly
  <2>6. s[p].outgoing = <<>> /\ s[Other(p)].outgoing = <<>>
    BY <2>3, <2>4, <2>5, ReachableBack DEF la, lb
  <2> QED BY <2>6, OtherPeer DEF s
<1> QED BY <1>2, OrderlyInvariance, AlwaysDeliveries, PTL

(* With fewer packets than max_packets_dropped every state is within reach *)
(* of recovery: the test at line 937, from wherever the losses lead.       *)
THEOREM NeverWedged ==
    ASSUME Decodable, 0 \in UnreliableCounts, NEW F, Fits(F),
           \A p \in Peer : MaxTransfers[p] * F + 2 <= RecoveryExchanges,
           \A p \in Peer : MaxSequence[p] <= max_packets_dropped
    PROVE  Spec => []Recovery
<1>1. ASSUME IInv, OrderlyPeers PROVE WithinReach
  <2>1. ASSUME NEW p \in Peer PROVE Near(channel[p], channel[Other(p)])
    <3> DEFINE n == channel[p].out_sequence_nr
               m == channel[Other(p)].in_sequence_nr
               l == MaxSequence[p]
    <3>1. n <= l + 1 /\ l <= max_packets_dropped
      BY <1>1 DEF OrderlyPeers, OrderlyPeer
    <3>2. n \in Nat /\ m \in Nat /\ l \in Nat
      BY <1>1, InvHalves, OtherPeer, ChannelTypes, PairAssumption
    <3> HIDE DEF n, m, l
    <3>3. n - (m + 1) <= max_packets_dropped
      BY <3>1, <3>2, ConfigurationAssumption
    <3> QED BY <3>3 DEF Near, n, m
  <2> QED BY <2>1 DEF WithinReach
<1> QED
  BY <1>1, OrderlyInvariance, AlwaysDeliveries, RecoversWithinReach, PTL

=============================================================================

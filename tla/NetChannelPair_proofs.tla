----------------------- MODULE NetChannelPair_proofs -----------------------
(***************************************************************************)
(* Theorems about NetChannelPair, for every number of subchannels, every   *)
(* size of fragments, packets and transfers, and any number of transfers   *)
(* and packets.  The inductive invariant has a part about each channel     *)
(* alone (ChannelOK) and a part about each direction (Numbering and        *)
(* Direction); both are stated for channels and sets of packets, so that   *)
(* the lemmas are about ReadPacket and WritePacket and not about steps.    *)
(* The first half is about one channel: each of its steps is summed up in  *)
(* a predicate (Fills, Writes, Updates, Reads) that says which fields it   *)
(* changes and how, and that it keeps ChannelOK, that is, the channel has  *)
(* its type and its counters agree with its subchannels.  The second half  *)
(* is about the two channels and the packets between them.                 *)
(***************************************************************************)
EXTENDS NetChannelPair, FiniteSetTheorems, TLAPS

-----------------------------------------------------------------------------
(* The invariant of a channel *)

(* Transfers that are not at the front have not been started. *)
OnlyFrontStarted(c) ==
    \A n \in 2 .. Len(c.outgoing) :
        c.outgoing[n].acked_fragments = 0 /\ c.outgoing[n].pending_fragments = 0

(* The blocks that busy subchannels carry are parts of what has been sent, *)
(* none is empty, and no two overlap.                                      *)
BlocksDisjoint(c) ==
    /\ \A i \in Busy(c) :
          /\ c.subchannels[i].num_fragments > 0
          /\ c.subchannels[i].start_fragment + c.subchannels[i].num_fragments
                <= SentFragments(Head(c.outgoing))
    /\ \A i, j \in Busy(c) :
          \/ i = j
          \/ c.subchannels[i].start_fragment + c.subchannels[i].num_fragments
                <= c.subchannels[j].start_fragment
          \/ c.subchannels[j].start_fragment + c.subchannels[j].num_fragments
                <= c.subchannels[i].start_fragment

Accounting(c) ==
    IF c.outgoing = <<>> THEN Busy(c) = {}
    ELSE /\ Head(c.outgoing).pending_fragments
              = Cardinality(FragmentsIn(c.subchannels, Busy(c)))
         /\ SentFragments(Head(c.outgoing))
              <= BytesToFragments(Head(c.outgoing).bytes)
         /\ OnlyFrontStarted(c)
         /\ BlocksDisjoint(c)

ChannelOK(c) == c \in Channel /\ Accounting(c)

-----------------------------------------------------------------------------
(* Fragments and subchannels                                               *)

(* There are finitely many subchannels. *)
LEMMA SubchannelsFinite == IsFiniteSet(Subchannel)
  BY FS_Interval, ConfigurationAssumption DEF Subchannel

(* A transfer has some fragments. *)
LEMMA BytesToFragmentsType ==
    ASSUME NEW bytes \in Nat
    PROVE  BytesToFragments(bytes) \in Nat
  BY ConfigurationAssumption DEF BytesToFragments

(* The fragments that a set of subchannels carry are finitely many. *)
LEMMA FragmentsFinite ==
    ASSUME NEW subs \in [Subchannel -> SubChannel], NEW I \in SUBSET Subchannel
    PROVE  /\ IsFiniteSet(FragmentsIn(subs, I))
           /\ Cardinality(FragmentsIn(subs, I)) \in Nat
<1> DEFINE f == [i \in I |-> {i} \X (0 .. (subs[i].num_fragments - 1))]
           S == {{i} \X (0 .. (subs[i].num_fragments - 1)) : i \in I}
<1>1. IsFiniteSet(I)
  BY SubchannelsFinite, FS_Subset
<1>2. f \in Surjection(I, S)
  BY DEF Surjection
<1>3. IsFiniteSet(S)
  BY <1>1, <1>2, FS_Surjection
<1>4. ASSUME NEW T \in S PROVE IsFiniteSet(T)
  <2>1. PICK i \in I : T = {i} \X (0 .. (subs[i].num_fragments - 1))
    OBVIOUS
  <2>2. subs[i].num_fragments - 1 \in Int
    BY DEF SubChannel
  <2>3. IsFiniteSet({i})
    BY FS_Singleton
  <2>4. IsFiniteSet(0 .. (subs[i].num_fragments - 1))
    BY <2>2, FS_Interval
  <2> QED BY <2>1, <2>3, <2>4, FS_Product
<1>5. IsFiniteSet(UNION S)
  BY <1>3, <1>4, FS_UNION
<1> QED BY <1>5, FS_CardinalityType DEF FragmentsIn

(* Splitting a set of subchannels splits the count. *)
LEMMA FragmentsSplit ==
    ASSUME NEW subs \in [Subchannel -> SubChannel],
           NEW I \in SUBSET Subchannel, NEW J \in SUBSET I
    PROVE  Cardinality(FragmentsIn(subs, I))
             = Cardinality(FragmentsIn(subs, J)) + Cardinality(FragmentsIn(subs, I \ J))
<1> DEFINE F(K) == FragmentsIn(subs, K)
<1>1. F(I) = F(J) \cup F(I \ J)
  BY DEF FragmentsIn
<1>2. F(J) \cap F(I \ J) = {}
  BY DEF FragmentsIn
<1>3. /\ IsFiniteSet(F(J)) /\ Cardinality(F(J)) \in Nat
      /\ IsFiniteSet(F(I \ J)) /\ Cardinality(F(I \ J)) \in Nat
  BY FragmentsFinite
<1>4. Cardinality(F(J) \cap F(I \ J)) = 0
  BY <1>2, FS_EmptySet
<1>5. Cardinality(F(J) \cup F(I \ J))
        = Cardinality(F(J)) + Cardinality(F(I \ J)) - Cardinality(F(J) \cap F(I \ J))
  BY <1>3, FS_Union
<1> QED BY <1>1, <1>3, <1>4, <1>5

(* One subchannel carries num_fragments of them. *)
LEMMA FragmentsOne ==
    ASSUME NEW subs \in [Subchannel -> SubChannel], NEW i \in Subchannel
    PROVE  Cardinality(FragmentsIn(subs, {i})) = subs[i].num_fragments
<1> DEFINE n == subs[i].num_fragments
<1>1. n \in Nat
  BY DEF SubChannel
<1>2. FragmentsIn(subs, {i}) = {i} \X (0 .. (n - 1))
  BY DEF FragmentsIn
<1>3. IsFiniteSet({i}) /\ Cardinality({i}) = 1
  BY FS_Singleton
<1>4. IsFiniteSet(0 .. (n - 1)) /\ Cardinality(0 .. (n - 1)) = n
  <2> HIDE DEF n
  <2>1. n - 1 \in Int /\ 0 \in Int
    BY <1>1
  <2>2. /\ IsFiniteSet(0 .. (n - 1))
        /\ Cardinality(0 .. (n - 1)) = IF 0 > n - 1 THEN 0 ELSE n - 1 - 0 + 1
    BY <2>1, FS_Interval
  <2> QED BY <1>1, <2>2
<1>5. Cardinality({i} \X (0 .. (n - 1))) = 1 * n
  <2> DEFINE S == 0 .. (n - 1)
  <2>1. IsFiniteSet(S) /\ Cardinality(S) = n
    BY <1>4
  <2> HIDE DEF n, S
  <2>2. Cardinality({i} \X S) = Cardinality({i}) * Cardinality(S)
    BY <1>3, <2>1, FS_Product
  <2>3. Cardinality({i} \X S) = 1 * n
    BY <1>3, <2>1, <2>2
  <2> QED BY <2>3 DEF S
<1>6. 1 * n = n
  BY <1>1
<1> HIDE DEF n
<1>7. Cardinality(FragmentsIn(subs, {i})) = n
  BY <1>2, <1>5, <1>6
<1> QED BY <1>7 DEF n

(* The count depends on the subchannels in the set only. *)
LEMMA FragmentsSame ==
    ASSUME NEW subs, NEW other, NEW I,
           \A i \in I : subs[i].num_fragments = other[i].num_fragments
    PROVE  FragmentsIn(subs, I) = FragmentsIn(other, I)
  BY DEF FragmentsIn

(* No subchannel carries no fragment. *)
LEMMA FragmentsNone ==
    ASSUME NEW subs
    PROVE  Cardinality(FragmentsIn(subs, {})) = 0
  BY FS_EmptySet DEF FragmentsIn

(* Busy subchannels are subchannels. *)
LEMMA BusyIn == ASSUME NEW c PROVE Busy(c) \in SUBSET Subchannel
  BY DEF Busy

(* The counters of the front transfer are natural numbers. *)
LEMMA FrontCounts ==
    ASSUME NEW c, ChannelOK(c), c.outgoing # <<>>
    PROVE  /\ Head(c.outgoing) \in OutgoingReliableData
           /\ Head(c.outgoing) = c.outgoing[1]
           /\ Head(c.outgoing).pending_fragments \in Nat
           /\ SentFragments(Head(c.outgoing)) \in Nat
           /\ BytesToFragments(Head(c.outgoing).bytes) \in Nat
           /\ SentFragments(Head(c.outgoing)) <= BytesToFragments(Head(c.outgoing).bytes)
<1>1. c.outgoing \in Seq(OutgoingReliableData) /\ c.subchannels \in [Subchannel -> SubChannel]
  BY DEF ChannelOK, Channel
<1>2. Head(c.outgoing) \in OutgoingReliableData /\ Head(c.outgoing) = c.outgoing[1]
  BY <1>1
<1>3. Head(c.outgoing).pending_fragments \in Nat
  BY <1>1, FragmentsFinite, BusyIn DEF ChannelOK, Accounting
<1>4. /\ Head(c.outgoing).bytes \in Nat /\ Head(c.outgoing).acked_fragments \in Nat
  BY <1>2 DEF OutgoingReliableData
<1>5. SentFragments(Head(c.outgoing)) \in Nat
  BY <1>3, <1>4 DEF SentFragments
<1>6. SentFragments(Head(c.outgoing)) <= BytesToFragments(Head(c.outgoing).bytes)
  BY DEF ChannelOK, Accounting
<1> QED BY <1>2, <1>3, <1>4, <1>5, <1>6, BytesToFragmentsType

-----------------------------------------------------------------------------
(* Filling a subchannel                                                    *)

(* fill_outgoing_subchannel puts the next n fragments of the front         *)
(* transfer in free subchannel i.                                          *)
Filled(c, i, n) ==
    [c EXCEPT
       !.outgoing[1].pending_fragments = @ + n,
       !.out_reliable_state[i] = ~ @,
       !.subchannels[i] = [state |-> "WaitingToSend",
                           start_fragment |-> SentFragments(Head(c.outgoing)),
                           num_fragments |-> n,
                           send_seq_nr |-> 0]]

Fillable(c, i, n) ==
    /\ i \in Subchannel /\ n \in Nat \ {0}
    /\ c.outgoing # <<>>
    /\ c.subchannels[i].state = "Free"
    /\ \A j \in 0 .. (i-1) : c.subchannels[j].state # "Free"
    /\ SentFragments(Head(c.outgoing)) + n
          <= BytesToFragments(Head(c.outgoing).bytes)

(* No subchannel is free, or nothing is left to fill one with. *)
NothingToFill(c) ==
    \/ FindSubchannel(c, "Free") = {}
    \/ c.outgoing = <<>>
    \/ SentFragments(Head(c.outgoing)) = BytesToFragments(Head(c.outgoing).bytes)

(* fill_outgoing_subchannel does nothing, or is Filled. *)
LEMMA FillCases ==
    ASSUME NEW c, ChannelOK(c)
    PROVE  \/ FillOutgoingSubchannel(c) = c /\ NothingToFill(c)
           \/ \E i, n : Fillable(c, i, n) /\ FillOutgoingSubchannel(c) = Filled(c, i, n)
<1>1. CASE NothingToFill(c)
  BY <1>1 DEF NothingToFill, FillOutgoingSubchannel
<1>2. CASE ~ NothingToFill(c)
  <2> DEFINE i == CHOOSE j \in FindSubchannel(c, "Free") : TRUE
             sent == SentFragments(Head(c.outgoing))
             left == BytesToFragments(Head(c.outgoing).bytes) - sent
             n == IF left < MaxSendFragments THEN left ELSE MaxSendFragments
  <2>1. /\ i \in Subchannel /\ c.subchannels[i].state = "Free"
        /\ \A j \in 0 .. (i-1) : c.subchannels[j].state # "Free"
    BY <1>2 DEF NothingToFill, FindSubchannel
  <2>2. FillOutgoingSubchannel(c) = Filled(c, i, n)
    BY <1>2 DEF NothingToFill, FillOutgoingSubchannel, Filled
  <2>3. sent \in Nat /\ left \in Nat \ {0}
    BY <1>2, FrontCounts DEF NothingToFill
  <2>4. MaxSendFragments \in Nat \ {0}
    BY ConfigurationAssumption
  <2>5. n \in Nat \ {0} /\ n <= left
    BY <2>3, <2>4
  <2>6. sent + n <= BytesToFragments(Head(c.outgoing).bytes)
    BY <1>2, <2>3, <2>5, FrontCounts DEF NothingToFill
  <2> HIDE DEF i, n, left
  <2>7. Fillable(c, i, n)
    BY <1>2, <2>1, <2>5, <2>6 DEF NothingToFill, Fillable
  <2> QED BY <2>2, <2>7
<1> QED BY <1>1, <1>2

(* The fields of a channel after a subchannel was filled. *)
Fills(c, i, n, f) ==
    /\ f \in Channel
    /\ f.out_sequence_nr = c.out_sequence_nr
    /\ f.in_sequence_nr = c.in_sequence_nr
    /\ f.in_reliable_state = c.in_reliable_state
    /\ f.incoming = c.incoming
    /\ f.out_reliable_state = [c.out_reliable_state EXCEPT ![i] = ~ @]
    /\ \A j \in Subchannel \ {i} : f.subchannels[j] = c.subchannels[j]
    /\ f.subchannels[i] = [state |-> "WaitingToSend",
                           start_fragment |-> SentFragments(Head(c.outgoing)),
                           num_fragments |-> n,
                           send_seq_nr |-> 0]
    /\ f.outgoing # <<>> /\ Len(f.outgoing) = Len(c.outgoing)
    /\ Head(f.outgoing) =
          [Head(c.outgoing) EXCEPT
             !.pending_fragments = Head(c.outgoing).pending_fragments + n]
    /\ \A k \in 2 .. Len(c.outgoing) : f.outgoing[k] = c.outgoing[k]

(* Filled changes the fields that Fills says. *)
LEMMA FilledFields ==
    ASSUME NEW c, ChannelOK(c), NEW i, NEW n, Fillable(c, i, n)
    PROVE  Fills(c, i, n, Filled(c, i, n))
<1> DEFINE f == Filled(c, i, n)
           front == Head(c.outgoing)
           outgoing == [c.outgoing EXCEPT ![1] =
                          [c.outgoing[1] EXCEPT !.pending_fragments = @ + n]]
           block == [state |-> "WaitingToSend",
                     start_fragment |-> SentFragments(front),
                     num_fragments |-> n,
                     send_seq_nr |-> 0]
           subs == [c.subchannels EXCEPT ![i] = block]
           bits == [c.out_reliable_state EXCEPT ![i] = ~ @]
<1>1. c \in Channel /\ i \in Subchannel /\ n \in Nat /\ c.outgoing # <<>>
  BY DEF ChannelOK, Fillable
<1>2. /\ c.outgoing \in Seq(OutgoingReliableData)
      /\ c.subchannels \in [Subchannel -> SubChannel]
      /\ c.out_reliable_state \in [Subchannel -> BOOLEAN]
  BY <1>1 DEF Channel
<1>3. /\ front \in OutgoingReliableData /\ front = c.outgoing[1]
      /\ SentFragments(front) \in Nat
  BY <1>1, FrontCounts
<1>4. f = [c EXCEPT !.outgoing = outgoing, !.out_reliable_state = bits,
                    !.subchannels = subs]
  BY DEF Filled
<1>5. block \in SubChannel
  BY <1>1, <1>3 DEF SubChannel
<1>6. [front EXCEPT !.pending_fragments = @ + n] \in OutgoingReliableData
  BY <1>1, <1>3 DEF OutgoingReliableData
<1>7. /\ outgoing \in Seq(OutgoingReliableData) /\ outgoing # <<>>
      /\ Len(outgoing) = Len(c.outgoing)
      /\ Head(outgoing) = [front EXCEPT !.pending_fragments = @ + n]
      /\ \A k \in 2 .. Len(c.outgoing) : outgoing[k] = c.outgoing[k]
  BY <1>1, <1>2, <1>3, <1>6
<1>8. subs \in [Subchannel -> SubChannel] /\ bits \in [Subchannel -> BOOLEAN]
  BY <1>2, <1>5
<1>9. subs[i] = block /\ \A j \in Subchannel \ {i} : subs[j] = c.subchannels[j]
  BY <1>1, <1>2
<1> HIDE DEF outgoing, subs, bits, block
<1>10. f \in Channel /\ f.outgoing = outgoing /\ f.subchannels = subs
       /\ f.out_reliable_state = bits
       /\ f.out_sequence_nr = c.out_sequence_nr
       /\ f.in_sequence_nr = c.in_sequence_nr
       /\ f.in_reliable_state = c.in_reliable_state
       /\ f.incoming = c.incoming
  BY <1>1, <1>4, <1>7, <1>8 DEF Channel
<1> HIDE DEF f
<1>11. f.out_reliable_state = [c.out_reliable_state EXCEPT ![i] = ~ @]
  BY <1>10 DEF bits
<1>12. f.subchannels[i] = block
  BY <1>9, <1>10
<1>13. Head(f.outgoing) =
          [front EXCEPT !.pending_fragments = front.pending_fragments + n]
  BY <1>7, <1>10
<1>14. Fills(c, i, n, f)
  BY <1>7, <1>9, <1>10, <1>11, <1>12, <1>13 DEF block, Fills
<1> QED BY <1>14 DEF f

(* What it adds to pending_fragments is what the subchannel carries, and   *)
(* follows all that was sent before.                                       *)
LEMMA FilledOK ==
    ASSUME NEW c, ChannelOK(c), NEW i, NEW n, Fillable(c, i, n)
    PROVE  ChannelOK(Filled(c, i, n))
<1> DEFINE f == Filled(c, i, n)
           front == Head(c.outgoing)
           sent == SentFragments(front)
           block == [state |-> "WaitingToSend", start_fragment |-> sent,
                     num_fragments |-> n, send_seq_nr |-> 0]
<1>1. /\ f \in Channel /\ f.outgoing # <<>>
      /\ Len(f.outgoing) = Len(c.outgoing)
      /\ \A k \in 2 .. Len(c.outgoing) : f.outgoing[k] = c.outgoing[k]
      /\ \A j \in Subchannel \ {i} : f.subchannels[j] = c.subchannels[j]
      /\ f.subchannels[i] = block
      /\ Head(f.outgoing) =
            [front EXCEPT !.pending_fragments = front.pending_fragments + n]
  <2>1. Fills(c, i, n, f)
    BY FilledFields
  <2> HIDE DEF f
  <2> QED BY <2>1 DEF Fills
<1> HIDE DEF f
<1>2. /\ c.outgoing # <<>> /\ i \in Subchannel /\ n \in Nat \ {0}
      /\ c.subchannels[i].state = "Free"
      /\ sent + n <= BytesToFragments(front.bytes)
      /\ c.subchannels \in [Subchannel -> SubChannel]
      /\ f.subchannels \in [Subchannel -> SubChannel]
  BY <1>1 DEF Fillable, ChannelOK, Channel
<1>3. /\ front \in OutgoingReliableData /\ front.pending_fragments \in Nat
      /\ sent \in Nat
  BY <1>2, FrontCounts
<1>4. Head(f.outgoing).pending_fragments = front.pending_fragments + n
      /\ Head(f.outgoing).acked_fragments = front.acked_fragments
      /\ Head(f.outgoing).bytes = front.bytes
  BY <1>1, <1>3 DEF OutgoingReliableData
<1>5. SentFragments(Head(f.outgoing)) = sent + n
  BY <1>2, <1>3, <1>4 DEF SentFragments, OutgoingReliableData
<1>6. Busy(f) = Busy(c) \cup {i} /\ i \notin Busy(c)
  BY <1>1, <1>2 DEF Busy
<1>7. Head(f.outgoing).pending_fragments = Cardinality(FragmentsIn(f.subchannels, Busy(f)))
  <2>1. Busy(f) \ {i} = Busy(c)
    BY <1>6
  <2>2. Cardinality(FragmentsIn(f.subchannels, Busy(f)))
          = Cardinality(FragmentsIn(f.subchannels, {i}))
              + Cardinality(FragmentsIn(f.subchannels, Busy(c)))
    BY <1>2, <1>6, <2>1, FragmentsSplit, BusyIn
  <2>3. Cardinality(FragmentsIn(f.subchannels, {i})) = n
    BY <1>1, <1>2, FragmentsOne
  <2>4. FragmentsIn(f.subchannels, Busy(c)) = FragmentsIn(c.subchannels, Busy(c))
    <3>1. \A j \in Busy(c) : f.subchannels[j].num_fragments = c.subchannels[j].num_fragments
      BY <1>1, <1>6 DEF Busy
    <3> QED BY <3>1, FragmentsSame
  <2>5. front.pending_fragments = Cardinality(FragmentsIn(c.subchannels, Busy(c)))
    BY <1>2 DEF ChannelOK, Accounting
  <2> QED BY <1>2, <1>3, <1>4, <2>2, <2>3, <2>4, <2>5
<1>8. SentFragments(Head(f.outgoing)) <= BytesToFragments(Head(f.outgoing).bytes)
  BY <1>2, <1>4, <1>5
<1>9. OnlyFrontStarted(f)
  BY <1>1, <1>2 DEF ChannelOK, Accounting, OnlyFrontStarted
<1>10. BlocksDisjoint(f)
  <2>1. BlocksDisjoint(c)
    BY <1>2 DEF ChannelOK, Accounting
  <2>2. ASSUME NEW j \in Busy(c)
        PROVE  /\ f.subchannels[j] = c.subchannels[j] /\ j # i
               /\ f.subchannels[j].num_fragments \in Nat \ {0}
               /\ f.subchannels[j].start_fragment \in Nat
               /\ f.subchannels[j].start_fragment + f.subchannels[j].num_fragments
                    <= sent
    <3>1. j \in Subchannel /\ j # i /\ f.subchannels[j] = c.subchannels[j]
      BY <1>1, <1>6 DEF Busy
    <3>2. c.subchannels[j] \in SubChannel
      BY <1>2, <3>1
    <3> QED BY <2>1, <3>1, <3>2 DEF BlocksDisjoint, SubChannel
  <2>3. /\ f.subchannels[i].num_fragments = n
        /\ f.subchannels[i].start_fragment = sent
    BY <1>1
  <2>4. ASSUME NEW j \in Busy(f)
        PROVE  /\ f.subchannels[j].num_fragments > 0
               /\ f.subchannels[j].start_fragment + f.subchannels[j].num_fragments
                    <= sent + n
    <3>1. CASE j = i
      BY <1>2, <1>3, <2>3, <3>1
    <3>2. CASE j \in Busy(c)
      BY <1>2, <1>3, <2>2, <3>2
    <3> QED BY <1>6, <3>1, <3>2
  <2>5. ASSUME NEW j \in Busy(f), NEW k \in Busy(f), j # k
        PROVE  \/ f.subchannels[j].start_fragment + f.subchannels[j].num_fragments
                    <= f.subchannels[k].start_fragment
               \/ f.subchannels[k].start_fragment + f.subchannels[k].num_fragments
                    <= f.subchannels[j].start_fragment
    <3>1. CASE j \in Busy(c) /\ k \in Busy(c)
      BY <2>1, <2>2, <2>5, <3>1 DEF BlocksDisjoint
    <3>2. CASE j = i
      BY <1>6, <2>2, <2>3, <2>5, <3>2
    <3>3. CASE k = i
      BY <1>6, <2>2, <2>3, <2>5, <3>3
    <3> QED BY <1>6, <3>1, <3>2, <3>3
  <2> QED BY <1>5, <2>4, <2>5 DEF BlocksDisjoint
<1> QED BY <1>1, <1>7, <1>8, <1>9, <1>10 DEF ChannelOK, Accounting, f

-----------------------------------------------------------------------------
(* Writing                                                                 *)

(* fill_outgoing_subchannel makes a free subchannel wait, or does nothing. *)
Filling(c, f) ==
    /\ ChannelOK(f)
    /\ f.out_sequence_nr = c.out_sequence_nr
    /\ f.in_sequence_nr = c.in_sequence_nr
    /\ f.in_reliable_state = c.in_reliable_state
    /\ \A i \in Subchannel :
          \/ /\ f.subchannels[i] = c.subchannels[i]
             /\ f.out_reliable_state[i] = c.out_reliable_state[i]
          \/ /\ c.subchannels[i].state = "Free"
             /\ f.subchannels[i].state = "WaitingToSend"
             /\ f.out_reliable_state[i] # c.out_reliable_state[i]

(* fill_outgoing_subchannel is Filling. *)
LEMMA FillOK ==
    ASSUME NEW c, ChannelOK(c)
    PROVE  Filling(c, FillOutgoingSubchannel(c))
<1> DEFINE f == FillOutgoingSubchannel(c)
<1>1. CASE f = c
  BY <1>1 DEF Filling
<1>2. ASSUME NEW i, NEW n, Fillable(c, i, n), f = Filled(c, i, n)
      PROVE  Filling(c, f)
  <2> HIDE DEF f
  <2>1. ChannelOK(f)
    BY <1>2, FilledOK
  <2>2. Fills(c, i, n, f)
    BY <1>2, FilledFields
  <2>3. i \in Subchannel /\ c.subchannels[i].state = "Free"
    BY <1>2 DEF Fillable
  <2>4. c.out_reliable_state \in [Subchannel -> BOOLEAN]
    BY DEF ChannelOK, Channel
  <2>5. /\ f.out_reliable_state[i] # c.out_reliable_state[i]
        /\ \A j \in Subchannel \ {i} :
              f.out_reliable_state[j] = c.out_reliable_state[j]
    BY <2>2, <2>3, <2>4 DEF Fills
  <2>6. f.subchannels[i].state = "WaitingToSend"
    BY <2>2 DEF Fills
  <2> QED BY <2>1, <2>2, <2>3, <2>5, <2>6 DEF Fills, Filling
<1> QED BY <1>1, <1>2, FillCases

(* Accounting is about the transfers and the subchannels only. *)
LEMMA AccountingSame ==
    ASSUME NEW c, NEW e, Accounting(c),
           e.outgoing = c.outgoing, e.subchannels = c.subchannels
    PROVE  Accounting(e)
<1>1. Busy(e) = Busy(c)
  BY DEF Busy
<1> QED BY <1>1 DEF Accounting, OnlyFrontStarted, BlocksDisjoint

(* Or about which are busy and with what.                                  *)
LEMMA AccountingSimilar ==
    ASSUME NEW c, NEW e, Accounting(c), e.outgoing = c.outgoing,
           \A i \in Subchannel :
              /\ e.subchannels[i].state = "Free" <=> c.subchannels[i].state = "Free"
              /\ e.subchannels[i].num_fragments = c.subchannels[i].num_fragments
              /\ e.subchannels[i].start_fragment = c.subchannels[i].start_fragment
    PROVE  Accounting(e)
<1>1. Busy(e) = Busy(c)
  BY DEF Busy
<1>2. Busy(c) \in SUBSET Subchannel
  BY BusyIn
<1>3. FragmentsIn(e.subchannels, Busy(e)) = FragmentsIn(c.subchannels, Busy(c))
  BY <1>1, <1>2 DEF FragmentsIn
<1> QED BY <1>1, <1>2, <1>3 DEF Accounting, OnlyFrontStarted, BlocksDisjoint

(* Whether a packet has the block of subchannel i. *)
Carries(pk, i) == pk.reliable # None /\ pk.reliable.subchannel = i

(* write_packet, subchannel by subchannel: it is left alone, or filled and *)
(* left waiting, or sent in this packet, when it may have just been filled.*)
WritesSubchannel(c, e, k, i) ==
    \/ /\ ~ Carries(k, i)
       /\ e.subchannels[i] = c.subchannels[i]
       /\ e.out_reliable_state[i] = c.out_reliable_state[i]
    \/ /\ ~ Carries(k, i)
       /\ c.subchannels[i].state = "Free"
       /\ e.subchannels[i].state = "WaitingToSend"
       /\ e.out_reliable_state[i] # c.out_reliable_state[i]
    \/ /\ e.subchannels[i].state = "WaitingForAck"
       /\ e.subchannels[i].send_seq_nr = c.out_sequence_nr
       /\ \/ /\ c.subchannels[i].state = "WaitingToSend"
             /\ e.out_reliable_state[i] = c.out_reliable_state[i]
          \/ /\ c.subchannels[i].state = "Free"
             /\ e.out_reliable_state[i] # c.out_reliable_state[i]

Writes(c, e, k) ==
    /\ ChannelOK(e)
    /\ k \in Packet
    /\ e.out_sequence_nr = c.out_sequence_nr + 1
    /\ e.in_sequence_nr = c.in_sequence_nr
    /\ e.in_reliable_state = c.in_reliable_state
    /\ k.sequence = c.out_sequence_nr
    /\ k.sequence_ack = c.in_sequence_nr
    /\ k.reliable_state = c.in_reliable_state
    /\ \A i \in Subchannel : WritesSubchannel(c, e, k, i)

(* What is written for a busy subchannel. *)
LEMMA StreamOfType ==
    ASSUME NEW c, ChannelOK(c), NEW i \in Subchannel
    PROVE  StreamOf(c, i) \in StreamData \cup {None}
<1>1. CASE c.outgoing = <<>>
  BY <1>1 DEF StreamOf
<1>2. CASE c.outgoing # <<>>
  <2> DEFINE s == c.subchannels[i]
             front == Head(c.outgoing)
             single == s.num_fragments = BytesToFragments(front.bytes)
             bytes == IF single \/ s.start_fragment = 0 THEN front.bytes ELSE 0
  <2>1. s \in SubChannel
    BY DEF ChannelOK, Channel
  <2>2. front \in OutgoingReliableData
    BY <1>2, FrontCounts
  <2>3. bytes \in Nat /\ front.payload \in Payload /\ single \in BOOLEAN
    BY <2>2 DEF OutgoingReliableData
  <2>4. s.start_fragment \in Nat /\ s.num_fragments \in Nat
    BY <2>1 DEF SubChannel
  <2>5. StreamOf(c, i) = [single_block |-> single,
                          start_fragment |-> s.start_fragment,
                          num_fragments |-> s.num_fragments,
                          bytes |-> bytes,
                          payload |-> front.payload]
    BY <1>2 DEF StreamOf
  <2> HIDE DEF s, front, single, bytes
  <2> QED BY <2>3, <2>4, <2>5 DEF StreamData
<1> QED BY <1>1, <1>2

(* Sending subchannel i of a channel in packet n. *)
Sends(f, i, n, e) ==
    /\ e \in Channel
    /\ e.out_sequence_nr = n + 1
    /\ e.in_sequence_nr = f.in_sequence_nr
    /\ e.in_reliable_state = f.in_reliable_state
    /\ e.incoming = f.incoming
    /\ e.out_reliable_state = f.out_reliable_state
    /\ e.outgoing = f.outgoing
    /\ \A j \in Subchannel \ {i} : e.subchannels[j] = f.subchannels[j]
    /\ e.subchannels[i] =
          [f.subchannels[i] EXCEPT !.state = "WaitingForAck", !.send_seq_nr = n]

(* Marking a subchannel as sent changes the fields that Sends says. *)
LEMMA SentFields ==
    ASSUME NEW f \in Channel, NEW i \in Subchannel
    PROVE  LET sent == [f EXCEPT !.subchannels[i].state = "WaitingForAck",
                                 !.subchannels[i].send_seq_nr = f.out_sequence_nr]
           IN  Sends(f, i, f.out_sequence_nr, [sent EXCEPT !.out_sequence_nr = @ + 1])
<1> DEFINE n == f.out_sequence_nr
           block == [f.subchannels[i] EXCEPT !.state = "WaitingForAck", !.send_seq_nr = n]
           subs == [f.subchannels EXCEPT ![i] = block]
           sent == [f EXCEPT !.subchannels[i].state = "WaitingForAck",
                             !.subchannels[i].send_seq_nr = n]
           e == [sent EXCEPT !.out_sequence_nr = @ + 1]
<1>1. n \in Nat /\ f.subchannels \in [Subchannel -> SubChannel]
  BY DEF Channel
<1>2. f.subchannels[i] \in SubChannel
  BY <1>1
<1>3. block \in SubChannel
  BY <1>1, <1>2 DEF SubChannel
<1>4. /\ subs \in [Subchannel -> SubChannel] /\ subs[i] = block
      /\ \A j \in Subchannel \ {i} : subs[j] = f.subchannels[j]
  BY <1>1, <1>3
<1>5. sent = [f EXCEPT !.subchannels = subs]
  BY <1>1, <1>2
<1>6. e = [f EXCEPT !.subchannels = subs, !.out_sequence_nr = n + 1]
  BY <1>5 DEF Channel
<1>7. /\ e \in Channel /\ e.subchannels = subs /\ e.out_sequence_nr = n + 1
      /\ e.in_sequence_nr = f.in_sequence_nr
      /\ e.in_reliable_state = f.in_reliable_state
      /\ e.incoming = f.incoming
      /\ e.out_reliable_state = f.out_reliable_state
      /\ e.outgoing = f.outgoing
  <2>1. subs \in [Subchannel -> SubChannel] /\ n + 1 \in Nat
    BY <1>1, <1>4
  <2>2. e = [f EXCEPT !.subchannels = subs, !.out_sequence_nr = n + 1]
    BY <1>6
  <2> HIDE DEF subs, n, e, block
  <2> QED BY <2>1, <2>2 DEF Channel
<1> HIDE DEF e
<1>8. e.subchannels[i] = block /\ \A j \in Subchannel \ {i} : e.subchannels[j] = f.subchannels[j]
  BY <1>4, <1>7
<1>9. Sends(f, i, n, e)
  BY <1>7, <1>8 DEF Sends
<1> QED BY <1>9 DEF e

(* A subchannel that waits carries something, so there is a transfer. *)
LEMMA WaitingHasTransfer ==
    ASSUME NEW f, ChannelOK(f), FindSubchannel(f, "WaitingToSend") # {}
    PROVE  f.outgoing # <<>>
  BY DEF ChannelOK, Accounting, FindSubchannel, Busy

(* A channel keeps its type and its accounting when the next sequence      *)
(* number is taken.                                                        *)
LEMMA NumberedFields ==
    ASSUME NEW f, ChannelOK(f), NEW e, e = [f EXCEPT !.out_sequence_nr = @ + 1]
    PROVE  /\ ChannelOK(e)
           /\ e.out_sequence_nr = f.out_sequence_nr + 1
           /\ e.in_sequence_nr = f.in_sequence_nr
           /\ e.in_reliable_state = f.in_reliable_state
           /\ e.incoming = f.incoming
           /\ e.out_reliable_state = f.out_reliable_state
           /\ e.outgoing = f.outgoing
           /\ e.subchannels = f.subchannels
<1>1. f \in Channel /\ Accounting(f)
  BY DEF ChannelOK
<1>2. f.out_sequence_nr + 1 \in Nat
  BY <1>1 DEF Channel
<1>3. /\ e \in Channel
      /\ e.out_sequence_nr = f.out_sequence_nr + 1
      /\ e.in_sequence_nr = f.in_sequence_nr
      /\ e.in_reliable_state = f.in_reliable_state
      /\ e.incoming = f.incoming
      /\ e.out_reliable_state = f.out_reliable_state
      /\ e.subchannels = f.subchannels
      /\ e.outgoing = f.outgoing
  BY <1>1, <1>2 DEF Channel
<1>4. Accounting(e)
  BY <1>1, <1>3, AccountingSame
<1> QED BY <1>3, <1>4 DEF ChannelOK

(* The packet that write_packet makes of the filled channel f. *)
PacketOf(f, count, reliable, k) ==
    /\ k \in Packet
    /\ k.sequence = f.out_sequence_nr
    /\ k.sequence_ack = f.in_sequence_nr
    /\ k.reliable_state = f.in_reliable_state
    /\ k.reliable = reliable
    /\ k.messages = count

(* What write_packet does after it has filled a subchannel: nothing waits  *)
(* to be sent, or the lowest subchannel that does is sent.                 *)
WritesFilled(f, count, e, k) ==
    \/ /\ FindSubchannel(f, "WaitingToSend") = {}
       /\ PacketOf(f, count, None, k) /\ e = [f EXCEPT !.out_sequence_nr = @ + 1]
    \/ \E i \in Subchannel :
          /\ f.subchannels[i].state = "WaitingToSend" /\ f.outgoing # <<>>
          /\ \A j \in 0 .. (i-1) : f.subchannels[j].state # "WaitingToSend"
          /\ PacketOf(f, count, [subchannel |-> i, stream |-> StreamOf(f, i)], k)
          /\ Sends(f, i, f.out_sequence_nr, e)

(* write_packet fills, then is WritesFilled. *)
LEMMA WriteCases ==
    ASSUME NEW c, ChannelOK(c), NEW count \in Nat
    PROVE  LET w == WritePacket(c, count)
           IN  WritesFilled(FillOutgoingSubchannel(c), count, w.channel, w.packet)
<1> DEFINE f == FillOutgoingSubchannel(c)
           ready == FindSubchannel(f, "WaitingToSend")
           i == CHOOSE j \in ready : TRUE
           sent == IF ready = {} \/ f.outgoing = <<>> THEN f
                   ELSE [f EXCEPT !.subchannels[i].state = "WaitingForAck",
                                  !.subchannels[i].send_seq_nr = f.out_sequence_nr]
           e == [sent EXCEPT !.out_sequence_nr = @ + 1]
           reliable == IF ready = {} THEN None
                       ELSE [subchannel |-> i, stream |-> StreamOf(f, i)]
           k == [sequence |-> f.out_sequence_nr,
                 sequence_ack |-> f.in_sequence_nr,
                 challenge |-> f.challenge,
                 reliable_state |-> f.in_reliable_state,
                 reliable |-> reliable,
                 messages |-> count]
<1>1. WritePacket(c, count).channel = e /\ WritePacket(c, count).packet = k
  BY DEF WritePacket
<1>2. Filling(c, f)
  BY FillOK
<1> HIDE DEF f
<1>3. ChannelOK(f) /\ f \in Channel
  BY <1>2 DEF Filling, ChannelOK
<1>4. ready # {} =>
         /\ i \in Subchannel /\ f.subchannels[i].state = "WaitingToSend"
         /\ \A j \in 0 .. (i-1) : f.subchannels[j].state # "WaitingToSend"
  BY DEF FindSubchannel
<1>5. PacketOf(f, count, reliable, k)
  <2>1. reliable \in [subchannel : Subchannel, stream : StreamData \cup {None}]
                        \cup {None}
    <3>1. CASE ready = {}
      BY <3>1
    <3>2. CASE ready # {}
      <4>1. i \in Subchannel /\ StreamOf(f, i) \in StreamData \cup {None}
        BY <1>3, <1>4, <3>2, StreamOfType
      <4> HIDE DEF i, ready
      <4> QED BY <3>2, <4>1
    <3> QED BY <3>1, <3>2
  <2>2. /\ f.out_sequence_nr \in Nat /\ f.in_sequence_nr \in Nat
        /\ f.challenge \in Nat /\ f.in_reliable_state \in [Subchannel -> BOOLEAN]
    BY <1>3 DEF Channel
  <2> HIDE DEF reliable
  <2>3. k \in Packet
    BY <2>1, <2>2 DEF Packet
  <2> QED BY <2>3 DEF PacketOf
<1>6. CASE ready = {}
  <2>1. e = [f EXCEPT !.out_sequence_nr = @ + 1]
    BY <1>6
  <2>2. PacketOf(f, count, None, k)
    BY <1>5, <1>6
  <2> HIDE DEF e, k
  <2>3. WritesFilled(f, count, e, k)
    BY <1>6, <2>1, <2>2 DEF WritesFilled
  <2> QED BY <1>1, <2>3 DEF f
<1>7. CASE ready # {}
  <2>1. f.outgoing # <<>>
    BY <1>3, <1>7, WaitingHasTransfer
  <2>2. sent = [f EXCEPT !.subchannels[i].state = "WaitingForAck",
                         !.subchannels[i].send_seq_nr = f.out_sequence_nr]
    BY <1>7, <2>1
  <2>3. /\ i \in Subchannel /\ f.subchannels[i].state = "WaitingToSend"
        /\ \A j \in 0 .. (i-1) : f.subchannels[j].state # "WaitingToSend"
    BY <1>4, <1>7
  <2>4. PacketOf(f, count, [subchannel |-> i, stream |-> StreamOf(f, i)], k)
    BY <1>5, <1>7
  <2> HIDE DEF i, sent
  <2>5. Sends(f, i, f.out_sequence_nr, e)
    <3>1. Sends(f, i, f.out_sequence_nr,
                [[f EXCEPT !.subchannels[i].state = "WaitingForAck",
                           !.subchannels[i].send_seq_nr = f.out_sequence_nr]
                    EXCEPT !.out_sequence_nr = @ + 1])
      BY <1>3, <2>3, SentFields
    <3> QED BY <2>2, <3>1
  <2> HIDE DEF e, k
  <2>6. WritesFilled(f, count, e, k)
    BY <2>1, <2>3, <2>4, <2>5 DEF WritesFilled
  <2> QED BY <1>1, <2>6 DEF f
<1> QED BY <1>6, <1>7

(* write_packet is Writes. *)
LEMMA WriteOK ==
    ASSUME NEW c, ChannelOK(c), NEW count \in Nat
    PROVE  LET w == WritePacket(c, count)
           IN  Writes(c, w.channel, w.packet)
<1> DEFINE f == FillOutgoingSubchannel(c)
           e == WritePacket(c, count).channel
           k == WritePacket(c, count).packet
<1>1. WritesFilled(f, count, e, k)
  BY WriteCases
<1>2. Filling(c, f)
  BY FillOK
<1> HIDE DEF f, e, k
<1>3. ChannelOK(f) /\ f \in Channel
  BY <1>2 DEF Filling, ChannelOK
<1>4. CASE PacketOf(f, count, None, k) /\ e = [f EXCEPT !.out_sequence_nr = @ + 1]
  <2>1. /\ ChannelOK(e)
        /\ e.out_sequence_nr = f.out_sequence_nr + 1
        /\ e.in_sequence_nr = f.in_sequence_nr
        /\ e.in_reliable_state = f.in_reliable_state
        /\ e.out_reliable_state = f.out_reliable_state
        /\ e.subchannels = f.subchannels
    BY <1>3, <1>4, NumberedFields
  <2>2. ASSUME NEW j \in Subchannel PROVE WritesSubchannel(c, e, k, j)
    BY <1>2, <1>4, <2>1 DEF Filling, WritesSubchannel, Carries, PacketOf
  <2>3. Writes(c, e, k)
    BY <1>2, <1>4, <2>1, <2>2 DEF Filling, Writes, PacketOf
  <2> QED BY <2>3 DEF e, k
<1>5. ASSUME NEW i \in Subchannel,
             f.subchannels[i].state = "WaitingToSend",
             PacketOf(f, count, [subchannel |-> i, stream |-> StreamOf(f, i)], k),
             Sends(f, i, f.out_sequence_nr, e)
      PROVE  Writes(c, e, k)
  <2>1. f.subchannels[i] \in SubChannel
    BY <1>3 DEF Channel
  <2>2. /\ e.subchannels[i].state = "WaitingForAck"
        /\ e.subchannels[i].send_seq_nr = f.out_sequence_nr
        /\ e.subchannels[i].num_fragments = f.subchannels[i].num_fragments
        /\ e.subchannels[i].start_fragment = f.subchannels[i].start_fragment
    BY <1>5, <2>1 DEF Sends, SubChannel
  <2>3. ASSUME NEW j \in Subchannel
        PROVE  /\ e.subchannels[j].state = "Free" <=> f.subchannels[j].state = "Free"
               /\ e.subchannels[j].num_fragments = f.subchannels[j].num_fragments
               /\ e.subchannels[j].start_fragment = f.subchannels[j].start_fragment
    BY <1>5, <2>2 DEF Sends
  <2>4. ChannelOK(e)
    <3>1. e.outgoing = f.outgoing /\ e \in Channel
      BY <1>5 DEF Sends
    <3>2. Accounting(e)
      BY <1>3, <2>3, <3>1, AccountingSimilar DEF ChannelOK
    <3> QED BY <3>1, <3>2 DEF ChannelOK
  <2>5. ASSUME NEW j \in Subchannel \ {i} PROVE ~ Carries(k, j)
    BY <1>5 DEF Carries, PacketOf
  <2>6. ASSUME NEW j \in Subchannel PROVE WritesSubchannel(c, e, k, j)
    <3>1. CASE j = i
      BY <1>2, <1>5, <2>2, <3>1, ZenonT(40) DEF Filling, WritesSubchannel, Sends
    <3>2. CASE j # i
      BY <1>2, <1>5, <2>5, <3>2 DEF Filling, WritesSubchannel, Sends
    <3> QED BY <3>1, <3>2
  <2> QED BY <1>2, <1>5, <2>4, <2>6 DEF Filling, Writes, Sends, PacketOf
<1> QED BY <1>1, <1>4, <1>5 DEF WritesFilled, e, k

-----------------------------------------------------------------------------
(* Queueing                                                                *)

(* The fields that a step leaves alone when it touches transfers only. *)
SameSubchannels(c, e) ==
    /\ e.out_sequence_nr = c.out_sequence_nr
    /\ e.in_sequence_nr = c.in_sequence_nr
    /\ e.in_reliable_state = c.in_reliable_state
    /\ e.incoming = c.incoming
    /\ e.out_reliable_state = c.out_reliable_state
    /\ e.subchannels = c.subchannels

(* A transfer joins the queue with nothing sent. *)
LEMMA QueueOK ==
    ASSUME NEW c, ChannelOK(c), NEW payload \in Payload, NEW bytes \in Nat
    PROVE  LET e == QueueReliableMessages(c, payload, bytes)
           IN  ChannelOK(e) /\ SameSubchannels(c, e)
<1> DEFINE e == QueueReliableMessages(c, payload, bytes)
           transfer == [payload |-> payload, bytes |-> bytes,
                        acked_fragments |-> 0, pending_fragments |-> 0]
<1>1. c \in Channel /\ Accounting(c)
  BY DEF ChannelOK
<1>2. c.outgoing \in Seq(OutgoingReliableData)
  BY <1>1 DEF Channel
<1>3. transfer \in OutgoingReliableData
  BY DEF OutgoingReliableData
<1>4. transfer.acked_fragments = 0 /\ transfer.pending_fragments = 0
      /\ transfer.bytes = bytes
  OBVIOUS
<1>5. e = [c EXCEPT !.outgoing = Append(c.outgoing, transfer)]
  BY DEF QueueReliableMessages
<1> HIDE DEF e, transfer
<1>6. Append(c.outgoing, transfer) \in Seq(OutgoingReliableData)
  BY <1>2, <1>3
<1>7. /\ e \in Channel /\ SameSubchannels(c, e)
      /\ e.outgoing = Append(c.outgoing, transfer)
  BY <1>1, <1>5, <1>6 DEF Channel, SameSubchannels
<1>8. Busy(e) = Busy(c)
  BY <1>7 DEF Busy, SameSubchannels
<1>9. e.outgoing # <<>> /\ Len(e.outgoing) = Len(c.outgoing) + 1
  BY <1>2, <1>3, <1>7
<1>10. CASE c.outgoing = <<>>
  <2>1. Busy(e) = {}
    BY <1>1, <1>8, <1>10 DEF Accounting
  <2>2. Head(e.outgoing) = transfer /\ Len(e.outgoing) = 1
    BY <1>3, <1>7, <1>10
  <2>3. OnlyFrontStarted(e)
    BY <2>2 DEF OnlyFrontStarted
  <2>4. BlocksDisjoint(e)
    BY <2>1 DEF BlocksDisjoint
  <2>5. Cardinality(FragmentsIn(e.subchannels, Busy(e))) = 0
    BY <2>1, FragmentsNone
  <2>6. BytesToFragments(bytes) \in Nat
    BY BytesToFragmentsType
  <2>7. SentFragments(Head(e.outgoing)) <= BytesToFragments(Head(e.outgoing).bytes)
    BY <1>4, <2>2, <2>6 DEF SentFragments
  <2> QED BY <1>4, <1>7, <1>9, <2>2, <2>3, <2>4, <2>5, <2>7 DEF ChannelOK, Accounting, e
<1>11. CASE c.outgoing # <<>>
  <2>1. Head(e.outgoing) = Head(c.outgoing)
    BY <1>2, <1>3, <1>7, <1>11
  <2>2. /\ Head(e.outgoing).pending_fragments
              = Cardinality(FragmentsIn(e.subchannels, Busy(e)))
        /\ SentFragments(Head(e.outgoing)) <= BytesToFragments(Head(e.outgoing).bytes)
    BY <1>1, <1>7, <1>8, <1>11, <2>1 DEF Accounting, SameSubchannels
  <2>3. OnlyFrontStarted(e)
    <3>1. ASSUME NEW n \in 2 .. Len(e.outgoing)
          PROVE  e.outgoing[n].acked_fragments = 0 /\ e.outgoing[n].pending_fragments = 0
      <4>1. CASE n = Len(e.outgoing)
        BY <1>2, <1>4, <1>7, <1>9, <4>1
      <4>2. CASE n # Len(e.outgoing)
        <5>1. n \in 2 .. Len(c.outgoing)
          BY <1>2, <1>9, <4>2
        <5>2. e.outgoing[n] = c.outgoing[n]
          BY <1>2, <1>7, <5>1
        <5> QED BY <1>1, <1>11, <5>1, <5>2 DEF Accounting, OnlyFrontStarted
      <4> QED BY <4>1, <4>2
    <3> QED BY <3>1 DEF OnlyFrontStarted
  <2>4. BlocksDisjoint(e)
    BY <1>1, <1>7, <1>8, <1>11, <2>1 DEF Accounting, BlocksDisjoint, SameSubchannels
  <2> QED BY <1>7, <1>9, <2>2, <2>3, <2>4 DEF ChannelOK, Accounting, e
<1> QED BY <1>10, <1>11

-----------------------------------------------------------------------------
(* Reading the header                                                      *)

(* What an acknowledgement does to subchannel i: it is received, or sent   *)
(* again, or left alone.                                                   *)
UpdatesSubchannel(c, pk, u, i) ==
    \/ /\ c.subchannels[i].state = "WaitingForAck" /\ BitAcked(c, pk, i)
       /\ u.subchannels[i] = FreeSubChannel
    \/ /\ c.subchannels[i].state = "WaitingForAck" /\ ~ BitAcked(c, pk, i)
       /\ c.subchannels[i].send_seq_nr <= pk.sequence_ack
       /\ u.subchannels[i].state = "WaitingToSend"
    \/ u.subchannels[i] = c.subchannels[i]

Updates(c, pk, u) ==
    /\ ChannelOK(u)
    /\ u.out_sequence_nr = c.out_sequence_nr
    /\ u.in_sequence_nr = c.in_sequence_nr
    /\ u.in_reliable_state = c.in_reliable_state
    /\ u.incoming = c.incoming
    /\ u.out_reliable_state = c.out_reliable_state
    /\ \A i \in Subchannel : UpdatesSubchannel(c, pk, u, i)

(* The subchannels after an update: A are acknowledged, D sent again.      *)
Updated(subs, A, D) ==
    [i \in Subchannel |->
        CASE i \in A -> FreeSubChannel
          [] i \in D -> [subs[i] EXCEPT !.state = "WaitingToSend"]
          [] OTHER -> subs[i]]

UpdatesSubs(subs, A, D, u) ==
    /\ u \in [Subchannel -> SubChannel]
    /\ \A i \in A : u[i] = FreeSubChannel
    /\ \A i \in D : u[i].state = "WaitingToSend"
    /\ \A i \in Subchannel \ (A \cup D) : u[i] = subs[i]
    /\ \A i \in Subchannel \ A :
          /\ u[i].state = "Free" <=> subs[i].state = "Free"
          /\ u[i].num_fragments = subs[i].num_fragments
          /\ u[i].start_fragment = subs[i].start_fragment

(* Updated changes what UpdatesSubs says. *)
LEMMA UpdatedFields ==
    ASSUME NEW subs \in [Subchannel -> SubChannel],
           NEW A \in SUBSET Subchannel, NEW D \in SUBSET Subchannel,
           A \cap D = {}, \A i \in D : subs[i].state # "Free"
    PROVE  UpdatesSubs(subs, A, D, Updated(subs, A, D))
<1> DEFINE u == Updated(subs, A, D)
<1>1. FreeSubChannel \in SubChannel
  BY DEF FreeSubChannel, SubChannel
<1>2. ASSUME NEW i \in D
      PROVE  LET s == [subs[i] EXCEPT !.state = "WaitingToSend"]
             IN  /\ s \in SubChannel /\ s.state = "WaitingToSend"
                 /\ s.num_fragments = subs[i].num_fragments
                 /\ s.start_fragment = subs[i].start_fragment
  <2>1. subs[i] \in SubChannel
    OBVIOUS
  <2> QED BY <2>1 DEF SubChannel
<1>3. ASSUME NEW i \in A PROVE u[i] = FreeSubChannel
  BY DEF Updated
<1>4. ASSUME NEW i \in D PROVE u[i] = [subs[i] EXCEPT !.state = "WaitingToSend"]
  BY DEF Updated
<1>5. ASSUME NEW i \in Subchannel \ (A \cup D) PROVE u[i] = subs[i]
  BY DEF Updated
<1>6. u = [i \in Subchannel |-> u[i]]
  BY DEF Updated
<1> HIDE DEF u
<1>7. ASSUME NEW i \in Subchannel PROVE u[i] \in SubChannel
  <2>1. CASE i \in A
    BY <1>1, <1>3, <2>1
  <2>2. CASE i \in D
    BY <1>2, <1>4, <2>2
  <2>3. CASE i \notin A \cup D
    BY <1>5, <2>3
  <2> QED BY <2>1, <2>2, <2>3
<1>8. u \in [Subchannel -> SubChannel]
  BY <1>6, <1>7
<1>9. ASSUME NEW i \in Subchannel \ A
      PROVE  /\ u[i].state = "Free" <=> subs[i].state = "Free"
             /\ u[i].num_fragments = subs[i].num_fragments
             /\ u[i].start_fragment = subs[i].start_fragment
  <2>1. CASE i \in D
    BY <1>2, <1>4, <2>1
  <2>2. CASE i \notin D
    BY <1>5, <2>2
  <2> QED BY <2>1, <2>2
<1>10. ASSUME NEW i \in D PROVE u[i].state = "WaitingToSend"
  BY <1>2, <1>4
<1>11. /\ \A i \in A : u[i] = FreeSubChannel
       /\ \A i \in D : u[i].state = "WaitingToSend"
       /\ \A i \in Subchannel \ (A \cup D) : u[i] = subs[i]
  BY <1>3, <1>5, <1>10
<1>12. UpdatesSubs(subs, A, D, u)
  BY <1>8, <1>9, <1>11 DEF UpdatesSubs
<1> QED BY <1>12 DEF u

(* The counters that acknowledged blocks move from pending to acked.       *)
Moved(outgoing, n) ==
    [outgoing EXCEPT ![1].acked_fragments = @ + n, ![1].pending_fragments = @ - n]

Moves(outgoing, n, o) ==
    /\ o \in Seq(OutgoingReliableData) /\ o # <<>> /\ Len(o) = Len(outgoing)
    /\ \A k \in 2 .. Len(outgoing) : o[k] = outgoing[k]
    /\ Head(o).payload = Head(outgoing).payload
    /\ Head(o).bytes = Head(outgoing).bytes
    /\ Head(o).acked_fragments = Head(outgoing).acked_fragments + n
    /\ Head(o).pending_fragments = Head(outgoing).pending_fragments - n

(* Moved changes what Moves says. *)
LEMMA MovedFields ==
    ASSUME NEW outgoing \in Seq(OutgoingReliableData), outgoing # <<>>, NEW n \in Nat
    PROVE  Moves(outgoing, n, Moved(outgoing, n))
<1> DEFINE front == [outgoing[1] EXCEPT !.acked_fragments = @ + n,
                                        !.pending_fragments = @ - n]
           o == Moved(outgoing, n)
<1>1. outgoing[1] \in OutgoingReliableData /\ Head(outgoing) = outgoing[1]
      /\ 1 \in 1 .. Len(outgoing)
  OBVIOUS
<1>2. /\ front \in OutgoingReliableData
      /\ front.payload = outgoing[1].payload
      /\ front.bytes = outgoing[1].bytes
      /\ front.acked_fragments = outgoing[1].acked_fragments + n
      /\ front.pending_fragments = outgoing[1].pending_fragments - n
  <2> DEFINE r == outgoing[1]
  <2>1. /\ r \in OutgoingReliableData
        /\ r.acked_fragments \in Nat /\ r.pending_fragments \in Int
    BY <1>1 DEF OutgoingReliableData
  <2> HIDE DEF r
  <2>2. r.acked_fragments + n \in Nat /\ r.pending_fragments - n \in Int
    BY <2>1
  <2>3. LET f == [r EXCEPT !.acked_fragments = @ + n, !.pending_fragments = @ - n]
        IN  /\ f \in OutgoingReliableData
            /\ f.payload = r.payload
            /\ f.bytes = r.bytes
            /\ f.acked_fragments = r.acked_fragments + n
            /\ f.pending_fragments = r.pending_fragments - n
    BY <2>1, <2>2 DEF OutgoingReliableData
  <2> QED BY <2>3 DEF r
<1>3. o = [outgoing EXCEPT ![1] = front]
  <2>1. Moved(outgoing, n) =
          [outgoing EXCEPT ![1] =
              [[outgoing[1] EXCEPT !.acked_fragments = @ + n]
                  EXCEPT !.pending_fragments = @ - n]]
    BY <1>1 DEF Moved
  <2>2. [[outgoing[1] EXCEPT !.acked_fragments = @ + n]
            EXCEPT !.pending_fragments = @ - n] = front
    BY <1>1 DEF OutgoingReliableData
  <2> QED BY <2>1, <2>2
<1> HIDE DEF o, front
<1>4. /\ o \in Seq(OutgoingReliableData) /\ o # <<>> /\ Len(o) = Len(outgoing)
      /\ Head(o) = front
      /\ \A k \in 2 .. Len(outgoing) : o[k] = outgoing[k]
  BY <1>1, <1>2, <1>3
<1>5. Moves(outgoing, n, o)
  BY <1>1, <1>2, <1>4 DEF Moves
<1> QED BY <1>5 DEF o

(* The fields of a channel after an update that finds A acknowledged and D *)
(* missed.                                                                 *)
UpdatesFields(c, A, D, u) ==
    /\ u \in Channel
    /\ UpdatesSubs(c.subchannels, A, D, u.subchannels)
    /\ c.outgoing = <<>> => u.outgoing = <<>>
    /\ c.outgoing # <<>> =>
          Moves(c.outgoing, Cardinality(FragmentsIn(c.subchannels, A)), u.outgoing)
    /\ u.out_sequence_nr = c.out_sequence_nr
    /\ u.in_sequence_nr = c.in_sequence_nr
    /\ u.in_reliable_state = c.in_reliable_state
    /\ u.incoming = c.incoming
    /\ u.out_reliable_state = c.out_reliable_state

(* update_outgoing_subchannels changes what UpdatesFields says. *)
LEMMA UpdateFields ==
    ASSUME NEW c, ChannelOK(c), NEW pk
    PROVE  UpdatesFields(c, AckedSubchannels(c, pk), DroppedSubchannels(c, pk),
                         UpdateOutgoingSubchannels(c, pk))
<1> DEFINE A == AckedSubchannels(c, pk)
           D == DroppedSubchannels(c, pk)
           n == Cardinality(FragmentsIn(c.subchannels, A))
           subs == Updated(c.subchannels, A, D)
           outgoing == IF c.outgoing = <<>> THEN <<>> ELSE Moved(c.outgoing, n)
           u == UpdateOutgoingSubchannels(c, pk)
<1>1. /\ c \in Channel
      /\ c.subchannels \in [Subchannel -> SubChannel]
      /\ c.outgoing \in Seq(OutgoingReliableData)
  BY DEF ChannelOK, Channel
<1>2. /\ A \in SUBSET Subchannel /\ D \in SUBSET Subchannel /\ A \cap D = {}
      /\ \A i \in D : c.subchannels[i].state # "Free"
  BY DEF AckedSubchannels, DroppedSubchannels, Visited
<1>3. u = [c EXCEPT !.outgoing = outgoing, !.subchannels = subs]
  BY DEF UpdateOutgoingSubchannels, Updated, Moved
<1> HIDE DEF A, D, u, subs
<1>4. n \in Nat
  BY <1>1, <1>2, FragmentsFinite
<1> HIDE DEF n
<1>5. UpdatesSubs(c.subchannels, A, D, subs)
  BY <1>1, <1>2, UpdatedFields DEF subs
<1>6. c.outgoing # <<>> => Moves(c.outgoing, n, outgoing)
  BY <1>1, <1>4, MovedFields
<1>7. outgoing \in Seq(OutgoingReliableData) /\ (c.outgoing = <<>> => outgoing = <<>>)
  BY <1>1, <1>6 DEF Moves
<1> HIDE DEF outgoing
<1>8. /\ u \in Channel
      /\ u.outgoing = outgoing /\ u.subchannels = subs
      /\ u.out_sequence_nr = c.out_sequence_nr
      /\ u.in_sequence_nr = c.in_sequence_nr
      /\ u.in_reliable_state = c.in_reliable_state
      /\ u.incoming = c.incoming
      /\ u.out_reliable_state = c.out_reliable_state
  <2>1. subs \in [Subchannel -> SubChannel]
    BY <1>5 DEF UpdatesSubs
  <2> QED BY <1>1, <1>3, <1>7, <2>1 DEF Channel
<1>9. UpdatesFields(c, A, D, u)
  BY <1>5, <1>6, <1>7, <1>8 DEF UpdatesFields, n
<1> QED BY <1>9 DEF A, D, u

(* update_outgoing_subchannels is Updates: what leaves pending_fragments   *)
(* is what the acknowledged subchannels carried.                           *)
LEMMA UpdateOK ==
    ASSUME NEW c, ChannelOK(c), NEW pk
    PROVE  Updates(c, pk, UpdateOutgoingSubchannels(c, pk))
<1> DEFINE A == AckedSubchannels(c, pk)
           D == DroppedSubchannels(c, pk)
           n == Cardinality(FragmentsIn(c.subchannels, A))
           u == UpdateOutgoingSubchannels(c, pk)
<1>1. /\ c \in Channel /\ Accounting(c)
      /\ c.subchannels \in [Subchannel -> SubChannel]
      /\ c.outgoing \in Seq(OutgoingReliableData)
  BY DEF ChannelOK, Channel
<1>2. A \in SUBSET Subchannel /\ A \subseteq Busy(c)
  BY DEF AckedSubchannels, Visited, Busy
<1>3. ASSUME NEW i \in A
      PROVE  c.subchannels[i].state = "WaitingForAck" /\ BitAcked(c, pk, i)
  BY DEF AckedSubchannels
<1>4. ASSUME NEW i \in D
      PROVE  /\ c.subchannels[i].state = "WaitingForAck" /\ ~ BitAcked(c, pk, i)
             /\ c.subchannels[i].send_seq_nr <= pk.sequence_ack
  BY DEF DroppedSubchannels
<1>5. UpdatesFields(c, A, D, u)
  BY UpdateFields
<1> HIDE DEF A, D, u
<1>6. n \in Nat
  BY <1>1, <1>2, FragmentsFinite
<1>7. UpdatesSubs(c.subchannels, A, D, u.subchannels)
  BY <1>5 DEF UpdatesFields
<1>8. c.outgoing # <<>> => Moves(c.outgoing, n, u.outgoing)
  BY <1>5 DEF UpdatesFields
<1> HIDE DEF n
<1>9. Busy(u) = Busy(c) \ A
  <2>1. ASSUME NEW i \in A PROVE u.subchannels[i].state = "Free"
    BY <1>7 DEF UpdatesSubs, FreeSubChannel
  <2> QED BY <1>7, <2>1 DEF Busy, UpdatesSubs
<1>10. Accounting(u)
  <2>1. CASE c.outgoing = <<>>
    BY <1>1, <1>2, <1>5, <1>9, <2>1 DEF Accounting, UpdatesFields
  <2>2. CASE c.outgoing # <<>>
    <3> DEFINE front == Head(c.outgoing)
               new == Head(u.outgoing)
    <3>1. Moves(c.outgoing, n, u.outgoing)
      BY <1>8, <2>2
    <3>2. /\ front \in OutgoingReliableData /\ front.pending_fragments \in Nat
          /\ front.acked_fragments \in Nat
      BY <2>2, FrontCounts DEF OutgoingReliableData
    <3>3. /\ new.bytes = front.bytes
          /\ new.acked_fragments = front.acked_fragments + n
          /\ new.pending_fragments = front.pending_fragments - n
      BY <3>1 DEF Moves
    <3>4. SentFragments(new) = SentFragments(front)
      BY <1>6, <3>2, <3>3 DEF SentFragments
    <3>5. FragmentsIn(u.subchannels, Busy(u)) = FragmentsIn(c.subchannels, Busy(u))
      <4>1. \A i \in Busy(u) :
               u.subchannels[i].num_fragments = c.subchannels[i].num_fragments
        BY <1>7, <1>9 DEF UpdatesSubs, Busy
      <4> QED BY <4>1, FragmentsSame
    <3>6. front.pending_fragments = Cardinality(FragmentsIn(c.subchannels, Busy(c)))
      BY <1>1, <2>2 DEF Accounting
    <3>7. Cardinality(FragmentsIn(c.subchannels, Busy(c)))
            = n + Cardinality(FragmentsIn(c.subchannels, Busy(u)))
      BY <1>1, <1>2, <1>9, BusyIn, FragmentsSplit DEF n
    <3>8. Cardinality(FragmentsIn(c.subchannels, Busy(u))) \in Nat
      BY <1>1, BusyIn, FragmentsFinite
    <3>9. new.pending_fragments = Cardinality(FragmentsIn(u.subchannels, Busy(u)))
      BY <1>6, <3>3, <3>5, <3>6, <3>7, <3>8
    <3>10. OnlyFrontStarted(u)
      BY <1>1, <2>2, <3>1 DEF OnlyFrontStarted, Accounting, Moves
    <3>11. BlocksDisjoint(u)
      <4>1. BlocksDisjoint(c)
        BY <1>1, <2>2 DEF Accounting
      <4>2. ASSUME NEW i \in Busy(u)
            PROVE  /\ i \in Busy(c)
                   /\ u.subchannels[i].num_fragments = c.subchannels[i].num_fragments
                   /\ u.subchannels[i].start_fragment = c.subchannels[i].start_fragment
        BY <1>7, <1>9 DEF UpdatesSubs, Busy
      <4> QED BY <3>4, <4>1, <4>2 DEF BlocksDisjoint
    <3>12. u.outgoing # <<>> /\ SentFragments(new) <= BytesToFragments(new.bytes)
      BY <1>1, <2>2, <3>1, <3>3, <3>4 DEF Accounting, Moves
    <3> QED BY <3>9, <3>10, <3>11, <3>12 DEF Accounting
  <2> QED BY <2>1, <2>2
<1>11. ASSUME NEW i \in Subchannel PROVE UpdatesSubchannel(c, pk, u, i)
  <2>1. CASE i \in A
    BY <1>3, <1>7, <2>1 DEF UpdatesSubs, UpdatesSubchannel
  <2>2. CASE i \in D
    BY <1>4, <1>7, <2>2 DEF UpdatesSubs, UpdatesSubchannel
  <2>3. CASE i \notin A \cup D
    BY <1>7, <2>3 DEF UpdatesSubs, UpdatesSubchannel
  <2> QED BY <2>1, <2>2, <2>3
<1>12. Updates(c, pk, u)
  BY <1>5, <1>10, <1>11 DEF Updates, UpdatesFields, ChannelOK
<1> QED BY <1>12 DEF u

(* When every fragment is acknowledged no subchannel is busy. *)
LEMMA CompleteIsIdle ==
    ASSUME NEW c, ChannelOK(c), c.outgoing # <<>>,
           Head(c.outgoing).acked_fragments = BytesToFragments(Head(c.outgoing).bytes)
    PROVE  Busy(c) = {}
<1> DEFINE front == Head(c.outgoing)
<1>1. /\ front \in OutgoingReliableData /\ front.pending_fragments \in Nat
      /\ SentFragments(front) <= BytesToFragments(front.bytes)
  BY FrontCounts
<1>2. front.acked_fragments \in Nat
  BY <1>1 DEF OutgoingReliableData
<1>3. front.pending_fragments = 0
  BY <1>1, <1>2 DEF SentFragments
<1>4. Cardinality(FragmentsIn(c.subchannels, Busy(c))) = 0
  BY <1>3 DEF ChannelOK, Accounting
<1>5. c.subchannels \in [Subchannel -> SubChannel]
  BY DEF ChannelOK, Channel
<1>6. ASSUME NEW i \in Busy(c) PROVE FALSE
  <2>1. i \in Subchannel /\ {i} \in SUBSET Busy(c)
    BY BusyIn
  <2>2. c.subchannels[i].num_fragments > 0
    BY <1>6 DEF ChannelOK, Accounting, BlocksDisjoint
  <2>3. c.subchannels[i].num_fragments \in Nat
    BY <1>5, <2>1 DEF SubChannel
  <2>4. Cardinality(FragmentsIn(c.subchannels, {i})) = c.subchannels[i].num_fragments
    BY <1>5, <2>1, FragmentsOne
  <2>5. Cardinality(FragmentsIn(c.subchannels, Busy(c)))
          = Cardinality(FragmentsIn(c.subchannels, {i}))
              + Cardinality(FragmentsIn(c.subchannels, Busy(c) \ {i}))
    BY <1>5, <2>1, BusyIn, FragmentsSplit
  <2>6. Cardinality(FragmentsIn(c.subchannels, Busy(c) \ {i})) \in Nat
    BY <1>5, BusyIn, FragmentsFinite
  <2> QED BY <1>4, <2>2, <2>3, <2>4, <2>5, <2>6
<1> QED BY <1>6

(* Dropping a completed transfer: the next one has not been started. *)
LEMMA PopOK ==
    ASSUME NEW c, ChannelOK(c)
    PROVE  LET e == PopCompletedOutgoingTransfers(c)
           IN  ChannelOK(e) /\ SameSubchannels(c, e)
<1> DEFINE e == PopCompletedOutgoingTransfers(c)
           done == /\ c.outgoing # <<>>
                   /\ Head(c.outgoing).acked_fragments
                         = BytesToFragments(Head(c.outgoing).bytes)
<1>1. CASE ~ done
  BY <1>1 DEF PopCompletedOutgoingTransfers, SameSubchannels
<1>2. CASE done
  <2>1. e = [c EXCEPT !.outgoing = Tail(c.outgoing)]
    BY <1>2 DEF PopCompletedOutgoingTransfers
  <2> HIDE DEF e
  <2>2. /\ c \in Channel /\ Accounting(c)
        /\ c.outgoing \in Seq(OutgoingReliableData) /\ c.outgoing # <<>>
    BY <1>2 DEF ChannelOK, Channel
  <2>3. Tail(c.outgoing) \in Seq(OutgoingReliableData)
    BY <2>2
  <2>4. e \in Channel /\ SameSubchannels(c, e) /\ e.outgoing = Tail(c.outgoing)
    BY <2>1, <2>2, <2>3 DEF Channel, SameSubchannels
  <2>5. Busy(e) = {}
    <3>1. Busy(c) = {}
      BY <1>2, CompleteIsIdle
    <3> QED BY <2>4, <3>1 DEF Busy, SameSubchannels
  <2>6. Accounting(e)
    <3>1. CASE e.outgoing = <<>>
      BY <2>5, <3>1 DEF Accounting
    <3>2. CASE e.outgoing # <<>>
      <4> DEFINE front == Head(e.outgoing)
      <4>1. ASSUME NEW n \in 1 .. Len(e.outgoing)
            PROVE  /\ e.outgoing[n] \in OutgoingReliableData
                   /\ e.outgoing[n].acked_fragments = 0
                   /\ e.outgoing[n].pending_fragments = 0
        <5>1. n + 1 \in 2 .. Len(c.outgoing) /\ e.outgoing[n] = c.outgoing[n + 1]
          BY <2>2, <2>4
        <5>2. c.outgoing[n + 1] \in OutgoingReliableData
          BY <2>2, <5>1
        <5>3. /\ c.outgoing[n + 1].acked_fragments = 0
              /\ c.outgoing[n + 1].pending_fragments = 0
          BY <2>2, <5>1 DEF Accounting, OnlyFrontStarted
        <5> QED BY <5>1, <5>2, <5>3
      <4>2. 1 \in 1 .. Len(e.outgoing) /\ front = e.outgoing[1]
        BY <2>3, <2>4, <3>2
      <4>3. /\ front \in OutgoingReliableData
            /\ front.acked_fragments = 0 /\ front.pending_fragments = 0
        BY <4>1, <4>2
      <4>4. BytesToFragments(front.bytes) \in Nat
        BY <4>3, BytesToFragmentsType DEF OutgoingReliableData
      <4>5. SentFragments(front) <= BytesToFragments(front.bytes)
        BY <4>3, <4>4 DEF SentFragments
      <4>6. front.pending_fragments = Cardinality(FragmentsIn(e.subchannels, Busy(e)))
        BY <2>5, <4>3, FragmentsNone
      <4>7. OnlyFrontStarted(e)
        BY <4>1 DEF OnlyFrontStarted
      <4>8. BlocksDisjoint(e)
        BY <2>5 DEF BlocksDisjoint
      <4> QED BY <3>2, <4>5, <4>6, <4>7, <4>8 DEF Accounting
    <3> QED BY <3>1, <3>2
  <2> QED BY <2>4, <2>6 DEF ChannelOK, e
<1> QED BY <1>1, <1>2

(* read_header leaves the channel alone when the packet is out of order,   *)
(* and takes its numbers when it is not and contradicts nothing.           *)
ReadsHeader(c, pk, h) ==
    /\ ChannelOK(h)
    /\ h.out_sequence_nr = c.out_sequence_nr
    /\ h.out_reliable_state = c.out_reliable_state
    /\ h.in_reliable_state = c.in_reliable_state
    /\ h.incoming = c.incoming
    /\ HeaderOk(c, pk) => h.in_sequence_nr = pk.sequence
    /\ ~ HeaderOk(c, pk) => h.in_sequence_nr = c.in_sequence_nr
    /\ ~ Accepts(c, pk) => h = c
    /\ \A i \in Subchannel : UpdatesSubchannel(c, pk, h, i)

(* read_header is ReadsHeader. *)
LEMMA ReadHeaderOK ==
    ASSUME NEW c, ChannelOK(c), NEW pk \in Packet
    PROVE  ReadsHeader(c, pk, ReadHeader(c, pk))
<1> DEFINE u == UpdateOutgoingSubchannels(c, pk)
           v == [u EXCEPT !.in_sequence_nr = pk.sequence,
                          !.out_sequence_nr_ack = pk.sequence_ack]
           h == ReadHeader(c, pk)
<1>1. Updates(c, pk, u)
  BY UpdateOK
<1>2. CASE HeaderOk(c, pk)
  <2>1. Accepts(c, pk)
    BY <1>2 DEF HeaderOk
  <2>2. h = PopCompletedOutgoingTransfers(v)
    BY <1>2 DEF ReadHeader
  <2>3. pk.sequence \in Nat /\ pk.sequence_ack \in Nat
    BY DEF Packet
  <2>4. u \in Channel /\ Accounting(u)
    BY <1>1 DEF Updates, ChannelOK
  <2> HIDE DEF u, h
  <2>5. /\ v \in Channel /\ v.in_sequence_nr = pk.sequence
        /\ v.outgoing = u.outgoing /\ v.subchannels = u.subchannels
        /\ v.out_sequence_nr = u.out_sequence_nr
        /\ v.out_reliable_state = u.out_reliable_state
        /\ v.in_reliable_state = u.in_reliable_state
        /\ v.incoming = u.incoming
    BY <2>3, <2>4 DEF Channel
  <2> HIDE DEF v
  <2>6. ChannelOK(v)
    BY <2>4, <2>5, AccountingSame DEF ChannelOK
  <2>7. ChannelOK(h) /\ SameSubchannels(v, h)
    BY <2>2, <2>6, PopOK
  <2>8. ReadsHeader(c, pk, h)
    BY <1>1, <1>2, <2>1, <2>5, <2>7
       DEF ReadsHeader, Updates, UpdatesSubchannel, SameSubchannels
  <2> QED BY <2>8 DEF h
<1>3. CASE ~ HeaderOk(c, pk) /\ Accepts(c, pk)
  <2>1. h = u
    BY <1>3 DEF ReadHeader
  <2> QED BY <1>1, <1>3, <2>1 DEF ReadsHeader, Updates
<1>4. CASE ~ Accepts(c, pk)
  <2>1. ~ HeaderOk(c, pk) /\ h = c
    BY <1>4 DEF ReadHeader, HeaderOk
  <2> QED BY <1>4, <2>1 DEF ReadsHeader, UpdatesSubchannel
<1> QED BY <1>2, <1>3, <1>4

-----------------------------------------------------------------------------
(* Reading the data                                                        *)

(* A new buffer is one. *)
LEMMA NewIncomingType ==
    ASSUME NEW bytes \in Nat
    PROVE  NewIncoming(bytes) \in IncomingReliableData
<1> DEFINE B == BytesToFragments(bytes)
           data == [k \in 1 .. B |-> Zero]
<1>1. B \in Nat
  BY BytesToFragmentsType
<1>2. Zero \in Payload
  BY DEF Zero, Payload
<1> HIDE DEF B
<1>3. data \in Seq(Payload)
  BY <1>1, <1>2
<1>4. NewIncoming(bytes) = [acked_fragments |-> 0, bytes |-> bytes, data |-> data]
  BY DEF NewIncoming, B
<1> HIDE DEF data
<1> QED BY <1>3, <1>4 DEF IncomingReliableData

(* And so is one that fragments are written to. *)
LEMMA WriteFragmentsType ==
    ASSUME NEW incoming \in IncomingReliableData, NEW d \in StreamData
    PROVE  WriteFragments(incoming, d) \in IncomingReliableData
<1> DEFINE n == NumFragments(d)
           data == [k \in DOMAIN incoming.data |->
                      IF k \in (d.start_fragment + 1) .. (d.start_fragment + n)
                      THEN d.payload ELSE incoming.data[k]]
<1>1. /\ d.bytes \in Nat /\ d.num_fragments \in Nat /\ d.payload \in Payload
  BY DEF StreamData
<1>2. n \in Nat
  BY <1>1, BytesToFragmentsType DEF NumFragments
<1>3. WriteFragments(incoming, d)
        = [incoming EXCEPT !.acked_fragments = @ + n, !.data = data]
  BY DEF WriteFragments
<1> HIDE DEF n
<1>4. incoming.data \in Seq(Payload) /\ incoming.acked_fragments + n \in Nat
  BY <1>2 DEF IncomingReliableData
<1>5. data \in Seq(Payload)
  <2>1. \A k \in 1 .. Len(incoming.data) : data[k] \in Payload
    BY <1>1, <1>4
  <2>2. DOMAIN data = 1 .. Len(incoming.data) /\ Len(incoming.data) \in Nat
    BY <1>4
  <2>3. data = [k \in 1 .. Len(incoming.data) |-> data[k]]
    BY <2>2
  <2> HIDE DEF data
  <2> QED BY <2>1, <2>2, <2>3
<1> HIDE DEF data
<1> QED BY <1>3, <1>4, <1>5 DEF IncomingReliableData

(* What is read is a transfer being received, if it is anything. *)
LEMMA ReadIncomingDataType ==
    ASSUME NEW incoming \in IncomingReliableData \cup {None}, NEW d \in StreamData
    PROVE  ReadIncomingData(incoming, d) \in IncomingReliableData \cup {None}
<1> DEFINE started == Started(incoming, d)
<1>1. started \in IncomingReliableData \cup {None}
  BY NewIncomingType DEF StreamData, Started
<1> HIDE DEF started
<1>2. CASE FragmentError(started, d)
  BY <1>1, <1>2 DEF ReadIncomingData, started
<1>3. CASE ~ FragmentError(started, d)
  <2>1. started \in IncomingReliableData
    BY <1>1, <1>3 DEF FragmentError
  <2> QED BY <1>3, <2>1, WriteFragmentsType DEF ReadIncomingData, started
<1> QED BY <1>2, <1>3

(* A buffer holds one payload, or the payload of a mix. *)
LEMMA ContentType ==
    ASSUME NEW data \in Seq(Payload)
    PROVE  Content(data) \in Payload
<1>1. Zero \in Payload
  BY DEF Zero, Payload
<1>2. data # <<>> => data[1] \in Payload
  OBVIOUS
<1> QED BY <1>1, <1>2 DEF Content

(* read_packet: what it does to the sending half by the acknowledgement,   *)
(* and which bit of the receiving half it turns.                           *)
Reads(c, pk, e) ==
    /\ ChannelOK(e)
    /\ e.out_sequence_nr = c.out_sequence_nr
    /\ e.out_reliable_state = c.out_reliable_state
    /\ HeaderOk(c, pk) => e.in_sequence_nr = pk.sequence
    /\ ~ HeaderOk(c, pk) => /\ e.in_sequence_nr = c.in_sequence_nr
                            /\ e.in_reliable_state = c.in_reliable_state
    /\ ~ Accepts(c, pk) => e = c
    /\ \A i \in Subchannel : UpdatesSubchannel(c, pk, e, i)
    /\ \A i \in Subchannel :
          \/ e.in_reliable_state[i] = c.in_reliable_state[i]
          \/ Carries(pk, i) /\ e.in_reliable_state[i] # c.in_reliable_state[i]

(* The end of read_packet: the fields of the receiving half change, and    *)
(* nothing else.                                                           *)
SameSending(h, e) ==
    /\ e.out_sequence_nr = h.out_sequence_nr
    /\ e.in_sequence_nr = h.in_sequence_nr
    /\ e.out_reliable_state = h.out_reliable_state
    /\ e.outgoing = h.outgoing
    /\ e.subchannels = h.subchannels

(* After the header only the receiving half changes. *)
LEMMA ReadFromHeader ==
    ASSUME NEW c, ChannelOK(c), NEW pk \in Packet, NEW h, ReadsHeader(c, pk, h),
           NEW e \in Channel, SameSending(h, e),
           ~ HeaderOk(c, pk) => e = h,
           \A i \in Subchannel :
              \/ e.in_reliable_state[i] = h.in_reliable_state[i]
              \/ Carries(pk, i) /\ e.in_reliable_state[i] # h.in_reliable_state[i]
    PROVE  Reads(c, pk, e)
<1>1. ChannelOK(h)
  BY DEF ReadsHeader
<1>2. Accounting(e)
  BY <1>1, AccountingSame DEF ChannelOK, SameSending
<1>3. ~ Accepts(c, pk) => ~ HeaderOk(c, pk)
  BY DEF HeaderOk
<1> QED BY <1>2, <1>3 DEF Reads, ReadsHeader, SameSending, UpdatesSubchannel, ChannelOK

(* read_packet is Reads. *)
LEMMA ReadOK ==
    ASSUME NEW c, ChannelOK(c), NEW pk \in Packet
    PROVE  /\ Reads(c, pk, ReadPacket(c, pk).channel)
           /\ SameSending(ReadHeader(c, pk), ReadPacket(c, pk).channel)
           /\ ReadPacket(c, pk).payloads \in Seq(Payload)
<1> DEFINE h == ReadHeader(c, pk)
           r == pk.reliable
           hasData == r # None /\ r.stream # None
           incoming == IF hasData THEN ReadIncomingData(h.incoming, r.stream)
                       ELSE h.incoming
           dataError == hasData
                          /\ FragmentError(Started(h.incoming, r.stream), r.stream)
           delivers == r # None /\ Complete(incoming)
           kept == [h EXCEPT !.incoming = incoming]
           read == [h EXCEPT !.incoming = incoming,
                             !.in_reliable_state[r.subchannel] = ~ @]
           done == [read EXCEPT !.incoming = None]
           e == ReadPacket(c, pk).channel
           payloads == ReadPacket(c, pk).payloads
<1>1. ReadsHeader(c, pk, h)
  BY ReadHeaderOK
<1>2. /\ \/ e = h
         \/ HeaderOk(c, pk) /\ r # None /\ e \in {kept, read, done}
      /\ payloads = <<>> \/ (delivers /\ payloads = <<Content(incoming.data)>>)
  <2> HIDE DEF h, incoming, dataError, kept
  <2>1. CASE ~ HeaderOk(c, pk)
    BY <2>1 DEF ReadPacket, h
  <2>2. CASE HeaderOk(c, pk) /\ r = None
    BY <2>2 DEF ReadPacket, h
  <2>3. CASE HeaderOk(c, pk) /\ r # None /\ dataError
    BY <2>3 DEF ReadPacket, h, incoming, dataError, kept
  <2>4. CASE HeaderOk(c, pk) /\ r # None /\ ~ dataError
    BY <2>4 DEF ReadPacket, h, incoming, dataError
  <2> QED BY <2>1, <2>2, <2>3, <2>4
<1> HIDE DEF h, e, payloads
<1>3. h \in Channel /\ h.in_reliable_state \in [Subchannel -> BOOLEAN]
      /\ h.incoming \in IncomingReliableData \cup {None}
  BY <1>1 DEF ReadsHeader, ChannelOK, Channel
<1>4. incoming \in IncomingReliableData \cup {None}
  <2>1. hasData => r.stream \in StreamData
    BY DEF Packet
  <2> QED BY <1>3, <2>1, ReadIncomingDataType
<1>5. delivers => incoming \in IncomingReliableData
  BY <1>4 DEF Complete
<1> HIDE DEF incoming
<1>6. payloads \in Seq(Payload)
  <2>1. delivers => Content(incoming.data) \in Payload
    BY <1>5, ContentType DEF IncomingReliableData
  <2> DEFINE content == Content(incoming.data)
  <2> HIDE DEF kept, read, done, delivers, content
  <2>2. payloads = <<>> \/ (delivers /\ payloads = <<content>>)
    BY <1>2 DEF content
  <2>3. delivers => content \in Payload
    BY <2>1 DEF content
  <2>4. <<>> \in Seq(Payload) /\ (content \in Payload => <<content>> \in Seq(Payload))
    OBVIOUS
  <2> QED BY <2>2, <2>3, <2>4
<1>7. kept \in Channel /\ SameSending(h, kept) /\ kept.in_reliable_state = h.in_reliable_state
  BY <1>3, <1>4 DEF Channel, SameSending
<1>8. CASE e = h
  <2>1. SameSending(h, h)
    BY DEF SameSending
  <2>2. Reads(c, pk, h)
    BY <1>1, <1>3, <2>1, ReadFromHeader
  <2> QED BY <1>6, <1>8, <2>1, <2>2 DEF e, h, payloads
<1>9. CASE HeaderOk(c, pk) /\ r # None /\ e \in {kept, read, done}
  <2>1. r.subchannel \in Subchannel
    BY <1>9 DEF Packet
  <2> DEFINE bits == [h.in_reliable_state EXCEPT ![r.subchannel] = ~ @]
  <2>2. /\ bits \in [Subchannel -> BOOLEAN]
        /\ bits[r.subchannel] # h.in_reliable_state[r.subchannel]
        /\ \A i \in Subchannel \ {r.subchannel} : bits[i] = h.in_reliable_state[i]
    BY <1>3, <2>1
  <2>3. /\ read = [h EXCEPT !.incoming = incoming, !.in_reliable_state = bits]
        /\ done = [h EXCEPT !.incoming = None, !.in_reliable_state = bits]
    BY <1>3 DEF Channel
  <2> HIDE DEF bits, read, done
  <2>4. /\ read \in Channel /\ SameSending(h, read) /\ read.in_reliable_state = bits
        /\ done \in Channel /\ SameSending(h, done) /\ done.in_reliable_state = bits
    BY <1>3, <1>4, <2>2, <2>3 DEF Channel, SameSending
  <2>5. /\ e \in Channel /\ SameSending(h, e)
        /\ e.in_reliable_state \in {h.in_reliable_state, bits}
    BY <1>7, <1>9, <2>4
  <2>6. ASSUME NEW i \in Subchannel
        PROVE  \/ e.in_reliable_state[i] = h.in_reliable_state[i]
               \/ Carries(pk, i) /\ e.in_reliable_state[i] # h.in_reliable_state[i]
    BY <1>9, <2>2, <2>5 DEF Carries
  <2>7. Reads(c, pk, e)
    BY <1>1, <1>9, <2>5, <2>6, ReadFromHeader
  <2> QED BY <1>6, <2>5, <2>7 DEF e, h, payloads
<1> QED BY <1>2, <1>8, <1>9

-----------------------------------------------------------------------------
(* The invariant *)

(* One direction: c sends data to d, and d acknowledges in acks.           *)

(* Sequence numbers grow and acknowledgements with them. *)
Numbering(c, d, acks, data) ==
    /\ c.out_sequence_nr >= 1
    /\ d.in_sequence_nr < c.out_sequence_nr
    /\ \A pk \in data : pk.sequence < c.out_sequence_nr
    /\ \A pk \in acks : pk.sequence_ack <= d.in_sequence_nr
    /\ \A pk, later \in acks :
          pk.sequence < later.sequence => pk.sequence_ack <= later.sequence_ack

(* The acknowledgements that may still be accepted. *)
Fresh(c, acks) == {pk \in acks : pk.sequence > c.in_sequence_nr}

(* The packets that carry subchannel i and may still be accepted. *)
InFlight(d, data, i) ==
    {pk \in data : /\ pk.reliable # None
                   /\ pk.reliable.subchannel = i
                   /\ pk.sequence > d.in_sequence_nr}

(* A free subchannel: both sides and all acknowledgements agree. *)
FreeAgrees(c, d, acks, data, i) ==
    /\ c.subchannels[i].send_seq_nr = -1
    /\ c.out_reliable_state[i] = d.in_reliable_state[i]
    /\ \A pk \in Fresh(c, acks) : BitAcked(c, pk, i)
    /\ InFlight(d, data, i) = {}

(* One that waits to be sent: the receiver has not seen its block, and     *)
(* none is on the way.                                                     *)
WaitingDiffers(c, d, acks, data, i) ==
    /\ c.out_reliable_state[i] # d.in_reliable_state[i]
    /\ \A pk \in Fresh(c, acks) : ~ BitAcked(c, pk, i)
    /\ InFlight(d, data, i) = {}

(* One that was sent in packet n: the receiver has not read it, or it has, *)
(* and then an acknowledgement has the new bit exactly if it has read n.   *)
SentOrReceived(c, d, acks, data, i) ==
    LET n == c.subchannels[i].send_seq_nr
    IN  /\ n >= 1 /\ n < c.out_sequence_nr
        /\ \A pk \in InFlight(d, data, i) : pk.sequence = n
        /\ \/ /\ c.out_reliable_state[i] # d.in_reliable_state[i]
              /\ \A pk \in Fresh(c, acks) : ~ BitAcked(c, pk, i)
           \/ /\ c.out_reliable_state[i] = d.in_reliable_state[i]
              /\ n <= d.in_sequence_nr
              /\ \A pk \in Fresh(c, acks) : BitAcked(c, pk, i) <=> n <= pk.sequence_ack

(* The three states of a subchannel. *)
SubchannelOK(c, d, acks, data, i) ==
    /\ c.subchannels[i].state = "Free" => FreeAgrees(c, d, acks, data, i)
    /\ c.subchannels[i].state = "WaitingToSend" =>
          WaitingDiffers(c, d, acks, data, i)
    /\ c.subchannels[i].state = "WaitingForAck" =>
          SentOrReceived(c, d, acks, data, i)

(* And all subchannels of the direction. *)
Direction(c, d, acks, data) ==
    \A i \in Subchannel : SubchannelOK(c, d, acks, data, i)

(* Everything the argument needs about one direction. *)
Half(c, d, acks, data) ==
    /\ ChannelOK(c) /\ ChannelOK(d)
    /\ acks \in SUBSET Packet /\ data \in SUBSET Packet
    /\ Numbering(c, d, acks, data)
    /\ Direction(c, d, acks, data)

(* The inductive invariant. *)
IInv ==
    /\ TypeOK
    /\ \A p \in Peer :
          Half(channel[p], channel[Other(p)], network[p], network[Other(p)])

-----------------------------------------------------------------------------
(* Types, once and for all *)

(* What the lemmas need of the type of a channel. *)
LEMMA ChannelTypes ==
    ASSUME NEW c, ChannelOK(c)
    PROVE  /\ c.out_sequence_nr \in Nat /\ c.in_sequence_nr \in Nat
           /\ c.in_reliable_state \in [Subchannel -> BOOLEAN]
           /\ c.out_reliable_state \in [Subchannel -> BOOLEAN]
           /\ \A i \in Subchannel :
                 /\ c.subchannels[i] \in SubChannel
                 /\ c.subchannels[i].send_seq_nr \in Int
                 /\ c.subchannels[i].state
                       \in {"Free", "WaitingToSend", "WaitingForAck"}
<1>1. /\ c.out_sequence_nr \in Nat /\ c.in_sequence_nr \in Nat
      /\ c.in_reliable_state \in [Subchannel -> BOOLEAN]
      /\ c.out_reliable_state \in [Subchannel -> BOOLEAN]
      /\ c.subchannels \in [Subchannel -> SubChannel]
  BY DEF ChannelOK, Channel
<1>2. ASSUME NEW i \in Subchannel
      PROVE  /\ c.subchannels[i] \in SubChannel
             /\ c.subchannels[i].send_seq_nr \in Int
             /\ c.subchannels[i].state
                   \in {"Free", "WaitingToSend", "WaitingForAck"}
  BY <1>1 DEF SubChannel
<1> QED BY <1>1, <1>2

(* What the lemmas need of the type of a packet. *)
LEMMA PacketTypes ==
    ASSUME NEW pk \in Packet
    PROVE  /\ pk.sequence \in Nat /\ pk.sequence_ack \in Nat
           /\ pk.reliable_state \in [Subchannel -> BOOLEAN]
  BY DEF Packet

-----------------------------------------------------------------------------
(* A packet that may be accepted contradicts nothing *)

(* No error return of update_outgoing_subchannels for a fresh packet. *)
LEMMA FreshAgrees ==
    ASSUME NEW c, NEW d, NEW acks, NEW data, Half(c, d, acks, data),
           NEW pk \in Fresh(c, acks), NEW i \in Subchannel
    PROVE  ~ AckError(c, pk, i)
<1> DEFINE s == c.subchannels[i]
<1>1. ChannelOK(c) /\ pk \in Packet /\ SubchannelOK(c, d, acks, data, i)
  BY DEF Half, Direction, Fresh
<1>2. pk.sequence_ack \in Nat /\ s.send_seq_nr \in Int
  BY <1>1, ChannelTypes, PacketTypes
<1>3. CASE s.state = "Free"
  BY <1>1, <1>2, <1>3 DEF SubchannelOK, FreeAgrees, AckError
<1>4. CASE s.state = "WaitingToSend"
  BY <1>1, <1>2, <1>4 DEF SubchannelOK, WaitingDiffers, AckError
<1>5. CASE s.state = "WaitingForAck"
  <2>1. c.outgoing # <<>>
    BY <1>1, <1>5 DEF ChannelOK, Accounting, Busy
  <2>2. BitAcked(c, pk, i) => s.send_seq_nr <= pk.sequence_ack
    BY <1>1, <1>5 DEF SubchannelOK, SentOrReceived
  <2> QED BY <1>2, <1>5, <2>1, <2>2 DEF AckError
<1> QED BY <1>1, <1>3, <1>4, <1>5, ChannelTypes

(* So the sequence check of read_header is the only one that refuses. *)
LEMMA AcceptsIsHeaderOk ==
    ASSUME NEW c, NEW d, NEW acks, NEW data, Half(c, d, acks, data), NEW pk \in acks
    PROVE  Accepts(c, pk) => HeaderOk(c, pk)
  BY FreshAgrees DEF Accepts, HeaderOk, Fresh

-----------------------------------------------------------------------------
(* The sender reads an acknowledgement *)

(* Acknowledged, sent again or left alone, a subchannel stays consistent:  *)
(* later acknowledgements acknowledge no less.                             *)
LEMMA AckReadSubchannel ==
    ASSUME NEW c, NEW d, NEW acks, NEW data, Half(c, d, acks, data),
           NEW pk \in acks, NEW e, Reads(c, pk, e), Accepts(c, pk),
           NEW i \in Subchannel
    PROVE  SubchannelOK(e, d, acks, data, i)
<1> DEFINE s == c.subchannels[i]
           n == s.send_seq_nr
<1>1. /\ ChannelOK(c) /\ ChannelOK(d) /\ ChannelOK(e)
      /\ acks \subseteq Packet /\ data \subseteq Packet
      /\ Numbering(c, d, acks, data) /\ SubchannelOK(c, d, acks, data, i)
  BY DEF Half, Direction, Reads
<1>2. /\ pk \in Fresh(c, acks)
      /\ e.in_sequence_nr = pk.sequence /\ e.out_sequence_nr = c.out_sequence_nr
      /\ e.out_reliable_state = c.out_reliable_state
      /\ UpdatesSubchannel(c, pk, e, i)
  BY AcceptsIsHeaderOk DEF Reads, Accepts, Fresh
<1>3. ASSUME NEW later \in Fresh(e, acks)
      PROVE  /\ later \in Fresh(c, acks)
             /\ BitAcked(e, later, i) <=> BitAcked(c, later, i)
             /\ pk.sequence_ack <= later.sequence_ack
             /\ later.sequence_ack \in Nat
  <2>1. later \in acks /\ later.sequence > pk.sequence
    BY <1>2 DEF Fresh
  <2>2. /\ later.sequence \in Nat /\ pk.sequence \in Nat /\ c.in_sequence_nr \in Nat
        /\ later.sequence_ack \in Nat
    BY <1>1, <2>1, ChannelTypes, PacketTypes
  <2>3. later \in Fresh(c, acks)
    BY <1>2, <2>1, <2>2 DEF Fresh
  <2>4. pk.sequence_ack <= later.sequence_ack
    BY <1>1, <2>1, <2>2 DEF Numbering
  <2> QED BY <1>2, <2>2, <2>3, <2>4 DEF BitAcked
<1>4. pk.sequence_ack \in Nat /\ d.in_sequence_nr \in Nat /\ n \in Int
      /\ pk.sequence_ack <= d.in_sequence_nr
  BY <1>1, ChannelTypes, PacketTypes DEF Numbering
<1>5. CASE s.state = "WaitingForAck" /\ BitAcked(c, pk, i) /\ e.subchannels[i] = FreeSubChannel
  <2>1. SentOrReceived(c, d, acks, data, i)
    BY <1>1, <1>5 DEF SubchannelOK
  <2>2. /\ c.out_reliable_state[i] = d.in_reliable_state[i]
        /\ n <= d.in_sequence_nr /\ n <= pk.sequence_ack
        /\ \A k \in Fresh(c, acks) : BitAcked(c, k, i) <=> n <= k.sequence_ack
    BY <1>2, <1>5, <2>1 DEF SentOrReceived
  <2>3. ASSUME NEW k \in InFlight(d, data, i) PROVE FALSE
    <3>1. k.sequence = n /\ k.sequence > d.in_sequence_nr
      BY <2>1 DEF SentOrReceived, InFlight
    <3> QED BY <1>4, <2>2, <3>1
  <2>4. ASSUME NEW k \in Fresh(e, acks) PROVE BitAcked(e, k, i)
    BY <1>3, <1>4, <2>2
  <2>5. e.subchannels[i].state = "Free" /\ e.subchannels[i].send_seq_nr = -1
    BY <1>5 DEF FreeSubChannel
  <2>6. e.out_reliable_state[i] = d.in_reliable_state[i]
    BY <1>2, <2>2
  <2> QED BY <2>3, <2>4, <2>5, <2>6 DEF SubchannelOK, FreeAgrees
<1>6. CASE /\ s.state = "WaitingForAck" /\ ~ BitAcked(c, pk, i)
           /\ n <= pk.sequence_ack /\ e.subchannels[i].state = "WaitingToSend"
  <2>1. SentOrReceived(c, d, acks, data, i)
    BY <1>1, <1>6 DEF SubchannelOK
  <2>2. /\ c.out_reliable_state[i] # d.in_reliable_state[i]
        /\ \A k \in Fresh(c, acks) : ~ BitAcked(c, k, i)
    BY <1>2, <1>6, <2>1 DEF SentOrReceived
  <2>3. ASSUME NEW k \in InFlight(d, data, i) PROVE FALSE
    <3>1. k.sequence = n /\ k.sequence > d.in_sequence_nr
      BY <2>1 DEF SentOrReceived, InFlight
    <3> QED BY <1>4, <1>6, <3>1
  <2>4. ASSUME NEW k \in Fresh(e, acks) PROVE ~ BitAcked(e, k, i)
    BY <1>3, <2>2
  <2>5. e.out_reliable_state[i] # d.in_reliable_state[i]
    BY <1>2, <2>2
  <2> QED BY <1>6, <2>3, <2>4, <2>5 DEF SubchannelOK, WaitingDiffers
<1>7. CASE e.subchannels[i] = c.subchannels[i]
  BY <1>1, <1>2, <1>3, <1>7
     DEF SubchannelOK, FreeAgrees, WaitingDiffers, SentOrReceived
<1> QED BY <1>2, <1>5, <1>6, <1>7 DEF UpdatesSubchannel

(* Reading an acknowledgement keeps the direction it acknowledges. *)
LEMMA AckRead ==
    ASSUME NEW c, NEW d, NEW acks, NEW data, Half(c, d, acks, data),
           NEW pk \in acks, NEW e, Reads(c, pk, e)
    PROVE  Half(e, d, acks, data)
<1>1. CASE ~ Accepts(c, pk)
  BY <1>1 DEF Reads
<1>2. CASE Accepts(c, pk)
  <2>1. ChannelOK(e) /\ e.out_sequence_nr = c.out_sequence_nr
    BY DEF Reads
  <2>2. Numbering(e, d, acks, data)
    BY <2>1 DEF Half, Numbering
  <2>3. Direction(e, d, acks, data)
    BY <1>2, AckReadSubchannel DEF Direction
  <2> QED BY <2>1, <2>2, <2>3 DEF Half
<1> QED BY <1>1, <1>2

-----------------------------------------------------------------------------
(* The receiver reads a packet                                             *)

(* Only the packet a subchannel was last sent in turns its bit, and only   *)
(* once; the acknowledgements on the way are older.                        *)
LEMMA DataReadSubchannel ==
    ASSUME NEW c, NEW d, NEW acks, NEW data, Half(c, d, acks, data),
           NEW pk \in data, NEW e, Reads(d, pk, e), HeaderOk(d, pk),
           NEW i \in Subchannel
    PROVE  SubchannelOK(c, e, acks, data, i)
<1> DEFINE n == c.subchannels[i].send_seq_nr
<1>1. /\ ChannelOK(c) /\ ChannelOK(d) /\ ChannelOK(e)
      /\ acks \subseteq Packet /\ data \subseteq Packet
      /\ Numbering(c, d, acks, data) /\ SubchannelOK(c, d, acks, data, i)
  BY DEF Half, Direction, Reads
<1>2. e.in_sequence_nr = pk.sequence /\ pk.sequence > d.in_sequence_nr
  BY DEF Reads, HeaderOk, Accepts
<1>3. /\ n \in Int /\ d.in_sequence_nr \in Nat /\ pk.sequence \in Nat
      /\ c.out_reliable_state[i] \in BOOLEAN
      /\ d.in_reliable_state[i] \in BOOLEAN /\ e.in_reliable_state[i] \in BOOLEAN
  BY <1>1, ChannelTypes, PacketTypes
<1>4. InFlight(e, data, i) \subseteq InFlight(d, data, i)
  <2>1. \A k \in data : k.sequence \in Nat
    BY <1>1, PacketTypes
  <2> QED BY <1>2, <1>3, <2>1 DEF InFlight
<1>5. c.subchannels[i].state \in {"Free", "WaitingToSend", "WaitingForAck"}
  BY <1>1, ChannelTypes
<1>6. CASE e.in_reliable_state[i] = d.in_reliable_state[i]
  BY <1>1, <1>2, <1>3, <1>4, <1>6
     DEF SubchannelOK, FreeAgrees, WaitingDiffers, SentOrReceived
<1>7. CASE Carries(pk, i) /\ e.in_reliable_state[i] # d.in_reliable_state[i]
  <2>1. pk \in InFlight(d, data, i)
    BY <1>2, <1>7 DEF Carries, InFlight
  <2>2. c.subchannels[i].state = "WaitingForAck"
    BY <1>1, <1>5, <2>1 DEF SubchannelOK, FreeAgrees, WaitingDiffers
  <2>3. SentOrReceived(c, d, acks, data, i)
    BY <1>1, <2>2 DEF SubchannelOK
  <2>4. pk.sequence = n /\ n > d.in_sequence_nr
    BY <1>2, <2>1, <2>3 DEF SentOrReceived
  <2>5. /\ c.out_reliable_state[i] # d.in_reliable_state[i]
        /\ \A k \in Fresh(c, acks) : ~ BitAcked(c, k, i)
    BY <1>3, <2>3, <2>4 DEF SentOrReceived
  <2>6. c.out_reliable_state[i] = e.in_reliable_state[i]
    BY <1>3, <1>7, <2>5
  <2>7. n <= e.in_sequence_nr
    BY <1>2, <1>3, <2>4
  <2>8. ASSUME NEW k \in Fresh(c, acks)
        PROVE  BitAcked(c, k, i) <=> n <= k.sequence_ack
    <3>1. k \in acks /\ k.sequence_ack \in Nat
      BY <1>1, PacketTypes DEF Fresh
    <3>2. k.sequence_ack <= d.in_sequence_nr
      BY <1>1, <3>1 DEF Numbering
    <3> QED BY <1>3, <2>4, <2>5, <3>1, <3>2
  <2>9. /\ n >= 1 /\ n < c.out_sequence_nr
        /\ \A k \in InFlight(e, data, i) : k.sequence = n
    BY <1>4, <2>3 DEF SentOrReceived
  <2>10. SentOrReceived(c, e, acks, data, i)
    BY <2>6, <2>7, <2>8, <2>9 DEF SentOrReceived
  <2> QED BY <2>2, <2>10 DEF SubchannelOK
<1> QED BY <1>6, <1>7 DEF Reads

(* Reading a packet keeps the direction whose data it carries. *)
LEMMA DataRead ==
    ASSUME NEW c, NEW d, NEW acks, NEW data, Half(c, d, acks, data),
           NEW pk \in data, NEW e, Reads(d, pk, e)
    PROVE  Half(c, e, acks, data)
<1>1. /\ ChannelOK(c) /\ ChannelOK(d) /\ ChannelOK(e)
      /\ acks \subseteq Packet /\ data \subseteq Packet
      /\ Numbering(c, d, acks, data) /\ Direction(c, d, acks, data)
  BY DEF Half, Reads
<1>2. CASE ~ HeaderOk(d, pk)
  <2>1. /\ e.in_sequence_nr = d.in_sequence_nr
        /\ e.in_reliable_state = d.in_reliable_state
    BY <1>2 DEF Reads
  <2>2. Numbering(c, e, acks, data)
    BY <1>1, <2>1 DEF Numbering
  <2>3. Direction(c, e, acks, data)
    BY <1>1, <2>1
       DEF Direction, SubchannelOK, FreeAgrees, WaitingDiffers, SentOrReceived, InFlight
  <2> QED BY <1>1, <2>2, <2>3 DEF Half
<1>3. CASE HeaderOk(d, pk)
  <2>1. e.in_sequence_nr = pk.sequence /\ pk.sequence > d.in_sequence_nr
    BY <1>3 DEF Reads, HeaderOk, Accepts
  <2>2. Numbering(c, e, acks, data)
    <3>1. d.in_sequence_nr \in Nat /\ pk.sequence \in Nat
      BY <1>1, ChannelTypes, PacketTypes
    <3>2. \A k \in acks : k.sequence_ack \in Nat
      BY <1>1, PacketTypes
    <3> QED BY <1>1, <2>1, <3>1, <3>2 DEF Numbering
  <2>3. Direction(c, e, acks, data)
    BY <1>3, DataReadSubchannel DEF Direction
  <2> QED BY <1>1, <2>2, <2>3 DEF Half
<1> QED BY <1>2, <1>3

-----------------------------------------------------------------------------
(* The sender writes a packet                                              *)

(* A subchannel that is filled turns its bit, and one that is sent again   *)
(* does not: no older packet of either is on the way.                      *)
LEMMA DataWriteSubchannel ==
    ASSUME NEW c, NEW d, NEW acks, NEW data, Half(c, d, acks, data),
           NEW e, NEW k, Writes(c, e, k), NEW i \in Subchannel
    PROVE  SubchannelOK(e, d, acks, data \cup {k}, i)
<1>1. /\ ChannelOK(c) /\ ChannelOK(d) /\ ChannelOK(e)
      /\ acks \subseteq Packet /\ data \subseteq Packet
      /\ Numbering(c, d, acks, data) /\ SubchannelOK(c, d, acks, data, i)
  BY DEF Half, Direction, Writes
<1>2. /\ e.out_sequence_nr = c.out_sequence_nr + 1
      /\ e.in_sequence_nr = c.in_sequence_nr
      /\ k.sequence = c.out_sequence_nr
      /\ WritesSubchannel(c, e, k, i)
  BY DEF Writes
<1>3. Fresh(e, acks) = Fresh(c, acks)
  BY <1>2 DEF Fresh
<1>4. /\ c.out_sequence_nr \in Nat /\ c.out_sequence_nr >= 1
      /\ c.subchannels[i].send_seq_nr \in Int
      /\ c.out_reliable_state[i] \in BOOLEAN /\ e.out_reliable_state[i] \in BOOLEAN
      /\ \A pk \in Fresh(c, acks) : pk.reliable_state[i] \in BOOLEAN
  BY <1>1, ChannelTypes, PacketTypes DEF Numbering, Fresh
<1>5. ~ Carries(k, i) => InFlight(d, data \cup {k}, i) = InFlight(d, data, i)
  BY DEF Carries, InFlight
<1>6. CASE /\ ~ Carries(k, i)
           /\ e.subchannels[i] = c.subchannels[i]
           /\ e.out_reliable_state[i] = c.out_reliable_state[i]
  <2>1. InFlight(d, data \cup {k}, i) = InFlight(d, data, i)
    BY <1>5, <1>6
  <2>2. \A pk : BitAcked(e, pk, i) <=> BitAcked(c, pk, i)
    BY <1>6 DEF BitAcked
  <2>3. CASE c.subchannels[i].state = "Free"
    BY <1>1, <1>3, <1>6, <2>1, <2>2, <2>3 DEF SubchannelOK, FreeAgrees
  <2>4. CASE c.subchannels[i].state = "WaitingToSend"
    BY <1>1, <1>3, <1>6, <2>1, <2>2, <2>4 DEF SubchannelOK, WaitingDiffers
  <2>5. CASE c.subchannels[i].state = "WaitingForAck"
    <3>1. SentOrReceived(c, d, acks, data, i)
      BY <1>1, <2>5 DEF SubchannelOK
    <3>2. SentOrReceived(e, d, acks, data \cup {k}, i)
      BY <1>2, <1>3, <1>4, <1>6, <2>1, <2>2, <3>1 DEF SentOrReceived
    <3> QED BY <1>6, <2>5, <3>2 DEF SubchannelOK
  <2> QED BY <1>1, <2>3, <2>4, <2>5, ChannelTypes
<1>7. ASSUME c.subchannels[i].state = "Free",
             e.out_reliable_state[i] # c.out_reliable_state[i]
      PROVE  /\ InFlight(d, data, i) = {}
             /\ e.out_reliable_state[i] # d.in_reliable_state[i]
             /\ \A pk \in Fresh(e, acks) : ~ BitAcked(e, pk, i)
  <2>1. FreeAgrees(c, d, acks, data, i)
    BY <1>1, <1>7 DEF SubchannelOK
  <2>2. ASSUME NEW pk \in Fresh(e, acks) PROVE ~ BitAcked(e, pk, i)
    <3>1. c.out_reliable_state[i] = pk.reliable_state[i]
      BY <1>3, <2>1 DEF FreeAgrees, BitAcked
    <3> QED BY <1>7, <3>1 DEF BitAcked
  <2> QED BY <1>7, <2>1, <2>2 DEF FreeAgrees
<1>8. CASE /\ ~ Carries(k, i)
           /\ c.subchannels[i].state = "Free"
           /\ e.subchannels[i].state = "WaitingToSend"
           /\ e.out_reliable_state[i] # c.out_reliable_state[i]
  BY <1>5, <1>7, <1>8 DEF SubchannelOK, WaitingDiffers
<1>9. CASE /\ e.subchannels[i].state = "WaitingForAck"
           /\ e.subchannels[i].send_seq_nr = c.out_sequence_nr
           /\ \/ /\ c.subchannels[i].state = "WaitingToSend"
                 /\ e.out_reliable_state[i] = c.out_reliable_state[i]
              \/ /\ c.subchannels[i].state = "Free"
                 /\ e.out_reliable_state[i] # c.out_reliable_state[i]
  <2>1. /\ InFlight(d, data, i) = {}
        /\ e.out_reliable_state[i] # d.in_reliable_state[i]
        /\ \A pk \in Fresh(e, acks) : ~ BitAcked(e, pk, i)
    <3>1. CASE /\ c.subchannels[i].state = "WaitingToSend"
               /\ e.out_reliable_state[i] = c.out_reliable_state[i]
      <4>1. WaitingDiffers(c, d, acks, data, i)
        BY <1>1, <3>1 DEF SubchannelOK
      <4>2. ASSUME NEW pk \in Fresh(e, acks) PROVE ~ BitAcked(e, pk, i)
        BY <1>3, <3>1, <4>1 DEF WaitingDiffers, BitAcked
      <4> QED BY <3>1, <4>1, <4>2 DEF WaitingDiffers
    <3> QED BY <1>7, <1>9, <3>1
  <2>2. \A pk \in InFlight(d, data \cup {k}, i) : pk.sequence = c.out_sequence_nr
    <3>1. ASSUME NEW pk \in InFlight(d, data \cup {k}, i) PROVE pk.sequence = c.out_sequence_nr
      <4>1. CASE pk = k
        BY <1>2, <4>1
      <4>2. CASE pk # k
        BY <2>1, <4>2 DEF InFlight
      <4> QED BY <4>1, <4>2
    <3> QED BY <3>1
  <2>3. SentOrReceived(e, d, acks, data \cup {k}, i)
    <3> DEFINE n == e.subchannels[i].send_seq_nr
    <3>1. n = c.out_sequence_nr
      BY <1>9
    <3>2. n >= 1 /\ n < e.out_sequence_nr
      BY <1>2, <1>4, <3>1
    <3>3. \A pk \in InFlight(d, data \cup {k}, i) : pk.sequence = n
      BY <2>2, <3>1
    <3> QED BY <2>1, <3>2, <3>3 DEF SentOrReceived
  <2> QED BY <1>9, <2>3 DEF SubchannelOK
<1> QED BY <1>2, <1>6, <1>8, <1>9 DEF WritesSubchannel

(* Writing a packet keeps the direction whose data it carries. *)
LEMMA DataWrite ==
    ASSUME NEW c, NEW d, NEW acks, NEW data, Half(c, d, acks, data),
           NEW e, NEW k, Writes(c, e, k)
    PROVE  Half(e, d, acks, data \cup {k})
<1>1. /\ ChannelOK(c) /\ ChannelOK(d) /\ ChannelOK(e)
      /\ acks \subseteq Packet /\ data \subseteq Packet /\ k \in Packet
      /\ Numbering(c, d, acks, data)
      /\ e.out_sequence_nr = c.out_sequence_nr + 1
      /\ k.sequence = c.out_sequence_nr
  BY DEF Half, Writes
<1>2. c.out_sequence_nr \in Nat /\ d.in_sequence_nr \in Nat
      /\ \A pk \in data : pk.sequence \in Nat
  BY <1>1, ChannelTypes, PacketTypes
<1>3. Numbering(e, d, acks, data \cup {k})
  BY <1>1, <1>2 DEF Numbering
<1>4. Direction(e, d, acks, data \cup {k})
  BY DataWriteSubchannel DEF Direction
<1> QED BY <1>1, <1>3, <1>4 DEF Half

-----------------------------------------------------------------------------
(* The receiver writes an acknowledgement                                  *)

(* Writing a packet keeps the direction it acknowledges: its numbers are   *)
(* the newest, its bits the current ones.                                  *)
LEMMA AckWrite ==
    ASSUME NEW c, NEW d, NEW acks, NEW data, Half(c, d, acks, data),
           \A pk \in acks : pk.sequence < d.out_sequence_nr,
           NEW e, NEW k, Writes(d, e, k)
    PROVE  Half(c, e, acks \cup {k}, data)
<1>1. /\ ChannelOK(c) /\ ChannelOK(d) /\ ChannelOK(e)
      /\ acks \subseteq Packet /\ data \subseteq Packet /\ k \in Packet
      /\ Numbering(c, d, acks, data) /\ Direction(c, d, acks, data)
  BY DEF Half, Writes
<1>2. /\ e.in_sequence_nr = d.in_sequence_nr
      /\ e.in_reliable_state = d.in_reliable_state
      /\ k.sequence = d.out_sequence_nr
      /\ k.sequence_ack = d.in_sequence_nr
      /\ k.reliable_state = d.in_reliable_state
  BY DEF Writes
<1>3. /\ d.out_sequence_nr \in Nat /\ d.in_sequence_nr \in Nat
      /\ \A pk \in acks : pk.sequence \in Nat /\ pk.sequence_ack \in Nat
  BY <1>1, ChannelTypes, PacketTypes
<1>4. Numbering(c, e, acks \cup {k}, data)
  <2>1. ASSUME NEW pk \in acks \cup {k}, NEW later \in acks \cup {k},
               pk.sequence < later.sequence
        PROVE  pk.sequence_ack <= later.sequence_ack
    <3>1. CASE pk = k
      BY <1>2, <1>3, <2>1, <3>1
    <3>2. CASE pk # k /\ later = k
      BY <1>1, <1>2, <3>2 DEF Numbering
    <3>3. CASE pk # k /\ later # k
      BY <1>1, <2>1, <3>3 DEF Numbering
    <3> QED BY <3>1, <3>2, <3>3
  <2>2. \A pk \in acks \cup {k} : pk.sequence_ack <= d.in_sequence_nr
    BY <1>1, <1>2, <1>3 DEF Numbering
  <2> QED BY <1>1, <1>2, <2>1, <2>2 DEF Numbering
<1>5. ASSUME NEW i \in Subchannel PROVE SubchannelOK(c, e, acks \cup {k}, data, i)
  <2>1. SubchannelOK(c, d, acks, data, i)
    BY <1>1 DEF Direction
  <2>2. InFlight(e, data, i) = InFlight(d, data, i)
    BY <1>2 DEF InFlight
  <2>3. Fresh(c, acks \cup {k}) \subseteq Fresh(c, acks) \cup {k}
    BY DEF Fresh
  <2>4. BitAcked(c, k, i) <=> c.out_reliable_state[i] = d.in_reliable_state[i]
    BY <1>2 DEF BitAcked
  <2>5. CASE c.subchannels[i].state = "Free"
    BY <1>2, <2>1, <2>2, <2>3, <2>4, <2>5 DEF SubchannelOK, FreeAgrees
  <2>6. CASE c.subchannels[i].state = "WaitingToSend"
    <3>1. WaitingDiffers(c, d, acks, data, i)
      BY <2>1, <2>6 DEF SubchannelOK
    <3>2. ~ BitAcked(c, k, i)
      BY <2>4, <3>1 DEF WaitingDiffers
    <3>3. \A pk \in Fresh(c, acks \cup {k}) : ~ BitAcked(c, pk, i)
      BY <2>3, <3>1, <3>2 DEF WaitingDiffers
    <3>4. WaitingDiffers(c, e, acks \cup {k}, data, i)
      BY <1>2, <2>2, <3>1, <3>3 DEF WaitingDiffers
    <3> QED BY <2>6, <3>4 DEF SubchannelOK
  <2>7. CASE c.subchannels[i].state = "WaitingForAck"
    <3>1. SentOrReceived(c, d, acks, data, i)
      BY <2>1, <2>7 DEF SubchannelOK
    <3>2. SentOrReceived(c, e, acks \cup {k}, data, i)
      <4> DEFINE n == c.subchannels[i].send_seq_nr
      <4>1. /\ n >= 1 /\ n < c.out_sequence_nr
            /\ \A pk \in InFlight(e, data, i) : pk.sequence = n
        BY <2>2, <3>1 DEF SentOrReceived
      <4>2. CASE /\ c.out_reliable_state[i] # d.in_reliable_state[i]
                 /\ \A pk \in Fresh(c, acks) : ~ BitAcked(c, pk, i)
        <5>1. \A pk \in Fresh(c, acks \cup {k}) : ~ BitAcked(c, pk, i)
          BY <2>3, <2>4, <4>2
        <5> QED BY <1>2, <4>1, <4>2, <5>1 DEF SentOrReceived
      <4>3. CASE /\ c.out_reliable_state[i] = d.in_reliable_state[i]
                 /\ n <= d.in_sequence_nr
                 /\ \A pk \in Fresh(c, acks) : BitAcked(c, pk, i) <=> n <= pk.sequence_ack
        <5>1. BitAcked(c, k, i) /\ n <= k.sequence_ack
          BY <1>2, <2>4, <4>3
        <5>2. \A pk \in Fresh(c, acks \cup {k}) : BitAcked(c, pk, i) <=> n <= pk.sequence_ack
          BY <2>3, <4>3, <5>1
        <5> QED BY <1>2, <4>1, <4>3, <5>2 DEF SentOrReceived
      <4> QED BY <3>1, <4>2, <4>3 DEF SentOrReceived
    <3> QED BY <2>7, <3>2 DEF SubchannelOK
  <2> QED BY <1>1, <2>5, <2>6, <2>7, ChannelTypes
<1> QED BY <1>1, <1>4, <1>5 DEF Half, Direction

-----------------------------------------------------------------------------
(* Queueing touches no subchannel                                          *)

(* Queueing at either end keeps both directions. *)
LEMMA HalfQueue ==
    ASSUME NEW c, NEW d, NEW acks, NEW data, Half(c, d, acks, data),
           NEW e, ChannelOK(e)
    PROVE  /\ SameSubchannels(c, e) => Half(e, d, acks, data)
           /\ SameSubchannels(d, e) => Half(c, e, acks, data)
<1>1. ASSUME SameSubchannels(c, e) PROVE Half(e, d, acks, data)
  <2>1. Numbering(e, d, acks, data)
    BY <1>1 DEF Half, SameSubchannels, Numbering
  <2>2. Fresh(e, acks) = Fresh(c, acks)
    BY <1>1 DEF SameSubchannels, Fresh
  <2>3. \A pk, i : BitAcked(e, pk, i) <=> BitAcked(c, pk, i)
    BY <1>1 DEF SameSubchannels, BitAcked
  <2>4. ASSUME NEW i \in Subchannel PROVE SubchannelOK(e, d, acks, data, i)
    <3>1. SubchannelOK(c, d, acks, data, i)
      BY DEF Half, Direction
    <3>2. FreeAgrees(c, d, acks, data, i) => FreeAgrees(e, d, acks, data, i)
      BY <1>1, <2>2, <2>3 DEF SameSubchannels, FreeAgrees
    <3>3. WaitingDiffers(c, d, acks, data, i) => WaitingDiffers(e, d, acks, data, i)
      BY <1>1, <2>2, <2>3 DEF SameSubchannels, WaitingDiffers
    <3>4. SentOrReceived(c, d, acks, data, i) => SentOrReceived(e, d, acks, data, i)
      BY <1>1, <2>2, <2>3 DEF SameSubchannels, SentOrReceived
    <3> QED BY <1>1, <3>1, <3>2, <3>3, <3>4 DEF SameSubchannels, SubchannelOK
  <2> QED BY <2>1, <2>4 DEF Half, Direction
<1>2. ASSUME SameSubchannels(d, e) PROVE Half(c, e, acks, data)
  <2>1. Numbering(c, e, acks, data)
    BY <1>2 DEF Half, SameSubchannels, Numbering
  <2>2. \A i : InFlight(e, data, i) = InFlight(d, data, i)
    BY <1>2 DEF SameSubchannels, InFlight
  <2>3. ASSUME NEW i \in Subchannel PROVE SubchannelOK(c, e, acks, data, i)
    <3>1. SubchannelOK(c, d, acks, data, i)
      BY DEF Half, Direction
    <3> QED BY <1>2, <2>2, <3>1
            DEF SameSubchannels, SubchannelOK, FreeAgrees, WaitingDiffers, SentOrReceived
  <2> QED BY <2>1, <2>3 DEF Half, Direction
<1> QED BY <1>1, <1>2

-----------------------------------------------------------------------------
(* The initial state *)

(* A new channel is free in every subchannel, with both bits clear. *)
LEMMA NewChannelOK ==
    LET c == NewChannel(Challenge)
    IN  /\ ChannelOK(c)
        /\ c.out_sequence_nr = 1 /\ c.in_sequence_nr = 0
        /\ \A i \in Subchannel :
              /\ c.subchannels[i] = FreeSubChannel
              /\ c.in_reliable_state[i] = FALSE /\ c.out_reliable_state[i] = FALSE
<1> DEFINE c == NewChannel(Challenge)
<1>1. c \in Channel
  <2>1. FreeSubChannel \in SubChannel
    BY DEF FreeSubChannel, SubChannel
  <2>2. [i \in Subchannel |-> FreeSubChannel] \in [Subchannel -> SubChannel]
    BY <2>1
  <2>3. [i \in Subchannel |-> FALSE] \in [Subchannel -> BOOLEAN]
    OBVIOUS
  <2>4. <<>> \in Seq(OutgoingReliableData)
    OBVIOUS
  <2>5. Challenge \in Nat
    BY PairAssumption
  <2> QED BY <2>2, <2>3, <2>4, <2>5 DEF NewChannel, Channel
<1>2. /\ c.outgoing = <<>> /\ c.out_sequence_nr = 1 /\ c.in_sequence_nr = 0
      /\ \A i \in Subchannel :
            /\ c.subchannels[i] = FreeSubChannel
            /\ c.in_reliable_state[i] = FALSE /\ c.out_reliable_state[i] = FALSE
  BY DEF NewChannel
<1> HIDE DEF c
<1>3. Busy(c) = {}
  BY <1>2 DEF Busy, FreeSubChannel
<1>4. Accounting(c)
  BY <1>2, <1>3 DEF Accounting
<1> QED BY <1>1, <1>2, <1>4 DEF ChannelOK, c

(* Two new channels and no packets. *)
LEMMA HalfInit ==
    Half(NewChannel(Challenge), NewChannel(Challenge), {}, {})
<1> DEFINE c == NewChannel(Challenge)
<1>1. /\ ChannelOK(c)
      /\ c.out_sequence_nr = 1 /\ c.in_sequence_nr = 0
      /\ \A i \in Subchannel :
            /\ c.subchannels[i] = FreeSubChannel
            /\ c.in_reliable_state[i] = FALSE /\ c.out_reliable_state[i] = FALSE
  BY NewChannelOK
<1> HIDE DEF c
<1>2. Numbering(c, c, {}, {})
  BY <1>1 DEF Numbering
<1>3. Direction(c, c, {}, {})
  <2>1. ASSUME NEW i \in Subchannel PROVE SubchannelOK(c, c, {}, {}, i)
    <3>1. c.subchannels[i].state = "Free" /\ c.subchannels[i].send_seq_nr = -1
      BY <1>1 DEF FreeSubChannel
    <3>2. Fresh(c, {}) = {} /\ InFlight(c, {}, i) = {}
      BY DEF Fresh, InFlight
    <3>3. FreeAgrees(c, c, {}, {}, i)
      BY <1>1, <3>1, <3>2 DEF FreeAgrees
    <3> QED BY <3>1, <3>3 DEF SubchannelOK
  <2> QED BY <2>1 DEF Direction
<1>4. Half(c, c, {}, {})
  BY <1>1, <1>2, <1>3 DEF Half
<1> QED BY <1>4 DEF c

-----------------------------------------------------------------------------
(* The invariant is inductive                                              *)

(* There are two peers. *)
LEMMA OtherPeer ==
    ASSUME NEW p \in Peer
    PROVE  /\ Other(p) \in Peer /\ Other(p) # p /\ Other(Other(p)) = p
           /\ \A q \in Peer : q = p \/ q = Other(p)
<1>1. PICK x \in Peer, y \in Peer : x # y /\ Peer = {x, y}
  BY PairAssumption
<1>2. ASSUME NEW q \in Peer PROVE Other(q) \in Peer /\ Other(q) # q
  BY <1>1 DEF Other
<1> QED BY <1>1, <1>2

(* The initial state satisfies the invariant. *)
LEMMA InvInit == Init => IInv
<1> SUFFICES ASSUME Init PROVE IInv
  OBVIOUS
<1>1. ChannelOK(NewChannel(Challenge))
  BY HalfInit DEF Half
<1>2. NewChannel(Challenge) \in Channel
  BY <1>1 DEF ChannelOK
<1>3. TypeOK
  BY <1>2 DEF Init, TypeOK
<1>4. ASSUME NEW p \in Peer
      PROVE  Half(channel[p], channel[Other(p)], network[p], network[Other(p)])
  BY <1>4, HalfInit, OtherPeer DEF Init
<1> QED BY <1>3, <1>4 DEF IInv

(* It is enough to look at the peer that takes a step and at the other one.*)
LEMMA BothHalves ==
    ASSUME NEW p \in Peer, TypeOK',
           Half(channel[p], channel[Other(p)], network[p], network[Other(p)])',
           Half(channel[Other(p)], channel[p], network[Other(p)], network[p])'
    PROVE  IInv'
<1>1. ASSUME NEW q \in Peer
      PROVE  Half(channel[q], channel[Other(q)], network[q], network[Other(q)])'
  <2>1. CASE q = p
    BY <2>1
  <2>2. CASE q = Other(p)
    BY <2>2, OtherPeer
  <2> QED BY <2>1, <2>2, OtherPeer
<1> QED BY <1>1 DEF IInv

(* The invariant, seen from the peer that takes a step. *)
LEMMA InvHalves ==
    ASSUME IInv, NEW p \in Peer
    PROVE  /\ Half(channel[p], channel[Other(p)], network[p], network[Other(p)])
           /\ Half(channel[Other(p)], channel[p], network[Other(p)], network[p])
           /\ ChannelOK(channel[p])
<1>1. Half(channel[p], channel[Other(p)], network[p], network[Other(p)])
  BY DEF IInv
<1>2. Half(channel[Other(p)], channel[p], network[Other(p)], network[p])
  BY OtherPeer DEF IInv
<1> QED BY <1>1, <1>2 DEF Half

(* queue_reliable_messages preserves the invariant. *)
LEMMA QueuePreserves ==
    ASSUME IInv, NEW p \in Peer, Queue(p)
    PROVE  IInv'
<1> DEFINE o == Other(p)
<1>1. o \in Peer /\ o # p
  BY OtherPeer
<1>2. PICK bytes \in TransferBytes, count \in MessageCounts :
        LET payload == [id |-> Len(queued[p]) + 1, count |-> count]
        IN  /\ channel' = [channel EXCEPT
                              ![p] = QueueReliableMessages(@, payload, bytes)]
            /\ queued' = [queued EXCEPT ![p] = Append(@, payload)]
  BY DEF Queue
<1> DEFINE payload == [id |-> Len(queued[p]) + 1, count |-> count]
           e == QueueReliableMessages(channel[p], payload, bytes)
<1>3. payload \in Payload /\ bytes \in Nat
  <2>1. Len(queued[p]) \in Nat
    BY DEF IInv, TypeOK
  <2> QED BY <2>1, PairAssumption DEF Payload
<1> HIDE DEF payload
<1>4. ChannelOK(e) /\ SameSubchannels(channel[p], e)
  BY <1>3, InvHalves, QueueOK
<1>5. /\ channel' = [channel EXCEPT ![p] = e]
      /\ queued' = [queued EXCEPT ![p] = Append(@, payload)]
      /\ network' = network /\ panicked' = panicked /\ received' = received
  BY <1>2 DEF Queue, payload
<1> HIDE DEF e
<1>6. /\ channel'[p] = e /\ channel'[o] = channel[o]
      /\ TypeOK'
  BY <1>1, <1>3, <1>4, <1>5 DEF IInv, TypeOK, ChannelOK
<1>7. Half(e, channel[o], network[p], network[o])
  BY <1>4, InvHalves, HalfQueue
<1>8. Half(channel[o], e, network[o], network[p])
  BY <1>4, InvHalves, HalfQueue
<1> QED BY <1>5, <1>6, <1>7, <1>8, BothHalves

(* write_packet preserves it. *)
LEMMA WritePreserves ==
    ASSUME IInv, NEW p \in Peer, Write(p)
    PROVE  IInv'
<1> DEFINE o == Other(p)
<1>1. o \in Peer /\ o # p
  BY OtherPeer
<1>2. PICK count \in UnreliableCounts :
        LET w == WritePacket(channel[p], count)
        IN  /\ channel' = [channel EXCEPT ![p] = w.channel]
            /\ network' = [network EXCEPT ![o] = @ \cup {w.packet}]
  BY DEF Write
<1> DEFINE e == WritePacket(channel[p], count).channel
           k == WritePacket(channel[p], count).packet
<1>3. Writes(channel[p], e, k)
  BY InvHalves, WriteOK, PairAssumption
<1>4. /\ channel' = [channel EXCEPT ![p] = e]
      /\ network' = [network EXCEPT ![o] = @ \cup {k}]
      /\ panicked' = panicked /\ queued' = queued /\ received' = received
  BY <1>2 DEF Write
<1> HIDE DEF e, k
<1>5. /\ channel'[p] = e /\ channel'[o] = channel[o]
      /\ network'[o] = network[o] \cup {k} /\ network'[p] = network[p]
      /\ TypeOK'
  BY <1>1, <1>3, <1>4 DEF IInv, TypeOK, Writes, ChannelOK
<1>6. Half(e, channel[o], network[p], network[o] \cup {k})
  BY <1>3, InvHalves, DataWrite
<1>7. Half(channel[o], e, network[o] \cup {k}, network[p])
  <2>1. Half(channel[o], channel[p], network[o], network[p])
    BY InvHalves
  <2>2. \A pk \in network[o] : pk.sequence < channel[p].out_sequence_nr
    BY InvHalves DEF Half, Numbering
  <2> QED BY <1>3, <2>1, <2>2, AckWrite
<1> QED BY <1>5, <1>6, <1>7, BothHalves

(* read_packet preserves it, whichever packet it is given. *)
LEMMA ReadPreserves ==
    ASSUME IInv, NEW p \in Peer, Read(p)
    PROVE  IInv'
<1> DEFINE o == Other(p)
<1>1. o \in Peer /\ o # p
  BY OtherPeer
<1>2. PICK pk \in network[p] :
        LET r == ReadPacket(channel[p], pk)
        IN  /\ channel' = [channel EXCEPT ![p] = r.channel]
            /\ received' = [received EXCEPT ![p] = @ \o r.payloads]
  BY DEF Read
<1> DEFINE e == ReadPacket(channel[p], pk).channel
           payloads == ReadPacket(channel[p], pk).payloads
<1>3. pk \in Packet
  BY DEF IInv, TypeOK
<1>4. Reads(channel[p], pk, e) /\ payloads \in Seq(Payload)
  BY <1>3, InvHalves, ReadOK
<1>5. /\ channel' = [channel EXCEPT ![p] = e]
      /\ received' = [received EXCEPT ![p] = @ \o payloads]
      /\ network' = network /\ panicked' = panicked /\ queued' = queued
  BY <1>2 DEF Read
<1> HIDE DEF e, payloads
<1>6. channel'[p] = e /\ channel'[o] = channel[o]
  BY <1>1, <1>5 DEF IInv, TypeOK
<1>7. TypeOK'
  <2>1. e \in Channel
    BY <1>4 DEF Reads, ChannelOK
  <2>2. channel' \in [Peer -> Channel]
    BY <1>5, <2>1 DEF IInv, TypeOK
  <2>3. received' \in [Peer -> Seq(Payload)]
    <3>1. received \in [Peer -> Seq(Payload)] /\ received[p] \in Seq(Payload)
      BY DEF IInv, TypeOK
    <3>2. received[p] \o payloads \in Seq(Payload)
      BY <1>4, <3>1
    <3> QED BY <1>5, <3>1, <3>2
  <2> QED BY <1>5, <2>2, <2>3 DEF IInv, TypeOK
<1>8. Half(e, channel[o], network[p], network[o])
  BY <1>4, InvHalves, AckRead
<1>9. Half(channel[o], e, network[o], network[p])
  BY <1>4, InvHalves, DataRead
<1> QED BY <1>5, <1>6, <1>7, <1>8, <1>9, BothHalves

(* Every step preserves the invariant. *)
LEMMA InvNext == IInv /\ [Next]_vars => IInv'
<1> SUFFICES ASSUME IInv, [Next]_vars PROVE IInv'
  OBVIOUS
<1>1. ASSUME NEW p \in Peer, Queue(p) PROVE IInv'
  BY <1>1, QueuePreserves
<1>2. ASSUME NEW p \in Peer, Write(p) PROVE IInv'
  BY <1>2, WritePreserves
<1>3. ASSUME NEW p \in Peer, Panic(p) PROVE IInv'
  <2>1. /\ UNCHANGED <<channel, network, queued, received>>
        /\ panicked' = panicked \cup {p}
    BY <1>3 DEF Panic
  <2> QED BY <2>1 DEF IInv, TypeOK
<1>4. ASSUME NEW p \in Peer, Read(p) PROVE IInv'
  BY <1>4, ReadPreserves
<1>5. CASE UNCHANGED vars
  BY <1>5 DEF vars, IInv, TypeOK
<1> QED BY <1>1, <1>2, <1>3, <1>4, <1>5 DEF Next

(* So it holds in every reachable state. *)
LEMMA Invariance == Spec => []IInv
<1> QED BY InvInit, InvNext, PTL DEF Spec

-----------------------------------------------------------------------------
(* What two netchannels rely on, whatever the network does                 *)

(* Every variable keeps its type; in particular read_packet and            *)
(* write_packet never make a counter or a sequence number negative.        *)
THEOREM TypeCorrect == Spec => []TypeOK
<1>1. IInv => TypeOK
  BY DEF IInv
<1> QED BY <1>1, Invariance, PTL

(* The error returns of update_outgoing_subchannels are unreachable: no    *)
(* loss, delay or repetition makes an acknowledgement contradict the       *)
(* sender's subchannels.                                                   *)
THEOREM AcksNeverInvalid == Spec => []NoInvalidAck
<1>1. ASSUME IInv PROVE NoInvalidAck
  <2>1. ASSUME NEW p \in Peer, NEW pk \in network[p], Accepts(channel[p], pk),
               NEW i \in Subchannel
        PROVE  ~ AckError(channel[p], pk, i)
    <3>1. pk \in Fresh(channel[p], network[p])
      BY <2>1 DEF Accepts, Fresh
    <3> QED BY <1>1, <3>1, InvHalves, FreshAgrees
  <2> QED BY <2>1 DEF NoInvalidAck
<1> QED BY <1>1, Invariance, PTL

(* A free subchannel and the receiver agree on its bit, and a waiting one  *)
(* and the receiver do not: a block is never taken for one already read.   *)
THEOREM BitsAlternate == Spec => []SubchannelAgreement
<1>1. ASSUME IInv PROVE SubchannelAgreement
  BY <1>1, InvHalves
     DEF Half, Direction, SubchannelOK, FreeAgrees, WaitingDiffers, SubchannelAgreement
<1> QED BY <1>1, Invariance, PTL

(* pending_fragments is what the busy subchannels carry, they carry        *)
(* different fragments, and no more than the transfer has was ever sent:   *)
(* the subtraction of line 343 does not wrap and the equality tests of     *)
(* lines 379 and 739 are not jumped over.                                  *)
THEOREM FragmentsAccounted == Spec => []FragmentAccounting
<1>1. ASSUME IInv PROVE FragmentAccounting
  <2>1. ASSUME NEW p \in Peer, channel[p].outgoing # <<>>,
               NEW i \in Busy(channel[p]), NEW j \in Busy(channel[p]), i # j
        PROVE  LET s == channel[p].subchannels
               IN  (s[i].start_fragment ..
                        (s[i].start_fragment + s[i].num_fragments - 1))
                     \cap (s[j].start_fragment ..
                        (s[j].start_fragment + s[j].num_fragments - 1)) = {}
    <3> DEFINE s == channel[p].subchannels
    <3>1. BlocksDisjoint(channel[p])
      BY <1>1, <2>1, InvHalves DEF ChannelOK, Accounting
    <3>2. /\ s[i].start_fragment \in Nat /\ s[i].num_fragments \in Nat
          /\ s[j].start_fragment \in Nat /\ s[j].num_fragments \in Nat
      BY <1>1, InvHalves, ChannelTypes, BusyIn DEF SubChannel
    <3>3. \/ s[i].start_fragment + s[i].num_fragments <= s[j].start_fragment
          \/ s[j].start_fragment + s[j].num_fragments <= s[i].start_fragment
      BY <2>1, <3>1 DEF BlocksDisjoint
    <3> HIDE DEF s
    <3>4. (s[i].start_fragment .. (s[i].start_fragment + s[i].num_fragments - 1))
            \cap (s[j].start_fragment .. (s[j].start_fragment + s[j].num_fragments - 1))
            = {}
      BY <3>2, <3>3
    <3> QED BY <3>4 DEF s
  <2>2. ASSUME NEW p \in Peer PROVE Accounting(channel[p])
    BY <1>1, InvHalves DEF ChannelOK
  <2> QED BY <2>1, <2>2 DEF Accounting, FragmentAccounting
<1> QED BY <1>1, Invariance, PTL

=============================================================================

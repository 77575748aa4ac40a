--------------------------- MODULE NetChannelPair ---------------------------
(***************************************************************************)
(* Two netchannels joined by UDP, as in the tests of                       *)
(* src/net/netchannel.rs and as a client and the server's Connection use   *)
(* them.  The network keeps every packet that was ever sent: reading one   *)
(* late is a delay, reading two in another order is a reordering, reading  *)
(* one twice is a duplicate, and never reading it is a loss.               *)
(***************************************************************************)
EXTENDS NetChannel

CONSTANTS
    Peer,              \* the two endpoints
    Challenge,         \* the challenge both were created with
    TransferBytes,     \* how large a batch of reliable messages may be
    MessageCounts,     \* how many messages such a batch may hold
    UnreliableCounts,  \* how many unreliable messages a packet may hold
    MaxTransfers,      \* bound: batches a peer queues
    MaxSequence,       \* bound: packets a peer writes
    RecoveryExchanges  \* packets each way that Recovery allows

ASSUME PairAssumption ==
    /\ \E x, y \in Peer : x # y /\ Peer = {x, y}
    /\ Challenge \in Nat
    /\ TransferBytes \subseteq Nat \ {0}
    /\ MessageCounts \subseteq Nat
    /\ UnreliableCounts \subseteq Nat
    /\ MaxTransfers \in [Peer -> Nat]
    /\ MaxSequence \in [Peer -> Nat]
    /\ RecoveryExchanges \in Nat

Other(p) == CHOOSE q \in Peer : q # p

VARIABLES
    channel,    \* the NetChannel of each peer
    network,    \* the packets sent to each peer so far
    panicked,   \* the peers whose task has died in write_packet
    queued,     \* history: payloads each peer has queued
    received    \* history: payloads each peer's read_packet has returned

vars == <<channel, network, panicked, queued, received>>

Init ==
    /\ channel = [p \in Peer |-> NewChannel(Challenge)]
    /\ network = [p \in Peer |-> {}]
    /\ panicked = {}
    /\ queued = [p \in Peer |-> <<>>]
    /\ received = [p \in Peer |-> <<>>]

Queue(p) ==
    /\ p \notin panicked
    /\ Len(queued[p]) < MaxTransfers[p]
    /\ \E bytes \in TransferBytes, count \in MessageCounts :
          LET payload == [id |-> Len(queued[p]) + 1, count |-> count]
          IN  /\ channel' = [channel EXCEPT
                                ![p] = QueueReliableMessages(@, payload, bytes)]
              /\ queued' = [queued EXCEPT ![p] = Append(@, payload)]
    /\ UNCHANGED <<network, panicked, received>>

Write(p) ==
    /\ p \notin panicked
    /\ channel[p].out_sequence_nr <= MaxSequence[p]
    /\ WriteAssertsHold(channel[p])
    /\ \E count \in UnreliableCounts :
          LET w == WritePacket(channel[p], count)
          IN  /\ channel' = [channel EXCEPT ![p] = w.channel]
              /\ network' = [network EXCEPT ![Other(p)] = @ \cup {w.packet}]
    /\ UNCHANGED <<panicked, queued, received>>

Panic(p) ==
    /\ p \notin panicked
    /\ channel[p].out_sequence_nr <= MaxSequence[p]
    /\ ~ WriteAssertsHold(channel[p])
    /\ panicked' = panicked \cup {p}
    /\ UNCHANGED <<channel, network, queued, received>>

Read(p) ==
    /\ p \notin panicked
    /\ \E pk \in network[p] :
          LET r == ReadPacket(channel[p], pk)
          IN  /\ channel' = [channel EXCEPT ![p] = r.channel]
              /\ received' = [received EXCEPT ![p] = @ \o r.payloads]
    /\ UNCHANGED <<network, panicked, queued>>

Next == \E p \in Peer : Queue(p) \/ Write(p) \/ Panic(p) \/ Read(p)

Spec == Init /\ [][Next]_vars

-----------------------------------------------------------------------------
(* Correctness *)

(* The values each variable ranges over. *)
TypeOK ==
    /\ channel \in [Peer -> Channel]
    /\ network \in [Peer -> SUBSET Packet]
    /\ panicked \subseteq Peer
    /\ queued \in [Peer -> Seq(Payload)]
    /\ received \in [Peer -> Seq(Payload)]

(* Between two netchannels the error returns of                            *)
(* update_outgoing_subchannels (lines 325, 340 and 354) are unreachable:   *)
(* whichever packets were lost, delayed or read twice, no packet that      *)
(* passes the sequence check contradicts the sender's subchannels.         *)
NoInvalidAck ==
    \A p \in Peer : \A pk \in network[p] :
        Accepts(channel[p], pk) =>
            \A i \in Subchannel : ~ AckError(channel[p], pk, i)

Busy(c) == {i \in Subchannel : c.subchannels[i].state # "Free"}

(* The counters of the transfer at the front agree with the subchannels:   *)
(* pending_fragments is what the busy subchannels carry, so line 343 never *)
(* underflows; they carry different fragments; and the two equality tests  *)
(* that end a transfer (lines 379 and 739) cannot be jumped over.          *)
FragmentAccounting ==
    \A p \in Peer :
        LET c == channel[p]
            front == Head(c.outgoing)
            carried(i) == c.subchannels[i].start_fragment ..
                          (c.subchannels[i].start_fragment
                             + c.subchannels[i].num_fragments - 1)
        IN  IF c.outgoing = <<>> THEN Busy(c) = {}
            ELSE /\ front.pending_fragments
                       = Cardinality(FragmentsIn(c.subchannels, Busy(c)))
                 /\ SentFragments(front) <= BytesToFragments(front.bytes)
                 /\ \A i, j \in Busy(c) :
                       i # j => carried(i) \cap carried(j) = {}

(* The receiver's acked_fragments, which line 496 only ever increases,     *)
(* counts each fragment once, and the buffer never mixes two transfers: a  *)
(* block is never written twice, although it may be sent many times.       *)
EachFragmentOnce ==
    \A p \in Peer :
        LET incoming == channel[p].incoming
        IN  incoming # None =>
              /\ incoming.acked_fragments
                    = Cardinality({k \in DOMAIN incoming.data :
                                      incoming.data[k] # Zero})
              /\ \A k, l \in DOMAIN incoming.data :
                    Zero \notin {incoming.data[k], incoming.data[l]} =>
                        incoming.data[k] = incoming.data[l]

(* The alternating bit of every subchannel: a free one agrees with the     *)
(* receiver's bit, and one that waits to be sent does not, so sending it   *)
(* again cannot deliver its block twice.                                   *)
SubchannelAgreement ==
    \A p \in Peer : \A i \in Subchannel :
        LET agree == channel[p].out_reliable_state[i]
                        = channel[Other(p)].in_reliable_state[i]
        IN  /\ channel[p].subchannels[i].state = "Free" => agree
            /\ channel[p].subchannels[i].state = "WaitingToSend" => ~ agree

Stream(p) ==
    INSTANCE ReliableStream WITH
        Batch <- [id : 1 .. MaxTransfers[p], count : MessageCounts],
        queued <- queued[p],
        received <- received[Other(p)],
        completed <- Len(queued[p]) - Len(channel[p].outgoing)

(* Each direction implements ReliableStream: reliable batches arrive whole,*)
(* once, in order, whatever the network does, and pop_completed forgets    *)
(* only what the other side has returned from read_packet.                 *)
InOrderDelivery ==
    /\ \A p \in Peer : Stream(p)!Init
    /\ [][\A p \in Peer : [Stream(p)!Next]_(Stream(p)!vars)]_vars

(* One packet from p to the other side, and nothing lost. *)
Deliver(p, channels) ==
    LET w == WritePacket(channels[p], 0)
    IN  [channels EXCEPT
            ![p] = w.channel,
            ![Other(p)] = ReadPacket(@, w.packet).channel]

(* The channels after n packets each way, starting from now. *)
Exchanges(p, n) ==
    LET after[k \in 0 .. n] ==
            IF k = 0 THEN channel ELSE Deliver(Other(p), Deliver(p, after[k-1]))
    IN  after[n]

(* No loss, delay or repetition can wedge a pair of netchannels: from any  *)
(* state, once the network delivers, RecoveryExchanges packets each way    *)
(* complete everything that was queued (the test at line 937).             *)
Recovery ==
    \A p \in Peer :
        LET after == Exchanges(p, RecoveryExchanges)
        IN  \A q \in Peer : after[q].outgoing = <<>>

-----------------------------------------------------------------------------
(* What the comments and the tests of the source say and the code does not *)
(* do.                                                                     *)

(* src/configuration.rs:26: max_reliable_packet_size is the "number of     *)
(* bytes that can be sent in a single packet of reliable data"; line 670   *)
(* panics on a block of exactly that many.                                 *)
NoPanic == panicked = {}

(* src/net/netchannel.rs:937: "reliable transfers should be received, even *)
(* on bad connections": what the sender has forgotten as acknowledged, the *)
(* receiver has returned.                                                  *)
NoAckedLoss ==
    \A p \in Peer :
        Len(queued[p]) - Len(channel[p].outgoing) <= Len(received[Other(p)])

=============================================================================

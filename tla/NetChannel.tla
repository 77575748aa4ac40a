----------------------------- MODULE NetChannel -----------------------------
(***************************************************************************)
(* One endpoint of a Source Engine network channel                         *)
(* (src/net/netchannel.rs, struct NetChannel).  The module has no          *)
(* variables: a channel is a record with the fields of the struct, and     *)
(* ReadPacket, WritePacket and QueueReliableMessages are the three public  *)
(* methods as functions from a channel to a channel.  NetChannelPair puts  *)
(* two of them at the ends of an unreliable network.                       *)
(*                                                                         *)
(* What is abstracted:                                                     *)
(*  - the bytes of a transfer are one Payload, the same in every fragment; *)
(*    a buffer remembers which payload each of its fragments came from.    *)
(*  - a batch of messages is its length: a message is NETMSG_TYPE_BITS     *)
(*    bits of type and a whole number of bytes, so the length decides      *)
(*    where the batch ends inside its last byte (see Decodes).             *)
(*  - the u8 reliable states are functions from subchannels to BOOLEAN.    *)
(*  - only stream 0: queue_reliable_messages is the one place that queues  *)
(*    data (line 804) and it queues on stream 0, so stream 1 never has a   *)
(*    front and write_outgoing_reliable_data always writes a 0 bit for it. *)
(*  - the packets of a NetChannel: every one carries the challenge (line   *)
(*    587) and none is choked or compressed, so has_seen_challenge,        *)
(*    n_choked and the "file transfer" and "compressed data" errors have   *)
(*    no effect.  A packet damaged on the way fails the checksum and       *)
(*    changes nothing: it is a packet that was lost.                       *)
(***************************************************************************)
EXTENDS Integers, Sequences, FiniteSets

CONSTANTS
    MAX_SUBCHANNELS,            \* 8 in the code
    FRAGMENT_SIZE,              \* 256 bytes in the code
    max_reliable_packet_size,   \* configuration.server, bytes
    max_packets_dropped,        \* configuration.server
    None                        \* the None of an Option, not a record

Subchannel == 0 .. (MAX_SUBCHANNELS - 1)

(* The most fragments one packet carries.  The count travels in three bits,*)
(* so the configuration must keep it between 1 and 7: nothing in the code  *)
(* checks this, and outside that range a transfer never completes.         *)
MaxSendFragments == max_reliable_packet_size \div FRAGMENT_SIZE

ASSUME ConfigurationAssumption ==
    /\ MAX_SUBCHANNELS \in Nat \ {0}
    /\ FRAGMENT_SIZE \in Nat \ {0}
    /\ max_reliable_packet_size \in Nat
    /\ MaxSendFragments \in 1..7
    /\ max_packets_dropped \in Nat

-----------------------------------------------------------------------------
(* Bits.  Only positions modulo 8 matter, for the padding of the last byte.*)

NETMSG_TYPE_BITS == 6
MAX_FILE_SIZE_BITS == 26
FRAGMENT_BITS == 8

(* Does a batch of `count' messages that starts `offset' bits into its     *)
(* buffer decode?  byte_align pads the last byte with zero bits; when six  *)
(* or more are left the reader takes them for one more message, of type 0, *)
(* which Message::read does not know.                                      *)
Decodes(offset, count) ==
    (-(offset + count * NETMSG_TYPE_BITS)) % 8 < NETMSG_TYPE_BITS

-----------------------------------------------------------------------------
(* Data *)

(* id identifies the transfer (0 is the zeroed memory of a new buffer and  *)
(* of a mix of transfers), count is how many messages it holds.            *)
Payload == [id : Nat, count : Nat]
Zero == [id |-> 0, count |-> 0]

BytesToFragments(bytes) == (bytes + FRAGMENT_SIZE - 1) \div FRAGMENT_SIZE

OutgoingReliableData ==
    [payload : Payload, bytes : Nat,
     acked_fragments : Nat, pending_fragments : Int]

(* data[k] is the payload that fragment k - 1 came from. *)
IncomingReliableData ==
    [acked_fragments : Nat, bytes : Nat, data : Seq(Payload)]

SubChannel ==
    [state : {"Free", "WaitingToSend", "WaitingForAck"},
     start_fragment : Nat, num_fragments : Nat, send_seq_nr : Nat \cup {-1}]

FreeSubChannel ==
    [state |-> "Free", start_fragment |-> 0, num_fragments |-> 0,
     send_seq_nr |-> -1]

Channel ==
    [out_sequence_nr : Nat, out_sequence_nr_ack : Nat, in_sequence_nr : Nat,
     challenge : Nat,
     in_reliable_state : [Subchannel -> BOOLEAN],
     incoming : IncomingReliableData \cup {None},
     out_reliable_state : [Subchannel -> BOOLEAN],
     outgoing : Seq(OutgoingReliableData),
     subchannels : [Subchannel -> SubChannel]]

NewChannel(challenge) ==
    [out_sequence_nr |-> 1, out_sequence_nr_ack |-> 0, in_sequence_nr |-> 0,
     challenge |-> challenge,
     in_reliable_state |-> [i \in Subchannel |-> FALSE],
     incoming |-> None,
     out_reliable_state |-> [i \in Subchannel |-> FALSE],
     outgoing |-> <<>>,
     subchannels |-> [i \in Subchannel |-> FreeSubChannel]]

(* What a packet says about stream 0, and a packet. *)
StreamData ==
    [single_block : BOOLEAN, start_fragment : Nat, num_fragments : Nat,
     bytes : Nat, payload : Payload]

Packet ==
    [sequence : Nat, sequence_ack : Nat, challenge : Nat,
     reliable_state : [Subchannel -> BOOLEAN],
     reliable : [subchannel : Subchannel, stream : StreamData \cup {None}]
                    \cup {None},
     messages : Nat]

(* None is what an Option has instead of a value. *)
ASSUME NoneAssumption ==
    None \notin StreamData \cup IncomingReliableData
                  \cup [subchannel : Subchannel, stream : StreamData]

-----------------------------------------------------------------------------
(* Sending *)

(* find_subchannel: the lowest subchannel in a state, as a set that holds  *)
(* it, or nothing.                                                         *)
FindSubchannel(c, state) ==
    {i \in Subchannel : /\ c.subchannels[i].state = state
                        /\ \A j \in 0 .. (i-1) : c.subchannels[j].state # state}

QueueReliableMessages(c, payload, bytes) ==
    [c EXCEPT !.outgoing =
        Append(@, [payload |-> payload, bytes |-> bytes,
                   acked_fragments |-> 0, pending_fragments |-> 0])]

(* Mutant: only what is acknowledged counts as sent. *)
SentFragmentsAcked(stream) == stream.acked_fragments

SentFragments(stream) == stream.acked_fragments + stream.pending_fragments

(* Fill the lowest free subchannel with the next fragments of the transfer *)
(* at the front, if it has any left to send.                               *)
FillOutgoingSubchannel(c) ==
    IF \/ FindSubchannel(c, "Free") = {}
       \/ c.outgoing = <<>>
       \/ SentFragments(Head(c.outgoing))
             = BytesToFragments(Head(c.outgoing).bytes)
    THEN c
    ELSE LET i == CHOOSE j \in FindSubchannel(c, "Free") : TRUE
             sent == SentFragments(Head(c.outgoing))
             left == BytesToFragments(Head(c.outgoing).bytes) - sent
             n == IF left < MaxSendFragments THEN left ELSE MaxSendFragments
         IN  [c EXCEPT
                !.outgoing[1].pending_fragments = @ + n,
                !.out_reliable_state[i] = ~ @,
                !.subchannels[i] = [state |-> "WaitingToSend",
                                    start_fragment |-> sent,
                                    num_fragments |-> n,
                                    send_seq_nr |-> 0]]

(* The bytes of fragments start .. start+num-1 of a transfer, less what    *)
(* the last fragment does not fill.                                        *)
Length(start, num, bytes) ==
    num * FRAGMENT_SIZE
      - IF start + num = BytesToFragments(bytes) /\ (bytes % FRAGMENT_SIZE) # 0
        THEN FRAGMENT_SIZE - (bytes % FRAGMENT_SIZE)
        ELSE 0

(* What is written for stream 0 when subchannel i is sent.  Only a header  *)
(* (a single block, or the block that starts at fragment 0) has the size.  *)
StreamOf(c, i) ==
    LET s == c.subchannels[i]
        front == Head(c.outgoing)
        single == s.num_fragments = BytesToFragments(front.bytes)
    IN  IF c.outgoing = <<>> THEN None
        ELSE [single_block |-> single,
              start_fragment |-> s.start_fragment,
              num_fragments |-> s.num_fragments,
              bytes |-> IF single \/ s.start_fragment = 0 THEN front.bytes ELSE 0,
              payload |-> front.payload]

(* The three assertions on a single block.  They fail in a debug and in a  *)
(* release build, and the panic ends the task that called write_packet.    *)
WriteAssertsHold(c) ==
    LET f == FillOutgoingSubchannel(c)
    IN  \A i \in FindSubchannel(f, "WaitingToSend") :
            LET d == StreamOf(f, i)
                length == Length(d.start_fragment, d.num_fragments, d.bytes)
            IN  (d # None /\ d.single_block) =>
                    /\ length = d.bytes
                    /\ length < max_reliable_packet_size
                    /\ d.start_fragment = 0

(* write_packet: fill a free subchannel, send the lowest one that waits,   *)
(* and add `count' unreliable messages.                                    *)
WritePacket(c, count) ==
    LET f == FillOutgoingSubchannel(c)
        ready == FindSubchannel(f, "WaitingToSend")
        i == CHOOSE j \in ready : TRUE
        sent == IF ready = {} \/ f.outgoing = <<>> THEN f
                ELSE [f EXCEPT !.subchannels[i].state = "WaitingForAck",
                               !.subchannels[i].send_seq_nr = f.out_sequence_nr]
    IN  [channel |-> [sent EXCEPT !.out_sequence_nr = @ + 1],
         packet |->
            [sequence |-> f.out_sequence_nr,
             sequence_ack |-> f.in_sequence_nr,
             challenge |-> f.challenge,
             reliable_state |-> f.in_reliable_state,
             reliable |-> IF ready = {} THEN None
                          ELSE [subchannel |-> i, stream |-> StreamOf(f, i)],
             messages |-> count]]

-----------------------------------------------------------------------------
(* Receiving: the header *)

(* Mutant: packets may arrive in any order. *)
AcceptsOutOfOrder(c, pk) == pk.challenge = c.challenge

(* The checks of read_header that leave the channel alone: an old or       *)
(* repeated sequence number, a foreign challenge, too long a gap.          *)
Accepts(c, pk) ==
    /\ pk.challenge = c.challenge
    /\ pk.sequence > c.in_sequence_nr
    /\ pk.sequence - (c.in_sequence_nr + 1) <= max_packets_dropped

BitAcked(c, pk, i) == c.out_reliable_state[i] = pk.reliable_state[i]

(* The error returns of update_outgoing_subchannels for subchannel i.      *)
AckError(c, pk, i) ==
    LET s == c.subchannels[i]
    IN  \/ /\ BitAcked(c, pk, i)
           /\ \/ s.send_seq_nr > pk.sequence_ack
              \/ /\ s.state = "WaitingForAck"
                 /\ s.num_fragments # 0
                 /\ c.outgoing = <<>>
        \/ /\ ~ BitAcked(c, pk, i)
           /\ s.send_seq_nr <= pk.sequence_ack
           /\ s.state = "Free"

(* The loop stops at the first error, and keeps what it did before it.     *)
Visited(c, pk) ==
    {i \in Subchannel : \A j \in 0 .. i : ~ AckError(c, pk, j)}

(* Mutants: a sequence number is taken for an acknowledgement of the block *)
(* it carried; a block the remote missed is sent again at once, or never.  *)
AckedBySequence(c, pk) ==
    {i \in Visited(c, pk) : /\ c.subchannels[i].send_seq_nr <= pk.sequence_ack
                            /\ c.subchannels[i].state = "WaitingForAck"}

DroppedTooSoon(c, pk) ==
    {i \in Visited(c, pk) : /\ ~ BitAcked(c, pk, i)
                            /\ c.subchannels[i].state = "WaitingForAck"}

DroppedNever(c, pk) == {}

(* Subchannels the remote has received, and those it has missed. *)
AckedSubchannels(c, pk) ==
    {i \in Visited(c, pk) : /\ BitAcked(c, pk, i)
                            /\ c.subchannels[i].state = "WaitingForAck"}

DroppedSubchannels(c, pk) ==
    {i \in Visited(c, pk) : /\ ~ BitAcked(c, pk, i)
                            /\ c.subchannels[i].send_seq_nr <= pk.sequence_ack
                            /\ c.subchannels[i].state = "WaitingForAck"}

(* The fragments that subchannels in I carry, each with its subchannel: as *)
(* many as the sum of their num_fragments.                                 *)
FragmentsIn(subchannels, I) ==
    UNION {{i} \X (0 .. (subchannels[i].num_fragments - 1)) : i \in I}

UpdateOutgoingSubchannels(c, pk) ==
    LET acked == AckedSubchannels(c, pk)
        dropped == DroppedSubchannels(c, pk)
        n == Cardinality(FragmentsIn(c.subchannels, acked))
        counted == [c.outgoing EXCEPT ![1].acked_fragments = @ + n,
                                      ![1].pending_fragments = @ - n]
    IN  [c EXCEPT
           !.outgoing = IF c.outgoing = <<>> THEN <<>> ELSE counted,
           !.subchannels = [i \in Subchannel |->
                CASE i \in acked   -> FreeSubChannel
                  [] i \in dropped -> [@[i] EXCEPT !.state = "WaitingToSend"]
                  [] OTHER         -> @[i]]]

(* Mutant: a transfer is over when its last fragment has been sent. *)
PopSentTransfers(c) ==
    IF /\ c.outgoing # <<>>
       /\ SentFragments(Head(c.outgoing))
             = BytesToFragments(Head(c.outgoing).bytes)
    THEN [c EXCEPT !.outgoing = Tail(@)]
    ELSE c

PopCompletedOutgoingTransfers(c) ==
    IF /\ c.outgoing # <<>>
       /\ Head(c.outgoing).acked_fragments
             = BytesToFragments(Head(c.outgoing).bytes)
    THEN [c EXCEPT !.outgoing = Tail(@)]
    ELSE c

HeaderOk(c, pk) ==
    /\ Accepts(c, pk)
    /\ \A i \in Subchannel : ~ AckError(c, pk, i)

(* read_header, with the effect it has when it returns an error.           *)
ReadHeader(c, pk) ==
    IF HeaderOk(c, pk)
    THEN PopCompletedOutgoingTransfers(
            [UpdateOutgoingSubchannels(c, pk) EXCEPT
                !.in_sequence_nr = pk.sequence,
                !.out_sequence_nr_ack = pk.sequence_ack])
    ELSE IF Accepts(c, pk) THEN UpdateOutgoingSubchannels(c, pk) ELSE c

-----------------------------------------------------------------------------
(* Receiving: the data *)

NewIncoming(bytes) ==
    [acked_fragments |-> 0, bytes |-> bytes,
     data |-> [k \in 1 .. BytesToFragments(bytes) |-> Zero]]

(* A block that starts at fragment 0 is a header: it replaces the transfer *)
(* that was being received, before any check.                              *)
Started(incoming, d) ==
    IF d.start_fragment = 0 THEN NewIncoming(d.bytes) ELSE incoming

NumFragments(d) ==
    IF d.single_block THEN BytesToFragments(d.bytes) ELSE d.num_fragments

FragmentError(incoming, d) ==
    \/ incoming = None
    \/ d.start_fragment + NumFragments(d) > BytesToFragments(incoming.bytes)

(* Mutant: the fragments that are missing are counted, from zero. *)
WriteFragmentsCountingDown(incoming, d) ==
    [incoming EXCEPT !.acked_fragments = @ - NumFragments(d)]

WriteFragments(incoming, d) ==
    LET n == NumFragments(d)
    IN  [incoming EXCEPT
           !.acked_fragments = @ + n,
           !.data = [k \in DOMAIN @ |->
                IF k \in (d.start_fragment + 1) .. (d.start_fragment + n)
                THEN d.payload ELSE @[k]]]

(* read_incoming_subchannel_data: the transfer afterwards.                 *)
ReadIncomingData(incoming, d) ==
    LET started == Started(incoming, d)
    IN  IF FragmentError(started, d) THEN started
        ELSE WriteFragments(started, d)

(* What a buffer holds: one payload, or bytes that never were one. *)
Content(data) ==
    LET first == IF data # <<>> THEN data[1] ELSE Zero
    IN  IF \A k \in DOMAIN data : data[k] = first THEN first ELSE Zero

Complete(incoming) ==
    /\ incoming # None
    /\ incoming.acked_fragments >= BytesToFragments(incoming.bytes)

ReliableError(incoming) ==
    /\ Complete(incoming)
    /\ \/ incoming.acked_fragments > BytesToFragments(incoming.bytes)
       \/ ~ Decodes(0, Content(incoming.data).count)

(* How far into its last byte the reliable part of a packet reaches: the   *)
(* subchannel, a bit per stream, the block's header; its data is whole     *)
(* bytes.                                                                  *)
ReliableBits(r) ==
    IF r = None THEN 0
    ELSE 3 + 2 + IF r.stream = None THEN 0
                 ELSE IF r.stream.single_block THEN 1 + 1
                 ELSE 1 + (MAX_FILE_SIZE_BITS - FRAGMENT_BITS) + 3
                        + IF r.stream.start_fragment = 0
                          THEN 2 + MAX_FILE_SIZE_BITS ELSE 0

-----------------------------------------------------------------------------
(* read_packet: the channel afterwards, and the payload of the reliable    *)
(* messages it returns, if any.  Every error return drops the messages     *)
(* that were read before it.                                               *)
ReadPacket(c, pk) ==
    LET h == ReadHeader(c, pk)
        r == pk.reliable
        hasData == r # None /\ r.stream # None
        incoming == IF hasData THEN ReadIncomingData(h.incoming, r.stream)
                    ELSE h.incoming
        dataError == hasData
                       /\ FragmentError(Started(h.incoming, r.stream), r.stream)
        delivers == r # None /\ Complete(incoming)
        failed(channel) == [channel |-> channel, payloads |-> <<>>]
        received == [h EXCEPT !.incoming = incoming,
                              !.in_reliable_state[r.subchannel] = ~ @]
    IN  IF ~ HeaderOk(c, pk) THEN failed(h)
        ELSE IF r # None /\ dataError THEN failed([h EXCEPT !.incoming = incoming])
        ELSE IF r # None /\ ReliableError(incoming) THEN failed(received)
        ELSE [channel |-> IF r = None THEN h
                          ELSE IF delivers THEN [received EXCEPT !.incoming = None]
                          ELSE received,
              payloads |-> IF delivers /\ Decodes(ReliableBits(r), pk.messages)
                           THEN <<Content(incoming.data)>> ELSE <<>>]

=============================================================================

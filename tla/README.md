# Verification of quickplay-server

`quickplay-server` is a UDP server that speaks the Source engine's network
protocol. A game client connects to it as to a game server, sends its
preferences as convars, and is told to `redirect` to the best server of a list
that is refreshed in the background. This directory holds TLA+ models of it,
TLC configurations that check them on small instances, and proofs about them
that TLAPS checks. File names are relative to the repository; line numbers are
of the commit the models were written from.

## The system

| Component | Source | State | Operations |
|---|---|---|---|
| Netchannel | `src/net/netchannel.rs` | sequence numbers, two bytes of reliable state, eight outgoing subchannels, a queue of outgoing transfers, an incoming transfer | `read_packet`, `write_packet`, `queue_reliable_messages` |
| Connection life cycle | `src/main.rs` (`Server`, `Connection`) | map of connections, a token and a packet channel per connection | datagram loop, `create_connection`, `background_worker`, `remove_dead_connection` |
| Message dispatch | `src/main.rs` `Connection::handle_packet` | the session's preferences, the channel's queue | `SignonState`, `SetConVars`, `Disconnect` |
| Handshake and queries | `src/net/connectionless.rs` | none: the challenge is a hash of the address | challenge, connect, A2S_INFO |
| Quickplay session | `src/quickplay/session.rs` | preferences | decode preferences, filter, score, choose |
| Quickplay global | `src/quickplay/global.rs` | the list of servers | refresh every ten seconds, read |
| Codec | `src/net/message.rs`, `src/io_util.rs` | none | messages, strings, varints |
| Raw packets | `src/net/packet.rs` | none | classify, decompress |
| Configuration | `src/configuration.rs` | constants | load |

How they interact. The server task reads datagrams one at a time
(`Server::run`). A completed handshake makes `create_connection` spawn a worker
and a reaper and then insert the connection into the map, under a lock it has to
wait for; a datagram for a netchannel is passed through an unbounded channel to
the worker that the map holds for the address. Every `connection_update_delay`
the worker takes one packet, gives it to its netchannel, acts on the messages
that come out, and writes one packet. The reaper waits for the token or the
timeout, cancels the token, and removes the entry of the address. The session
reads the list of servers under a read lock that the refresh takes for writing.

What is hard. The network loses, delays, reorders and repeats packets, and the
netchannel's acknowledgement is split between an alternating bit per
subchannel and a sequence number per packet. Tasks of two connections of one
client run at once and share the map. A worker looks at its token once in an
iteration. Errors return from the middle of `read_packet`, after part of the
state has changed. `PROJECT.json` lists each of these at its line, with the
properties that watch it.

What makes each component correct:

- netchannel: each direction is a reliable FIFO stream of batches over a network
  that is not; counters are exact; no legal history reaches an error return or a
  panic; a bad network never wedges it.
- connections: a client's packets go to its newest connection; a live connection
  stays reachable; every worker ends and every entry goes.
- handshake: nobody is connected at an address that did not hear its challenge;
  whoever is told it is connected has a connection; every attempt is answered.
- dispatch: each message handled once and in order, each sign-on answered with
  the best server of one whole list, under the preferences set before it.
- session: the preference asked for last counts; the score is bounded, peaks at
  the ideal count, and keeps a party away from a server without room for it.
- global: the list is what two files said that were on disk; a failed refresh
  keeps the last good list, and the list catches up with the files.
- codec: what is written is read back, and the reader stands where the next
  message begins.

## Modules

| Module | What it is |
|---|---|
| `NetChannel` | one netchannel, as functions from records to records |
| `NetChannelPair` | two netchannels over an unreliable network |
| `ReliableStream` | the abstract specification each direction implements |
| `NetChannelPair_proofs` | what each method does to one channel; theorems about `NetChannelPair`: bits, numbers, counters |
| `NetChannelDelivery_proofs` | theorems about `NetChannelPair`: what is delivered; the refinement of `ReliableStream` |
| `NetChannelRecovery_proofs` | theorems about `NetChannelPair`: no state is wedged |
| `ConnectionMap` | the map of connections without tasks: abstract |
| `Connections` | server, workers, reapers, tokens, channels; implements `ConnectionMap` |
| `Connections_proofs` | theorems about `Connections`, the refinement among them |
| `RawPacket` | what a datagram is classified as |
| `Handshake` | requests, server task, moving clients, over `ConnectionMap` and `RawPacket` |
| `Handshake_proofs` | theorems about `Handshake` |
| `Reconnect` | one client that connects twice, over `NetChannel` |
| `QuickplayFiles` | what parsing keeps of the schema and the server list |
| `QuickplayGlobal` | the list, its lock, the refresh, the programs that write the files |
| `QuickplaySession` | preferences, filter, score, choice: functions |
| `QuickplaySession_proofs` | theorems and lemmas about them |
| `Matchmaking` | what a client that signs on is promised: abstract |
| `Dispatch` | the workers' `handle_packet`, over the two above; implements `Matchmaking` |
| `Dispatch_proofs` | theorems about `Dispatch`, the refinement among them |
| `Codec` | strings, varints, messages: functions |
| `MCFunctions` | the functions of `QuickplaySession` and `Codec` against references |
| `MCFunctions_proofs` | theorems about these functions |
| `MCNetChannelPair`, `MCConnections`, `MCHandshake`, `MCReconnect`, `MCDispatch` | instances for TLC |

Definitions whose comment begins with "Mutant" are plausible mistakes. No
specification uses them: a property is known to watch the code because it fails
when such a definition takes the place of the one below it.

### NetChannel and NetChannelPair

A channel is a record with the fields of `struct NetChannel`. `ReadPacket`,
`WritePacket` and `QueueReliableMessages` are its three methods; each is composed
of operators named after the functions it calls (`ReadHeader`,
`UpdateOutgoingSubchannels`, `PopCompletedOutgoingTransfers`,
`FillOutgoingSubchannel`, ...). Every error return keeps what the code did before
it: `Visited` is where the loop over subchannels stopped, `ReadPacket` has one
alternative for each of its `?`.

Data is abstracted. All the fragments of a batch carry one payload, its identity
and the number of its messages; the receiver's buffer remembers the payload of
each fragment, so a mixed or incomplete buffer is told from a good one. A
message is six bits of type and a whole number of bytes, so the number of
messages decides how many bits pad the last byte; `Decodes` is the reader's loop
as a function of that number. Sizes are bytes, so the adjusted length of the last
fragment and the assertions on it are as in the code.

`NetChannelPair` keeps every packet ever sent in a set, from which `Read` takes
any: reading late is a delay, not at all a loss, again a repetition. A packet
damaged on the way fails the checksum and is a lost packet. `Panic` is a failed
assertion in `write_packet`: the task ends. `queued` and `received` are history
variables.

### ConnectionMap and Connections

`ConnectionMap` says what the tasks of the server may do to the map: make a
connection, insert it, empty the entry of an address once for each connection of
it. `Connections` has one action for each step a task makes between two points
at which others can run. `CreateConnection` and `Insert` are the two halves of
`create_connection`, with the wait for the lock between them;
`Continue`/`Stop`, `Receive` and `Send`/`Panic` are a worker's iteration;
`Timeout`, `Cancelled` and `Remove` are the reaper's. Connections are numbered in
the order they are made, so "newest" is the largest number.

### Handshake and RawPacket

The server keeps nothing between two datagrams but the map: the challenge is a
function of the address. `HandlePacket` is `handle_packet` of the server up to
the reply, `Create` and `InsertConnection` the rest of it: S2C_CONNECTION is on its
way before there is a connection. `ProcessConnectionlessPacket` and its three
handlers are functions of a request and an address, with an alternative for
each early return. The network keeps every datagram. A client browses (asks
twice, as the code makes it), connects, gives up, asks again, and may `Move` to
an address another client had; a reply is its own only when the client challenge
is that of its current attempt. `RawPacket` classifies a datagram and opens a
compressed one; the packet inside is not opened again.

### Reconnect

The client's netchannel, and one netchannel for each connection of its address,
all of one challenge. The worker of a replaced connection goes on with what it
was passed before. The end of a worker and a reaper that empties the entry need
no action: they are the same as no more steps and as loss. What the server
replies is left out; its packets acknowledge, and that is enough.

### QuickplayFiles, QuickplayGlobal, QuickplaySession

A file is known by the number of its version; a version that cannot be decoded
(missing, or read while it was written) is `None`. `UpdateSchema`,
`UpdateServerInfo`, `ReplaceServers` and `Wake` are the steps of the refresh, the
first two of which may fail; a schema lives for one refresh only. `AcquireRead`
is tokio's fair lock: no search may start while the refresh waits for it.

`UpdatePreferences` is the loop over convars, which ends at the first that is
refused and keeps what came before it. `FilterServer`, `ScoreServer` and `Better`
are the filter, the score and one turn of `find_server`'s loop. Scores are whole
thousandths, an interpolation is rounded down to one; the counts it is made of
are exact, as they are in f32. Facts the models brought out, none of which a
document contradicts:

- the score never divides by zero (`KnotsNeverCoincide`): where two knots
  coincide, no count lies between them. For three or four seats the low and the
  ideal knot coincide; above 24 seats the knots are out of order.
- `NoRoomIsCostly` compares with a single player: a server that is full even for
  one more player loses nothing for a party, both scores being the penalty.
- `class_restrictions` of "limits" asks for the tag of class *bans*.
- an empty value keeps an earlier preference and does not reset it. The comment at
  `session.rs:247-249`, an empty value "will be treated as if it doesn't exist", can
  be read either way, of the convar or of the setting; `LastSettingWins` takes the
  first reading, which is the code's, and so cannot tell whether the second was meant.

### Dispatch and Matchmaking

In `Matchmaking` a client's message is handled in one step; a sign-on is answered
with the first of the best servers of the list of that moment, or a refusal;
the list is replaced as a whole by what two files say that were on disk since
the last replacement. `Dispatch` is the code: the worker looks at its token once
in a packet, handles one message after the other, waits for the lock, looks at
one server at a time, and queues the answer when it gives the lock back; the
refresh reads two files, one after the other. A packet is the sequence of
messages `read_packet` returned. `queue_reliable_messages` cannot fail for the
two messages `handle_packet` makes. A Disconnect cancels the token, and the
messages after it in the packet are still handled; a sign-on after a refusal is
still answered. So `Matchmaking` does not promise that a refusal is the last reply:
that is `DisconnectIsLast`, which the run `refusal_is_not_last` shows to fail.

### Codec and MCFunctions

Readers are functions from the bytes that are left to a value and the rest. Two
of the letters a string may have are the halves of one character, so that a limit
can cut it. `MCFunctions` is a specification whose states are about one of four
things (a session told its preferences, a server that fills and empties, the
strings of a message, a number), each compared with a reference definition that
is not the code's: the last accepted setting of each preference for the loop,
"shorter than the limit" for the strings.

## Runs

| Run | Instance | Shows |
|---|---|---|
| `pair_one_way` | two subchannels, one fragment in a packet, two transfers of one and four fragments in any combination, 5 and 3 packets; more than one packet missed is a refusal for good; a transfer of two bytes ends the sender | delivery whole, once and in order (`InOrderDelivery`, refinement of `ReliableStream`), the alternating bits (`SubchannelAgreement`), no contradictory acknowledgement (`NoInvalidAck`), exact counters on both sides (`FragmentAccounting`, `EachFragmentOnce`) |
| `pair_both_ways` | a transfer of three fragments each way, two in a packet, 4 and 3 packets, each with data and acknowledgements | `NoInvalidAck`, `InOrderDelivery`, and from every reachable state, five packets each way without loss complete all transfers (`Recovery`): no state is wedged. Five is the bound of the theorem `NeverWedged`, one per fragment and two. Stated by computing the exchange from each state |
| `connections` | two clients, two connections, two packets in a channel | `EntryIsNewest`, `RoutedUntilReaped`, `AtMostOneLatePacket`, `ImplementsMap`, `WorkersEnd`, `CancelledLeaveMap` |
| `handshake` | one client that compresses, browses, connects twice and moves once between two addresses; two connections | `ChallengeFirst`, `AcceptedIsRouted`, `AttemptsEnd` |
| `dispatch` | two clients, one packet each; a schema that is then torn, a list that is missing, then has four servers, then three | `SearchInBounds`, `Matches` (refinement of `Matchmaking`), `SignonAnswered`, `ListCatchesUp` |
| `pure_functions` | two messages of up to two convars of eleven; all maxima of a byte and nine party sizes; up to four strings of up to four bytes around limits of 2, 3 and 4; all numbers of ten bits in groups of three | `LastSettingWins`, `KnotsApart`, `ScoreBounded`, `PeaksAtIdeal`, `NoRoomCosts`, `MessagesSurvive`, `NumbersSurvive` |

Each state machine's type invariant (`TypeOK`) is checked by one of its runs. Beyond
the ranges of the variables it says, in `Connections`, that every connection created
has its worker and its reaper; in `Handshake`, that every reply to an attempt echoes
the challenge of an attempt; in `Dispatch`, that the lock is held for reading by the
workers that search and by no other.

Bounds of the netchannel. Two subchannels of the eight: a transfer of four blocks
reuses each. Fragments of two bytes: a last fragment may be short. One packet may be
missed in `pair_one_way`, so that two that are lost in a row end the channel there;
in `pair_both_ways` none is refused for that, since `Recovery` cannot hold after it
(`RecoversWithinReach`). `MaxSequence`
bounds the packets each peer writes: the client's four or five are the packets of
a transfer and a loss with its resend; the server's three are an acknowledgement
for each stage. In `connections` and `handshake` two connections are a connection
and its replacement, which is where the hazards are; a third repeats the second,
and the theorems have any number. In `handshake` two addresses and a move give
every stale challenge; several clients are in the theorems. In `dispatch` the
second list is shorter than the first, so an index into the wrong one is out of
bounds, and each list has ties, a full server, an unknown map and entries that do
not parse. A varint of ten bits in groups of three has, as 32 bits in groups of
seven, a last byte with bits the number has not.

Checks for deadlock are off because the bounds end every behaviour, and because a
server whose clients are gone waits for ever.

Fairness. `Connections`: tokio polls every task that is ready and fires every
timer, so a worker's next step, a reaper's next step and the insertion that waits
for the map's lock happen. `Dispatch`: weak fairness of the refresh and of each
worker for the same reason; strong fairness of a worker's wait for the lock, for
tokio's lock is given in the order it was asked for, and the refresh, which
disables the step now and then, cannot overtake it for ever. Files change and
clients send when they like. `Handshake`: the server task goes on, and a request
that the client sends again and again is read in the end (strong fairness, as the
server is busy between), as is its answer. `AttemptsEnd` excludes a query whose
challenge is stale, which the code drops in silence while a connect request is
refused aloud, and the bound on connections. Nothing else is assumed of clients
or the network, and nothing at all in the other modules.

Runs that end in a violation, each against a sentence of the repository:

| Run | What the code does |
|---|---|
| `single_block_panics` | a transfer of exactly `max_reliable_packet_size` bytes fails the assertion at `netchannel.rs:670` |
| `batch_padding_is_not_a_nop` | the padding of a reliable batch of 3, 7, ... messages is read as a message of type 0 and refused, after the batch was acknowledged |
| `replaced_connection_is_not_cancelled` | a reconnect drops the sender of a connection whose token is not cancelled |
| `reaper_removes_live_connection` | the reaper of a replaced connection removes the entry of its successor |
| `refusal_is_not_last` | bad preferences are answered with a disconnect message, "last message in connection" at `message.rs:8`; a sign-on that follows them is then answered too, with a redirect or a second disconnect |
| `old_worker_acknowledges` | the worker of a replaced connection acknowledges, under the same challenge, what the client's new netchannel takes for acknowledged: a batch no `read_packet` returned is dropped |

The padding at the end of a packet (`netchannel.rs:598`, refused at 222) is the same
defect as the padding of a batch. The server itself sends batches of one message
and no unreliable messages, so both concern the module's interface (its tests
use it with many messages). `replaced_connection_is_not_cancelled`,
`reaper_removes_live_connection` and `old_worker_acknowledges` happen when a client
connects again while its old connection lasts; the old worker goes on acknowledging
for as long as it lives. The answer after a refusal is sent on the same reliable
stream, so a client that takes the comment at its word leaves before it comes.

## Proofs

For every value of the constants that the named assumptions allow; TLC checks the
same properties in the runs above.

`NetChannelPair_proofs` proves `TypeOK`, `FragmentAccounting`, `NoInvalidAck` and
`SubchannelAgreement` of two netchannels, from `ConfigurationAssumption` (a packet
has room for one to seven fragments) and `PairAssumption` (two peers with one
challenge, no empty transfer). Nothing else is assumed of the number of subchannels,
of transfers or of packets. None of the four is inductive, `TypeOK` included: that
`pending_fragments` stays a number depends on the accounting. `IInv` is

- for each channel, `ChannelOK`: its type, and `Accounting`. Beyond
  `FragmentAccounting` it says that blocks are not empty, lie in what has been
  sent, and that transfers behind the front have not been started; the last is
  needed when a completed transfer is dropped, the first to know that no
  subchannel is busy then.
- for each direction, `Numbering`: no packet has a number that was not yet
  written, and a later acknowledgement acknowledges no less.
- for each direction, `Direction`: what the bits say, by the state of the
  subchannel. A free one agrees with the receiver and with every acknowledgement
  that can still be accepted; a waiting one disagrees with them all; one sent in
  packet n disagrees with all until the receiver reads n, and from then on an
  acknowledgement has the new bit exactly when it acknowledges n. Only packet n
  may still be on the way, and none when the subchannel is free or waiting. This
  is where the sequence number and the bit come together: a block is sent again
  only when an acknowledgement of n came without its bit, which no receiver that
  read n writes, and by then n is too old to be accepted.

The first half of `NetChannelPair_proofs` has what `ReadPacket`, `WritePacket` and
`QueueReliableMessages` do to one channel. Each is summed up in a predicate
(`Reads`, `Writes`, `SameSubchannels`) with one alternative for each thing that
can happen to a subchannel, and keeps `ChannelOK`; the four lemmas about a
direction (`DataWrite`, `DataRead`, `AckWrite`, `AckRead`) use only these.
`ReadOK` holds for any packet, also one that `NoInvalidAck` excludes.

`NetChannelDelivery_proofs` proves `EachFragmentOnce`, that each direction
implements `ReliableStream` (`DeliveredInOrder`, which states `InOrderDelivery`),
and `AckedIsReturned`. The invariant is `IInv` and, for each direction,
`Delivery`, because what the bits say is about subchannels and what is promised is
about batches:

- the blocks the receiver has yet to read are those of the busy subchannels whose
  bits differ (`Missing`), and what it has read of the front transfer is all that
  was ever sent less the fragments of these blocks (`Held`). A buffer has exactly
  these fragments, all of the front's payload, and counts them (`Holds`); there is
  a buffer when fragment 0 has been read and some are missing.
- the receiver is at the sender's front transfer, or one further, and then the
  whole of it was sent, nothing is missing and there is no buffer (`Progress`).
- a packet that may still be accepted has the block its subchannel has now
  (`BlocksMatch`), which is why a late packet cannot bring a block of an earlier
  transfer.
- what is left to send is the end of what was queued, what was returned is the
  beginning of it (`Backlog`, `Prefix`).

It is assumed that `None` is no record (`NoneAssumption`). The two theorems about
what is returned also assume `Decodable`: no batch and no packet ends in so much
padding that it is read as one more message. The server satisfies it, with batches
of one message and no unreliable ones (`DecodableCounts`). Without it they are
false, as the run `batch_padding_is_not_a_nop` shows; `AckedIsReturned` says that
what is wrong in that run is nothing but the padding.

`NetChannelRecovery_proofs` proves `Recovery`: no loss, delay or repetition leads
to a state from which packets that do arrive cannot complete every transfer.
`RecoversWithinReach` says so of every state in which neither side is more than
`max_packets_dropped` packets ahead of what the other has read (`WithinReach`).
Beyond that the code refuses the peer's packets for good (line 297 of
`netchannel.rs`), so the condition cannot be dropped. `NeverWedged` drops the
condition where fewer packets are written than may be lost.

- `Recovery` computes exchanges from a state. In an exchange p's packet is
  delivered and then the other side's; each delivery is a `WritePacket` and a
  `ReadPacket`, so it keeps what the modules above prove of these
  (`Reachable`), whatever the network still holds.
- What these do not say is that the block that brings the size of a transfer is
  accepted. `Orderly` does: that block is in the lowest subchannel until it is
  acknowledged, and `write_packet` sends the lowest waiting subchannel first. It
  also says that the front transfer is unfinished.
- The measure is `Left`, the fragments still to be acknowledged. After the first
  exchange p has read what there is to know and waits for no acknowledgement
  (`Quiet`, `Heard`); when p then writes, it sends a new block or has nothing left.
  A block that has been read and not yet acknowledged (`Arrived`) lowers `Left`
  with the next packet back. So from the second exchange on each lowers `Left` on
  both sides (`Stage`), and it cannot rise, since nothing is queued meanwhile.

It is assumed, besides `Decodable`, that a packet may carry no unreliable message
(`write_packet` is given none by the workers), that `F` bounds the fragments of a
transfer, and that `RecoveryExchanges` is at least `F` for each transfer and two
more. The induction is over the number of exchanges, as a set.

`Connections_proofs` proves type correctness and the three invariants of the
`connections` run, from the assumption that `None` is not a connection. None of
the three is inductive. Type correctness includes that a worker and a reaper
exist for exactly the connections that were created. `IInv` adds that the
connection being inserted is the last created, that only connections that were
inserted are cancelled, reaped or sent packets (so a removal always concerns a
connection the map has known), that a reaper removes only after the token is
cancelled, and that a worker in the middle of an iteration has not yet sent
since the token was cancelled.
`ConnectionsImplementMap` shows that the tasks implement `ConnectionMap`: a step of
the server's insertion or of a reaper's removal is a step of the map, every other
leaves it alone.

`Handshake_proofs` proves type correctness, `AcceptedIsRouted` and, where no two
addresses have one challenge, `ChallengeFirst`. (The code's challenge is a 32-bit
hash: two addresses may collide, and then the challenge of one admits the other.)
`IInv` follows the information through the network: a challenge that a reply, a
request or a client holds was told to its address (`Known`), and an attempt that a
reply or a client takes for granted has a connection, or is the one
`create_connection` is about to be called for (`Granted`). Both last for ever
(`Lasting`), which is what makes late and repeated datagrams harmless. `Mapped`
says that an entry goes only with a reaper. The assumption is that `None` is no
address, number or request, that clients begin at different addresses, and that
the bounds are numbers.

`QuickplaySession_proofs` proves of the score, for all bytes, that no two knots
that are interpolated between coincide, that it is positive and at most
`SCORE_IDEAL` with players and room, and that missing room costs 99 points. The loops over
convars and over the list's entries are recursive functions; what is needed of
them (each result has the fields and types later steps read) is proved from an
induction lemma over the domain of one function, which takes a set and no
operator.

`MCFunctions_proofs` proves all seven properties of the run `pure_functions` of the
instance's own specification: for any sequences of convars, of any number and length,
over the instance's eleven convars, and for any limits, strings and numbers. Its
assumptions are the shape of the instance (`FunctionsAssumption`: each set holds
values of its kind) and that the text "0" is the number zero (`SlotAssumption`). The
invariant says how large the numbers in a
state are and that the session is what the loop made of the convars told so far.

- The loop over convars agrees with "the last accepted setting of each slot"
  after every convar, by induction over the sequence.
- Strings that are written one after the other are read back one after the other
  (`InARow`): a reader takes what the writer wrote, and stands where the next
  begins. The letters' halves matter only where a limit would cut one.
- A varint's bytes are the quotients of the number by powers of a group, and the
  reader's sum of what is left of each is the number again. `PowersAssumption`
  in `Codec` states facts of arithmetic about powers of two which the provers
  lack; TLC evaluates them.

Recursive functions are unfolded by an induction over the set of the numbers for
which the claim holds, which needs no operator.

`Dispatch_proofs` proves type correctness, `SearchInBounds` and that `Dispatch`
implements `Matchmaking`. `IInv` says that a reader holds the lock and the list
stays what it was for it; that what the loop has found is the first best of the
servers it has looked at (`BestOf`); that a waiting or searching worker has a
sign-on at the head of its packet (`Serving`); and that the versions read lie
between the last replacement and those on disk (`FilesRead`). At the end of the
loop `BestOf` is the abstract `IsBest`; the lemmas `Same...` show that the
operators of the two modules agree.

Only model-checked: the liveness properties (`WorkersEnd`,
`CancelledLeaveMap`, `AttemptsEnd`, `SignonAnswered`, `ListCatchesUp`), which need
fairness and are out of the prover's reach, as are ENABLED and the induction
theorems of the library. The runs that end in a violation need no proof.

## Not modelled

- Stream 1 (files), compression, choked packets: no packet of this code has them.
- `has_seen_challenge`: every packet of a netchannel carries the challenge.
- Numbers of unbounded width: sequence numbers are 32 bits in the code; at one
  packet in 150 ms and a life of 20 s they do not wrap. Counters that come from
  the wire are those of a netchannel of this code.
- A connection timeout shorter than the wait for the map's lock (see `Timeout`).
- Dropping the `Server`: it cancels a token no task looks at, and `run` never
  returns.
- The content of replies to queries (name, map, player counts), the fields of a
  connect request that the code reads and does not look at, and requests that are
  cut short: an error that changes nothing. A wrong protocol version or
  authentication is refused along the path of a wrong challenge; the functions
  have it, the `handshake` instance has only right ones.
- Snappy's decoder: taken to invert its encoder.
- Rates: how late a worker is that is sent packets faster than it takes them.
- Reading the configuration and the command line, logging and tracing: I/O.

## What is left

1. `Reconnect` with the server's replies, and what does hold there.
2. Several clients in one `handshake` instance, with a wrong version and a form the
   server cannot read.

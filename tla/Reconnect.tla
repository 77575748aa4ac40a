----------------------------- MODULE Reconnect -----------------------------
(***************************************************************************)
(* One client that connects again: the composition of the handshake, the   *)
(* map of connections and a netchannel at each end.  Every connection of   *)
(* the server has a netchannel of its own, and all of them, and all        *)
(* attempts of the client, use the one challenge that get_challenge_for_   *)
(* address gives the client's address (src/net/connectionless.rs).         *)
(*                                                                         *)
(* A datagram may be read late, again, out of order or never.  The server  *)
(* passes the client's packets to the worker the map holds; the worker of  *)
(* a connection that was replaced goes on with those it was passed before, *)
(* and goes on sending.  (The end of a worker, and a reaper that empties   *)
(* the map, are the same as no more steps of the worker and as loss.  The  *)
(* server queues no replies: its packets acknowledge, and that is enough   *)
(* for what the module is about.)                                          *)
(***************************************************************************)
EXTENDS NetChannel

CONSTANTS
    Challenge,        \* of the client's address
    TransferBytes,    \* how large the client's batches may be
    MaxAttempts,      \* bound: attempts of the client
    MaxConnections,   \* bound: connections created
    MaxTransfers,     \* bound: batches of all attempts
    MaxClientSequence, MaxServerSequence
                      \* bounds: packets a netchannel writes

VARIABLES
    asked,      \* attempts so far; the last one is the client's
    accepted,   \* attempts that were answered with S2C_CONNECTION
    client,     \* the client's netchannel, None until it hears the answer
    servers,    \* the netchannel of each connection, the last one mapped
    toServer,   \* packets the client has sent so far
    toClient,   \* packets the workers have sent so far
    passed,     \* what the worker of each replaced connection was passed
    queued,     \* history: the batches the client queued, with its attempt
    received    \* history: the batches each worker was given by read_packet

vars == <<asked, accepted, client, servers, toServer, toClient, passed, queued,
          received>>

Init ==
    /\ asked = 0
    /\ accepted = {}
    /\ client = None
    /\ servers = <<>>
    /\ toServer = {}
    /\ toClient = {}
    /\ passed = <<>>
    /\ queued = <<>>
    /\ received = <<>>

-----------------------------------------------------------------------------
(* The client was told to connect, perhaps after it was started again: it  *)
(* forgets the connection it had, without a word.                          *)
Ask ==
    /\ asked < MaxAttempts
    /\ asked' = asked + 1
    /\ client' = None
    /\ UNCHANGED <<accepted, servers, toServer, toClient, passed, queued, received>>

Start ==
    /\ client = None
    /\ asked \in accepted
    /\ client' = NewChannel(Challenge)
    /\ UNCHANGED <<asked, accepted, servers, toServer, toClient, passed, queued,
                   received>>

Queue ==
    /\ client # None
    /\ Len(queued) < MaxTransfers
    /\ \E bytes \in TransferBytes :
          LET payload == [id |-> Len(queued) + 1, count |-> 1]
          IN  client' = QueueReliableMessages(client, payload, bytes)
    /\ queued' = Append(queued, asked)
    /\ UNCHANGED <<asked, accepted, servers, toServer, toClient, passed, received>>

ClientWrite ==
    /\ client # None
    /\ client.out_sequence_nr <= MaxClientSequence
    /\ WriteAssertsHold(client)
    /\ LET w == WritePacket(client, 0)
       IN  client' = w.channel /\ toServer' = toServer \cup {w.packet}
    /\ UNCHANGED <<asked, accepted, servers, toClient, passed, queued, received>>

ClientRead ==
    /\ client # None
    /\ \E pk \in toClient : client' = ReadPacket(client, pk).channel
    /\ UNCHANGED <<asked, accepted, servers, toServer, toClient, passed, queued,
                   received>>

-----------------------------------------------------------------------------
(* A connect request of any attempt, perhaps for the second time: the      *)
(* challenge is right, so there is a new connection, and it is mapped.     *)
Accept ==
    /\ Len(servers) < MaxConnections
    /\ \E attempt \in 1 .. asked : accepted' = accepted \cup {attempt}
    /\ servers' = Append(servers, NewChannel(Challenge))
    /\ received' = Append(received, <<>>)
    /\ passed' = IF servers = <<>> THEN <<>> ELSE Append(passed, toServer)
    /\ UNCHANGED <<asked, client, toServer, toClient, queued>>

Passed(c) == IF c = Len(servers) THEN toServer ELSE passed[c]

WorkerRead(c) ==
    /\ \E pk \in Passed(c) :
          LET r == ReadPacket(servers[c], pk)
          IN  /\ servers' = [servers EXCEPT ![c] = r.channel]
              /\ received' = [received EXCEPT ![c] = @ \o r.payloads]
    /\ UNCHANGED <<asked, accepted, client, toServer, toClient, passed, queued>>

WorkerWrite(c) ==
    /\ servers[c].out_sequence_nr <= MaxServerSequence
    /\ LET w == WritePacket(servers[c], 0)
       IN  /\ servers' = [servers EXCEPT ![c] = w.channel]
           /\ toClient' = toClient \cup {w.packet}
    /\ UNCHANGED <<asked, accepted, client, toServer, passed, queued, received>>

Next ==
    \/ Ask \/ Start \/ Queue \/ ClientWrite \/ ClientRead
    \/ Accept
    \/ \E c \in DOMAIN servers : WorkerRead(c) \/ WorkerWrite(c)

Spec == Init /\ [][Next]_vars

-----------------------------------------------------------------------------
(* What a test of the source says and the code does not do.                *)

(* The batches of the client's attempt that its netchannel has forgotten.  *)
Acknowledged ==
    {i \in DOMAIN queued :
        /\ queued[i] = asked
        /\ \A k \in DOMAIN client.outgoing : client.outgoing[k].payload.id # i}

Delivered ==
    UNION {{received[c][k].id : k \in DOMAIN received[c]} : c \in DOMAIN received}

(* src/net/netchannel.rs:937: "reliable transfers should be received, even *)
(* on bad connections": what the client's netchannel takes for acknowledged*)
(* a read_packet of the server has returned.                               *)
AckedIsReceived == client # None => Acknowledged \subseteq Delivered

=============================================================================

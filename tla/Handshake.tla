----------------------------- MODULE Handshake -----------------------------
(***************************************************************************)
(* The connectionless requests (src/net/connectionless.rs), the server     *)
(* task that reads them, and clients that ask for the server's information *)
(* and connect.  A client's address may change while it waits, as behind a *)
(* router that forgets it, and another client may get the old address.     *)
(*                                                                         *)
(* The network keeps every datagram: one may be read late, out of order,   *)
(* again (a duplicate, or the client sending it once more) or never.       *)
(* The server keeps no state between two requests but the connections: the *)
(* challenge is a hash of the address.                                     *)
(***************************************************************************)
EXTENDS ConnectionMap, RawPacket

CONSTANTS
    Client,         \* the clients
    ChallengeOf,    \* get_challenge_for_address: a hash of the address
    Version,        \* the protocol version each client speaks
    Auth,           \* the authentication protocol each client uses
    Form,           \* how each client packs its datagrams
    Start,          \* the address of each client at first
    Browser,        \* the clients that ask for the server's information
    MaxAttempts,    \* bound: attempts of each client to connect
    MaxMoves        \* bound: changes of each client's address

PROTOCOL_VERSION == 24
AUTH_PROTOCOL_HASHEDCDKEY == 2

Forms == {"plain", "SNAP", "LZSS", "split"}

ASSUME HandshakeAssumption ==
    /\ None \notin Addr \cup Nat
    /\ None \notin [from : Addr, client_challenge : Client \X Nat]
    /\ Start \in [Client -> Addr]
    /\ \A c, d \in Client : Start[c] = Start[d] => c = d
    /\ Browser \subseteq Client
    /\ ChallengeOf \in [Addr -> Nat]
    /\ Version \in [Client -> Nat]
    /\ Auth \in [Client -> Nat]
    /\ Form \in [Client -> Forms]
    /\ MaxAttempts \in [Client -> Nat]
    /\ MaxMoves \in [Client -> Nat]

VARIABLES
    accepted,   \* the connect request that was accepted and whose
                \* connection is not yet created, or None
    origin,     \* history: the client challenge each connection answers
    requests,   \* datagrams sent to the server so far
    replies,    \* datagrams the server has sent so far
    client      \* the clients

vars == <<mapVars, accepted, origin, requests, replies, client>>

-----------------------------------------------------------------------------
(* The handlers, as functions of a request and the address it came from.   *)
(* Each sends at most one reply.  A request that is cut short is an error, *)
(* as is one of another type: it changes nothing.                          *)

Dropped == [reply |-> None, accepted |-> FALSE]

RejectConnection(request, message) ==
    [reply |-> [type |-> "S2C_CONNREJECT", message |-> message,
                client_challenge |-> request.client_challenge],
     accepted |-> FALSE]

HandleA2sGetChallenge(from, request) ==
    [reply |-> [type |-> "S2C_CHALLENGE", challenge |-> ChallengeOf[from],
                client_challenge |-> request.client_challenge],
     accepted |-> FALSE]

(* Mutant: S2C_CONNECTION leaves out the client's challenge. *)
HandleC2sConnectUnechoed(from, request) ==
    IF request.server_challenge # ChallengeOf[from]
    THEN RejectConnection(request, "#GameUI_ServerRejectBadChallenge")
    ELSE IF request.protocol_version # PROTOCOL_VERSION
    THEN RejectConnection(request, "Unexpected protocol version")
    ELSE IF request.auth_protocol # AUTH_PROTOCOL_HASHEDCDKEY
    THEN RejectConnection(request, "unexpected authentication protocol")
    ELSE [reply |-> [type |-> "S2C_CONNECTION", client_challenge |-> None],
          accepted |-> TRUE]

HandleC2sConnect(from, request) ==
    IF request.server_challenge # ChallengeOf[from]
    THEN RejectConnection(request, "#GameUI_ServerRejectBadChallenge")
    ELSE IF request.protocol_version # PROTOCOL_VERSION
    THEN RejectConnection(request, "Unexpected protocol version")
    ELSE IF request.auth_protocol # AUTH_PROTOCOL_HASHEDCDKEY
    THEN RejectConnection(request, "unexpected authentication protocol")
    ELSE [reply |-> [type |-> "S2C_CONNECTION",
                     client_challenge |-> request.client_challenge],
          accepted |-> TRUE]

(* Mutant: any challenge will do. *)
InfoForAnyChallenge(from, request) ==
    IF request.challenge = None
    THEN [reply |-> [type |-> "S2C_CHALLENGE", challenge |-> ChallengeOf[from],
                     client_challenge |-> None],
          accepted |-> FALSE]
    ELSE [reply |-> [type |-> "S2A_INFO_SRC"], accepted |-> FALSE]

(* A query without a challenge is answered with one (and no more than it), *)
(* a query with a stale one is not answered at all.                        *)
HandleA2sInfo(from, request) ==
    IF request.challenge = None
    THEN [reply |-> [type |-> "S2C_CHALLENGE", challenge |-> ChallengeOf[from],
                     client_challenge |-> None],
          accepted |-> FALSE]
    ELSE IF request.challenge # ChallengeOf[from] THEN Dropped
    ELSE [reply |-> [type |-> "S2A_INFO_SRC"], accepted |-> FALSE]

ProcessConnectionlessPacket(from, request) ==
    CASE request.command = "A2S_GETCHALLENGE" -> HandleA2sGetChallenge(from, request)
      [] request.command = "C2S_CONNECT"      -> HandleC2sConnect(from, request)
      [] request.command = "A2S_INFO"         -> HandleA2sInfo(from, request)
      [] OTHER                                -> Dropped

-----------------------------------------------------------------------------
(* The server task *)

(* It reads the next datagram when it is done with the last one.           *)
Idle == accepted = None /\ inserting = None

(* Mutant: a client that has a connection is not given another. *)
HandlePacketOnce(r) ==
    LET packet == DecodeRawPacket(r.datagram)
        result == ProcessConnectionlessPacket(r.from, packet.data)
    IN  /\ Idle
        /\ packet.kind = "connectionless"
        /\ result.reply # None
        /\ result.accepted => Len(addr) < MaxConnections
        /\ replies' = replies \cup {[to |-> r.from, reply |-> result.reply]}
        /\ accepted' = IF result.accepted /\ connections[r.from] = None
                       THEN [from |-> r.from,
                             client_challenge |-> packet.data.client_challenge]
                       ELSE None
        /\ UNCHANGED <<mapVars, origin, requests, client>>

(* handle_packet up to the reply: S2C_CONNECTION is sent before there is a *)
(* connection.                                                             *)
HandlePacket(r) ==
    LET packet == DecodeRawPacket(r.datagram)
        result == ProcessConnectionlessPacket(r.from, packet.data)
    IN  /\ Idle
        /\ packet.kind = "connectionless"
        /\ result.reply # None
        /\ result.accepted => Len(addr) < MaxConnections
        /\ replies' = replies \cup {[to |-> r.from, reply |-> result.reply]}
        /\ accepted' = IF result.accepted
                       THEN [from |-> r.from,
                             client_challenge |-> packet.data.client_challenge]
                       ELSE None
        /\ UNCHANGED <<mapVars, origin, requests, client>>

(* The call of create_connection, up to its wait for the map's lock. *)
Create ==
    /\ accepted # None
    /\ CreateConnection(accepted.from)
    /\ origin' = Append(origin, accepted.client_challenge)
    /\ accepted' = None
    /\ UNCHANGED <<requests, replies, client>>

InsertConnection ==
    Insert /\ UNCHANGED <<accepted, origin, requests, replies, client>>

Reap(c) ==
    Remove(c) /\ UNCHANGED <<accepted, origin, requests, replies, client>>

-----------------------------------------------------------------------------
(* The clients *)

Waiting == {"querying", "challenged", "greeting", "connecting"}

(* What a client in each of those phases sends, until it has an answer.    *)
Request(c, state) ==
    CASE state.phase = "querying" ->
            [command |-> "A2S_INFO", challenge |-> None]
      [] state.phase = "challenged" ->
            [command |-> "A2S_INFO", challenge |-> state.challenge]
      [] state.phase = "greeting" ->
            [command |-> "A2S_GETCHALLENGE",
             client_challenge |-> <<c, state.attempt>>]
      [] state.phase = "connecting" ->
            [command |-> "C2S_CONNECT", protocol_version |-> Version[c],
             auth_protocol |-> Auth[c], server_challenge |-> state.challenge,
             client_challenge |-> <<c, state.attempt>>]

Packed(form, d) ==
    CASE form = "plain"           -> d
      [] form \in {"SNAP", "LZSS"} -> Compressed(form, d)
      [] form = "split"           -> Datagram("split", d)

Sent(c, state) ==
    [from |-> state.address,
     datagram |-> Packed(Form[c],
                         Datagram("connectionless", Request(c, state)))]

(* Client c is now in this state, and sends what it sends there. *)
Become(c, state) ==
    /\ client' = [client EXCEPT ![c] = state]
    /\ requests' = IF state.phase \in Waiting
                   THEN requests \cup {Sent(c, state)} ELSE requests
    /\ UNCHANGED <<mapVars, accepted, origin, replies>>

Query(c) ==
    /\ c \in Browser
    /\ client[c].phase = "idle"
    /\ Become(c, [client[c] EXCEPT !.phase = "querying"])

Connect(c) ==
    /\ client[c].phase = "idle"
    /\ client[c].attempt < MaxAttempts[c]
    /\ Become(c, [client[c] EXCEPT !.phase = "greeting", !.attempt = @ + 1])

(* Replies of another attempt, or of another client, are ignored. *)
Hear(c) ==
    LET state == client[c]
        heard == {r.reply : r \in {s \in replies : s.to = state.address}}
        mine(type, challenge) ==
            {r \in heard : r.type = type /\ r.client_challenge = challenge}
        me == <<c, state.attempt>>
    IN  \/ /\ state.phase = "querying"
           /\ \E r \in mine("S2C_CHALLENGE", None) :
                 Become(c, [state EXCEPT !.phase = "challenged",
                                         !.challenge = r.challenge])
        \/ /\ state.phase = "challenged"
           /\ \E r \in heard : r.type = "S2A_INFO_SRC"
           /\ Become(c, [state EXCEPT !.phase = "idle", !.challenge = None])
        \/ /\ state.phase = "greeting"
           /\ \E r \in mine("S2C_CHALLENGE", me) :
                 Become(c, [state EXCEPT !.phase = "connecting",
                                         !.challenge = r.challenge])
        \/ /\ state.phase = "connecting"
           /\ mine("S2C_CONNECTION", me) # {}
           /\ Become(c, [state EXCEPT !.phase = "connected"])
        \/ /\ state.phase = "connecting"
           /\ mine("S2C_CONNREJECT", me) # {}
           /\ Become(c, [state EXCEPT !.phase = "rejected"])

(* A client that has waited too long, or is done. *)
GiveUp(c) ==
    /\ client[c].phase # "idle"
    /\ Become(c, [client[c] EXCEPT !.phase = "idle", !.challenge = None])

(* Its packets come from another address from now on.  A client that waits *)
(* for an answer sends its request again.                                  *)
Move(c) ==
    /\ client[c].moves < MaxMoves[c]
    /\ \E a \in Addr \ {client[d].address : d \in Client} :
          Become(c, [client[c] EXCEPT !.address = a, !.moves = @ + 1])

-----------------------------------------------------------------------------
Init ==
    /\ MapInit
    /\ accepted = None
    /\ origin = <<>>
    /\ requests = {}
    /\ replies = {}
    /\ client = [c \in Client |-> [address |-> Start[c], phase |-> "idle",
                                  attempt |-> 0, challenge |-> None, moves |-> 0]]

Server ==
    \/ \E r \in requests : HandlePacket(r)
    \/ Create
    \/ InsertConnection

Next ==
    \/ Server
    \/ \E k \in 1 .. MaxConnections : Reap(k)
    \/ \E c \in Client : Query(c) \/ Connect(c) \/ Hear(c) \/ GiveUp(c) \/ Move(c)

(* The server reads what a client goes on sending. *)
HandleRequestOf(c) ==
    client[c].phase \in Waiting /\ HandlePacket(Sent(c, client[c]))

(* The server task goes on, reads a request that is sent again and again   *)
(* in the end, and so does a client with its answer.                       *)
Fairness ==
    /\ WF_vars(Create) /\ WF_vars(InsertConnection)
    /\ \A c \in Client : SF_vars(HandleRequestOf(c)) /\ WF_vars(Hear(c))

Spec == Init /\ [][Next]_vars /\ Fairness

-----------------------------------------------------------------------------
(* Correctness *)

ClientChallenge == Client \X (Nat \ {0})

(* A reply carries what its type requires, and one to an attempt to        *)
(* connect echoes the challenge of a client's attempt.                     *)
ReplyTyped(reply) ==
    \/ /\ reply.type = "S2C_CHALLENGE"
       /\ reply.challenge \in Nat
       /\ reply.client_challenge \in ClientChallenge \cup {None}
    \/ /\ reply.type \in {"S2C_CONNREJECT", "S2C_CONNECTION"}
       /\ reply.client_challenge \in ClientChallenge
    \/ reply.type = "S2A_INFO_SRC"

(* The values each variable ranges over. *)
TypeOK ==
    /\ addr \in Seq(Addr) /\ Len(addr) = Len(origin)
    /\ connections \in [Addr -> DOMAIN addr \cup {None}]
    /\ inserting \in DOMAIN addr \cup {None}
    /\ reaped \subseteq DOMAIN addr
    /\ accepted \in [from : Addr, client_challenge : ClientChallenge] \cup {None}
    /\ origin \in Seq(ClientChallenge)
    /\ \A r \in requests : r.from \in Addr /\ r.datagram.header \in Header
    /\ \A r \in replies : r.to \in Addr /\ ReplyTyped(r.reply)
    /\ client \in [Client -> [address : Addr,
                              phase : Waiting \cup {"idle", "connected", "rejected"},
                              attempt : Nat, challenge : Nat \cup {None},
                              moves : Nat]]

(* The challenge proves that someone hears what is sent to an address:     *)
(* nobody is connected, and the server's information sent, at an address   *)
(* that was not sent that challenge before.                                *)
ChallengeFirst ==
    \A a \in Addr :
        \/ \E k \in DOMAIN addr : addr[k] = a
        \/ \E r \in replies : r.to = a /\ r.reply.type = "S2A_INFO_SRC"
        => \E r \in replies : /\ r.to = a
                              /\ r.reply.type = "S2C_CHALLENGE"
                              /\ r.reply.challenge = ChallengeOf[a]

(* A client that was told it is connected has a connection made for this   *)
(* attempt, and its next datagram finds the map's entry, although the      *)
(* reply was sent before the connection existed: unless a reaper of the    *)
(* address has run.                                                        *)
AcceptedIsRouted ==
    Idle => \A c \in Client :
        client[c].phase = "connected" =>
            \E k \in DOMAIN addr :
                /\ origin[k] = <<c, client[c].attempt>>
                /\ \/ connections[addr[k]] # None
                   \/ \E j \in reaped : addr[j] = addr[k]

Answered(c) == client[c].phase \notin Waiting

(* Challenges of an old address: a connect request with one is rejected, a *)
(* query with one is dropped.                                              *)
StaleQuery(c) ==
    client[c].phase = "challenged"
        /\ client[c].challenge # ChallengeOf[client[c].address]

Exhausted == Len(addr) = MaxConnections

(* A client that goes on asking is answered, whatever its earlier attempts *)
(* and other clients left on the network, if it packs its datagrams as the *)
(* server can read them; but for a query that moved.                       *)
AttemptsEnd ==
    \A c \in Client :
        Form[c] \in {"plain", "SNAP"} =>
            (client[c].phase \in Waiting
                ~> Answered(c) \/ StaleQuery(c) \/ Exhausted)

=============================================================================

-------------------------- MODULE Handshake_proofs --------------------------
(***************************************************************************)
(* The invariants of Handshake, for any clients, addresses, bounds and     *)
(* ways to pack a datagram.                                                *)
(***************************************************************************)
EXTENDS Handshake, TLAPS

(* The records that stand for an accepted request and for a client. *)
Acceptance == [from : Addr, client_challenge : ClientChallenge]

State ==
    [address : Addr, phase : Waiting \cup {"idle", "connected", "rejected"},
     attempt : Nat, challenge : Nat \cup {None}, moves : Nat]

-----------------------------------------------------------------------------
(* The inductive invariant.                                                *)

(* The challenge of address a has been sent there. *)
Told(a) ==
    \E r \in replies : /\ r.to = a
                       /\ r.reply.type = "S2C_CHALLENGE"
                       /\ r.reply.challenge = ChallengeOf[a]

(* A challenge that someone holds was sent to its address. *)
Known(challenge) ==
    challenge = None \/ \E a \in Addr : challenge = ChallengeOf[a] /\ Told(a)

(* There is a connection for this attempt, or create_connection is about   *)
(* to be called for it.                                                    *)
Granted(me) ==
    \/ accepted \in Acceptance /\ accepted.client_challenge = me
    \/ \E k \in DOMAIN addr : origin[k] = me

ReplyOK(r) ==
    /\ r.to \in Addr
    /\ ReplyTyped(r.reply)
    /\ \/ r.reply.type = "S2C_CHALLENGE" /\ r.reply.challenge = ChallengeOf[r.to]
       \/ r.reply.type = "S2A_INFO_SRC" /\ Known(ChallengeOf[r.to])
       \/ r.reply.type = "S2C_CONNREJECT"
       \/ r.reply.type = "S2C_CONNECTION" /\ Granted(r.reply.client_challenge)

RequestOK(q) ==
    \/ q.command = "A2S_INFO" /\ Known(q.challenge)
    \/ /\ q.command = "A2S_GETCHALLENGE"
       /\ q.client_challenge \in ClientChallenge
    \/ /\ q.command = "C2S_CONNECT"
       /\ q.client_challenge \in ClientChallenge
       /\ Known(q.server_challenge)

(* What the server makes of a datagram is such a request, if anything. *)
DatagramOK(d) ==
    /\ d.header \in Header
    /\ DecodeRawPacket(d).kind = "connectionless"
          => RequestOK(DecodeRawPacket(d).data)

ClientOK(c, state) ==
    /\ state \in State
    /\ Known(state.challenge)
    /\ state.phase \in {"greeting", "connecting"} => state.attempt # 0
    /\ state.phase = "connected" => Granted(<<c, state.attempt>>)

AcceptedOK ==
    accepted # None =>
        /\ accepted \in Acceptance
        /\ Known(ChallengeOf[accepted.from])
        /\ inserting = None

(* An entry that create_connection is done with goes with a reaper only.   *)
Mapped ==
    /\ addr \in Seq(Addr) /\ origin \in Seq(ClientChallenge)
    /\ Len(addr) = Len(origin)
    /\ connections \in [Addr -> DOMAIN addr \cup {None}]
    /\ inserting \in DOMAIN addr \cup {None}
    /\ reaped \subseteq DOMAIN addr
    /\ \A k \in DOMAIN addr :
          /\ Known(ChallengeOf[addr[k]])
          /\ \/ k = inserting
             \/ connections[addr[k]] # None
             \/ \E j \in reaped : addr[j] = addr[k]

IInv ==
    /\ \A r \in replies : ReplyOK(r)
    /\ \A r \in requests : r.from \in Addr /\ DatagramOK(r.datagram)
    /\ DOMAIN client = Client /\ client = [c \in Client |-> client[c]]
    /\ \A c \in Client : ClientOK(c, client[c])
    /\ AcceptedOK
    /\ Mapped

-----------------------------------------------------------------------------
(* The initial state satisfies it. *)
LEMMA InvInit == Init => IInv
<1> SUFFICES ASSUME Init PROVE IInv
  OBVIOUS
<1> USE HandshakeAssumption
<1>1. Mapped
  BY DEF Init, MapInit, Mapped
<1>2. \A c \in Client : ClientOK(c, client[c])
  BY DEF Init, ClientOK, State, Known
<1> QED
  BY <1>1, <1>2 DEF Init, MapInit, IInv, AcceptedOK

(* The connection that create_connection makes is the last one.            *)
LEMMA CreateFacts ==
    ASSUME IInv, Create
    PROVE  LET n == Len(addr) + 1
           IN  /\ accepted \in Acceptance /\ accepted' = None
               /\ Known(ChallengeOf[accepted.from])
               /\ inserting = None /\ inserting' = n
               /\ addr' \in Seq(Addr) /\ origin' \in Seq(ClientChallenge)
               /\ Len(addr') = n /\ Len(origin') = n
               /\ DOMAIN addr' = DOMAIN addr \cup {n} /\ n \notin DOMAIN addr
               /\ \A k \in DOMAIN addr : addr'[k] = addr[k] /\ origin'[k] = origin[k]
               /\ addr'[n] = accepted.from
               /\ origin'[n] = accepted.client_challenge
               /\ UNCHANGED <<connections, reaped, requests, replies, client>>
<1> DEFINE n == Len(addr) + 1
<1>1. /\ accepted \in Acceptance /\ Known(ChallengeOf[accepted.from])
      /\ inserting = None
  BY DEF IInv, AcceptedOK, Create
<1>2. /\ addr' = Append(addr, accepted.from)
      /\ origin' = Append(origin, accepted.client_challenge)
      /\ inserting' = n /\ accepted' = None
      /\ UNCHANGED <<connections, reaped, requests, replies, client>>
  BY DEF Create, CreateConnection
<1>3. /\ addr \in Seq(Addr) /\ origin \in Seq(ClientChallenge)
      /\ Len(addr) = Len(origin) /\ Len(addr) \in Nat
      /\ accepted.from \in Addr /\ accepted.client_challenge \in ClientChallenge
  BY <1>1 DEF IInv, Mapped, Acceptance
<1>4. /\ addr' \in Seq(Addr) /\ Len(addr') = n /\ DOMAIN addr' = 1 .. n
      /\ addr'[n] = accepted.from
      /\ DOMAIN addr = 1 .. Len(addr)
      /\ \A k \in 1 .. Len(addr) : addr'[k] = addr[k]
  BY <1>2, <1>3
<1>5. /\ origin' \in Seq(ClientChallenge) /\ Len(origin') = n
      /\ origin'[n] = accepted.client_challenge
      /\ \A k \in 1 .. Len(addr) : origin'[k] = origin[k]
  BY <1>2, <1>3
<1> QED BY <1>1, <1>2, <1>3, <1>4, <1>5

(* What was told, is known or is granted stays so. *)
LEMMA Lasting ==
    ASSUME IInv, [Next]_vars
    PROVE  /\ \A a \in Addr : Told(a) => Told(a)'
           /\ \A x : Known(x) => Known(x)'
           /\ \A x : Granted(x) => Granted(x)'
<1>1. replies \subseteq replies'
  BY DEF Next, vars, Server, HandlePacket, Create, InsertConnection, Reap, Query,
         Connect, Hear, GiveUp, Move, Become
<1>2. \A a \in Addr : Told(a) => Told(a)'
  BY <1>1 DEF Told
<1>3. \A x : Known(x) => Known(x)'
  BY <1>2 DEF Known
<1>4. \A x : Granted(x) => Granted(x)'
  <2> SUFFICES ASSUME NEW x, Granted(x) PROVE Granted(x)'
    OBVIOUS
  <2>1. CASE UNCHANGED <<accepted, addr, origin>>
    BY <2>1 DEF Granted, Acceptance
  <2>2. ASSUME NEW r \in requests, HandlePacket(r) PROVE Granted(x)'
    BY <2>2, HandshakeAssumption
       DEF HandlePacket, Idle, Granted, mapVars, Acceptance, ClientChallenge
  <2>3. CASE Create
    <3>1. CASE accepted.client_challenge = x
      BY <2>3, <3>1, CreateFacts DEF Granted
    <3>2. CASE \E k \in DOMAIN addr : origin[k] = x
      BY <2>3, <3>2, CreateFacts DEF Granted
    <3> QED BY <3>1, <3>2 DEF Granted
  <2>4. UNCHANGED <<accepted, addr, origin>> \/ Create
            \/ \E r \in requests : HandlePacket(r)
    BY ZenonT(40) DEF Next, vars, mapVars, Server, InsertConnection, Insert, Reap, Remove,
           Query, Connect, Hear, GiveUp, Move, Become
  <2> QED BY <2>1, <2>2, <2>3, <2>4
<1> QED BY <1>2, <1>3, <1>4

-----------------------------------------------------------------------------
(* The server *)

(* The reply to a request that is what clients send, and what it leaves    *)
(* behind (process_connectionless_packet).                                 *)
LEMMA HandlerOK ==
    ASSUME NEW from \in Addr, NEW q, RequestOK(q)
    PROVE  LET result == ProcessConnectionlessPacket(from, q)
           IN  result.reply # None =>
                 /\ ReplyTyped(result.reply)
                 /\ \/ /\ result.reply.type = "S2C_CHALLENGE"
                       /\ result.reply.challenge = ChallengeOf[from]
                    \/ /\ result.reply.type = "S2A_INFO_SRC"
                       /\ Known(ChallengeOf[from])
                    \/ result.reply.type = "S2C_CONNREJECT"
                    \/ /\ result.reply.type = "S2C_CONNECTION"
                       /\ result.accepted
                       /\ result.reply.client_challenge = q.client_challenge
                 /\ result.accepted \in BOOLEAN
                 /\ result.accepted => /\ Known(ChallengeOf[from])
                                       /\ q.client_challenge \in ClientChallenge
<1> USE HandshakeAssumption
<1>1. CASE q.command = "A2S_INFO"
  <2>1. ProcessConnectionlessPacket(from, q) = HandleA2sInfo(from, q)
    BY <1>1 DEF ProcessConnectionlessPacket
  <2>2. q.challenge # None /\ q.challenge = ChallengeOf[from]
            => Known(ChallengeOf[from])
    BY <1>1 DEF RequestOK
  <2> QED BY <2>1, <2>2 DEF HandleA2sInfo, Dropped, ReplyTyped
<1>2. CASE q.command = "A2S_GETCHALLENGE"
  <2>1. ProcessConnectionlessPacket(from, q) = HandleA2sGetChallenge(from, q)
    BY <1>2 DEF ProcessConnectionlessPacket
  <2>2. q.client_challenge \in ClientChallenge
    BY <1>2 DEF RequestOK
  <2> QED BY <2>1, <2>2 DEF HandleA2sGetChallenge, ReplyTyped
<1>3. CASE q.command = "C2S_CONNECT"
  <2>1. ProcessConnectionlessPacket(from, q) = HandleC2sConnect(from, q)
    BY <1>3 DEF ProcessConnectionlessPacket
  <2>2. q.server_challenge = ChallengeOf[from] => Known(ChallengeOf[from])
    BY <1>3 DEF RequestOK
  <2>3. q.client_challenge \in ClientChallenge
    BY <1>3 DEF RequestOK
  <2>4. \A m : /\ RejectConnection(q, m).reply.type = "S2C_CONNREJECT"
               /\ ReplyTyped(RejectConnection(q, m).reply)
               /\ RejectConnection(q, m).accepted = FALSE
    BY <2>3 DEF RejectConnection, ReplyTyped
  <2>5. CASE \E m : HandleC2sConnect(from, q) = RejectConnection(q, m)
    BY <2>1, <2>4, <2>5
  <2>6. CASE /\ q.server_challenge = ChallengeOf[from]
             /\ q.protocol_version = PROTOCOL_VERSION
             /\ q.auth_protocol = AUTH_PROTOCOL_HASHEDCDKEY
    <3>1. HandleC2sConnect(from, q)
            = [reply |-> [type |-> "S2C_CONNECTION",
                          client_challenge |-> q.client_challenge],
               accepted |-> TRUE]
      BY <2>6 DEF HandleC2sConnect
    <3> QED BY <2>1, <2>2, <2>3, <2>6, <3>1 DEF ReplyTyped
  <2> QED BY <2>5, <2>6 DEF HandleC2sConnect
<1> QED BY <1>1, <1>2, <1>3 DEF RequestOK

(* So every step of the server keeps what the clients rely on.             *)
LEMMA HandlePreserves ==
    ASSUME IInv, NEW r \in requests, HandlePacket(r)
    PROVE  IInv'
<1> DEFINE q == DecodeRawPacket(r.datagram).data
           result == ProcessConnectionlessPacket(r.from, q)
           sent == [to |-> r.from, reply |-> result.reply]
<1> USE HandshakeAssumption
<1>1. /\ accepted = None /\ inserting = None /\ result.reply # None
      /\ replies' = replies \cup {sent}
      /\ accepted' = IF result.accepted
                     THEN [from |-> r.from, client_challenge |-> q.client_challenge]
                     ELSE None
      /\ UNCHANGED <<mapVars, origin, requests, client>>
      /\ DecodeRawPacket(r.datagram).kind = "connectionless"
  BY DEF HandlePacket, Idle
<1>2. r.from \in Addr /\ RequestOK(q)
  BY <1>1 DEF IInv, DatagramOK
<1>3. /\ ReplyTyped(result.reply)
      /\ \/ /\ result.reply.type = "S2C_CHALLENGE"
            /\ result.reply.challenge = ChallengeOf[r.from]
         \/ result.reply.type = "S2A_INFO_SRC" /\ Known(ChallengeOf[r.from])
         \/ result.reply.type = "S2C_CONNREJECT"
         \/ /\ result.reply.type = "S2C_CONNECTION"
            /\ result.accepted
            /\ result.reply.client_challenge = q.client_challenge
      /\ result.accepted \in BOOLEAN
      /\ result.accepted => /\ Known(ChallengeOf[r.from])
                            /\ q.client_challenge \in ClientChallenge
  <2> HIDE DEF q
  <2> QED BY <1>1, <1>2, HandlerOK
<1>4. /\ \A a \in Addr : Told(a) => Told(a)'
      /\ \A x : Known(x) => Known(x)'
      /\ \A x : Granted(x) => Granted(x)'
  BY Lasting DEF Next, Server
<1> HIDE DEF q, result
<1>5. result.accepted =>
         /\ accepted' \in Acceptance /\ accepted'.from = r.from
         /\ accepted'.client_challenge = q.client_challenge
  BY <1>1, <1>2, <1>3 DEF Acceptance
<1>6. ReplyOK(sent)'
  <2>1. sent.to = r.from /\ sent.reply = result.reply
    OBVIOUS
  <2>2. CASE result.reply.type = "S2C_CONNECTION" /\ result.accepted
             /\ result.reply.client_challenge = q.client_challenge
    BY <1>2, <1>3, <1>5, <2>1, <2>2 DEF ReplyOK, Granted
  <2> QED BY <1>2, <1>3, <1>4, <2>1, <2>2 DEF ReplyOK
<1>7. ASSUME NEW s, ReplyOK(s) PROVE ReplyOK(s)'
  BY <1>4, <1>7 DEF ReplyOK
<1>8. ASSUME NEW s, RequestOK(s) PROVE RequestOK(s)'
  BY <1>4, <1>8 DEF RequestOK
<1>9. ASSUME NEW c, NEW state, ClientOK(c, state) PROVE ClientOK(c, state)'
  BY <1>4, <1>9 DEF ClientOK
<1>10. AcceptedOK'
  BY <1>1, <1>3, <1>4, <1>5 DEF AcceptedOK, mapVars
<1>11. Mapped'
  BY <1>1, <1>4 DEF IInv, Mapped, mapVars
<1> QED
  BY <1>1, <1>6, <1>7, <1>8, <1>9, <1>10, <1>11 DEF IInv, DatagramOK

LEMMA CreatePreserves ==
    ASSUME IInv, Create
    PROVE  IInv'
<1>1. /\ \A x : Known(x) => Known(x)'
      /\ \A x : Granted(x) => Granted(x)'
  BY Lasting DEF Next, Server
<1>2. ASSUME NEW s, ReplyOK(s) PROVE ReplyOK(s)'
  BY <1>1, <1>2 DEF ReplyOK
<1>3. ASSUME NEW s, RequestOK(s) PROVE RequestOK(s)'
  BY <1>1, <1>3 DEF RequestOK
<1>4. ASSUME NEW c, NEW state, ClientOK(c, state) PROVE ClientOK(c, state)'
  BY <1>1, <1>4 DEF ClientOK
<1>5. AcceptedOK'
  BY CreateFacts DEF AcceptedOK
<1>6. Mapped'
  <2> DEFINE n == Len(addr) + 1
  <2>1. /\ connections' \in [Addr -> DOMAIN addr' \cup {None}]
        /\ inserting' \in DOMAIN addr' /\ reaped' \subseteq DOMAIN addr'
    <3>1. /\ connections \in [Addr -> DOMAIN addr \cup {None}]
          /\ reaped \subseteq DOMAIN addr
      BY DEF IInv, Mapped
    <3> QED BY <3>1, CreateFacts
  <2>2. ASSUME NEW k \in DOMAIN addr
        PROVE  /\ Known(ChallengeOf[addr[k]])'
               /\ \/ connections'[addr'[k]] # None
                  \/ \E j \in reaped' : addr'[j] = addr'[k]
    <3>1. /\ Known(ChallengeOf[addr[k]]) /\ inserting = None /\ reaped \subseteq DOMAIN addr
          /\ \/ k = None
             \/ connections[addr[k]] # None
             \/ \E j \in reaped : addr[j] = addr[k]
      BY CreateFacts DEF IInv, Mapped
    <3>2. k # None
      BY HandshakeAssumption DEF IInv, Mapped
    <3>3. Known(ChallengeOf[addr[k]])'
      BY <3>1, CreateFacts DEF Known, Told
    <3> QED BY <3>1, <3>2, <3>3, CreateFacts
  <2>3. ASSUME NEW k, k = n PROVE Known(ChallengeOf[addr[k]])'
    BY <2>3, CreateFacts DEF Known, Told
  <2> QED BY <2>1, <2>2, <2>3, CreateFacts DEF Mapped
<1>7. UNCHANGED <<requests, replies, client>>
  BY CreateFacts
<1> QED
  BY <1>2, <1>3, <1>4, <1>5, <1>6, <1>7 DEF IInv, DatagramOK

(* The second half of create_connection, and a reaper.                     *)
LEMMA MapPreserves ==
    ASSUME IInv, InsertConnection \/ \E c \in 1 .. MaxConnections : Reap(c)
    PROVE  IInv'
<1>1. /\ \A x : Known(x) => Known(x)'
      /\ \A x : Granted(x) => Granted(x)'
  BY Lasting DEF Next, Server
<1>2. ASSUME NEW s, ReplyOK(s) PROVE ReplyOK(s)'
  BY <1>1, <1>2 DEF ReplyOK
<1>3. ASSUME NEW s, RequestOK(s) PROVE RequestOK(s)'
  BY <1>1, <1>3 DEF RequestOK
<1>4. ASSUME NEW c, NEW state, ClientOK(c, state) PROVE ClientOK(c, state)'
  BY <1>1, <1>4 DEF ClientOK
<1>5. UNCHANGED <<addr, origin, accepted, requests, replies, client>>
  BY DEF InsertConnection, Insert, Reap, Remove
<1>6. AcceptedOK'
  BY <1>1, <1>5 DEF IInv, AcceptedOK, InsertConnection, Insert, Reap, Remove
<1>7. ASSUME InsertConnection PROVE Mapped'
  <2>1. /\ inserting \in DOMAIN addr /\ inserting' = None /\ reaped' = reaped
        /\ connections' = [connections EXCEPT ![addr[inserting]] = inserting]
        /\ connections \in [Addr -> DOMAIN addr \cup {None}]
        /\ addr[inserting] \in Addr /\ inserting # None
    BY <1>7 DEF InsertConnection, Insert, IInv, Mapped
  <2>2. connections' \in [Addr -> DOMAIN addr \cup {None}]
    BY <2>1
  <2>3. ASSUME NEW k \in DOMAIN addr
        PROVE  \/ connections'[addr[k]] # None
               \/ \E j \in reaped : addr[j] = addr[k]
    <3>1. addr[k] \in Addr
      BY DEF IInv, Mapped
    <3> QED BY <2>1, <3>1 DEF IInv, Mapped
  <2> QED BY <1>1, <1>5, <2>1, <2>2, <2>3 DEF IInv, Mapped
<1>8. ASSUME NEW c \in 1 .. MaxConnections, Reap(c) PROVE Mapped'
  <2>1. /\ c \in DOMAIN addr /\ inserting' = inserting
        /\ reaped' = reaped \cup {c}
        /\ connections' = [connections EXCEPT ![addr[c]] = None]
        /\ connections \in [Addr -> DOMAIN addr \cup {None}]
    BY <1>8 DEF Reap, Remove, IInv, Mapped
  <2>2. connections' \in [Addr -> DOMAIN addr \cup {None}]
    BY <2>1
  <2>3. ASSUME NEW k \in DOMAIN addr
        PROVE  \/ k = inserting
               \/ connections'[addr[k]] # None
               \/ \E j \in reaped' : addr[j] = addr[k]
    <3>1. addr[k] \in Addr
      BY DEF IInv, Mapped
    <3> QED BY <2>1, <3>1 DEF IInv, Mapped
  <2> QED BY <1>1, <1>5, <2>1, <2>2, <2>3 DEF IInv, Mapped
<1> QED
  BY <1>2, <1>3, <1>4, <1>5, <1>6, <1>7, <1>8 DEF IInv, DatagramOK

-----------------------------------------------------------------------------
(* The clients *)

(* What a client sends, packed as it packs its datagrams, is a request of  *)
(* one of the three commands when the server has unpacked it.              *)
LEMMA SentOK ==
    ASSUME NEW c \in Client, NEW state, ClientOK(c, state), state.phase \in Waiting
    PROVE  Sent(c, state).from \in Addr /\ DatagramOK(Sent(c, state).datagram)
<1> DEFINE q == Request(c, state)
           d == Datagram("connectionless", q)
<1> USE HandshakeAssumption
<1>1. RequestOK(q)
  <2>1. CASE state.phase = "querying"
    <3>1. q = [command |-> "A2S_INFO", challenge |-> None]
      BY <2>1 DEF Request
    <3> QED BY <3>1 DEF RequestOK, Known
  <2>2. CASE state.phase = "challenged"
    <3>1. q = [command |-> "A2S_INFO", challenge |-> state.challenge]
      BY <2>2 DEF Request
    <3> QED BY <3>1 DEF RequestOK, ClientOK
  <2>3. CASE state.phase = "greeting"
    <3>1. q = [command |-> "A2S_GETCHALLENGE",
               client_challenge |-> <<c, state.attempt>>]
      BY <2>3 DEF Request
    <3>2. <<c, state.attempt>> \in ClientChallenge
      BY <2>3 DEF ClientOK, State, ClientChallenge
    <3> QED BY <3>1, <3>2 DEF RequestOK
  <2>4. CASE state.phase = "connecting"
    <3>1. q = [command |-> "C2S_CONNECT", protocol_version |-> Version[c],
               auth_protocol |-> Auth[c], server_challenge |-> state.challenge,
               client_challenge |-> <<c, state.attempt>>]
      BY <2>4 DEF Request
    <3>2. <<c, state.attempt>> \in ClientChallenge
      BY <2>4 DEF ClientOK, State, ClientChallenge
    <3> QED BY <3>1, <3>2 DEF RequestOK, ClientOK
  <2> QED BY <2>1, <2>2, <2>3, <2>4 DEF Waiting
<1> HIDE DEF q
<1>2. Sent(c, state).from \in Addr
  BY DEF Sent, ClientOK, State
<1>3. Sent(c, state).datagram = Packed(Form[c], d)
  BY DEF Sent, q
<1>4. Form[c] \in Forms
  OBVIOUS
<1>5. CASE Form[c] = "plain"
  <2>1. Packed(Form[c], d) = d
    BY <1>5 DEF Packed
  <2>2. d.header = "connectionless" /\ d.data = q
    BY DEF Datagram
  <2>3. DecodeRawPacket(d) = Classify(d) /\ Classify(d).data = q
    BY <2>2 DEF DecodeRawPacket, Classify
  <2> QED BY <1>1, <1>2, <1>3, <2>1, <2>2, <2>3 DEF DatagramOK, Header
<1>6. CASE Form[c] \in {"SNAP", "LZSS"}
  <2> DEFINE e == Compressed(Form[c], d)
  <2>1. Packed(Form[c], d) = e
    BY <1>6 DEF Packed
  <2>2. e.header = "compressed" /\ e.data = d /\ d.data = q
    BY DEF Compressed, Datagram
  <2>3. \/ DecodeRawPacket(e).kind = "error"
        \/ DecodeRawPacket(e) = Classify(d) /\ Classify(d).data = q
    BY <2>2 DEF DecodeRawPacket, Classify, Error
  <2> QED BY <1>1, <1>2, <1>3, <2>1, <2>2, <2>3 DEF DatagramOK, Header
<1>7. CASE Form[c] = "split"
  <2> DEFINE e == Datagram("split", d)
  <2>1. Packed(Form[c], d) = e
    BY <1>7 DEF Packed
  <2>2. e.header = "split"
    BY DEF Datagram
  <2>3. DecodeRawPacket(e).kind = "error"
    BY <2>2 DEF DecodeRawPacket, Error
  <2> QED BY <1>2, <1>3, <2>1, <2>2, <2>3 DEF DatagramOK, Header
<1> QED BY <1>4, <1>5, <1>6, <1>7 DEF Forms

(* A client whose new state is right sends what is right. *)
LEMMA BecomePreserves ==
    ASSUME IInv, NEW c \in Client, NEW state, ClientOK(c, state), Become(c, state)
    PROVE  IInv'
<1>1. /\ client' = [client EXCEPT ![c] = state]
      /\ \/ requests' = requests
         \/ state.phase \in Waiting /\ requests' = requests \cup {Sent(c, state)}
      /\ UNCHANGED <<mapVars, accepted, origin, replies>>
  BY DEF Become
<1>2. UNCHANGED <<addr, connections, inserting, reaped, accepted, origin, replies>>
  BY <1>1 DEF mapVars
<1>3. /\ \A x : Known(x)' = Known(x)
      /\ \A x : Granted(x)' = Granted(x)
  BY <1>2 DEF Known, Told, Granted
<1>4. \A s : ReplyOK(s)' = ReplyOK(s)
  BY <1>3 DEF ReplyOK
<1>5. \A s : DatagramOK(s)' = DatagramOK(s)
  BY <1>3 DEF DatagramOK, RequestOK
<1>6. ASSUME NEW d, NEW s, ClientOK(d, s) PROVE ClientOK(d, s)'
  BY <1>3, <1>6 DEF ClientOK
<1>7. AcceptedOK' /\ Mapped'
  BY <1>2, <1>3 DEF IInv, AcceptedOK, Mapped
<1>8. \A r \in requests' : r.from \in Addr /\ DatagramOK(r.datagram)'
  BY <1>1, <1>5, SentOK DEF IInv
<1>9. /\ DOMAIN client' = Client /\ client' = [d \in Client |-> client'[d]]
      /\ \A d \in Client : client'[d] = IF d = c THEN state ELSE client[d]
  BY <1>1 DEF IInv
<1> QED
  BY <1>2, <1>4, <1>6, <1>7, <1>8, <1>9 DEF IInv

(* A client believes only replies to its own attempt.                      *)
LEMMA HearPreserves ==
    ASSUME IInv, NEW c \in Client, Hear(c)
    PROVE  IInv'
<1> DEFINE state == client[c]
           heard == {r.reply : r \in {s \in replies : s.to = state.address}}
           me == <<c, state.attempt>>
<1> USE HandshakeAssumption
<1>1. ClientOK(c, state)
  BY DEF IInv
<1>2. \A y \in heard : \E r \in replies : ReplyOK(r) /\ r.reply = y
  BY DEF IInv
<1>3. ASSUME NEW y \in heard, y.type = "S2C_CHALLENGE"
      PROVE  y.challenge \in Nat /\ Known(y.challenge)
  <2>1. PICK r \in replies : ReplyOK(r) /\ r.reply = y
    BY <1>2
  <2>2. r.to \in Addr /\ y.challenge = ChallengeOf[r.to]
    BY <1>3, <2>1 DEF ReplyOK
  <2>3. Told(r.to)
    BY <1>3, <2>1, <2>2 DEF Told
  <2> QED BY <2>2, <2>3 DEF Known
<1>4. ASSUME NEW y \in heard, y.type = "S2C_CONNECTION", y.client_challenge = me
      PROVE  Granted(me)
  <2>1. PICK r \in replies : ReplyOK(r) /\ r.reply = y
    BY <1>2
  <2>2. Granted(y.client_challenge)
    BY <1>4, <2>1 DEF ReplyOK
  <2> QED BY <1>4, <2>2
<1>5. ASSUME NEW next, ClientOK(c, next), Become(c, next) PROVE IInv'
  BY <1>5, BecomePreserves
<1>6. CASE /\ state.phase = "querying"
           /\ \E r \in {r \in heard : /\ r.type = "S2C_CHALLENGE"
                                      /\ r.client_challenge = None} :
                 Become(c, [state EXCEPT !.phase = "challenged",
                                         !.challenge = r.challenge])
  <2>1. PICK r \in heard :
            /\ r.type = "S2C_CHALLENGE"
            /\ Become(c, [state EXCEPT !.phase = "challenged",
                                       !.challenge = r.challenge])
    BY <1>6
  <2>2. ClientOK(c, [state EXCEPT !.phase = "challenged",
                                  !.challenge = r.challenge])
    BY <1>1, <1>3, <2>1 DEF ClientOK, State, Waiting
  <2> QED BY <1>5, <2>1, <2>2
<1>7. CASE Become(c, [state EXCEPT !.phase = "idle", !.challenge = None])
  <2>1. ClientOK(c, [state EXCEPT !.phase = "idle", !.challenge = None])
    BY <1>1 DEF ClientOK, State, Waiting, Known
  <2> QED BY <1>5, <1>7, <2>1
<1>8. CASE /\ state.phase = "greeting"
           /\ \E r \in {r \in heard : /\ r.type = "S2C_CHALLENGE"
                                      /\ r.client_challenge = me} :
                 Become(c, [state EXCEPT !.phase = "connecting",
                                         !.challenge = r.challenge])
  <2>1. PICK r \in heard :
            /\ r.type = "S2C_CHALLENGE"
            /\ Become(c, [state EXCEPT !.phase = "connecting",
                                       !.challenge = r.challenge])
    BY <1>8
  <2>2. ClientOK(c, [state EXCEPT !.phase = "connecting",
                                  !.challenge = r.challenge])
    BY <1>1, <1>3, <1>8, <2>1 DEF ClientOK, State, Waiting
  <2> QED BY <1>5, <2>1, <2>2
<1>9. CASE /\ \E r \in heard : r.type = "S2C_CONNECTION" /\ r.client_challenge = me
           /\ Become(c, [state EXCEPT !.phase = "connected"])
  <2>1. ClientOK(c, [state EXCEPT !.phase = "connected"])
    BY <1>1, <1>4, <1>9 DEF ClientOK, State, Waiting
  <2> QED BY <1>5, <1>9, <2>1
<1>10. CASE Become(c, [state EXCEPT !.phase = "rejected"])
  <2>1. ClientOK(c, [state EXCEPT !.phase = "rejected"])
    BY <1>1 DEF ClientOK, State, Waiting
  <2> QED BY <1>5, <1>10, <2>1
<1> QED
  BY <1>6, <1>7, <1>8, <1>9, <1>10 DEF Hear

(* A client that starts another attempt, or moves, is still a client.      *)
Greeting(s, n) == [s EXCEPT !.phase = "greeting", !.attempt = n]

LEMMA GreetingState ==
    ASSUME NEW s \in State, NEW n \in Nat
    PROVE  /\ Greeting(s, n) \in State
           /\ Greeting(s, n).phase = "greeting"
           /\ Greeting(s, n).attempt = n
           /\ Greeting(s, n).challenge = s.challenge
  BY DEF State, Waiting, Greeting

Moved(s, a, n) == [s EXCEPT !.address = a, !.moves = n]

LEMMA MovedState ==
    ASSUME NEW s \in State, NEW n \in Nat, NEW a \in Addr
    PROVE  /\ Moved(s, a, n) \in State
           /\ Moved(s, a, n).phase = s.phase
           /\ Moved(s, a, n).attempt = s.attempt
           /\ Moved(s, a, n).challenge = s.challenge
  BY DEF State, Moved

(* Every step preserves the invariant. *)
LEMMA InvNext == IInv /\ [Next]_vars => IInv'
<1> SUFFICES ASSUME IInv, [Next]_vars PROVE IInv'
  OBVIOUS
<1> USE HandshakeAssumption
<1>1. CASE Server \/ \E k \in 1 .. MaxConnections : Reap(k)
  BY <1>1, HandlePreserves, CreatePreserves, MapPreserves DEF Server
<1>2. ASSUME NEW c \in Client, Query(c) \/ Connect(c) \/ GiveUp(c) PROVE IInv'
  <2> DEFINE state == client[c]
  <2>1. ClientOK(c, state)
    BY DEF IInv
  <2>2. CASE Query(c)
    <3>1. ClientOK(c, [state EXCEPT !.phase = "querying"])
      BY <2>1 DEF ClientOK, State, Waiting
    <3> QED BY <2>2, <3>1, BecomePreserves DEF Query
  <2>3. CASE Connect(c)
    <3> DEFINE n == state.attempt + 1
    <3>1. n \in Nat /\ n # 0 /\ state \in State
      BY <2>1 DEF ClientOK, State
    <3>2. Become(c, Greeting(state, n))
      BY <2>3 DEF Connect, Greeting
    <3> HIDE DEF n
    <3>3. ClientOK(c, Greeting(state, n))
      BY <2>1, <3>1, GreetingState DEF ClientOK
    <3> QED BY <3>2, <3>3, BecomePreserves
  <2>4. CASE GiveUp(c)
    <3>1. ClientOK(c, [state EXCEPT !.phase = "idle", !.challenge = None])
      BY <2>1 DEF ClientOK, State, Waiting, Known
    <3> QED BY <2>4, <3>1, BecomePreserves DEF GiveUp
  <2> QED BY <1>2, <2>2, <2>3, <2>4
<1>3. ASSUME NEW c \in Client, Move(c) PROVE IInv'
  <2> DEFINE state == client[c]
  <2>1. ClientOK(c, state)
    BY DEF IInv
  <2> DEFINE n == state.moves + 1
  <2>2. PICK a \in Addr : Become(c, Moved(state, a, n))
    BY <1>3 DEF Move, Moved
  <2>3. n \in Nat /\ state \in State
    BY <2>1 DEF ClientOK, State
  <2> HIDE DEF n
  <2>4. ClientOK(c, Moved(state, a, n))
    <3> DEFINE next == Moved(state, a, n)
    <3>1. /\ next \in State /\ next.phase = state.phase
          /\ next.attempt = state.attempt /\ next.challenge = state.challenge
      <4> HIDE DEF state
      <4> QED BY <2>2, <2>3, MovedState
    <3>2. /\ Known(state.challenge)
          /\ state.phase \in {"greeting", "connecting"} => state.attempt # 0
          /\ state.phase = "connected" => Granted(<<c, state.attempt>>)
      BY <2>1 DEF ClientOK
    <3> HIDE DEF state, next
    <3>3. ClientOK(c, next)
      BY <3>1, <3>2 DEF ClientOK
    <3> QED BY <3>3 DEF next
  <2> QED BY <2>2, <2>4, BecomePreserves
<1>4. CASE UNCHANGED vars
  <2>1. \A x : Known(x)' = Known(x) /\ Granted(x)' = Granted(x)
    BY <1>4 DEF vars, mapVars, Known, Told, Granted
  <2> QED
    BY <1>4, <2>1 DEF vars, mapVars, IInv, ReplyOK, DatagramOK, RequestOK,
                      ClientOK, AcceptedOK, Mapped
<1> QED
  BY <1>1, <1>2, <1>3, <1>4, HearPreserves DEF Next

-----------------------------------------------------------------------------
(* What clients rely on, for every number of clients and addresses.        *)

(* So it holds in every reachable state. *)
LEMMA Invariance == Spec => []IInv
<1> QED BY InvInit, InvNext, PTL DEF Spec

(* Type correctness. *)
THEOREM HandshakeTypeCorrect == Spec => []TypeOK
<1>1. IInv => TypeOK
  <2> SUFFICES ASSUME IInv PROVE TypeOK
    OBVIOUS
  <2>1. client \in [Client -> State]
    BY DEF IInv, ClientOK
  <2>2. accepted \in Acceptance \cup {None}
    BY DEF IInv, AcceptedOK
  <2>3. /\ \A r \in requests : r.from \in Addr /\ r.datagram.header \in Header
        /\ \A r \in replies : r.to \in Addr /\ ReplyTyped(r.reply)
    BY DEF IInv, ReplyOK, DatagramOK
  <2> QED BY <2>1, <2>2, <2>3 DEF IInv, Mapped, TypeOK, State, Acceptance
<1> QED BY <1>1, Invariance, PTL

(* A client that was told it is connected has a connection of this attempt *)
(* in the map, although S2C_CONNECTION is sent before there is one, unless *)
(* a reaper of the address has run.                                        *)
THEOREM AcceptedReachConnection == Spec => []AcceptedIsRouted
<1>1. IInv => AcceptedIsRouted
  <2> SUFFICES ASSUME IInv, Idle, NEW c \in Client, client[c].phase = "connected"
               PROVE  \E k \in DOMAIN addr :
                         /\ origin[k] = <<c, client[c].attempt>>
                         /\ \/ connections[addr[k]] # None
                            \/ \E j \in reaped : addr[j] = addr[k]
    BY DEF AcceptedIsRouted
  <2>1. Granted(<<c, client[c].attempt>>)
    BY DEF IInv, ClientOK
  <2>2. accepted \notin Acceptance
    BY HandshakeAssumption DEF Idle, Acceptance, ClientChallenge
  <2>3. PICK k \in DOMAIN addr : origin[k] = <<c, client[c].attempt>>
    BY <2>1, <2>2 DEF Granted
  <2>4. k # inserting
    BY HandshakeAssumption DEF Idle, IInv, Mapped
  <2> QED BY <2>3, <2>4 DEF IInv, Mapped
<1> QED BY <1>1, Invariance, PTL

(* Where no two addresses have the same challenge, nobody is connected or  *)
(* informed at an address that was not sent its challenge.                 *)
THEOREM ChallengedFirst ==
    ASSUME \A a, b \in Addr : ChallengeOf[a] = ChallengeOf[b] => a = b
    PROVE  Spec => []ChallengeFirst
<1>1. IInv => ChallengeFirst
  <2> SUFFICES ASSUME IInv, NEW a \in Addr,
                      \/ \E k \in DOMAIN addr : addr[k] = a
                      \/ \E r \in replies : r.to = a /\ r.reply.type = "S2A_INFO_SRC"
               PROVE  Told(a)
    BY DEF ChallengeFirst, Told
  <2>1. Known(ChallengeOf[a])
    BY DEF IInv, Mapped, ReplyOK
  <2>2. ChallengeOf[a] # None
    BY HandshakeAssumption
  <2> QED BY <2>1, <2>2 DEF Known
<1> QED BY <1>1, Invariance, PTL

=============================================================================

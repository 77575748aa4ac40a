---------------------------- MODULE Connections ----------------------------
(***************************************************************************)
(* The life of the server's connections (src/main.rs): the one task that   *)
(* reads the socket (Server::run), and for each connection it creates a    *)
(* worker task (Connection::background_worker) and a reaper task           *)
(* (Server::remove_dead_connection).  They share the map of connections    *)
(* and each connection's cancellation token, and the server feeds a worker *)
(* through an unbounded channel.                                           *)
(*                                                                         *)
(* Connections are numbered in the order they are created.  What a worker  *)
(* does with a packet matters here only when it holds a Disconnect, which  *)
(* cancels the token; NetChannel models the rest of a worker's iteration.  *)
(***************************************************************************)
EXTENDS Naturals, Sequences

CONSTANTS
    Addr,             \* client addresses
    None,             \* the None of an Option
    MaxConnections,   \* bound: connections created
    MaxQueued         \* bound: packets that wait for one worker

ASSUME ConnectionsAssumption ==
    /\ None \notin 1 .. MaxConnections
    /\ MaxConnections \in Nat
    /\ MaxQueued \in Nat

Conn == 1 .. MaxConnections

VARIABLES
    addr,          \* the address of each connection created so far
    connections,   \* Server.connections: the connection mapped to an address
    inserting,     \* the connection create_connection is about to insert
    cancelled,     \* the connections whose token is cancelled
    packets,       \* packets in the channel to each worker
    worker,        \* what each worker does next
    reaper,        \* what each reaper does next
    late           \* history: packets sent after the token was cancelled

vars == <<addr, connections, inserting, cancelled, packets, worker, reaper, late>>

Packet == {"disconnect", "other"}

Init ==
    /\ addr = <<>>
    /\ connections = [a \in Addr |-> None]
    /\ inserting = None
    /\ cancelled = {}
    /\ packets = [c \in Conn |-> <<>>]
    /\ worker = [c \in Conn |-> "none"]
    /\ reaper = [c \in Conn |-> "none"]
    /\ late = [c \in Conn |-> 0]

-----------------------------------------------------------------------------
(* The server task.  It handles one datagram at a time, so it reads no     *)
(* other while create_connection waits for the map's lock.                 *)

(* Mutant: remove_dead_connection is called but never spawned. *)
CreateConnectionUnspawned(a) ==
    /\ inserting = None
    /\ Len(addr) < MaxConnections
    /\ LET c == Len(addr) + 1
       IN  /\ addr' = Append(addr, a)
           /\ inserting' = c
           /\ worker' = [worker EXCEPT ![c] = "checking"]
    /\ UNCHANGED <<connections, cancelled, packets, reaper, late>>

(* Connection::new and the first half of create_connection: the worker and *)
(* the reaper run from now on, although the map does not know of them yet. *)
CreateConnection(a) ==
    /\ inserting = None
    /\ Len(addr) < MaxConnections
    /\ LET c == Len(addr) + 1
       IN  /\ addr' = Append(addr, a)
           /\ inserting' = c
           /\ worker' = [worker EXCEPT ![c] = "checking"]
           /\ reaper' = [reaper EXCEPT ![c] = "waiting"]
    /\ UNCHANGED <<connections, cancelled, packets, late>>

(* Mutant: an address keeps the connection it has. *)
InsertIfAbsent ==
    /\ inserting # None
    /\ connections' = [connections EXCEPT
            ![addr[inserting]] = IF @ = None THEN inserting ELSE @]
    /\ inserting' = None
    /\ UNCHANGED <<addr, cancelled, packets, worker, reaper, late>>

(* The second half: what the map held for the address is dropped, and with *)
(* it the only sender of the old worker's channel.                         *)
Insert ==
    /\ inserting # None
    /\ connections' = [connections EXCEPT ![addr[inserting]] = inserting]
    /\ inserting' = None
    /\ UNCHANGED <<addr, cancelled, packets, worker, reaper, late>>

Ended(c) == worker[c] \in {"stopped", "panicked"}

(* A packet for a netchannel: it is passed to the mapped worker.  A worker *)
(* that has ended has dropped its receiver: send fails and the packet is   *)
(* lost, as it is when the address is not in the map.                      *)
RegularPacket(a) ==
    /\ inserting = None
    /\ LET c == connections[a]
       IN  /\ c # None
           /\ ~ Ended(c)
           /\ Len(packets[c]) < MaxQueued
           /\ \E packet \in Packet :
                 packets' = [packets EXCEPT ![c] = Append(@, packet)]
    /\ UNCHANGED <<addr, connections, inserting, cancelled, worker, reaper, late>>

-----------------------------------------------------------------------------
(* The worker of connection c *)

(* The loop's condition; the sleep that ends an iteration comes before it. *)
Continue(c) ==
    /\ worker[c] = "checking"
    /\ c \notin cancelled
    /\ worker' = [worker EXCEPT ![c] = "receiving"]
    /\ UNCHANGED <<addr, connections, inserting, cancelled, packets, reaper, late>>

(* The worker ends; the packets it has not read go with its receiver.      *)
Stop(c) ==
    /\ worker[c] = "checking"
    /\ c \in cancelled
    /\ worker' = [worker EXCEPT ![c] = "stopped"]
    /\ packets' = [packets EXCEPT ![c] = <<>>]
    /\ UNCHANGED <<addr, connections, inserting, cancelled, reaper, late>>

(* One packet, if one waits.  An empty channel and one whose sender is     *)
(* gone are treated alike.                                                 *)
Receive(c) ==
    /\ worker[c] = "receiving"
    /\ worker' = [worker EXCEPT ![c] = "sending"]
    /\ packets' = [packets EXCEPT ![c] = IF @ = <<>> THEN @ ELSE Tail(@)]
    /\ cancelled' = IF packets[c] # <<>> /\ Head(packets[c]) = "disconnect"
                    THEN cancelled \cup {c} ELSE cancelled
    /\ UNCHANGED <<addr, connections, inserting, reaper, late>>

(* Mutant: the loop goes on without looking at the token. *)
SendAndReceive(c) ==
    /\ worker[c] = "sending"
    /\ worker' = [worker EXCEPT
                    ![c] = IF packets[c] = <<>> THEN "checking" ELSE "receiving"]
    /\ late' = [late EXCEPT ![c] = IF c \in cancelled THEN @ + 1 ELSE @]
    /\ UNCHANGED <<addr, connections, inserting, cancelled, packets, reaper>>

(* write_packet and send_to. *)
Send(c) ==
    /\ worker[c] = "sending"
    /\ worker' = [worker EXCEPT ![c] = "checking"]
    /\ late' = [late EXCEPT ![c] = IF c \in cancelled THEN @ + 1 ELSE @]
    /\ UNCHANGED <<addr, connections, inserting, cancelled, packets, reaper>>

(* An assertion of write_packet fails (NetChannelPair!Panic): the task     *)
(* ends and nothing cancels the token.                                     *)
Panic(c) ==
    /\ worker[c] = "sending"
    /\ worker' = [worker EXCEPT ![c] = "panicked"]
    /\ packets' = [packets EXCEPT ![c] = <<>>]
    /\ UNCHANGED <<addr, connections, inserting, cancelled, reaper, late>>

-----------------------------------------------------------------------------
(* The reaper of connection c *)

(* Mutant: the timer does not stop the worker. *)
TimeoutWithoutCancel(c) ==
    /\ reaper[c] = "waiting"
    /\ inserting # c
    /\ reaper' = [reaper EXCEPT ![c] = "removing"]
    /\ UNCHANGED <<addr, connections, inserting, cancelled, packets, worker, late>>

(* The connection has lived for connection_timeout.  The timer starts when *)
(* create_connection spawns the reaper and is assumed longer than its wait *)
(* for the map's lock (20 s by default).                                   *)
Timeout(c) ==
    /\ reaper[c] = "waiting"
    /\ inserting # c
    /\ cancelled' = cancelled \cup {c}
    /\ reaper' = [reaper EXCEPT ![c] = "removing"]
    /\ UNCHANGED <<addr, connections, inserting, packets, worker, late>>

Cancelled(c) ==
    /\ reaper[c] = "waiting"
    /\ c \in cancelled
    /\ reaper' = [reaper EXCEPT ![c] = "removing"]
    /\ UNCHANGED <<addr, connections, inserting, cancelled, packets, worker, late>>

(* Mutant: an entry is kept while its worker runs. *)
RemoveIfStopped(c) ==
    /\ reaper[c] = "removing"
    /\ connections' = [connections EXCEPT
            ![addr[c]] = IF worker[c] = "stopped" THEN None ELSE @]
    /\ reaper' = [reaper EXCEPT ![c] = "done"]
    /\ UNCHANGED <<addr, inserting, cancelled, packets, worker, late>>

(* The entry of the address goes, whichever connection it is. *)
Remove(c) ==
    /\ reaper[c] = "removing"
    /\ connections' = [connections EXCEPT ![addr[c]] = None]
    /\ reaper' = [reaper EXCEPT ![c] = "done"]
    /\ UNCHANGED <<addr, inserting, cancelled, packets, worker, late>>

-----------------------------------------------------------------------------
Server == Insert \/ \E a \in Addr : CreateConnection(a) \/ RegularPacket(a)

Worker(c) == Continue(c) \/ Stop(c) \/ Receive(c) \/ Send(c) \/ Panic(c)

Reaper(c) == Timeout(c) \/ Cancelled(c) \/ Remove(c)

Next == Server \/ \E c \in Conn : Worker(c) \/ Reaper(c)

(* tokio runs every task that is ready and fires every timer; clients need *)
(* not send anything.                                                      *)
Fairness ==
    /\ WF_vars(Insert)
    /\ \A c \in Conn : WF_vars(Worker(c)) /\ WF_vars(Reaper(c))

Spec == Init /\ [][Next]_vars /\ Fairness

-----------------------------------------------------------------------------
(* Correctness *)

Created == DOMAIN addr

(* A worker and a reaper run, or have run, for each connection created,    *)
(* and for no other.                                                       *)
TasksOfCreated ==
    \A c \in Conn : /\ worker[c] # "none" <=> c \in Created
                    /\ reaper[c] # "none" <=> c \in Created

(* The values each variable ranges over, and which connections have tasks. *)
TypeOK ==
    /\ addr \in Seq(Addr) /\ Len(addr) <= MaxConnections
    /\ connections \in [Addr -> Conn \cup {None}]
    /\ inserting \in Conn \cup {None}
    /\ cancelled \subseteq Conn
    /\ packets \in [Conn -> Seq(Packet)]
    /\ worker \in [Conn -> {"none", "checking", "receiving", "sending",
                            "stopped", "panicked"}]
    /\ reaper \in [Conn -> {"none", "waiting", "removing", "done"}]
    /\ late \in [Conn -> Nat]
    /\ TasksOfCreated

(* The connections of an address that create_connection is done with. *)
Inserted(a) == {c \in Created : addr[c] = a /\ c # inserting}

(* A reconnecting client's packets go to its last connection, or nowhere:  *)
(* no late insert or removal brings an older connection back.              *)
EntryIsNewest ==
    \A a \in Addr :
        connections[a] # None =>
            /\ connections[a] \in Inserted(a)
            /\ \A c \in Inserted(a) : c <= connections[a]

(* An address that has connected stays reachable until the reaper of one   *)
(* of its connections, whose worker has been told to stop, has run.        *)
RoutedUntilReaped ==
    \A a \in Addr :
        Inserted(a) # {} /\ connections[a] = None =>
            \E c \in Inserted(a) : c \in cancelled /\ reaper[c] = "done"

(* Cancelling does not interrupt a worker, but it sends at most one more   *)
(* packet to the client.                                                   *)
AtMostOneLatePacket == \A c \in Conn : late[c] <= 1

(* The map, as Handshake sees it: without the tasks.                       *)
Map ==
    INSTANCE ConnectionMap WITH
        reaped <- {c \in Conn : reaper[c] = "done"}

(* However the server, the workers and the reapers interleave, the map     *)
(* changes as ConnectionMap says: an entry appears with the insertion of   *)
(* its connection and goes with the one run of a reaper of its address.    *)
ImplementsMap == Map!MapInit /\ [][Map!MapNext]_(Map!mapVars)

(* Every worker ends, even when its client vanishes, when a newer          *)
(* connection took its place in the map, or when nothing was ever sent.    *)
WorkersEnd == \A c \in Conn : (c \in Created) ~> Ended(c)

(* A connection that is told to stop leaves the map. *)
CancelledLeaveMap ==
    \A c \in Conn : (c \in cancelled) ~> (\A a \in Addr : connections[a] # c)

-----------------------------------------------------------------------------
(* What the comments of the source say and the code does not do.           *)

(* A worker whose channel is disconnected has lost its sender. *)
Disconnected(c) ==
    /\ inserting # c
    /\ connections[addr[c]] # c

(* src/main.rs:124: "If the channel gets disconnected, the task *should*   *)
(* have been cancelled".                                                   *)
DisconnectedIsCancelled ==
    \A c \in Created :
        worker[c] = "receiving" /\ packets[c] = <<>> /\ Disconnected(c)
            => c \in cancelled

(* src/main.rs:253, of what remove_dead_connection has removed: "removed   *)
(* dead connection".                                                       *)
OnlyDeadRemoved ==
    [][\A a \in Addr :
          connections[a] # None /\ connections'[a] = None
              => connections[a] \in cancelled]_vars

=============================================================================

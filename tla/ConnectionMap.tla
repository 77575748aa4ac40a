--------------------------- MODULE ConnectionMap ---------------------------
(***************************************************************************)
(* What the tasks of the server do to the map of connections, without the  *)
(* tasks: an abstract specification.  Connections implements it, Handshake *)
(* and Reconnect build on it.                                              *)
(***************************************************************************)
EXTENDS Naturals, Sequences

CONSTANTS
    Addr,             \* client addresses
    None,             \* the None of an Option
    MaxConnections    \* bound: connections created

ASSUME MapAssumption ==
    /\ MaxConnections \in Nat
    /\ None \notin 1 .. MaxConnections

VARIABLES
    addr,          \* the address of each connection created so far
    connections,   \* the connection mapped to each address
    inserting,     \* the connection create_connection is about to insert
    reaped         \* the connections whose reaper has run

mapVars == <<addr, connections, inserting, reaped>>

MapInit ==
    /\ addr = <<>>
    /\ connections = [a \in Addr |-> None]
    /\ inserting = None
    /\ reaped = {}

(* A connection runs from now on, although the map does not know of it.    *)
CreateConnection(a) ==
    /\ inserting = None
    /\ Len(addr) < MaxConnections
    /\ addr' = Append(addr, a)
    /\ inserting' = Len(addr) + 1
    /\ UNCHANGED <<connections, reaped>>

Insert ==
    /\ inserting # None
    /\ connections' = [connections EXCEPT ![addr[inserting]] = inserting]
    /\ inserting' = None
    /\ UNCHANGED <<addr, reaped>>

(* Each reaper empties the entry of its address once, whatever it holds.   *)
Remove(c) ==
    /\ c \in DOMAIN addr \ reaped
    /\ c # inserting
    /\ connections' = [connections EXCEPT ![addr[c]] = None]
    /\ reaped' = reaped \cup {c}
    /\ UNCHANGED <<addr, inserting>>

MapNext ==
    \/ Insert
    \/ \E a \in Addr : CreateConnection(a)
    \/ \E c \in 1 .. MaxConnections : Remove(c)

MapSpec == MapInit /\ [][MapNext]_mapVars

=============================================================================

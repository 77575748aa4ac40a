------------------------- MODULE Connections_proofs -------------------------
(***************************************************************************)
(* The invariants of Connections, for any number of addresses and          *)
(* connections and channels of any length.                                 *)
(***************************************************************************)
EXTENDS Connections, TLAPS

-----------------------------------------------------------------------------
(* Type correctness: every variable of the connection life cycle keeps to  *)
(* the values TypeOK gives it, and every connection has its two tasks.     *)
LEMMA TypeInit == Init => TypeOK
  BY ConnectionsAssumption DEF Init, TypeOK, Conn, TasksOfCreated, Created

(* Every step preserves the types. *)
LEMMA TypeNext == TypeOK /\ [Next]_vars => TypeOK'
<1> SUFFICES ASSUME TypeOK, [Next]_vars PROVE TypeOK'
  OBVIOUS
<1> USE ConnectionsAssumption DEF TypeOK, Conn
<1>1. ASSUME NEW a \in Addr, CreateConnection(a) PROVE TypeOK'
  <2> DEFINE c == Len(addr) + 1
  <2>1. /\ addr' = Append(addr, a) /\ inserting' = c
        /\ worker' = [worker EXCEPT ![c] = "checking"]
        /\ reaper' = [reaper EXCEPT ![c] = "waiting"]
        /\ UNCHANGED <<connections, cancelled, packets, late>>
    BY <1>1 DEF CreateConnection
  <2>2. Len(addr) \in Nat /\ Len(addr) < MaxConnections /\ c \in 1 .. MaxConnections
    BY <1>1 DEF CreateConnection
  <2>3. addr' \in Seq(Addr) /\ Len(addr') = c
    BY <2>1
  <2> HIDE DEF c
  <2>4. /\ worker' \in [Conn -> {"none", "checking", "receiving", "sending",
                                 "stopped", "panicked"}]
        /\ reaper' \in [Conn -> {"none", "waiting", "removing", "done"}]
    BY <2>1, <2>2
  <2>5. inserting' \in Conn /\ Len(addr') <= MaxConnections
    BY <2>1, <2>2, <2>3 DEF c
  <2>6. TasksOfCreated'
    <3>1. Created' = 1 .. c /\ Created = 1 .. Len(addr)
      BY <2>3 DEF Created
    <3>2. Created' = Created \cup {c} /\ c \notin Created
      BY <2>2, <3>1 DEF c
    <3>3. /\ \A d \in Conn \ {c} : worker'[d] = worker[d] /\ reaper'[d] = reaper[d]
          /\ worker'[c] = "checking" /\ reaper'[c] = "waiting"
      BY <2>1, <2>2
    <3> QED BY <3>2, <3>3 DEF TasksOfCreated
  <2> HIDE DEF Conn
  <2> QED BY <2>1, <2>3, <2>4, <2>5, <2>6
<1>2. CASE Insert
  BY <1>2 DEF Insert, TasksOfCreated, Created
<1>3. ASSUME NEW a \in Addr, RegularPacket(a) PROVE TypeOK'
  <2>1. PICK c \in Conn, packet \in Packet :
           packets' = [packets EXCEPT ![c] = Append(packets[c], packet)]
    BY <1>3 DEF RegularPacket
  <2>2. packets' \in [Conn -> Seq(Packet)]
    <3>1. packets \in [Conn -> Seq(Packet)]
      OBVIOUS
    <3>2. Append(packets[c], packet) \in Seq(Packet)
      BY <3>1
    <3> QED BY <2>1, <3>1, <3>2
  <2>3. UNCHANGED <<addr, connections, inserting, cancelled, worker, reaper, late>>
    BY <1>3 DEF RegularPacket
  <2> QED BY <2>2, <2>3 DEF TasksOfCreated, Created
<1>4. ASSUME NEW c \in Conn, Worker(c) PROVE TypeOK'
  <2>0. TasksOfCreated'
    <3>1. /\ worker[c] # "none" /\ worker'[c] # "none"
          /\ \A d \in Conn \ {c} : worker'[d] = worker[d]
          /\ UNCHANGED <<addr, reaper>>
      BY <1>4 DEF Worker, Continue, Stop, Receive, Send, Panic
    <3> QED BY <3>1 DEF TasksOfCreated, Created
  <2>1. CASE Continue(c)
    BY <1>4, <2>0, <2>1 DEF Continue
  <2>2. CASE Stop(c)
    BY <1>4, <2>0, <2>2 DEF Stop
  <2>3. CASE Receive(c)
    BY <1>4, <2>0, <2>3 DEF Receive
  <2>4. CASE Send(c)
    <3>1. UNCHANGED <<addr, connections, inserting, cancelled, packets, reaper>>
      BY <2>4 DEF Send
    <3>2. worker' \in [Conn -> {"none", "checking", "receiving", "sending",
                                "stopped", "panicked"}]
      BY <2>4 DEF Send
    <3>3. late' \in [Conn -> Nat]
      BY <2>4 DEF Send
    <3> QED BY <2>0, <3>1, <3>2, <3>3
  <2>5. CASE Panic(c)
    BY <1>4, <2>0, <2>5 DEF Panic
  <2> QED BY <1>4, <2>1, <2>2, <2>3, <2>4, <2>5 DEF Worker
<1>5. ASSUME NEW c \in Conn, Reaper(c) PROVE TypeOK'
  <2>0. TasksOfCreated'
    <3>1. /\ reaper[c] # "none" /\ reaper'[c] # "none"
          /\ \A d \in Conn \ {c} : reaper'[d] = reaper[d]
          /\ UNCHANGED <<addr, worker>>
      BY <1>5 DEF Reaper, Timeout, Cancelled, Remove
    <3> QED BY <3>1 DEF TasksOfCreated, Created
  <2>1. CASE Timeout(c)
    BY <1>5, <2>0, <2>1 DEF Timeout
  <2>2. CASE Cancelled(c)
    BY <1>5, <2>0, <2>2 DEF Cancelled
  <2>3. CASE Remove(c)
    BY <1>5, <2>0, <2>3 DEF Remove
  <2> QED BY <1>5, <2>1, <2>2, <2>3 DEF Reaper
<1>6. CASE UNCHANGED vars
  BY <1>6 DEF vars, TasksOfCreated, Created
<1> QED BY <1>1, <1>2, <1>3, <1>4, <1>5, <1>6 DEF Next, Server

(* The map holds connections, and every variable keeps its type, through   *)
(* every step of the server, the workers and the reapers.                  *)
THEOREM TypeCorrect == Spec => []TypeOK
<1> QED BY TypeInit, TypeNext, PTL DEF Spec

-----------------------------------------------------------------------------
(* The inductive invariant.                                                *)

(* The connection being inserted is the last one created. *)
InsertingNewest == inserting # None => Created # {} /\ inserting = Len(addr)

(* Only connections that are in the map, or were, have ever been sent a    *)
(* packet, have been cancelled or are being removed.                       *)
OnlyInserted ==
    \A c \in Conn :
        \/ packets[c] # <<>>
        \/ c \in cancelled
        \/ reaper[c] \in {"removing", "done"}
        => c \in Created /\ c # inserting

(* A reaper removes only after the token is cancelled. *)
RemovingIsCancelled ==
    \A c \in Conn : reaper[c] \in {"removing", "done"} => c \in cancelled

(* A worker in the middle of an iteration has not sent since the token was *)
(* cancelled: the last thing it did was to look at it.                     *)
NotYetLate ==
    \A c \in Conn :
        c \notin cancelled \/ worker[c] \in {"none", "receiving", "sending"}
            => late[c] = 0

IInv ==
    /\ TypeOK
    /\ InsertingNewest
    /\ OnlyInserted
    /\ RemovingIsCancelled
    /\ NotYetLate
    /\ EntryIsNewest
    /\ RoutedUntilReaped
    /\ AtMostOneLatePacket

(* Created connections are connections. *)
LEMMA CreatedInConn ==
    ASSUME TypeOK
    PROVE  /\ Created = 1 .. Len(addr) /\ Len(addr) \in Nat
           /\ Created \subseteq Conn
           /\ \A a \in Addr : Inserted(a) \subseteq Conn
<1>1. Created = 1 .. Len(addr) /\ Len(addr) \in Nat /\ Len(addr) <= MaxConnections
  BY DEF TypeOK, Created
<1>2. Created \subseteq Conn
  BY <1>1, ConnectionsAssumption DEF Conn
<1> QED BY <1>1, <1>2 DEF Inserted

(* The initial state satisfies the invariant. *)
LEMMA InvInit == Init => IInv
<1> SUFFICES ASSUME Init PROVE IInv
  OBVIOUS
<1>1. TypeOK
  BY TypeInit
<1>2. Created = {}
  BY DEF Init, Created
<1> QED
  BY <1>1, <1>2 DEF Init, IInv, Inserted, InsertingNewest, OnlyInserted,
     RemovingIsCancelled, NotYetLate, EntryIsNewest,
     RoutedUntilReaped, AtMostOneLatePacket

(* A connection that a step creates is neither in the map nor known to its *)
(* tasks yet.                                                              *)
LEMMA CreatePreserves ==
    ASSUME IInv, TypeOK', NEW a \in Addr, CreateConnection(a)
    PROVE  IInv'
<1> DEFINE new == Len(addr) + 1
<1>1. /\ new \in Conn /\ inserting = None /\ inserting' = new
      /\ addr' = Append(addr, a) /\ new # None
      /\ Created = 1 .. Len(addr) /\ Created' = Created \cup {new}
      /\ new \notin Created /\ Len(addr') = new
      /\ \A c \in Created : addr'[c] = addr[c]
  <2>1. /\ inserting = None /\ inserting' = new /\ addr' = Append(addr, a)
        /\ Len(addr) < MaxConnections /\ addr \in Seq(Addr)
    BY DEF IInv, TypeOK, CreateConnection
  <2>2. Len(addr) \in Nat /\ new \in Conn /\ new # None
    BY <2>1, ConnectionsAssumption DEF Conn
  <2>3. addr' \in Seq(Addr) /\ Len(addr') = new /\ DOMAIN addr' = 1 .. new
        /\ \A c \in 1 .. Len(addr) : addr'[c] = addr[c]
    BY <2>1, <2>2
  <2> QED BY <2>1, <2>2, <2>3, CreatedInConn DEF Created, IInv
<1>2. \A b \in Addr : Inserted(b)' = Inserted(b)
  <2>1. None \notin Created
    BY CreatedInConn, ConnectionsAssumption DEF Conn, IInv
  <2> HIDE DEF new
  <2> QED BY <1>1, <2>1 DEF Inserted
<1>3. /\ connections' = connections /\ cancelled' = cancelled
      /\ packets' = packets /\ late' = late
      /\ \A c \in Conn \ {new} : reaper'[c] = reaper[c] /\ worker'[c] = worker[c]
      /\ reaper'[new] = "waiting" /\ worker'[new] = "checking"
  BY <1>1 DEF IInv, TypeOK, CreateConnection
<1>4. InsertingNewest'
  BY <1>1 DEF InsertingNewest
<1>5. OnlyInserted'
  BY <1>1, <1>3 DEF IInv, OnlyInserted
<1>6. RemovingIsCancelled'
  BY <1>1, <1>3 DEF IInv, RemovingIsCancelled
<1>7. NotYetLate'
  <2>1. new \notin cancelled
    BY <1>1 DEF IInv, OnlyInserted
  <2> QED BY <2>1, <1>1, <1>3 DEF IInv, NotYetLate
<1>8. EntryIsNewest'
  BY <1>2, <1>3 DEF IInv, EntryIsNewest
<1>9. RoutedUntilReaped'
  <2>1. \A b \in Addr : Inserted(b) \subseteq Conn \ {new}
    BY <1>1, CreatedInConn DEF Inserted, IInv
  <2> QED BY <1>2, <1>3, <2>1 DEF IInv, RoutedUntilReaped
<1>10. AtMostOneLatePacket'
  BY <1>3 DEF IInv, AtMostOneLatePacket
<1> QED
  BY <1>4, <1>5, <1>6, <1>7, <1>8, <1>9, <1>10 DEF IInv

(* The connection that is inserted becomes the newest of its address. *)
LEMMA InsertPreserves ==
    ASSUME IInv, TypeOK', Insert
    PROVE  IInv'
<1> DEFINE new == inserting
<1>1. /\ new # None /\ new = Len(addr) /\ new \in Created /\ inserting' = None
      /\ Created = 1 .. Len(addr) /\ Created' = Created /\ addr' = addr
      /\ addr[new] \in Addr /\ None \notin Created /\ Created \subseteq Conn
  BY ConnectionsAssumption
     DEF IInv, InsertingNewest, TypeOK, Insert, Created, Conn
<1>2. \A b \in Addr :
          Inserted(b)' = Inserted(b) \cup (IF b = addr[new] THEN {new} ELSE {})
  BY <1>1 DEF Inserted
<1>3. /\ cancelled' = cancelled /\ packets' = packets /\ late' = late
      /\ reaper' = reaper /\ worker' = worker
      /\ connections' = [connections EXCEPT ![addr[new]] = new]
      /\ connections \in [Addr -> Conn \cup {None}]
  BY DEF IInv, TypeOK, Insert
<1>4. InsertingNewest'
  BY <1>1 DEF InsertingNewest
<1>5. OnlyInserted'
  BY <1>1, <1>3 DEF IInv, OnlyInserted
<1>6. RemovingIsCancelled' /\ NotYetLate' /\ AtMostOneLatePacket'
  BY <1>1, <1>3
     DEF IInv, RemovingIsCancelled, NotYetLate, AtMostOneLatePacket
<1>7. EntryIsNewest'
  <2> SUFFICES ASSUME NEW b \in Addr, connections'[b] # None
               PROVE  /\ connections'[b] \in Inserted(b)'
                      /\ \A c \in Inserted(b)' : c <= connections'[b]
    BY DEF EntryIsNewest
  <2>1. CASE b = addr[new]
    <3>1. connections'[b] = new
      BY <1>1, <1>3, <2>1
    <3>2. \A c \in Inserted(b)' : c \in 1 .. Len(addr)
      BY <1>1 DEF Inserted
    <3>3. Len(addr) \in Nat
      BY DEF IInv, TypeOK
    <3> QED BY <1>1, <1>2, <2>1, <3>1, <3>2, <3>3
  <2>2. CASE b # addr[new]
    BY <1>2, <1>3, <2>2 DEF IInv, EntryIsNewest
  <2> QED BY <2>1, <2>2
<1>8. RoutedUntilReaped'
  <2> SUFFICES ASSUME NEW b \in Addr, Inserted(b)' # {}, connections'[b] = None
               PROVE  \E c \in Inserted(b)' : c \in cancelled' /\ reaper'[c] = "done"
    BY DEF RoutedUntilReaped
  <2>1. b # addr[new]
    BY <1>1, <1>3
  <2> QED BY <1>2, <1>3, <2>1 DEF IInv, RoutedUntilReaped
<1> QED
  BY <1>4, <1>5, <1>6, <1>7, <1>8 DEF IInv

(* A removal leaves behind a reaper that is done.                          *)
LEMMA RemovePreserves ==
    ASSUME IInv, TypeOK', NEW c \in Conn, Remove(c)
    PROVE  IInv'
<1>1. /\ c \in Created /\ c # inserting /\ c \in cancelled /\ addr[c] \in Addr
  BY DEF IInv, TypeOK, Remove, OnlyInserted, RemovingIsCancelled, Created
<1>2. \A b \in Addr : Inserted(b)' = Inserted(b)
  BY DEF Remove, Inserted, Created
<1>3. /\ cancelled' = cancelled /\ packets' = packets /\ late' = late
      /\ worker' = worker /\ addr' = addr /\ inserting' = inserting
      /\ Created' = Created
      /\ connections' = [connections EXCEPT ![addr[c]] = None]
      /\ connections \in [Addr -> Conn \cup {None}]
      /\ reaper[c] = "removing" /\ reaper'[c] = "done"
      /\ \A d \in Conn \ {c} : reaper'[d] = reaper[d]
  BY DEF IInv, TypeOK, Remove, Created
<1>4. InsertingNewest' /\ OnlyInserted' /\ RemovingIsCancelled'
  BY <1>1, <1>3
     DEF IInv, InsertingNewest, OnlyInserted, RemovingIsCancelled
<1>5. NotYetLate' /\ AtMostOneLatePacket'
  BY <1>3 DEF IInv, NotYetLate, AtMostOneLatePacket
<1>6. EntryIsNewest'
  BY <1>1, <1>2, <1>3 DEF IInv, EntryIsNewest
<1>7. RoutedUntilReaped'
  <2> SUFFICES ASSUME NEW b \in Addr, Inserted(b)' # {}, connections'[b] = None
               PROVE  \E d \in Inserted(b)' : d \in cancelled' /\ reaper'[d] = "done"
    BY DEF RoutedUntilReaped
  <2>1. CASE b = addr[c]
    BY <1>1, <1>2, <1>3, <2>1 DEF Inserted
  <2>2. CASE b # addr[c]
    <3>1. PICK d \in Inserted(b) : d \in cancelled /\ reaper[d] = "done"
      BY <1>2, <1>3, <2>2 DEF IInv, RoutedUntilReaped
    <3>2. d \in Conn /\ d # c
      BY <1>3, <3>1 DEF IInv, TypeOK
    <3> QED BY <1>2, <1>3, <3>1, <3>2
  <2> QED BY <2>1, <2>2
<1> QED
  BY <1>4, <1>5, <1>6, <1>7 DEF IInv

(* Every other step leaves the map and the addresses alone, and cancels    *)
(* only what has been inserted.                                            *)
LEMMA OtherPreserves ==
    ASSUME IInv, TypeOK',
           UNCHANGED <<addr, connections, inserting>>,
           cancelled \subseteq cancelled',
           \A c \in Conn : reaper[c] = "done" => reaper'[c] = "done",
           OnlyInserted', RemovingIsCancelled',
           NotYetLate', AtMostOneLatePacket'
    PROVE  IInv'
<1>1. Created' = Created /\ \A b \in Addr : Inserted(b)' = Inserted(b)
  BY DEF Inserted, Created
<1>2. InsertingNewest'
  BY <1>1 DEF IInv, InsertingNewest
<1>3. EntryIsNewest'
  BY <1>1 DEF IInv, EntryIsNewest
<1>4. RoutedUntilReaped'
  <2> SUFFICES ASSUME NEW b \in Addr, Inserted(b) # {}, connections[b] = None
               PROVE  \E d \in Inserted(b) : d \in cancelled' /\ reaper'[d] = "done"
    BY <1>1 DEF RoutedUntilReaped
  <2>1. PICK d \in Inserted(b) : d \in cancelled /\ reaper[d] = "done"
    BY DEF IInv, RoutedUntilReaped
  <2>2. d \in Conn
    BY CreatedInConn DEF IInv
  <2> QED BY <2>1, <2>2
<1> QED
  BY <1>2, <1>3, <1>4 DEF IInv

(* Every step preserves the invariant. *)
LEMMA InvNext == IInv /\ [Next]_vars => IInv'
<1> SUFFICES ASSUME IInv, [Next]_vars PROVE IInv'
  OBVIOUS
<1>1. TypeOK'
  BY TypeNext DEF IInv
<1> USE <1>1
<1>2. ASSUME NEW a \in Addr, CreateConnection(a) PROVE IInv'
  BY <1>2, CreatePreserves
<1>3. CASE Insert
  BY <1>3, InsertPreserves
<1>4. ASSUME NEW a \in Addr, RegularPacket(a) PROVE IInv'
  <2> DEFINE c == connections[a]
  <2>1. c \in Created /\ c # inserting /\ c \in Conn
    BY <1>4 DEF RegularPacket, IInv, EntryIsNewest, Inserted, TypeOK
  <2>2. OnlyInserted'
    BY <1>4, <2>1 DEF RegularPacket, IInv, OnlyInserted, TypeOK, Created
  <2>3. RemovingIsCancelled' /\ NotYetLate' /\ AtMostOneLatePacket'
    BY <1>4 DEF RegularPacket, IInv, RemovingIsCancelled,
                NotYetLate, AtMostOneLatePacket, Created
  <2> QED BY <1>4, <2>2, <2>3, OtherPreserves DEF RegularPacket
<1>5. ASSUME NEW c \in Conn, Worker(c) PROVE IInv'
  <2>1. /\ UNCHANGED <<addr, connections, inserting, reaper>>
        /\ cancelled \subseteq cancelled'
    BY <1>5 DEF Worker, Continue, Stop, Receive, Send, Panic
  <2>2. OnlyInserted'
    <3>1. ASSUME NEW d \in Conn PROVE packets'[d] # <<>> => packets[d] # <<>>
      BY <1>5, <3>1 DEF Worker, Continue, Stop, Receive, Send, Panic, IInv, TypeOK
    <3>2. ASSUME NEW d \in Conn
          PROVE  d \in cancelled' => d \in cancelled \/ packets[d] # <<>>
      BY <1>5, <3>2 DEF Worker, Continue, Stop, Receive, Send, Panic
    <3> QED BY <2>1, <3>1, <3>2 DEF IInv, OnlyInserted, Created
  <2>3. RemovingIsCancelled'
    BY <2>1 DEF IInv, RemovingIsCancelled, Created
  <2>4. NotYetLate' /\ AtMostOneLatePacket'
    <3>1. CASE Continue(c)
      BY <3>1 DEF Continue, IInv, TypeOK, NotYetLate, AtMostOneLatePacket
    <3>2. CASE Stop(c)
      BY <3>2 DEF Stop, IInv, TypeOK, NotYetLate, AtMostOneLatePacket
    <3>3. CASE Receive(c)
      BY <3>3 DEF Receive, IInv, TypeOK, NotYetLate, AtMostOneLatePacket
    <3>4. CASE Send(c)
      BY <3>4 DEF Send, IInv, TypeOK, NotYetLate, AtMostOneLatePacket
    <3>5. CASE Panic(c)
      BY <3>5 DEF Panic, IInv, TypeOK, NotYetLate, AtMostOneLatePacket
    <3> QED BY <1>5, <3>1, <3>2, <3>3, <3>4, <3>5 DEF Worker
  <2> QED BY <2>1, <2>2, <2>3, <2>4, OtherPreserves
<1>6. ASSUME NEW c \in Conn, Timeout(c) \/ Cancelled(c) PROVE IInv'
  <2>1. c \in Created /\ c # inserting
    BY <1>6 DEF Timeout, Cancelled, IInv, TypeOK, TasksOfCreated, OnlyInserted
  <2>2. /\ UNCHANGED <<addr, connections, inserting, packets, worker, late>>
        /\ cancelled' = cancelled \cup {c}
        /\ reaper[c] = "waiting" /\ reaper'[c] = "removing"
        /\ \A d \in Conn \ {c} : reaper'[d] = reaper[d]
    BY <1>6 DEF Timeout, Cancelled, IInv, TypeOK
  <2>3. OnlyInserted' /\ RemovingIsCancelled'
    BY <2>1, <2>2 DEF IInv, OnlyInserted, RemovingIsCancelled, Created
  <2>4. NotYetLate' /\ AtMostOneLatePacket'
    BY <2>2 DEF IInv, NotYetLate, AtMostOneLatePacket
  <2> QED BY <2>2, <2>3, <2>4, OtherPreserves
<1>7. ASSUME NEW c \in Conn, Remove(c) PROVE IInv'
  BY <1>7, RemovePreserves
<1>8. CASE UNCHANGED vars
  <2> UNCHANGED vars
    BY <1>8
  <2>1. OnlyInserted' /\ RemovingIsCancelled'
    BY DEF vars, IInv, OnlyInserted, RemovingIsCancelled, Created
  <2>2. NotYetLate' /\ AtMostOneLatePacket'
    BY DEF vars, IInv, NotYetLate, AtMostOneLatePacket
  <2> QED BY <2>1, <2>2, OtherPreserves DEF vars
<1> QED
  BY <1>2, <1>3, <1>4, <1>5, <1>6, <1>7, <1>8 DEF Next, Server, Reaper

-----------------------------------------------------------------------------
(* What the server relies on, for every number of clients and connections. *)

(* So it holds in every reachable state. *)
LEMMA Invariance == Spec => []IInv
<1> QED BY InvInit, InvNext, PTL DEF Spec

(* The map routes an address to the last connection it made, or nowhere    *)
(* (create_connection and remove_dead_connection).                         *)
THEOREM RoutesToNewest == Spec => []EntryIsNewest
<1>1. IInv => EntryIsNewest
  BY DEF IInv
<1> QED BY <1>1, Invariance, PTL

(* An address is unreachable only after one of its connections has been    *)
(* cancelled and reaped.                                                   *)
THEOREM ReachableUntilReaped == Spec => []RoutedUntilReaped
<1>1. IInv => RoutedUntilReaped
  BY DEF IInv
<1> QED BY <1>1, Invariance, PTL

(* A cancelled worker (background_worker) sends at most one more packet.   *)
THEOREM OneLatePacket == Spec => []AtMostOneLatePacket
<1>1. IInv => AtMostOneLatePacket
  BY DEF IInv
<1> QED BY <1>1, Invariance, PTL
-----------------------------------------------------------------------------
(* The map without the tasks.                                              *)

(* In the beginning both are empty. *)
LEMMA MapInits == Init => Map!MapInit
  BY DEF Init, Map!MapInit, Conn

(* The reaper whose turn it is ran for the first time, of a connection     *)
(* that the map has known; every other step of a task is a step of the     *)
(* server or changes nothing the map is about.                             *)
LEMMA MapSteps == IInv /\ [Next]_vars => [Map!MapNext]_(Map!mapVars)
<1> SUFFICES ASSUME IInv, [Next]_vars PROVE [Map!MapNext]_(Map!mapVars)
  OBVIOUS
<1> DEFINE done == {c \in Conn : reaper[c] = "done"}
<1>1. ASSUME NEW a \in Addr, CreateConnection(a) PROVE Map!MapNext
  <2>1. done' = done
    BY <1>1 DEF CreateConnection, IInv, TypeOK, TasksOfCreated, Created, Conn
  <2> QED BY <1>1, <2>1 DEF CreateConnection, Map!MapNext, Map!CreateConnection
<1>2. CASE Insert
  BY <1>2 DEF Insert, Map!MapNext, Map!Insert
<1>3. ASSUME NEW c \in Conn, Remove(c) PROVE Map!MapNext
  <2>1. c \in Created /\ c # inserting /\ c \notin done
    BY <1>3 DEF Remove, IInv, OnlyInserted
  <2>2. done' = done \cup {c}
    BY <1>3 DEF Remove, IInv, TypeOK
  <2>3. Map!Remove(c)
    BY <1>3, <2>1, <2>2 DEF Remove, Map!Remove, Created
  <2> QED BY <2>3 DEF Map!MapNext, Conn
<1>4. ASSUME UNCHANGED <<addr, connections, inserting>>,
             \A c \in Conn : reaper'[c] = "done" <=> reaper[c] = "done"
      PROVE  UNCHANGED Map!mapVars
  BY <1>4 DEF Map!mapVars
<1>5. ASSUME NEW a \in Addr, RegularPacket(a) PROVE UNCHANGED Map!mapVars
  BY <1>4, <1>5 DEF RegularPacket
<1>6. ASSUME NEW c \in Conn, Worker(c) PROVE UNCHANGED Map!mapVars
  BY <1>4, <1>6 DEF Worker, Continue, Stop, Receive, Send, Panic
<1>7. ASSUME NEW c \in Conn, Timeout(c) \/ Cancelled(c) PROVE UNCHANGED Map!mapVars
  BY <1>4, <1>7 DEF Timeout, Cancelled, IInv, TypeOK
<1>8. CASE UNCHANGED vars
  BY <1>4, <1>8 DEF vars
<1> QED
  BY <1>1, <1>2, <1>3, <1>5, <1>6, <1>7, <1>8 DEF Next, Server, Reaper

(* create_connection and remove_dead_connection change the map as          *)
(* ConnectionMap says, however the tasks interleave.                       *)
THEOREM ConnectionsImplementMap == Spec => ImplementsMap
<1> QED
  BY MapInits, MapSteps, Invariance, PTL DEF Spec, ImplementsMap

=============================================================================

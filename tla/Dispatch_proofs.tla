--------------------------- MODULE Dispatch_proofs ---------------------------
(***************************************************************************)
(* The searches of any number of workers over any files, and the refresh   *)
(* that replaces the list between them: no search leaves the list it began *)
(* with, and Dispatch implements Matchmaking.  Liveness stays with TLC.    *)
(***************************************************************************)
EXTENDS Dispatch, QuickplaySession_proofs

-----------------------------------------------------------------------------
(* The inductive invariant *)

(* What the list of servers holds. *)
ListTyped ==
    /\ Len(servers) \in Nat
    /\ DOMAIN servers = 1 .. Len(servers)
    /\ \A i \in DOMAIN servers : HasScore(servers[i])

(* What was read lies between the last replacement and the files on disk,  *)
(* and the refresh goes on only with files it could decode.                *)
FilesRead ==
    /\ list_version \in DOMAIN ServerListFile /\ list_read \in DOMAIN ServerListFile
    /\ asof.schema <= schema_version /\ asof.list <= list_version
    /\ schema_read <= schema_version /\ list_read <= list_version
    /\ refresher \in {"list", "locking"} =>
          asof.schema <= schema_read /\ SchemaFile[schema_read] # None
    /\ refresher = "locking" =>
          asof.list <= list_read /\ ServerListFile[list_read] # None

ClientsTyped ==
    /\ messages \in [Conn -> Seq(Message)]
    /\ DOMAIN preferences = Conn
    /\ \A c \in Conn : HasSize(preferences[c])

(* A worker that is idle has handled its packet; one that searches does so *)
(* for the sign-on at the head of it.                                      *)
Serving(c) ==
    /\ worker[c] = "idle" => messages[c] = <<>>
    /\ worker[c] \in {"waiting", "searching"} =>
          messages[c] # <<>> /\ Head(messages[c]).kind = "signon"

(* b is the first best among the first n servers, None if none is eligible.*)
BestOf(p, list, n, b) ==
    \/ /\ b = None
       /\ \A j \in 1 .. n : ~ Eligible(p, list[j])
    \/ /\ b \in 1 .. n
       /\ Eligible(p, list[b])
       /\ \A j \in 1 .. n : Eligible(p, list[j]) =>
             \/ RecalculateServerScore(p, list[j]) < RecalculateServerScore(p, list[b])
             \/ /\ RecalculateServerScore(p, list[j]) = RecalculateServerScore(p, list[b])
                /\ b <= j

(* SearchInBounds, and what the loop has found is the best so far. *)
Searching(c) ==
    worker[c] = "searching" =>
        /\ c \in readers
        /\ position[c] <= Len(servers) + 1
        /\ BestOf(preferences[c], servers, position[c] - 1, best[c])

IInv ==
    /\ TypeOK
    /\ ListTyped
    /\ FilesRead
    /\ ClientsTyped
    /\ \A c \in Conn : Serving(c) /\ Searching(c)

-----------------------------------------------------------------------------
(* Lemmas about one step *)

(* One turn of find_server's loop keeps the best so far the first best:    *)
(* a server that only ties with it does not replace it.                    *)
LEMMA BetterKeepsBest ==
    ASSUME NEW p, HasSize(p), NEW list, Len(list) \in Nat,
           \A i \in 1 .. Len(list) : HasScore(list[i]),
           NEW n \in Nat, n < Len(list), NEW b, BestOf(p, list, n, b)
    PROVE  BestOf(p, list, n + 1, Better(p, list, b, n + 1))
  <1> DEFINE score(i) == RecalculateServerScore(p, list[i])
             fit(i) == Eligible(p, list[i])
             new == Better(p, list, b, n + 1)
  <1>1. \A i \in 1 .. n + 1 : score(i) \in Int
    BY ScoreTyped
  <1>2. new = IF fit(n + 1) /\ (b = None \/ score(n + 1) > score(b)) THEN n + 1 ELSE b
    BY DEF Better
  <1>3. \/ b = None /\ \A j \in 1 .. n : ~ fit(j)
        \/ /\ b \in 1 .. n /\ fit(b)
           /\ \A j \in 1 .. n : fit(j) => score(j) < score(b) \/ (score(j) = score(b) /\ b <= j)
    BY DEF BestOf
  <1> HIDE DEF score, fit, new
  <1>4. b \in 1 .. n => b # None
    BY FilesAssumption
  <1>5. \/ new = None /\ \A j \in 1 .. n + 1 : ~ fit(j)
        \/ /\ new \in 1 .. n + 1 /\ fit(new)
           /\ \A j \in 1 .. n + 1 :
                 fit(j) => score(j) < score(new) \/ (score(j) = score(new) /\ new <= j)
    <2>1. CASE b = None
      <3>1. \A j \in 1 .. n : ~ fit(j)
        BY <1>3, <1>4, <2>1
      <3>2. CASE fit(n + 1)
        <4>1. new = n + 1
          BY <1>2, <2>1, <3>2
        <4>2. \A j \in 1 .. n + 1 : fit(j) => j = n + 1
          BY <3>1
        <4>3. QED
          BY <1>1, <3>2, <4>1, <4>2
      <3>3. CASE ~ fit(n + 1)
        <4>1. \A j \in 1 .. n + 1 : ~ fit(j)
          BY <3>1, <3>3
        <4>2. QED
          BY <1>2, <2>1, <3>3, <4>1
      <3>4. QED
        BY <3>2, <3>3
    <2>2. CASE b \in 1 .. n /\ fit(n + 1) /\ score(n + 1) > score(b)
      <3>1. new = n + 1
        BY <1>2, <2>2
      <3>2. \A j \in 1 .. n : fit(j) => score(j) < score(n + 1)
        BY <1>1, <1>3, <1>4, <2>2
      <3>3. \A j \in 1 .. n + 1 : j \in 1 .. n \/ j = n + 1
        OBVIOUS
      <3>4. QED
        BY <1>1, <2>2, <3>1, <3>2, <3>3
    <2>3. CASE b \in 1 .. n /\ ~ (fit(n + 1) /\ score(n + 1) > score(b))
      <3>1. new = b
        BY <1>2, <1>4, <2>3
      <3>2. fit(n + 1) => score(n + 1) < score(b) \/ (score(n + 1) = score(b) /\ b <= n + 1)
        BY <1>1, <2>3
      <3>3. QED
        BY <1>3, <1>4, <2>3, <3>1, <3>2
    <2>4. QED
      BY <1>3, <2>1, <2>2, <2>3
  <1>6. QED
    BY <1>5 DEF BestOf, score, fit, new

(* Nothing of the clients' is touched by the files and by a refresh that   *)
(* has not yet got the lock.                                               *)
LEMMA QuietStep ==
    ASSUME IInv, UNCHANGED <<servers, readers, worker, cancelled, packets, messages,
                             preferences, search>>
    PROVE  ListTyped' /\ ClientsTyped' /\ \A c \in Conn : (Serving(c) /\ Searching(c))'
  <1>1. ListTyped'
    BY DEF IInv, ListTyped
  <1>2. ClientsTyped'
    BY DEF IInv, ClientsTyped
  <1>3. ASSUME NEW c \in Conn
        PROVE  Serving(c)' /\ Searching(c)'
    BY <1>3 DEF IInv, Serving, Searching, search
  <1>4. QED
    BY <1>1, <1>2, <1>3

(* Nothing of the files or the list is touched by a worker, except the     *)
(* lock; and a worker leaves the others alone.                             *)
LEMMA WorkerStep ==
    ASSUME IInv, NEW c \in Conn,
           UNCHANGED <<schema_version, list_version, refresher, schema_read, list_read,
                       servers, asof>>,
           readers \ {c} \subseteq readers',
           \A d \in Conn \ {c} : /\ worker'[d] = worker[d]
                                 /\ messages'[d] = messages[d]
                                 /\ preferences'[d] = preferences[d]
                                 /\ position'[d] = position[d]
                                 /\ best'[d] = best[d]
    PROVE  /\ ListTyped' /\ FilesRead'
           /\ \A d \in Conn \ {c} : (Serving(d) /\ Searching(d))'
  <1>1. ListTyped'
    BY DEF IInv, ListTyped
  <1>2. FilesRead'
    BY DEF IInv, FilesRead
  <1>3. ASSUME NEW d \in Conn \ {c}
        PROVE  Serving(d)' /\ Searching(d)'
    <2>1. Serving(d) /\ Searching(d)
      BY DEF IInv
    <2>2. Serving(d)'
      BY <2>1 DEF Serving
    <2>3. Searching(d)'
      BY <2>1 DEF Searching
    <2>4. QED
      BY <2>2, <2>3
  <1>4. QED
    BY <1>1, <1>2, <1>3

(* The packet a worker handles has one message less. *)
LEMMA MessageHandled ==
    ASSUME IInv, NEW c \in Conn, messages[c] # <<>>,
           messages' = [messages EXCEPT ![c] = Tail(@)]
    PROVE  /\ messages' \in [Conn -> Seq(Message)]
           /\ messages'[c] = Tail(messages[c])
           /\ \A d \in Conn \ {c} : messages'[d] = messages[d]
  <1>1. messages \in [Conn -> Seq(Message)]
    BY DEF IInv, ClientsTyped
  <1>2. Tail(messages[c]) \in Seq(Message)
    BY <1>1
  <1>3. QED
    BY <1>1, <1>2

-----------------------------------------------------------------------------
(* The initial state and every step *)

(* The invariant holds before anything has happened. *)
LEMMA InitIInv == Init => IInv
  <1> SUFFICES ASSUME Init
               PROVE  IInv
    OBVIOUS
  <1>1. TypeOK
    BY DispatchAssumption DEF Init, GlobalInit, TypeOK
  <1>2. ListTyped
    BY DEF Init, GlobalInit, ListTyped
  <1>3. FilesRead
    BY FilesAssumption DEF Init, GlobalInit, FilesRead
  <1>4. ClientsTyped
    <2>1. HasSize(DefaultPreferences)
      BY DEF HasSize, DefaultPreferences, Byte
    <2>2. messages \in [Conn -> Seq(Message)]
      BY DEF Init
    <2>3. QED
      BY <2>1, <2>2 DEF Init, ClientsTyped
  <1>5. ASSUME NEW c \in Conn
        PROVE  Serving(c) /\ Searching(c)
    BY DEF Init, Serving, Searching
  <1>6. QED
    BY <1>1, <1>2, <1>3, <1>4, <1>5 DEF IInv

(* The refresh, and the programs that write its files, keep the invariant. *)
LEMMA RefreshIInv == IInv /\ (Refresh \/ ReplaceFiles) => IInv'
  <1> SUFFICES ASSUME IInv, Refresh \/ ReplaceFiles
               PROVE  IInv'
    OBVIOUS
  <1> USE DEF files, search
  <1>1. TypeOK'
    BY DEF IInv, TypeOK, FilesRead, Refresh, RunBackground, UpdateSchema,
           UpdateServerInfo, ReplaceServers, Wake, ReplaceFiles, ReplaceSchema,
           ReplaceServerList
  <1>2. FilesRead'
    BY DEF IInv, TypeOK, FilesRead, Refresh, RunBackground, UpdateSchema,
           UpdateServerInfo, ReplaceServers, Wake, ReplaceFiles, ReplaceSchema,
           ReplaceServerList
  <1>3. CASE ~ ReplaceServers
    <2>1. UNCHANGED <<servers, readers, worker, cancelled, packets, messages,
                      preferences, search>>
      BY <1>3 DEF Refresh, RunBackground, UpdateSchema, UpdateServerInfo, Wake,
                  ReplaceFiles, ReplaceSchema, ReplaceServerList
    <2>2. QED
      BY <1>1, <1>2, <2>1, QuietStep DEF IInv
  <1>4. CASE ReplaceServers
    <2>1. /\ UNCHANGED <<worker, messages, preferences>>
          /\ readers = {}
          /\ servers' = ServerList(schema_read, list_read)
      BY <1>4 DEF Refresh, ReplaceFiles, ReplaceServers
    <2>2. list_read \in DOMAIN ServerListFile /\ ServerListFile[list_read] # None
      BY <1>4 DEF IInv, FilesRead, ReplaceServers
    <2>3. ListTyped'
      BY <2>1, <2>2, ServerListTyped DEF ListTyped
    <2>4. ClientsTyped'
      BY <2>1 DEF IInv, ClientsTyped
    <2>5. ASSUME NEW c \in Conn
          PROVE  Serving(c)' /\ Searching(c)'
      <3>1. Serving(c) /\ Searching(c)
        BY DEF IInv
      <3>2. worker[c] # "searching"
        BY <2>1, <3>1 DEF Searching
      <3>3. QED
        BY <2>1, <3>1, <3>2 DEF Serving, Searching
    <2>6. QED
      BY <1>1, <1>2, <2>3, <2>4, <2>5 DEF IInv
  <1>5. QED
    BY <1>3, <1>4

(* So does every step of a worker. *)
LEMMA WorkerIInv ==
    ASSUME NEW c \in Conn
    PROVE  IInv /\ (Timeout(c) \/ Receive(c) \/ HandlePacket(c)) => IInv'
  <1> SUFFICES ASSUME IInv, Timeout(c) \/ Receive(c) \/ HandlePacket(c)
               PROVE  IInv'
    OBVIOUS
  <1> USE DEF globals, files, search, Handles
  <1>1. /\ TypeOK /\ ListTyped /\ FilesRead /\ ClientsTyped
        /\ Serving(c) /\ Searching(c)
    BY DEF IInv
  <1>2. TypeOK'
    <2>1. CASE Examine(c)
      <3>1. Better(preferences[c], servers, best[c], position[c]) \in Nat \cup {None}
        BY <1>1 DEF Better, TypeOK
      <3>2. QED
        BY <1>1, <2>1, <3>1 DEF Examine, TypeOK
    <2>2. CASE Timeout(c) \/ Disconnect(c) \/ Unhandled(c) \/ SetConVars(c)
      BY <1>1, <2>2 DEF TypeOK, Timeout, Disconnect, Unhandled, SetConVars
    <2>3. CASE Receive(c)
      <3>1. packets[c] + 1 \in 0 .. MaxPackets
        BY <1>1, <2>3, DispatchAssumption DEF Receive, TypeOK
      <3>2. QED
        BY <1>1, <2>3, <3>1 DEF Receive, TypeOK
    <2>4. CASE Return(c) \/ SignonState(c)
      BY <1>1, <2>4 DEF TypeOK, Return, SignonState
    <2>5. CASE BeginSearch(c)
      BY <1>1, <2>5 DEF TypeOK, BeginSearch, AcquireRead
    <2>6. CASE EndSearch(c)
      BY <1>1, <2>6 DEF TypeOK, EndSearch, ReleaseRead
    <2>7. QED
      BY <2>1, <2>2, <2>3, <2>4, <2>5, <2>6 DEF HandlePacket
  <1>3. /\ UNCHANGED <<schema_version, list_version, refresher, schema_read, list_read,
                       servers, asof>>
        /\ readers \ {c} \subseteq readers'
        /\ \A d \in Conn \ {c} : /\ worker'[d] = worker[d]
                                 /\ messages'[d] = messages[d]
                                 /\ preferences'[d] = preferences[d]
                                 /\ position'[d] = position[d]
                                 /\ best'[d] = best[d]
    BY <1>1 DEF TypeOK, ClientsTyped, Timeout, Receive, HandlePacket, Return, Disconnect,
           Unhandled, SetConVars, SignonState, BeginSearch, AcquireRead, Examine,
           EndSearch, ReleaseRead
  <1>4. /\ ListTyped' /\ FilesRead'
        /\ \A d \in Conn \ {c} : (Serving(d) /\ Searching(d))'
    BY <1>3, WorkerStep
  <1>5. CASE Timeout(c)
    <2>1. UNCHANGED <<servers, readers, worker, messages, preferences, position, best>>
      BY <1>5 DEF Timeout
    <2>2. ClientsTyped' /\ Serving(c)' /\ Searching(c)'
      BY <1>1, <2>1 DEF ClientsTyped, Serving, Searching
    <2>3. QED
      BY <1>2, <1>4, <2>2 DEF IInv
  <1>6. CASE Receive(c)
    <2>1. PICK batch \in Batch : messages' = [messages EXCEPT ![c] = batch]
      BY <1>6 DEF Receive
    <2>2. batch \in Seq(Message)
      BY DispatchAssumption
    <2>3. ClientsTyped'
      BY <1>1, <1>6, <2>1, <2>2 DEF Receive, ClientsTyped
    <2>4. worker'[c] = "handling"
      BY <1>1, <1>6 DEF Receive, TypeOK
    <2>5. Serving(c)' /\ Searching(c)'
      BY <2>4 DEF Serving, Searching
    <2>6. QED
      BY <1>2, <1>4, <2>3, <2>5 DEF IInv
  <1>7. CASE Return(c)
    <2>1. worker'[c] = "idle" /\ messages' = messages /\ messages[c] = <<>>
          /\ preferences' = preferences
      BY <1>1, <1>7 DEF Return, TypeOK
    <2>2. ClientsTyped' /\ Serving(c)' /\ Searching(c)'
      BY <1>1, <2>1 DEF ClientsTyped, Serving, Searching
    <2>3. QED
      BY <1>2, <1>4, <2>2 DEF IInv
  <1>8. CASE Disconnect(c) \/ Unhandled(c) \/ SetConVars(c)
    <2>1. /\ worker' = worker /\ worker[c] = "handling" /\ messages[c] # <<>>
          /\ messages' = [messages EXCEPT ![c] = Tail(@)]
      BY <1>8 DEF Disconnect, Unhandled, SetConVars
    <2>2. messages' \in [Conn -> Seq(Message)]
      BY <2>1, MessageHandled
    <2>3. DOMAIN preferences' = Conn /\ HasSize(preferences'[c])
      <3>1. CASE Disconnect(c) \/ Unhandled(c)
        BY <1>1, <3>1 DEF Disconnect, Unhandled, ClientsTyped
      <3>2. CASE SetConVars(c)
        <4> DEFINE m == Head(messages[c])
                   new == UpdatePreferences(preferences[c], m.convars).preferences
        <4>1. m \in Message /\ m.kind = "convars"
          BY <1>1, <2>1, <3>2 DEF SetConVars, ClientsTyped
        <4>2. Len(m.convars) \in Nat
          BY <4>1, DispatchAssumption
        <4>3. HasSize(new)
          BY <1>1, <4>2, UpdateTyped DEF ClientsTyped
        <4>4. preferences' = [preferences EXCEPT ![c] = new]
          BY <3>2 DEF SetConVars
        <4> HIDE DEF new
        <4>5. QED
          BY <1>1, <4>3, <4>4 DEF ClientsTyped
      <3>3. QED
        BY <1>8, <3>1, <3>2
    <2>4. ClientsTyped'
      BY <1>1, <1>3, <2>2, <2>3 DEF ClientsTyped
    <2>5. Serving(c)' /\ Searching(c)'
      BY <2>1 DEF Serving, Searching
    <2>6. QED
      BY <1>2, <1>4, <2>4, <2>5 DEF IInv
  <1>9. CASE SignonState(c)
    <2>1. /\ worker'[c] = "waiting" /\ messages' = messages /\ preferences' = preferences
          /\ messages[c] # <<>> /\ Head(messages[c]).kind = "signon"
      BY <1>1, <1>9 DEF SignonState, TypeOK
    <2>2. ClientsTyped' /\ Serving(c)' /\ Searching(c)'
      BY <1>1, <2>1 DEF ClientsTyped, Serving, Searching
    <2>3. QED
      BY <1>2, <1>4, <2>2 DEF IInv
  <1>10. CASE BeginSearch(c)
    <2>1. /\ worker[c] = "waiting" /\ worker'[c] = "searching"
          /\ messages' = messages /\ preferences' = preferences
          /\ servers' = servers /\ c \in readers'
          /\ position'[c] = 1 /\ best'[c] = None
      BY <1>1, <1>10 DEF BeginSearch, AcquireRead, TypeOK
    <2>2. ClientsTyped' /\ Serving(c)'
      BY <1>1, <2>1 DEF ClientsTyped, Serving
    <2>3. Searching(c)'
      BY <1>1, <2>1 DEF Searching, BestOf, ListTyped
    <2>4. QED
      BY <1>2, <1>4, <2>2, <2>3 DEF IInv
  <1>11. CASE Examine(c)
    <2> DEFINE n == position[c] - 1
               new == Better(preferences[c], servers, best[c], n + 1)
    <2>1. /\ worker' = worker /\ worker[c] = "searching"
          /\ messages' = messages /\ preferences' = preferences
          /\ servers' = servers /\ readers' = readers
          /\ n \in Nat /\ n < Len(servers) /\ position[c] = n + 1
          /\ position'[c] = n + 2 /\ best'[c] = new
      BY <1>1, <1>11 DEF Examine, TypeOK, ListTyped
    <2>2. ClientsTyped' /\ Serving(c)'
      BY <1>1, <2>1 DEF ClientsTyped, Serving
    <2>3. BestOf(preferences[c], servers, n, best[c])
      BY <1>1, <2>1 DEF Searching
    <2>4. BestOf(preferences[c], servers, n + 1, new)
      BY <1>1, <2>1, <2>3, BetterKeepsBest DEF ListTyped, ClientsTyped
    <2>5. Searching(c)'
      <3> HIDE DEF n, new
      <3>1. n + 2 - 1 = n + 1 /\ n + 2 <= Len(servers) + 1
        BY <1>1, <2>1 DEF ListTyped
      <3>2. QED
        BY <1>1, <2>1, <2>4, <3>1 DEF Searching
    <2>6. QED
      BY <1>2, <1>4, <2>2, <2>5 DEF IInv
  <1>12. CASE EndSearch(c)
    <2>1. /\ worker[c] = "searching" /\ worker'[c] = "handling"
          /\ messages' = [messages EXCEPT ![c] = Tail(@)]
          /\ preferences' = preferences
      BY <1>1, <1>12 DEF EndSearch, TypeOK
    <2>2. messages[c] # <<>>
      BY <1>1, <2>1 DEF Serving
    <2>3. ClientsTyped'
      BY <1>1, <2>1, <2>2, MessageHandled DEF ClientsTyped
    <2>4. Serving(c)' /\ Searching(c)'
      BY <2>1 DEF Serving, Searching
    <2>5. QED
      BY <1>2, <1>4, <2>3, <2>4 DEF IInv
  <1>13. QED
    BY <1>5, <1>6, <1>7, <1>8, <1>9, <1>10, <1>11, <1>12 DEF HandlePacket

(* The invariant is inductive. *)
LEMMA NextIInv == IInv /\ [Next]_vars => IInv'
  <1> SUFFICES ASSUME IInv, [Next]_vars
               PROVE  IInv'
    OBVIOUS
  <1>1. CASE Refresh \/ ReplaceFiles
    BY <1>1, RefreshIInv
  <1>2. ASSUME NEW c \in Conn, Timeout(c) \/ Receive(c) \/ HandlePacket(c)
        PROVE  IInv'
    BY <1>2, WorkerIInv
  <1>3. CASE UNCHANGED vars
    <2>1. TypeOK' /\ FilesRead'
      BY <1>3 DEF IInv, TypeOK, FilesRead, vars, globals, search
    <2>2. UNCHANGED <<servers, readers, worker, cancelled, packets, messages,
                      preferences, search>>
      BY <1>3 DEF vars, globals
    <2>3. QED
      BY <2>1, <2>2, QuietStep DEF IInv
  <1>4. QED
    BY <1>1, <1>2, <1>3 DEF Next

-----------------------------------------------------------------------------
(* Theorems *)

(* The invariant holds in every reachable state. *)
LEMMA Invariant == Spec => []IInv
  BY InitIInv, NextIInv, PTL DEF Spec

(* Every variable stays within the values it ranges over, for any number   *)
(* of connections, packets, servers and versions of the files.             *)
THEOREM DispatchTypeCorrect == Spec => []TypeOK
  <1>1. IInv => TypeOK
    BY DEF IInv
  <1>2. QED
    BY Invariant, <1>1, PTL

(* No search looks past the end of the list it began with, however the     *)
(* refresh and the other searches interleave with it.                      *)
THEOREM SearchesStayInBounds == Spec => []SearchInBounds
  <1>1. IInv => SearchInBounds
    <2> SUFFICES ASSUME IInv, NEW c \in Conn, worker[c] = "searching"
                 PROVE  /\ c \in readers
                        /\ position[c] <= Len(servers) + 1
                        /\ best[c] = None \/ best[c] \in 1 .. (position[c] - 1)
      BY DEF SearchInBounds
    <2>1. QED
      BY DEF IInv, Searching, BestOf
  <1>2. QED
    BY Invariant, <1>1, PTL

-----------------------------------------------------------------------------
(* Refinement.  Matchmaking has its own copy of the operators of           *)
(* QuickplaySession, which are the same operators.                         *)

(* An update of the preferences. *)
LEMMA SameUpdate ==
    \A p, convars :
        Abstract!UpdatePreferences(p, convars) = UpdatePreferences(p, convars)
  BY DEF Abstract!UpdatePreferences, UpdatePreferences, Abstract!Apply, Apply,
         Abstract!Considered, Considered, Abstract!PreferenceError,
         PreferenceError, Abstract!UpdatePreference, UpdatePreference,
         Abstract!U8, U8, Abstract!Enumerated, Enumerated,
         Abstract!MAX_MAP_BANS, MAX_MAP_BANS, Abstract!Gamemode, Gamemode

(* The preferences of a new connection. *)
LEMMA SameDefault == Abstract!DefaultPreferences = DefaultPreferences
  BY DEF Abstract!DefaultPreferences, DefaultPreferences, Abstract!DontCare, DontCare,
         Abstract!Default, Default, Abstract!Disabled, Disabled,
         Abstract!NoRestrictions, NoRestrictions, Abstract!Enabled, Enabled,
         Abstract!MAX_MAP_BANS, MAX_MAP_BANS, Abstract!Gamemode, Gamemode

(* The score of a server. *)
LEMMA SameScore ==
    \A p, server :
        Abstract!RecalculateServerScore(p, server) = RecalculateServerScore(p, server)
  BY DEF Abstract!RecalculateServerScore, RecalculateServerScore,
         Abstract!ScoreServer, ScoreServer, Abstract!ScoreServerByPlayers,
         ScoreServerByPlayers, Abstract!HasRoom, HasRoom, Abstract!Lerp, Lerp,
         Abstract!Segment, Segment, Abstract!CountLow, CountLow,
         Abstract!CountIdeal, CountIdeal, Abstract!NewMaxPlayers, NewMaxPlayers,
         Abstract!ToNearestEven, ToNearestEven, Abstract!SCORE_LOW, SCORE_LOW,
         Abstract!SCORE_IDEAL, SCORE_IDEAL, Abstract!SCORE_FULLER, SCORE_FULLER,
         Abstract!SCORE_NO_ROOM, SCORE_NO_ROOM, Abstract!SCORE_EMPTY, SCORE_EMPTY,
         Abstract!FULL_PLAYERS, FULL_PLAYERS, Abstract!SERVER_HEADROOM, SERVER_HEADROOM

(* Whether a server may be chosen. *)
LEMMA SameEligible ==
    \A p, server : Abstract!Eligible(p, server) <=> Eligible(p, server)
  <1>1. \A p, server : Abstract!FilterServer(p, server) <=> FilterServer(p, server)
    BY DEF Abstract!FilterServer, FilterServer, Abstract!FilterTags, FilterTags,
           Abstract!MustMatch, MustMatch, Abstract!MustNotMatch, MustNotMatch,
           Abstract!Disabled, Disabled, Abstract!Enabled, Enabled,
           Abstract!Instant, Instant, Abstract!Limits, Limits,
           Abstract!Default, Default, Abstract!NoRestrictions, NoRestrictions
  <1>2. QED
    BY <1>1, SameScore DEF Abstract!Eligible, Eligible

(* The list that two files give. *)
LEMMA SameList == \A s, l : Abstract!ServerList(s, l) = ServerList(s, l)
  BY DEF Abstract!ServerList, ServerList, Abstract!ParseServerInfos,
         ParseServerInfos, Abstract!ServerParses, ServerParses,
         Abstract!ServerInfo, ServerInfo, Abstract!ParseSchema, ParseSchema,
         Abstract!Gamemode, Gamemode, Abstract!StringTagsToFlags,
         StringTagsToFlags, Abstract!TagOf, TagOf

(* The refresh replaces the list by what files that were on disk say.      *)
LEMMA RefreshImplements ==
    IInv /\ (Refresh \/ ReplaceFiles) =>
        Abstract!Replace \/ Abstract!Publish \/ UNCHANGED Abstract!vars
  <1> SUFFICES ASSUME IInv, Refresh \/ ReplaceFiles
               PROVE  Abstract!Replace \/ Abstract!Publish \/ UNCHANGED Abstract!vars
    OBVIOUS
  <1> USE DEF Abstract!vars, Abstract!clients, files
  <1>1. CASE ReplaceServers
    <2>1. /\ schema_read \in asof.schema .. schema_version
          /\ list_read \in asof.list .. list_version
          /\ SchemaFile[schema_read] # None /\ ServerListFile[list_read] # None
      BY <1>1 DEF IInv, TypeOK, FilesRead, ReplaceServers
    <2>2. servers' = Abstract!ServerList(schema_read, list_read)
      BY <1>1, SameList DEF ReplaceServers
    <2>3. UNCHANGED <<schema_version, list_version, messages, preferences, replies>>
      BY <1>1 DEF Refresh, ReplaceFiles, ReplaceServers
    <2>4. asof' = [schema |-> schema_version, list |-> list_version]
      BY <1>1 DEF ReplaceServers
    <2>5. QED
      BY <2>1, <2>2, <2>3, <2>4 DEF Abstract!Publish
  <1>2. CASE ReplaceFiles
    BY <1>2 DEF ReplaceFiles, ReplaceSchema, ReplaceServerList, Abstract!Replace
  <1>3. CASE Refresh /\ ~ ReplaceServers
    BY <1>3 DEF Refresh, RunBackground, UpdateSchema, UpdateServerInfo, Wake
  <1>4. QED
    BY <1>1, <1>2, <1>3

(* A search that ends has found the first best server of the list.         *)
LEMMA SearchImplements ==
    ASSUME NEW c \in Conn, IInv, EndSearch(c)
    PROVE  Abstract!Handle(c)
  <1> DEFINE p == preferences[c]
             n == Len(servers)
             b == best[c]
  <1>1. /\ worker[c] = "searching" /\ TypeOK /\ ListTyped
        /\ Serving(c) /\ Searching(c) /\ HasSize(p)
    BY DEF IInv, EndSearch, ClientsTyped
  <1>2. messages[c] # <<>> /\ Head(messages[c]).kind = "signon"
    BY <1>1 DEF Serving
  <1>3. position[c] - 1 = n
    BY <1>1 DEF TypeOK, ListTyped, EndSearch, Searching
  <1>4. BestOf(p, servers, n, b)
    BY <1>1, <1>3 DEF Searching
  <1>5. /\ messages' = [messages EXCEPT ![c] = Tail(@)]
        /\ replies' = [replies EXCEPT ![c] = Append(@,
                IF b = None THEN Refuse("NoMatches") ELSE Redirect(servers[b].addr))]
        /\ UNCHANGED <<preferences, schema_version, list_version, asof, servers>>
    BY DEF EndSearch, ReleaseRead, files
  <1> HIDE DEF p
  <1>6. Abstract!SignonState(c)
    <2>1. CASE b = None
      <3>1. \A i \in 1 .. n : ~ Eligible(p, servers[i])
        BY <1>1, <1>4, <2>1, FilesAssumption DEF BestOf, ListTyped
      <3>2. \A i \in DOMAIN servers : ~ Abstract!Eligible(preferences[c], servers[i])
        BY <1>1, <3>1, SameEligible DEF ListTyped, p
      <3>3. replies' = [replies EXCEPT ![c] = Append(@, Abstract!Refuse("NoMatches"))]
        BY <1>5, <2>1 DEF Refuse, Abstract!Refuse
      <3>4. QED
        BY <1>5, <3>2, <3>3 DEF Abstract!SignonState
    <2>2. CASE b # None
      <3>1. b \in DOMAIN servers /\ Eligible(p, servers[b])
        BY <1>1, <1>4, <2>2 DEF BestOf, ListTyped
      <3>2. \A j \in DOMAIN servers : Eligible(p, servers[j]) =>
               \/ RecalculateServerScore(p, servers[j]) < RecalculateServerScore(p, servers[b])
               \/ /\ RecalculateServerScore(p, servers[j]) = RecalculateServerScore(p, servers[b])
                  /\ b <= j
        BY <1>1, <1>4, <2>2 DEF BestOf, ListTyped
      <3>3. Abstract!IsBest(preferences[c], b)
        BY <3>1, <3>2, SameEligible, SameScore DEF Abstract!IsBest, p
      <3>4. replies' = [replies EXCEPT ![c] = Append(@, Abstract!Redirect(servers[b].addr))]
        BY <1>5, <2>2 DEF Redirect, Abstract!Redirect
      <3>5. QED
        BY <1>5, <3>1, <3>3, <3>4 DEF Abstract!SignonState
    <2>3. QED
      BY <2>1, <2>2
  <1>7. QED
    BY <1>2, <1>5, <1>6 DEF Abstract!Handle

(* Every other step of a worker handles the message at the head of its     *)
(* packet, takes a packet, or changes nothing that a client can see.       *)
LEMMA WorkerImplements ==
    ASSUME NEW c \in Conn, IInv, Timeout(c) \/ Receive(c) \/ HandlePacket(c)
    PROVE  Abstract!Receive(c) \/ Abstract!Handle(c) \/ UNCHANGED Abstract!vars
  <1> USE DEF globals, files, Abstract!vars, Handles
  <1>1. CASE Receive(c)
    <2>1. messages[c] = <<>>
      BY <1>1 DEF IInv, Serving, Receive
    <2>2. QED
      BY <1>1, <2>1 DEF Receive, Abstract!Receive
  <1>2. CASE Disconnect(c) \/ Unhandled(c)
    <2>1. /\ messages[c] # <<>>
          /\ Head(messages[c]).kind \in {"disconnect", "print"}
          /\ messages' = [messages EXCEPT ![c] = Tail(@)]
          /\ UNCHANGED <<preferences, replies, schema_version, list_version, asof, servers>>
      BY <1>2 DEF Disconnect, Unhandled
    <2>2. QED
      BY <2>1 DEF Abstract!Handle
  <1>3. CASE SetConVars(c)
    <2>1. /\ messages[c] # <<>>
          /\ Head(messages[c]).kind = "convars"
          /\ messages' = [messages EXCEPT ![c] = Tail(@)]
          /\ UNCHANGED <<schema_version, list_version, asof, servers>>
      BY <1>3 DEF SetConVars
    <2>2. Abstract!SetConVars(c)
      BY <1>3, SameUpdate DEF SetConVars, Abstract!SetConVars, Refuse, Abstract!Refuse
    <2>3. QED
      BY <2>1, <2>2 DEF Abstract!Handle
  <1>4. CASE EndSearch(c)
    BY <1>4, SearchImplements
  <1>5. CASE Timeout(c) \/ Return(c) \/ SignonState(c) \/ Examine(c)
    BY <1>5 DEF Timeout, Return, SignonState, Examine
  <1>6. CASE BeginSearch(c)
    BY <1>6 DEF BeginSearch, AcquireRead
  <1>7. QED
    BY <1>1, <1>2, <1>3, <1>4, <1>5, <1>6 DEF HandlePacket

(* Dispatch implements Matchmaking: whatever the interleaving of searches  *)
(* and refreshes, each message is handled once and in order, under the     *)
(* preferences set before it, and each search answers as if the list had   *)
(* stood still.                                                            *)
THEOREM DispatchImplementsMatchmaking == Spec => Matches
  <1>1. Init => Abstract!Init
    BY SameDefault DEF Init, GlobalInit, Abstract!Init
  <1>2. IInv /\ [Next]_vars => [Abstract!Next]_(Abstract!vars)
    <2> SUFFICES ASSUME IInv, [Next]_vars
                 PROVE  Abstract!Next \/ UNCHANGED Abstract!vars
      OBVIOUS
    <2>1. CASE Refresh \/ ReplaceFiles
      BY <2>1, RefreshImplements DEF Abstract!Next
    <2>2. ASSUME NEW c \in Conn, Timeout(c) \/ Receive(c) \/ HandlePacket(c)
          PROVE  Abstract!Next \/ UNCHANGED Abstract!vars
      BY <2>2, WorkerImplements DEF Abstract!Next
    <2>3. CASE UNCHANGED vars
      BY <2>3 DEF vars, globals, Abstract!vars
    <2>4. QED
      BY <2>1, <2>2, <2>3 DEF Next
  <1>3. QED
    BY Invariant, <1>1, <1>2, PTL DEF Spec, Matches
=============================================================================

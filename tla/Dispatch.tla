------------------------------ MODULE Dispatch ------------------------------
(***************************************************************************)
(* What the workers of the connections do with the messages of their       *)
(* clients (src/main.rs, Connection::handle_packet), while the list of     *)
(* servers is refreshed under their feet.  Each worker owns its session's  *)
(* preferences; the workers and the refresh share the list and its lock.   *)
(*                                                                         *)
(* NetChannel models how messages travel: here a packet is the sequence of *)
(* messages that read_packet returned, and a reply has been sent when it   *)
(* is queued.  queue_reliable_messages cannot fail for the two messages    *)
(* handle_packet makes (both can be written), so no reply is an error.     *)
(***************************************************************************)
EXTENDS QuickplayGlobal, QuickplaySession

CONSTANTS
    Conn,        \* the connections
    Batch,       \* what one packet of a client may hold
    MaxPackets   \* bound: packets a client sends

(* The messages of the batches. *)
Message == UNION {{batch[i] : i \in DOMAIN batch} : batch \in Batch}

ASSUME DispatchAssumption ==
    /\ MaxPackets \in Nat
    /\ Batch \subseteq Seq(Message)
    /\ \A m \in Message : m.kind = "convars" => Len(m.convars) \in Nat

VARIABLES
    worker,       \* what each worker does next
    cancelled,    \* the connections whose token is cancelled
    packets,      \* packets each worker has handled or begun to handle
    messages,     \* what is left of the packet each worker handles
    preferences,  \* QuickplaySession.preferences of each connection
    position,     \* the server find_server looks at next
    best,         \* the best server it has found so far, an index or None
    replies       \* what handle_packet has queued for each client

search == <<position, best>>
vars == <<globals, worker, cancelled, packets, messages, preferences, search,
          replies>>

Init ==
    /\ GlobalInit
    /\ worker = [c \in Conn |-> "idle"]
    /\ cancelled = {}
    /\ packets = [c \in Conn |-> 0]
    /\ messages = [c \in Conn |-> <<>>]
    /\ preferences = [c \in Conn |-> DefaultPreferences]
    /\ position = [c \in Conn |-> 1]
    /\ best = [c \in Conn |-> None]
    /\ replies = [c \in Conn |-> <<>>]

Redirect(addr) == [kind |-> "redirect", addr |-> addr]
Refuse(reason) == [kind |-> "disconnect", reason |-> reason]

Handles(c, kind) ==
    /\ worker[c] = "handling"
    /\ messages[c] # <<>>
    /\ Head(messages[c]).kind = kind

-----------------------------------------------------------------------------
(* The connection's lifetime is over (Connections!Timeout). *)
Timeout(c) ==
    /\ cancelled' = cancelled \cup {c}
    /\ UNCHANGED <<globals, worker, packets, messages, preferences, search,
                   replies>>

(* The loop of background_worker: the token is looked at once per packet.  *)
Receive(c) ==
    /\ worker[c] = "idle"
    /\ c \notin cancelled
    /\ packets[c] < MaxPackets
    /\ \E batch \in Batch : messages' = [messages EXCEPT ![c] = batch]
    /\ packets' = [packets EXCEPT ![c] = @ + 1]
    /\ worker' = [worker EXCEPT ![c] = "handling"]
    /\ UNCHANGED <<globals, cancelled, preferences, search, replies>>

(* handle_packet returns. *)
Return(c) ==
    /\ worker[c] = "handling"
    /\ messages[c] = <<>>
    /\ worker' = [worker EXCEPT ![c] = "idle"]
    /\ UNCHANGED <<globals, cancelled, packets, messages, preferences, search,
                   replies>>

(* The messages that follow in the packet are still handled. *)
Disconnect(c) ==
    /\ Handles(c, "disconnect")
    /\ cancelled' = cancelled \cup {c}
    /\ messages' = [messages EXCEPT ![c] = Tail(@)]
    /\ UNCHANGED <<globals, worker, packets, preferences, search, replies>>

Unhandled(c) ==
    /\ Handles(c, "print")
    /\ messages' = [messages EXCEPT ![c] = Tail(@)]
    /\ UNCHANGED <<globals, worker, cancelled, packets, preferences, search,
                   replies>>

(* Mutant: a refusal takes the preferences before it back. *)
SetConVarsAtomically(c) ==
    /\ Handles(c, "convars")
    /\ LET update == UpdatePreferences(preferences[c], Head(messages[c]).convars)
       IN  /\ preferences' = [preferences EXCEPT ![c] =
                IF update.error = None THEN update.preferences ELSE @]
           /\ replies' = [replies EXCEPT ![c] =
                IF update.error = None THEN @ ELSE Append(@, Refuse(update.error))]
    /\ messages' = [messages EXCEPT ![c] = Tail(@)]
    /\ UNCHANGED <<globals, worker, cancelled, packets, search>>

SetConVars(c) ==
    /\ Handles(c, "convars")
    /\ LET update == UpdatePreferences(preferences[c], Head(messages[c]).convars)
       IN  /\ preferences' = [preferences EXCEPT ![c] = update.preferences]
           /\ replies' = [replies EXCEPT ![c] =
                IF update.error = None THEN @ ELSE Append(@, Refuse(update.error))]
    /\ messages' = [messages EXCEPT ![c] = Tail(@)]
    /\ UNCHANGED <<globals, worker, cancelled, packets, search>>

(* A sign-on, whatever state it names, starts a search: it asks for the    *)
(* lock of the list.                                                       *)
SignonState(c) ==
    /\ Handles(c, "signon")
    /\ worker' = [worker EXCEPT ![c] = "waiting"]
    /\ UNCHANGED <<globals, cancelled, packets, messages, preferences, search,
                   replies>>

BeginSearch(c) ==
    /\ worker[c] = "waiting"
    /\ AcquireRead(c)
    /\ position' = [position EXCEPT ![c] = 1]
    /\ best' = [best EXCEPT ![c] = None]
    /\ worker' = [worker EXCEPT ![c] = "searching"]
    /\ UNCHANGED <<cancelled, packets, messages, preferences, replies>>

(* One turn of find_server's loop. *)
Examine(c) ==
    /\ worker[c] = "searching"
    /\ position[c] <= Len(servers)
    /\ best' = [best EXCEPT ![c] =
                   Better(preferences[c], servers, @, position[c])]
    /\ position' = [position EXCEPT ![c] = @ + 1]
    /\ UNCHANGED <<globals, worker, cancelled, packets, messages, preferences,
                   replies>>

(* Mutant: the guard outlives find_server. *)
EndSearchKeepingGuard(c) ==
    /\ worker[c] = "searching"
    /\ position[c] > Len(servers)
    /\ replies' = [replies EXCEPT ![c] = Append(@,
            IF best[c] = None THEN Refuse("NoMatches")
            ELSE Redirect(servers[best[c]].addr))]
    /\ messages' = [messages EXCEPT ![c] = Tail(@)]
    /\ worker' = [worker EXCEPT ![c] = "handling"]
    /\ UNCHANGED <<globals, cancelled, packets, preferences, search>>

(* find_server returns, with the lock, and its answer is queued. *)
EndSearch(c) ==
    /\ worker[c] = "searching"
    /\ position[c] > Len(servers)
    /\ ReleaseRead(c)
    /\ replies' = [replies EXCEPT ![c] = Append(@,
            IF best[c] = None THEN Refuse("NoMatches")
            ELSE Redirect(servers[best[c]].addr))]
    /\ messages' = [messages EXCEPT ![c] = Tail(@)]
    /\ worker' = [worker EXCEPT ![c] = "handling"]
    /\ UNCHANGED <<cancelled, packets, preferences, search>>

-----------------------------------------------------------------------------
HandlePacket(c) ==
    \/ Return(c) \/ Disconnect(c) \/ Unhandled(c) \/ SetConVars(c)
    \/ SignonState(c) \/ BeginSearch(c) \/ Examine(c) \/ EndSearch(c)

Refresh == RunBackground /\ UNCHANGED <<worker, cancelled, packets, messages,
                                        preferences, search, replies>>

ReplaceFiles ==
    /\ ReplaceSchema \/ ReplaceServerList
    /\ UNCHANGED <<worker, cancelled, packets, messages, preferences, search,
                   replies>>

Next ==
    \/ Refresh
    \/ ReplaceFiles
    \/ \E c \in Conn : Timeout(c) \/ Receive(c) \/ HandlePacket(c)

(* tokio runs every task that is ready, and its lock is given in the order *)
(* in which it was asked for, so a refresh does not overtake a search time *)
(* and again.  Files change and clients send when they like.               *)
Fairness ==
    /\ WF_vars(Refresh)
    /\ \A c \in Conn : WF_vars(HandlePacket(c)) /\ SF_vars(BeginSearch(c))

Spec == Init /\ [][Next]_vars /\ Fairness

-----------------------------------------------------------------------------
(* Correctness *)

(* The values each variable ranges over; the lock is held for reading by   *)
(* the workers that search, all of them and no other.                      *)
TypeOK ==
    /\ schema_version \in Nat /\ list_version \in Nat
    /\ schema_read \in Nat /\ list_read \in Nat
    /\ refresher \in {"schema", "list", "locking", "sleeping"}
    /\ readers = {c \in Conn : worker[c] = "searching"}
    /\ asof \in [schema : Nat, list : Nat]
    /\ worker \in [Conn -> {"idle", "handling", "waiting", "searching"}]
    /\ cancelled \subseteq Conn
    /\ packets \in [Conn -> 0 .. MaxPackets]
    /\ position \in [Conn -> Nat \ {0}]
    /\ best \in [Conn -> Nat \cup {None}]

(* The searches as one step each. *)
Abstract == INSTANCE Matchmaking

(* However the workers' searches and the refresh interleave, and whichever *)
(* refreshes fail half way: every message is handled once and in order,    *)
(* every answer is the best server of one whole list under the preferences *)
(* set by the messages before it, and every list is what two files said    *)
(* that were on disk after the list before.                                *)
Matches == Abstract!Init /\ [][Abstract!Next]_(Abstract!vars)

(* A search never looks past the end of the list, and what it has found so *)
(* far is an entry it has looked at: the list it began with is still there.*)
SearchInBounds ==
    \A c \in Conn :
        worker[c] = "searching" =>
            /\ c \in readers
            /\ position[c] <= Len(servers) + 1
            /\ best[c] = None \/ best[c] \in 1 .. (position[c] - 1)

(* Every sign-on is answered: searches and the refresh do not wait for     *)
(* each other for ever.                                                    *)
SignonAnswered ==
    \A c \in Conn : (worker[c] = "waiting") ~> (worker[c] = "handling")

Readable ==
    SchemaFile[schema_version] # None /\ ServerListFile[list_version] # None

UpToDate == Readable /\ servers = ServerList(schema_version, list_version)

(* When the files are left alone and can be read, the list becomes what    *)
(* they say, whatever was read before.                                     *)
ListCatchesUp == <>[]Readable => <>[]UpToDate

-----------------------------------------------------------------------------
(* What the comments of the source say and the code does not do.           *)

(* src/net/message.rs:8, of the disconnect message: "disconnect, last      *)
(* message in connection".                                                 *)
DisconnectIsLast ==
    \A c \in Conn : \A i \in 1 .. Len(replies[c]) - 1 :
        replies[c][i].kind # "disconnect"

=============================================================================

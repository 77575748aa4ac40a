---------------------------- MODULE Matchmaking -----------------------------
(***************************************************************************)
(* What the server promises to clients that look for a game, without       *)
(* tasks, locks and loops.  Every message of a client is handled in one    *)
(* step, in the order of arrival, and queues at most one reply; a sign-on  *)
(* is answered with the best server of the list of one moment, or with a   *)
(* refusal when that list has none.  The list is replaced as a whole, by   *)
(* what files that were on disk after the last replacement say.            *)
(*                                                                         *)
(* It does not promise that a refusal, which is a disconnect message, is   *)
(* the last reply: see Dispatch!DisconnectIsLast.                          *)
(***************************************************************************)
EXTENDS QuickplaySession

CONSTANTS
    Conn,               \* the connections
    Batch               \* what one packet of a client may hold

VARIABLES
    schema_version,     \* the schema on disk
    list_version,       \* the server list on disk
    asof,               \* both, when the list was last replaced
    servers,            \* the list
    messages,           \* messages of each client that are still to be handled
    preferences,        \* what each client asked for
    replies             \* the replies queued for each client

vars == <<schema_version, list_version, asof, servers, messages, preferences,
          replies>>

clients == <<messages, preferences, replies>>

Init ==
    /\ schema_version = 0
    /\ list_version = 0
    /\ asof = [schema |-> 0, list |-> 0]
    /\ servers = <<>>
    /\ messages = [c \in Conn |-> <<>>]
    /\ preferences = [c \in Conn |-> DefaultPreferences]
    /\ replies = [c \in Conn |-> <<>>]

Replace ==
    /\ \/ schema_version' = schema_version + 1 /\ UNCHANGED list_version
       \/ list_version' = list_version + 1 /\ UNCHANGED schema_version
    /\ UNCHANGED <<asof, servers, clients>>

Publish ==
    /\ \E s \in asof.schema .. schema_version, l \in asof.list .. list_version :
          /\ SchemaFile[s] # None /\ ServerListFile[l] # None
          /\ servers' = ServerList(s, l)
    /\ asof' = [schema |-> schema_version, list |-> list_version]
    /\ UNCHANGED <<schema_version, list_version, clients>>

Receive(c) ==
    /\ messages[c] = <<>>
    /\ \E batch \in Batch : messages' = [messages EXCEPT ![c] = batch]
    /\ UNCHANGED <<schema_version, list_version, asof, servers, preferences,
                   replies>>

(* The first of the servers with the highest score among those that match. *)
IsBest(p, i) ==
    /\ Eligible(p, servers[i])
    /\ \A j \in DOMAIN servers :
          Eligible(p, servers[j]) =>
             LET mine == RecalculateServerScore(p, servers[i])
                 other == RecalculateServerScore(p, servers[j])
             IN  other < mine \/ (other = mine /\ i <= j)

Redirect(addr) == [kind |-> "redirect", addr |-> addr]
Refuse(reason) == [kind |-> "disconnect", reason |-> reason]

SignonState(c) ==
    /\ \/ \E i \in DOMAIN servers :
             /\ IsBest(preferences[c], i)
             /\ replies' = [replies EXCEPT ![c] = Append(@, Redirect(servers[i].addr))]
       \/ /\ \A i \in DOMAIN servers : ~ Eligible(preferences[c], servers[i])
          /\ replies' = [replies EXCEPT ![c] = Append(@, Refuse("NoMatches"))]
    /\ UNCHANGED preferences

SetConVars(c) ==
    LET update == UpdatePreferences(preferences[c], Head(messages[c]).convars)
    IN  /\ preferences' = [preferences EXCEPT ![c] = update.preferences]
        /\ replies' = [replies EXCEPT ![c] =
              IF update.error = None THEN @
              ELSE Append(@, Refuse(update.error))]

Handle(c) ==
    /\ messages[c] # <<>>
    /\ messages' = [messages EXCEPT ![c] = Tail(@)]
    /\ CASE Head(messages[c]).kind = "signon" -> SignonState(c)
         [] Head(messages[c]).kind = "convars" -> SetConVars(c)
         [] OTHER -> UNCHANGED <<preferences, replies>>
    /\ UNCHANGED <<schema_version, list_version, asof, servers>>

Next == Replace \/ Publish \/ \E c \in Conn : Receive(c) \/ Handle(c)

Spec == Init /\ [][Next]_vars
=============================================================================

---------------------------- MODULE MCFunctions -----------------------------
(***************************************************************************)
(* The pure parts of the code against reference definitions: a session     *)
(* that is told its preferences in several messages, the score of a server *)
(* as players come and go, and what is written and read again.  A state    *)
(* is about one of the four.                                               *)
(***************************************************************************)
EXTENDS QuickplaySession, Codec

CONSTANTS
    MaxMessages,    \* bound: messages with convars
    MaxConVars,     \* bound: convars in one message
    MaxPlayers,     \* the sizes of servers
    PartySizes,     \* the sizes of parties
    MaxFields,      \* bound: strings in one message
    Strings         \* the strings

Numerals == [n \in {"0", "1", "2", "3"} |->
                CASE n = "0" -> 0 [] n = "1" -> 1 [] n = "2" -> 2 [] n = "3" -> 3]

AnyByte == 0 .. 255

(* Sizes are u8 in the code, a string is a Rust string without a NUL, and a *)
(* message has a byte for the number of its convars, two strings each.     *)
ASSUME FunctionsAssumption ==
    /\ {MaxMessages, MaxConVars, MaxFields} \subseteq Nat
    /\ MaxFields <= 2 * 255
    /\ MaxPlayers \subseteq AnyByte
    /\ PartySizes \subseteq AnyByte
    /\ \A string \in Strings :
          /\ string \in Seq({Letter, Lead, Trail})
          /\ Utf8(string)

(* The one numeral among the arguments of the convars below. *)
ASSUME SlotAssumption == "0" \in DOMAIN Number /\ Number["0"] = 0

NoFiles == [v \in {0} |-> None]
NoAddress == {}

Var(name, arg, value) == [own |-> TRUE, name |-> name, arg |-> arg, value |-> value]

ConVar ==
    {Var("rtd", "", "0"), Var("rtd", "", "1"), Var("rtd", "", ""),
     Var("rtd", "", "3"), Var("map_ban_", "0", "2fort"), Var("map_ban_", "0", "hoodoo"),
     Var("gamemode_", "arena", "1"), Var("gamemode_", "arena", "0"),
     Var("party_size", "", "3"), Var("party_size", "", "x"),
     [own |-> FALSE, name |-> "rtd", arg |-> "", value |-> "2"]}

AnyString ==
    UNION {{s \in [1 .. n -> {Letter, Lead, Trail}] : Utf8(s)} : n \in 0 .. 4}

VARIABLES
    about,         \* "preferences", "score", "strings" or "numbers"
    preferences,   \* of the session
    messages,      \* history: the convars of each message
    players, max_players, party_size,   \* of a server, and of a client
    fields,        \* the strings of one message
    varint         \* the number that is written

session == <<preferences, messages>>
server == <<players, max_players, party_size>>
written == <<fields, varint>>
vars == <<about, session, server, written>>

Init ==
    /\ preferences = DefaultPreferences
    /\ messages = <<>>
    /\ players = 0
    /\ fields = <<>>
    /\ varint = 0
    /\ \/ about = "score" /\ max_players \in MaxPlayers /\ party_size \in PartySizes
       \/ /\ about \in {"preferences", "strings", "numbers"}
          /\ max_players = 0 /\ party_size = 0

-----------------------------------------------------------------------------
(* A session *)

SetConVars ==
    /\ about = "preferences"
    /\ Len(messages) < MaxMessages
    /\ \E n \in 1 .. MaxConVars : \E convars \in [1 .. n -> ConVar] :
          /\ preferences' = UpdatePreferences(preferences, convars).preferences
          /\ messages' = Append(messages, convars)
    /\ UNCHANGED <<about, server, written>>

(* Where a convar that counts stands: its message and its place there. *)
Places == {p \in (1 .. MaxMessages) \X (1 .. MaxConVars) :
              p[1] \in DOMAIN messages /\ p[2] \in DOMAIN messages[p[1]]}

At(place) == messages[place[1]][place[2]]

(* Nothing at or before this place in its message is refused. *)
Taken(place) ==
    /\ Considered(At(place))
    /\ \A i \in 1 .. place[2] :
          Considered(At(<<place[1], i>>)) => PreferenceError(At(<<place[1], i>>)) = None

Before(p, q) == p[1] < q[1] \/ (p[1] = q[1] /\ p[2] < q[2])

(* The convar that last set a preference, as a set of one or none. *)
LastSetting(name, arg) ==
    LET setting == {p \in Places : /\ Taken(p)
                                   /\ At(p).name = name /\ At(p).arg = arg}
    IN  {At(p) : p \in {q \in setting : \A r \in setting : r = q \/ Before(r, q)}}

(* Each preference has the value that was asked for last, over all the     *)
(* messages of the session; a message counts up to its first bad           *)
(* preference.  So what a refused message leaves behind is exactly its     *)
(* good beginning.                                                         *)
(*                                                                         *)
(* An empty value never counts.  src/quickplay/session.rs:247-249 says of  *)
(* one that it is "treated as if it doesn't exist": this takes the convar  *)
(* to be what does not exist, as the code does, and not the setting, which *)
(* an earlier message may have made and which would then be taken back.    *)
LastSettingWins ==
    LET asked(name, arg) == LastSetting(name, arg) # {}
        last(name, arg) == (CHOOSE convar \in LastSetting(name, arg) : TRUE).value
    IN  /\ \A name \in Enumerated \cup {"party_size"} :
              preferences[name] = IF asked(name, "") THEN Number[last(name, "")]
                                  ELSE DefaultPreferences[name]
        /\ preferences.map_bans[0] = IF asked("map_ban_", "0")
                                     THEN last("map_ban_", "0") ELSE None
        /\ \A mode \in Gamemode :
              mode \in preferences.gamemodes
                 <=> IF asked("gamemode_", mode) THEN last("gamemode_", mode) = "1"
                     ELSE mode \in DefaultPreferences.gamemodes

-----------------------------------------------------------------------------
(* A server *)

Join ==
    /\ about = "score"
    /\ players < max_players
    /\ players' = players + 1
    /\ UNCHANGED <<about, session, max_players, party_size, written>>

Leave ==
    /\ about = "score"
    /\ players > 0
    /\ players' = players - 1
    /\ UNCHANGED <<about, session, max_players, party_size, written>>

Score(party) == ScoreServerByPlayers(players, max_players, party)

(* No interpolation divides by zero or reaches outside its two knots: the  *)
(* knots that apply to a count never coincide, whatever the maximum.       *)
KnotsApart ==
    HasRoom(players, max_players, party_size) /\ players > 0 =>
        LET count == players + party_size
            s == Segment(count, max_players)
        IN  s[1] < s[2] /\ count \in (s[1] + 1) .. s[2]

(* The score of a server that has players and room for the party is        *)
(* positive, however few the players, and at most SCORE_IDEAL: such a      *)
(* server ranks above an empty one of the same list score.                 *)
ScoreBounded ==
    HasRoom(players, max_players, party_size) /\ players > 0 =>
        Score(party_size) \in 1 .. SCORE_IDEAL

(* As players join, the score with the party rises until the ideal count,  *)
(* and does not rise again after it, although for more than FULL_PLAYERS   *)
(* seats the knots are out of order.  (In a server of three or four seats  *)
(* the low and the ideal count coincide, and the score there is the low.)  *)
PeaksAtIdeal ==
    [][/\ Join
       /\ players > 0 /\ HasRoom(players + 1, max_players, party_size)
       /\ CountLow(max_players) < CountIdeal(max_players)
       =>
          IF players + 1 + party_size <= CountIdeal(max_players)
          THEN Score(party_size)' >= Score(party_size)
          ELSE Score(party_size)' <= Score(party_size)]_vars

(* A server with room for one player and not for the party loses at least  *)
(* ninety-nine points, so find_server does not send the party there unless *)
(* the list says it is worth a hundred.                                    *)
NoRoomCosts ==
    /\ party_size > 1
    /\ HasRoom(players, max_players, 1)
    /\ ~ HasRoom(players, max_players, party_size)
    => Score(party_size) - Score(1) <= -99000

-----------------------------------------------------------------------------
(* What is written *)

AddField ==
    /\ about = "strings"
    /\ Len(fields) < MaxFields
    /\ \E string \in Strings : fields' = Append(fields, string)
    /\ UNCHANGED <<about, session, server, varint>>

AddOne ==
    /\ about = "numbers"
    /\ varint < 2 ^ U32_BITS - 1
    /\ varint' = varint + 1
    /\ UNCHANGED <<about, session, server, fields>>

Short(max_len) == \A i \in DOMAIN fields : Len(fields[i]) < max_len

(* The strings of a message are read as they were written, and the reader  *)
(* stands where the next message begins, exactly when every one is shorter *)
(* than the limit: a convar's name or value that is as long leaves its     *)
(* terminator unread, which is then an empty string and shifts all others. *)
MessagesSurvive ==
    LET next == <<Letter, Nul>>
        survives(type, wire) == ReadMessage(type, wire \o next) = Got(fields, next)
        write(type) == WriteMessage(type, fields).value
    IN  /\ about = "strings" /\ Len(fields) % 2 = 0 =>
              (survives("convars", WriteConVars(fields)) <=> Short(MaxConVarPart))
        /\ about = "strings" /\ Len(fields) = 1 =>
              /\ survives("disconnect", write("disconnect")) <=> Short(MaxReason)
              /\ survives("print", write("print")) <=> Short(MaxText)

(* Every u32 is read as it was written, in at most MAX_VARINT_32_BYTES     *)
(* bytes and without a look at the byte that follows.                      *)
NumbersSurvive ==
    \A next \in {0, Group} :
        LET wire == WriteVarint32(varint)
        IN  /\ Len(wire) <= MAX_VARINT_32_BYTES
            /\ ReadVarint32(wire \o <<next>>) = Got(varint, <<next>>)

-----------------------------------------------------------------------------
Next == SetConVars \/ Join \/ Leave \/ AddField \/ AddOne

Spec == Init /\ [][Next]_vars

=============================================================================

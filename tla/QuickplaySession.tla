-------------------------- MODULE QuickplaySession --------------------------
(***************************************************************************)
(* The preferences of one client and the choice of a server for them       *)
(* (src/quickplay/session.rs).  The module has no variables: Dispatch puts *)
(* its operators into the connections.                                     *)
(*                                                                         *)
(* What is abstracted:                                                     *)
(*  - a convar's name is split where the code splits it: own says whether  *)
(*    it begins with preference_convar_prefix, name is the preference (or  *)
(*    "map_ban_", "gamemode_"), arg is what follows those two.             *)
(*  - parsing a numeral is the constant function Number.                   *)
(*  - bit flags are sets of strings.                                       *)
(*  - an f32 score is a number of thousandths.  An interpolation is rounded*)
(*    down to one; the counts it is made of are exact, as they are in f32  *)
(*    (see ToNearestEven).                                                 *)
(***************************************************************************)
EXTENDS QuickplayFiles

CONSTANT Number   \* the numerals among the strings, each with its number

(* PreferenceDecodeError: why a preference is refused. *)
Error == {"UnknownPreference", "InvalidValue", "UnparseableValue"}

ASSUME NumberAssumption == \A v \in DOMAIN Number : Number[v] \in Nat
ASSUME ErrorAssumption == None \notin Error

MAX_MAP_BANS == 6

-----------------------------------------------------------------------------
(* Preferences *)

(* The five preferences with three values each, numbered as in the enums.  *)
Enumerated == {"random_crits", "respawn_times", "rtd", "class_restrictions",
               "objectives"}

Disabled == 0
Enabled == 1
Default == 0
Instant == 1
NoRestrictions == 0
Limits == 1
DontCare == 2

DefaultPreferences ==
    [random_crits |-> DontCare, respawn_times |-> Default, rtd |-> Disabled,
     class_restrictions |-> NoRestrictions, objectives |-> Enabled,
     party_size |-> 1,
     map_bans |-> [slot \in 0 .. (MAX_MAP_BANS - 1) |-> None],
     gamemodes |-> Gamemode \ {"alternative", "arena"}]

(* parse::<u8>() succeeds. *)
U8(v) == v \in DOMAIN Number /\ Number[v] <= 255

(* The error update_preference returns for a convar, or None. *)
PreferenceError(convar) ==
    CASE convar.name = "map_ban_" ->
            IF convar.arg \in DOMAIN Number /\ Number[convar.arg] < MAX_MAP_BANS
            THEN None ELSE "UnknownPreference"
      [] convar.name = "gamemode_" ->
            IF convar.arg \notin Gamemode THEN "UnknownPreference"
            ELSE IF convar.value \in {"0", "1"} THEN None ELSE "InvalidValue"
      [] convar.name \in Enumerated ->
            IF ~ U8(convar.value) THEN "UnparseableValue"
            ELSE IF Number[convar.value] <= 2 THEN None ELSE "InvalidValue"
      [] convar.name = "party_size" ->
            IF U8(convar.value) THEN None ELSE "UnparseableValue"
      [] OTHER -> "UnknownPreference"

(* The preferences after a convar that update_preference accepts. *)
UpdatePreference(p, convar) ==
    CASE convar.name = "map_ban_" ->
            [p EXCEPT !.map_bans[Number[convar.arg]] = convar.value]
      [] convar.name = "gamemode_" ->
            [p EXCEPT !.gamemodes = IF convar.value = "1"
                                    THEN @ \cup {convar.arg} ELSE @ \ {convar.arg}]
      [] OTHER -> [p EXCEPT ![convar.name] = Number[convar.value]]

(* A convar that is not skipped. *)
Considered(convar) == convar.own /\ convar.value # ""

(* Mutant: a bad preference is passed over. *)
Skip(session, convar) ==
    IF Considered(convar) /\ PreferenceError(convar) = None
    THEN [session EXCEPT !.preferences = UpdatePreference(@, convar)]
    ELSE session

(* One turn of the loop: nothing is looked at after the first error. *)
Apply(session, convar) ==
    IF session.error # None \/ ~ Considered(convar) THEN session
    ELSE IF PreferenceError(convar) # None
    THEN [session EXCEPT !.error = PreferenceError(convar)]
    ELSE [session EXCEPT !.preferences = UpdatePreference(@, convar)]

(* update_preferences_from_convars: the preferences afterwards, and the    *)
(* error that ended the loop, if any.                                      *)
UpdatePreferences(p, convars) ==
    LET after[k \in 0 .. Len(convars)] ==
            IF k = 0 THEN [preferences |-> p, error |-> None]
            ELSE Apply(after[k-1], convars[k])
    IN  after[Len(convars)]

-----------------------------------------------------------------------------
(* Filter *)

(* A preference, the value that asks for a tag, and the tag. *)
MustMatch ==
    {<<"random_crits", Disabled, "NO_CRITS">>,
     <<"respawn_times", Instant, "NO_RESPAWN_TIMES">>,
     <<"rtd", Enabled, "RTD">>,
     <<"class_restrictions", Limits, "CLASS_BANS">>,
     <<"objectives", Disabled, "NO_OBJECTIVES">>}

(* A preference, the value that excludes a tag, and the tag. *)
MustNotMatch ==
    {<<"random_crits", Enabled, "NO_CRITS">>,
     <<"respawn_times", Default, "RESPAWN_TIMES">>,
     <<"respawn_times", Default, "NO_RESPAWN_TIMES">>,
     <<"rtd", Disabled, "RTD">>,
     <<"class_restrictions", NoRestrictions, "CLASS_LIMITS">>,
     <<"class_restrictions", NoRestrictions, "CLASS_BANS">>,
     <<"objectives", Enabled, "NO_OBJECTIVES">>}

(* build_filter_tags, for one of the two tables. *)
FilterTags(table, p) == {rule[3] : rule \in {r \in table : p[r[1]] = r[2]}}

FilterServer(p, server) ==
    /\ server.gamemode \in p.gamemodes
    /\ FilterTags(MustMatch, p) \subseteq server.tags
    /\ FilterTags(MustNotMatch, p) \cap server.tags = {}
    /\ \A slot \in DOMAIN p.map_bans : p.map_bans[slot] # server.map

-----------------------------------------------------------------------------
(* Score *)

SERVER_HEADROOM == 1
FULL_PLAYERS == 24

SCORE_LOW == 100
SCORE_IDEAL == 1600
SCORE_FULLER == 200
SCORE_NO_ROOM == -100000
SCORE_EMPTY == -300

(* The even number nearest to num / den, halves rounded up.  In f32 a third*)
(* of a count is exact when it is halfway, and 0.72 of a count is never    *)
(* halfway, so rounding there does not depend on f32's precision.          *)
ToNearestEven(num, den) == 2 * ((num + den) \div (2 * den))

CountLow(max_players) == ToNearestEven(max_players, 3)
CountIdeal(max_players) == ToNearestEven(72 * max_players, 100)

NewMaxPlayers(max_players) ==
    IF max_players > FULL_PLAYERS THEN max_players - FULL_PLAYERS
    ELSE max_players

(* Mutants: the full count is looked at before the ideal one; the score    *)
(* rises between them.                                                     *)
SegmentFullFirst(count, max_players) ==
    LET low == CountLow(max_players)
        ideal == CountIdeal(max_players)
        full == NewMaxPlayers(max_players)
    IN  IF count <= low THEN <<0, low, 0, SCORE_LOW>>
        ELSE IF count <= full THEN <<ideal, full, SCORE_IDEAL, SCORE_FULLER>>
        ELSE IF count <= ideal THEN <<low, ideal, SCORE_LOW, SCORE_IDEAL>>
        ELSE <<full, max_players, SCORE_FULLER, SCORE_LOW>>

SegmentRising(count, max_players) ==
    LET low == CountLow(max_players)
        ideal == CountIdeal(max_players)
        full == NewMaxPlayers(max_players)
    IN  IF count <= low THEN <<0, low, 0, SCORE_LOW>>
        ELSE IF count <= ideal THEN <<low, ideal, SCORE_LOW, SCORE_IDEAL>>
        ELSE IF count <= full THEN <<ideal, full, SCORE_FULLER, SCORE_IDEAL>>
        ELSE <<full, max_players, SCORE_FULLER, SCORE_LOW>>

(* The two knots that a count lies between, and the scores there. *)
Segment(count, max_players) ==
    LET low == CountLow(max_players)
        ideal == CountIdeal(max_players)
        full == NewMaxPlayers(max_players)
    IN  IF count <= low THEN <<0, low, 0, SCORE_LOW>>
        ELSE IF count <= ideal THEN <<low, ideal, SCORE_LOW, SCORE_IDEAL>>
        ELSE IF count <= full THEN <<ideal, full, SCORE_IDEAL, SCORE_FULLER>>
        ELSE <<full, max_players, SCORE_FULLER, SCORE_LOW>>

(* Mutant: the interpolation starts at the wrong knot. *)
LerpFromEnd(s, x) == s[4] + ((s[4] - s[3]) * (x - s[1])) \div (s[2] - s[1])

Lerp(s, x) == s[3] + ((s[4] - s[3]) * (x - s[1])) \div (s[2] - s[1])

(* The party finds a seat each, and SERVER_HEADROOM seats stay free. *)
HasRoom(players, max_players, party_size) ==
    players + party_size + SERVER_HEADROOM <= max_players

(* Mutant: an empty server is recognised before a full one. *)
ScoreEmptyFirst(players, max_players, party_size) ==
    IF players = 0 THEN SCORE_EMPTY
    ELSE IF ~ HasRoom(players, max_players, party_size) THEN SCORE_NO_ROOM
    ELSE Lerp(Segment(players + party_size, max_players), players + party_size)

ScoreServerByPlayers(players, max_players, party_size) ==
    IF ~ HasRoom(players, max_players, party_size) THEN SCORE_NO_ROOM
    ELSE IF players = 0 THEN SCORE_EMPTY
    ELSE Lerp(Segment(players + party_size, max_players), players + party_size)

ScoreServer(p, server) ==
    IF p.party_size <= 1 THEN 0
    ELSE ScoreServerByPlayers(server.players, server.max_players, p.party_size)
           - ScoreServerByPlayers(server.players, server.max_players, 1)

(* score_server_for_user is 0 until the server knows a client's ping. *)
RecalculateServerScore(p, server) == server.score + ScoreServer(p, server)

-----------------------------------------------------------------------------
(* Choice *)

(* The two tests that find_server's loop makes of a server by itself. *)
Eligible(p, server) ==
    /\ FilterServer(p, server)
    /\ RecalculateServerScore(p, server) > 1000

(* One turn of find_server's loop; best is the index of the best server so *)
(* far, or None.                                                           *)
Better(p, servers, best, i) ==
    IF /\ Eligible(p, servers[i])
       /\ \/ best = None
          \/ RecalculateServerScore(p, servers[i])
                > RecalculateServerScore(p, servers[best])
    THEN i ELSE best

=============================================================================

-------------------------- MODULE MCFunctions_proofs --------------------------
(***************************************************************************)
(* Theorems about the pure parts of the code: what TLC checks on small     *)
(* inputs, for sessions, messages and servers of any size.                 *)
(***************************************************************************)
EXTENDS MCFunctions, QuickplaySession_proofs, SequenceTheorems

-----------------------------------------------------------------------------
(* A server that fills and empties *)

(* A server's and a party's numbers are bytes. *)
Sizes ==
    /\ max_players \in Byte /\ party_size \in Byte
    /\ players \in 0 .. max_players

(* No step leaves the range of a byte. *)
LEMMA SizesStay == Spec => []Sizes
  <1>1. Init => Sizes
    <2>1. SUFFICES ASSUME Init
                   PROVE  Sizes
      OBVIOUS
    <2>2. MaxPlayers \subseteq Byte /\ PartySizes \subseteq Byte
      BY FunctionsAssumption DEF Byte, AnyByte
    <2>3. 0 \in Byte
      BY DEF Byte
    <2>4. max_players \in Byte /\ party_size \in Byte /\ players = 0
      BY <2>1, <2>2, <2>3 DEF Init
    <2>5. QED
      BY <2>4 DEF Sizes, Byte
  <1>2. Sizes /\ [Next]_vars => Sizes'
    <2>1. SUFFICES ASSUME Sizes, [Next]_vars
                   PROVE  Sizes'
      OBVIOUS
    <2>2. CASE Join
      BY <2>1, <2>2 DEF Join, Sizes, Byte
    <2>3. CASE Leave
      BY <2>1, <2>3 DEF Leave, Sizes, Byte
    <2>4. CASE UNCHANGED server
      BY <2>1, <2>4 DEF server, Sizes
    <2>5. QED
      BY <2>1, <2>2, <2>3, <2>4
         DEF Next, vars, SetConVars, AddField, AddOne
  <1>3. QED
    BY <1>1, <1>2, PTL DEF Spec

(* Whatever the numbers of players, seats and party members: no            *)
(* interpolation of score_server_by_players divides by zero or reaches     *)
(* outside its two knots.                                                  *)
THEOREM KnotsStayApart == Spec => []KnotsApart
  <1>1. Sizes => KnotsApart
    <2>1. SUFFICES ASSUME Sizes, HasRoom(players, max_players, party_size), players > 0
                   PROVE  LET count == players + party_size
                              s == Segment(count, max_players)
                          IN  s[1] < s[2] /\ count \in (s[1] + 1) .. s[2]
      BY DEF KnotsApart
    <2> DEFINE count == players + party_size
               s == Segment(count, max_players)
    <2>2. players \in Byte /\ count \in Nat
      BY <2>1 DEF Sizes, Byte
    <2>3. s[1] \in Nat /\ s[2] \in Nat /\ s[1] < count /\ count <= s[2]
      BY <2>1, <2>2, KnotsNeverCoincide DEF Sizes
    <2> HIDE DEF s, count
    <2>4. s[1] < s[2] /\ count \in (s[1] + 1) .. s[2]
      BY <2>2, <2>3
    <2>5. QED
      BY <2>4 DEF s, count
  <1>2. QED
    BY <1>1, SizesStay, PTL

(* A server with players and room for the party has a positive score, and  *)
(* one of at most SCORE_IDEAL.                                             *)
THEOREM ScoreStaysBounded == Spec => []ScoreBounded
  <1>1. Sizes => ScoreBounded
    <2>1. SUFFICES ASSUME Sizes, HasRoom(players, max_players, party_size), players > 0
                   PROVE  Score(party_size) \in 1 .. SCORE_IDEAL
      BY DEF ScoreBounded
    <2>2. players \in Byte
      BY <2>1 DEF Sizes, Byte
    <2>3. QED
      BY <2>1, <2>2, ScoreInRange DEF Sizes, Score
  <1>2. QED
    BY <1>1, SizesStay, PTL

(* A server with room for one and not for the party costs the party        *)
(* ninety-nine points.                                                     *)
THEOREM NoRoomAlwaysCosts == Spec => []NoRoomCosts
  <1>1. Sizes => NoRoomCosts
    <2>1. SUFFICES ASSUME Sizes, party_size > 1,
                          HasRoom(players, max_players, 1),
                          ~ HasRoom(players, max_players, party_size)
                   PROVE  Score(party_size) - Score(1) <= -99000
      BY DEF NoRoomCosts
    <2> DEFINE p == [party_size |-> party_size]
               s == [players |-> players, max_players |-> max_players]
    <2>2. players \in Byte
      BY <2>1 DEF Sizes, Byte
    <2>3. ScoreServer(p, s) <= -99000
      BY <2>1, <2>2, NoRoomIsCostly DEF Sizes
    <2>4. ~ (party_size <= 1)
      BY <2>1 DEF Sizes, Byte
    <2>5. ScoreServer(p, s) = Score(party_size) - Score(1)
      BY <2>4 DEF ScoreServer, Score
    <2>6. QED
      BY <2>3, <2>5
  <1>2. QED
    BY <1>1, SizesStay, PTL

(* A quotient grows with the number that is divided. *)
LEMMA QuotientGrows ==
    ASSUME NEW a \in Int, NEW b \in Int, NEW n \in Nat, 0 < n, a <= b
    PROVE  /\ a \div n \in Int /\ b \div n \in Int
           /\ a \div n <= b \div n
  <1> DEFINE q == a \div n
             r == b \div n
  <1>1. q \in Int /\ n * q <= a /\ a < n * q + n
    OBVIOUS
  <1>2. r \in Int /\ n * r <= b /\ b < n * r + n
    OBVIOUS
  <1> HIDE DEF q, r
  <1>3. SUFFICES ASSUME r < q
                 PROVE  FALSE
    BY <1>1, <1>2 DEF q, r
  <1>4. r + 1 <= q
    BY <1>1, <1>2, <1>3
  <1>5. n * (r + 1) <= n * q
    BY <1>1, <1>2, <1>4
  <1>6. n * (r + 1) = n * r + n
    BY <1>2
  <1>7. QED
    BY <1>1, <1>2, <1>5, <1>6

(* On one segment the score goes the way its two ends go. *)
LEMMA LerpMonotone ==
    ASSUME NEW from \in Int, NEW to \in Int, NEW fromScore \in Int, NEW toScore \in Int,
           NEW x \in Int, from < to, from <= x
    PROVE  LET s == <<from, to, fromScore, toScore>>
           IN  /\ Lerp(s, x) \in Int
               /\ fromScore <= toScore => Lerp(s, x) <= Lerp(s, x + 1)
               /\ toScore <= fromScore => Lerp(s, x + 1) <= Lerp(s, x)
               /\ fromScore <= toScore => fromScore <= Lerp(s, x)
               /\ toScore <= fromScore => Lerp(s, x) <= fromScore
               /\ Lerp(s, to) = toScore
  <1> DEFINE s == <<from, to, fromScore, toScore>>
             d == toScore - fromScore
             n == to - from
             t == x - from
  <1>1. /\ Lerp(s, x) = fromScore + (d * t) \div n
        /\ Lerp(s, x + 1) = fromScore + (d * (x + 1 - from)) \div n
        /\ Lerp(s, to) = fromScore + (d * (to - from)) \div n
    BY DEF Lerp
  <1>2. x + 1 - from = t + 1 /\ t \in Nat /\ d \in Int /\ n \in Nat /\ 0 < n
    OBVIOUS
  <1>3. /\ Lerp(s, x + 1) = fromScore + (d * (t + 1)) \div n
        /\ Lerp(s, to) = fromScore + (d * n) \div n
    BY <1>1, <1>2
  <1> HIDE DEF s, n, t
  <1>4. /\ d >= 0 <=> fromScore <= toScore
        /\ d <= 0 <=> toScore <= fromScore
        /\ fromScore + d = toScore
    OBVIOUS
  <1> HIDE DEF d
  <1>5. d * (t + 1) = d * t + d /\ d * t \in Int /\ d * t + d \in Int
    BY <1>2
  <1>6. d >= 0 => (d * t) \div n <= (d * (t + 1)) \div n
    BY <1>2, <1>5, QuotientGrows
  <1>7. d <= 0 => (d * (t + 1)) \div n <= (d * t) \div n
    BY <1>2, <1>5, QuotientGrows
  <1>8. (d * n) \div n = d
    BY <1>2
  <1>9. (d * t) \div n \in Int /\ (d * (t + 1)) \div n \in Int
    BY <1>2, <1>5, QuotientGrows
  <1>10. /\ d >= 0 => 0 <= (d * t) \div n
         /\ d <= 0 => (d * t) \div n <= 0
    <2>1. 0 \div n = 0
      BY <1>2
    <2>2. d >= 0 => 0 <= d * t
      BY <1>2
    <2>3. d <= 0 => d * t <= 0
      BY <1>2
    <2>4. QED
      BY <1>2, <1>5, <2>1, <2>2, <2>3, QuotientGrows
  <1>11. QED
    BY <1>1, <1>2, <1>3, <1>4, <1>6, <1>7, <1>8, <1>9, <1>10 DEF s

(* It begins at the score of the first end. *)
LEMMA LerpFrom ==
    ASSUME NEW from \in Int, NEW to \in Int, NEW fromScore \in Int, NEW toScore \in Int,
           NEW x \in Int, from < to, from <= x
    PROVE  /\ Lerp(<<from, to, fromScore, toScore>>, x) \in Int
           /\ fromScore <= toScore =>
                  fromScore <= Lerp(<<from, to, fromScore, toScore>>, x)
           /\ toScore <= fromScore =>
                  Lerp(<<from, to, fromScore, toScore>>, x) <= fromScore
  BY LerpMonotone

(* What players and party score together, with room and players there. *)
LEMMA ScoreOfCount ==
    ASSUME NEW present \in Byte, NEW seats \in Byte, NEW party \in Byte,
           present > 0, HasRoom(present, seats, party)
    PROVE  ScoreServerByPlayers(present, seats, party)
              = Lerp(Segment(present + party, seats), present + party)
  BY DEF ScoreServerByPlayers, Byte

(* One player more with the count still not above the ideal one. *)
LEMMA RisesToIdeal ==
    ASSUME NEW count \in Nat, NEW seats \in Byte, 0 < count,
           CountLow(seats) < CountIdeal(seats), count + 1 <= CountIdeal(seats)
    PROVE  Lerp(Segment(count, seats), count)
              <= Lerp(Segment(count + 1, seats), count + 1)
  <1> DEFINE low == CountLow(seats)
             ideal == CountIdeal(seats)
             first == <<0, low, 0, SCORE_LOW>>
             second == <<low, ideal, SCORE_LOW, SCORE_IDEAL>>
  <1>1. low \in Nat /\ ideal \in Nat /\ low < ideal /\ count + 1 <= ideal
    BY Knots
  <1>2. /\ count <= low => Segment(count, seats) = first
        /\ ~ (count <= low) => Segment(count, seats) = second
        /\ count + 1 <= low => Segment(count + 1, seats) = first
        /\ ~ (count + 1 <= low) => Segment(count + 1, seats) = second
    <2>1. count <= ideal /\ count + 1 \in Nat
      BY <1>1
    <2>2. QED
      BY <1>1, <2>1 DEF Segment
  <1> HIDE DEF low, ideal
  <1>3. CASE count + 1 <= low
    <2>1. Lerp(first, count) <= Lerp(first, count + 1)
      BY <1>1, <1>3, LerpMonotone DEF SCORE_LOW
    <2>2. QED
      BY <1>1, <1>2, <1>3, <2>1
  <1>4. CASE count = low
    <2>1. Lerp(first, low) = SCORE_LOW
      BY <1>1, <1>4, LerpMonotone DEF SCORE_LOW
    <2>2. SCORE_LOW <= Lerp(second, count + 1)
      <3>1. count + 1 \in Int /\ low <= count + 1 /\ low < ideal
        BY <1>1, <1>4
      <3>2. QED
        BY <1>1, <3>1, LerpFrom DEF SCORE_LOW, SCORE_IDEAL
    <2>3. /\ Segment(count, seats) = first
          /\ Segment(count + 1, seats) = second
      BY <1>1, <1>2, <1>4
    <2> HIDE DEF first, second
    <2>4. QED
      BY <1>4, <2>1, <2>2, <2>3
  <1>5. CASE count > low
    <2>1. Lerp(second, count) <= Lerp(second, count + 1)
      BY <1>1, <1>5, LerpMonotone DEF SCORE_LOW, SCORE_IDEAL
    <2>2. QED
      BY <1>1, <1>2, <1>5, <2>1
  <1>6. QED
    BY <1>1, <1>3, <1>4, <1>5

(* One player more when that takes the count above the ideal one. *)
LEMMA FallsFromIdeal ==
    ASSUME NEW count \in Nat, NEW seats \in Byte, 0 < count, count + 1 < seats,
           CountLow(seats) < CountIdeal(seats), CountIdeal(seats) < count + 1
    PROVE  Lerp(Segment(count + 1, seats), count + 1)
              <= Lerp(Segment(count, seats), count)
  <1> DEFINE low == CountLow(seats)
             ideal == CountIdeal(seats)
             full == NewMaxPlayers(seats)
             second == <<low, ideal, SCORE_LOW, SCORE_IDEAL>>
             third == <<ideal, full, SCORE_IDEAL, SCORE_FULLER>>
             fourth == <<full, seats, SCORE_FULLER, SCORE_LOW>>
  <1>1. /\ low \in Nat /\ ideal \in Nat /\ full \in Nat /\ seats \in Nat
        /\ low < ideal /\ ideal <= count /\ count + 1 < seats
    BY Knots DEF Byte
  <1>2. /\ count = ideal => Segment(count, seats) = second
        /\ count > ideal /\ count <= full => Segment(count, seats) = third
        /\ count > ideal /\ ~ (count <= full) => Segment(count, seats) = fourth
        /\ count + 1 <= full => Segment(count + 1, seats) = third
        /\ ~ (count + 1 <= full) => Segment(count + 1, seats) = fourth
    BY <1>1 DEF Segment
  <1> HIDE DEF low, ideal, full
  <1>3. CASE count = ideal
    <2>1. Lerp(second, ideal) = SCORE_IDEAL
      BY <1>1, LerpMonotone DEF SCORE_LOW, SCORE_IDEAL
    <2>2. CASE count + 1 <= full
      <3>1. Lerp(third, count + 1) <= SCORE_IDEAL
        BY <1>1, <1>3, <2>2, LerpFrom DEF SCORE_IDEAL, SCORE_FULLER
      <3>2. QED
        BY <1>2, <1>3, <2>1, <2>2, <3>1
    <2>3. CASE ~ (count + 1 <= full)
      <3>1. Lerp(fourth, count + 1) \in Int /\ Lerp(fourth, count + 1) <= SCORE_FULLER
        BY <1>1, <2>3, LerpFrom DEF SCORE_LOW, SCORE_FULLER
      <3>2. Lerp(fourth, count + 1) <= SCORE_IDEAL
        BY <3>1 DEF SCORE_FULLER, SCORE_IDEAL
      <3>3. QED
        BY <1>2, <1>3, <2>1, <2>3, <3>2
    <2>4. QED
      BY <2>2, <2>3
  <1>4. CASE count > ideal /\ count + 1 <= full
    <2>1. Lerp(third, count + 1) <= Lerp(third, count)
      BY <1>1, <1>4, LerpMonotone DEF SCORE_IDEAL, SCORE_FULLER
    <2>2. QED
      BY <1>1, <1>2, <1>4, <2>1
  <1>5. CASE count > ideal /\ count = full
    <2>1. Lerp(third, count) = SCORE_FULLER
      BY <1>1, <1>5, LerpMonotone DEF SCORE_IDEAL, SCORE_FULLER
    <2>2. Lerp(fourth, count + 1) <= SCORE_FULLER
      BY <1>1, <1>5, LerpFrom DEF SCORE_LOW, SCORE_FULLER
    <2>3. /\ Segment(count, seats) = third
          /\ Segment(count + 1, seats) = fourth
      BY <1>1, <1>2, <1>5
    <2> HIDE DEF third, fourth
    <2>4. QED
      BY <2>1, <2>2, <2>3
  <1>6. CASE count > ideal /\ count > full
    <2>1. Lerp(fourth, count + 1) <= Lerp(fourth, count)
      <3>1. count \in Int /\ full <= count /\ full < seats
        BY <1>1, <1>6
      <3>2. QED
        BY <1>1, <3>1, LerpMonotone DEF SCORE_LOW, SCORE_FULLER
    <2>2. QED
      BY <1>1, <1>2, <1>6, <2>1
  <1>7. QED
    BY <1>1, <1>3, <1>4, <1>5, <1>6

(* As players join, the score for the party rises up to the ideal count    *)
(* and never rises after it, although the knots of score_server_by_players *)
(* are out of order for more than FULL_PLAYERS seats.                      *)
THEOREM ScorePeaksAtIdeal == Spec => PeaksAtIdeal
  <1> DEFINE count == players + party_size
  <1>1. ASSUME Sizes, Join, players > 0,
               HasRoom(players + 1, max_players, party_size),
               CountLow(max_players) < CountIdeal(max_players)
        PROVE  IF players + 1 + party_size <= CountIdeal(max_players)
               THEN Score(party_size)' >= Score(party_size)
               ELSE Score(party_size)' <= Score(party_size)
    <2>1. /\ players' = players + 1
          /\ max_players' = max_players /\ party_size' = party_size
      BY <1>1 DEF Join
    <2>2. /\ players \in Byte /\ players + 1 \in Byte
          /\ max_players \in Byte /\ party_size \in Byte
      BY <1>1 DEF Sizes, Join, Byte
    <2>3. /\ count \in Nat /\ 0 < count /\ count + 1 < max_players
          /\ players + 1 + party_size = count + 1
          /\ HasRoom(players, max_players, party_size)
      BY <1>1, <2>2 DEF HasRoom, SERVER_HEADROOM, Byte
    <2>4. Score(party_size) = Lerp(Segment(count, max_players), count)
      BY <1>1, <2>2, <2>3, ScoreOfCount DEF Score
    <2>5. Score(party_size)' = Lerp(Segment(count + 1, max_players), count + 1)
      <3>1. Score(party_size)' = ScoreServerByPlayers(players + 1, max_players, party_size)
        BY <2>1 DEF Score
      <3>2. players + 1 > 0
        BY <2>2 DEF Byte
      <3>3. QED
        BY <1>1, <2>2, <2>3, <3>1, <3>2, ScoreOfCount
    <2>6. CountIdeal(max_players) \in Nat
      BY <2>2, Knots
    <2> HIDE DEF count
    <2>7. CASE count + 1 <= CountIdeal(max_players)
      BY <1>1, <2>2, <2>3, <2>4, <2>5, <2>7, RisesToIdeal
    <2>8. CASE CountIdeal(max_players) < count + 1
      BY <1>1, <2>2, <2>3, <2>4, <2>5, <2>6, <2>8, FallsFromIdeal
    <2>9. QED
      BY <2>3, <2>6, <2>7, <2>8
  <1>2. Sizes => [/\ Join
                  /\ players > 0 /\ HasRoom(players + 1, max_players, party_size)
                  /\ CountLow(max_players) < CountIdeal(max_players)
                  =>
                     IF players + 1 + party_size <= CountIdeal(max_players)
                     THEN Score(party_size)' >= Score(party_size)
                     ELSE Score(party_size)' <= Score(party_size)]_vars
    BY <1>1
  <1>3. QED
    BY <1>2, SizesStay, PTL DEF PeaksAtIdeal

-----------------------------------------------------------------------------
(* A session that is told its preferences *)

(* The preferences, each by its name and, for the two kinds that there is  *)
(* more than one of, by what follows the name.                             *)
Named == Enumerated \cup {"party_size"}
Plain == ""

Key == (Named \X {Plain}) \cup ({"map_ban_"} \X {"0"}) \cup ({"gamemode_"} \X Gamemode)

(* What the preferences p say of it, and what a value asks for. *)
Value(p, key) ==
    IF key[1] = "map_ban_" THEN p.map_bans[0]
    ELSE IF key[1] = "gamemode_" THEN IF key[2] \in p.gamemodes THEN 1 ELSE 0
    ELSE p[key[1]]

Asked(key, value) ==
    IF key[1] = "map_ban_" THEN value
    ELSE IF key[1] = "gamemode_" THEN IF value = "1" THEN 1 ELSE 0
    ELSE Number[value]

(* A record of preferences. *)
Shaped(p) ==
    /\ p = [name \in Named \cup {"map_bans", "gamemodes"} |-> p[name]]
    /\ p.map_bans = [slot \in 0 .. (MAX_MAP_BANS - 1) |-> p.map_bans[slot]]

(* A convar that asks for this preference. *)
Names(convar, key) == convar.name = key[1] /\ convar.arg = key[2]

LEMMA ConVarShape ==
    ASSUME NEW convar \in ConVar
    PROVE  /\ convar.name \in Named \cup {"map_ban_", "gamemode_"}
           /\ convar.name \in Named => convar.arg = Plain
           /\ convar.name = "map_ban_" => convar.arg = "0"
  <1> DEFINE Form == \/ /\ convar.name = "rtd" \/ convar.name = "party_size"
                        /\ convar.arg = Plain
                     \/ convar.name = "map_ban_" /\ convar.arg = "0"
                     \/ convar.name = "gamemode_"
  <1>1. ASSUME NEW name, NEW value, name = "rtd" \/ name = "party_size",
               convar = Var(name, "", value)
        PROVE  Form
    <2>1. Var(name, Plain, value) =
             [own |-> TRUE, name |-> name, arg |-> Plain, value |-> value]
      BY DEF Var
    <2>2. convar = Var(name, Plain, value)
      BY <1>1, Zenon DEF Plain
    <2>3. name = "rtd" \/ name = "party_size"
      BY <1>1, Zenon
    <2>4. QED
      BY <2>1, <2>2, <2>3
  <1>2. ASSUME NEW value, convar = Var("map_ban_", "0", value)
        PROVE  Form
    BY <1>2 DEF Var
  <1>3. ASSUME NEW value, convar = Var("gamemode_", "arena", value)
        PROVE  Form
    BY <1>3 DEF Var
  <1>4. ASSUME convar = [own |-> FALSE, name |-> "rtd", arg |-> "", value |-> "2"]
        PROVE  Form
    <2>1. convar = [own |-> FALSE, name |-> "rtd", arg |-> Plain, value |-> "2"]
      BY <1>4, Zenon DEF Plain
    <2>2. QED
      BY <2>1
  <1>5. Form
    <2> HIDE DEF Form
    <2>1. QED
      BY <1>1, <1>2, <1>3, <1>4, Zenon DEF ConVar
  <1>6. QED
    BY <1>5 DEF Named, Enumerated

(* A convar sets the preference that it names and no other. *)
LEMMA SetsOne ==
    ASSUME NEW p, Shaped(p), NEW convar \in ConVar, NEW key \in Key
    PROVE  /\ Shaped(UpdatePreference(p, convar))
           /\ Value(UpdatePreference(p, convar), key)
                 = IF Names(convar, key) THEN Asked(key, convar.value)
                   ELSE Value(p, key)
  <1> DEFINE q == UpdatePreference(p, convar)
  <1>1. /\ key[1] \in Named \cup {"map_ban_", "gamemode_"}
        /\ key[1] \in Named => key[2] = Plain
        /\ key[1] = "map_ban_" => key[2] = "0"
        /\ key[1] = "gamemode_" => key[2] \in Gamemode
    BY DEF Key, Named, Enumerated
  <1>2. {"map_ban_", "gamemode_", "map_bans", "gamemodes"} \cap Named = {}
    BY DEF Named, Enumerated
  <1>3. CASE convar.name = "map_ban_"
    <2>1. convar.arg = "0" /\ Number[convar.arg] = 0
      BY <1>3, ConVarShape, SlotAssumption
    <2>2. q = [p EXCEPT !.map_bans[0] = convar.value]
      BY <1>3, <2>1 DEF UpdatePreference
    <2>3. 0 \in 0 .. (MAX_MAP_BANS - 1)
      BY DEF MAX_MAP_BANS
    <2>4. /\ q.map_bans = [p.map_bans EXCEPT ![0] = convar.value]
          /\ \A name \in Named \cup {"gamemodes"} : q[name] = p[name]
          /\ q = [name \in Named \cup {"map_bans", "gamemodes"} |-> q[name]]
      BY <1>2, <2>2 DEF Shaped
    <2>5. Shaped(q)
      BY <2>4 DEF Shaped
    <2>6. q.map_bans[0] = convar.value
      BY <2>3, <2>4 DEF Shaped
    <2> HIDE DEF q
    <2>7. Value(q, key) = IF Names(convar, key) THEN Asked(key, convar.value)
                          ELSE Value(p, key)
      BY <1>1, <1>2, <1>3, <2>1, <2>4, <2>6 DEF Value, Asked, Names
    <2>8. QED
      BY <2>5, <2>7 DEF q
  <1>4. CASE convar.name = "gamemode_"
    <2>1. q = [p EXCEPT !.gamemodes = IF convar.value = "1"
                                      THEN p.gamemodes \cup {convar.arg}
                                      ELSE p.gamemodes \ {convar.arg}]
      BY <1>4 DEF UpdatePreference
    <2>2. /\ q.gamemodes = IF convar.value = "1" THEN p.gamemodes \cup {convar.arg}
                           ELSE p.gamemodes \ {convar.arg}
          /\ \A name \in Named \cup {"map_bans"} : q[name] = p[name]
          /\ q = [name \in Named \cup {"map_bans", "gamemodes"} |-> q[name]]
      BY <1>2, <2>1 DEF Shaped
    <2>3. Shaped(q)
      BY <2>2 DEF Shaped
    <2> HIDE DEF q
    <2>4. Value(q, key) = IF Names(convar, key) THEN Asked(key, convar.value)
                          ELSE Value(p, key)
      BY <1>1, <1>2, <1>4, <2>2 DEF Value, Asked, Names
    <2>5. QED
      BY <2>3, <2>4 DEF q
  <1>5. CASE convar.name \in Named
    <2>1. convar.arg = Plain
      BY <1>5, ConVarShape
    <2>2. q = [p EXCEPT ![convar.name] = Number[convar.value]]
      BY <1>2, <1>5 DEF UpdatePreference
    <2>3. /\ q[convar.name] = Number[convar.value]
          /\ \A name \in (Named \cup {"map_bans", "gamemodes"}) \ {convar.name} :
                q[name] = p[name]
          /\ q = [name \in Named \cup {"map_bans", "gamemodes"} |-> q[name]]
      BY <1>2, <1>5, <2>2 DEF Shaped
    <2>4. q.map_bans = p.map_bans /\ q.gamemodes = p.gamemodes
      BY <1>2, <1>5, <2>3
    <2>5. Shaped(q)
      BY <2>3, <2>4 DEF Shaped
    <2> HIDE DEF q
    <2>6. Value(q, key) = IF Names(convar, key) THEN Asked(key, convar.value)
                          ELSE Value(p, key)
      BY <1>1, <1>2, <1>5, <2>1, <2>3, <2>4 DEF Value, Asked, Names
    <2>7. QED
      BY <2>5, <2>6 DEF q
  <1>6. QED
    BY <1>3, <1>4, <1>5, ConVarShape

(* No convar up to the i-th of a message is refused. *)
Clean(convars, i) ==
    \A j \in 1 .. i : Considered(convars[j]) => PreferenceError(convars[j]) = None

(* The convars among the first k of a message that set a preference. *)
Setting(convars, k, key) ==
    {i \in 1 .. k : Considered(convars[i]) /\ Clean(convars, i) /\ Names(convars[i], key)}

(* After k of them: the last one that sets a preference gave it its value, *)
(* and if none does it is as before.                                       *)
Agrees(before, convars, k, after) ==
    \A key \in Key :
        \/ /\ Setting(convars, k, key) = {}
           /\ Value(after, key) = Value(before, key)
        \/ \E j \in Setting(convars, k, key) :
              /\ \A i \in Setting(convars, k, key) : i <= j
              /\ Value(after, key) = Asked(key, convars[j].value)

(* The loop of update_preferences_from_convars. *)
LEMMA UpdateAgrees ==
    ASSUME NEW p, Shaped(p), NEW n \in Nat, NEW convars \in [1 .. n -> ConVar]
    PROVE  LET after == UpdatePreferences(p, convars).preferences
           IN  Shaped(after) /\ Agrees(p, convars, n, after)
  <1>1. Len(convars) = n
    OBVIOUS
  <1>2. PICK f : /\ f = [k \in 0 .. n |->
                           IF k = 0 THEN [preferences |-> p, error |-> None]
                           ELSE Apply(f[k-1], convars[k])]
                 /\ UpdatePreferences(p, convars) = f[n]
    BY <1>1, ConvarLoop
  <1> DEFINE Holds(k) ==
                /\ f[k] = [preferences |-> f[k].preferences, error |-> f[k].error]
                /\ f[k].error = None <=> Clean(convars, k)
                /\ Shaped(f[k].preferences)
                /\ Agrees(p, convars, k, f[k].preferences)
             T == {k \in 0 .. n : Holds(k)}
  <1>3. 0 \in T
    <2>1. f[0] = [preferences |-> p, error |-> None]
      BY <1>2
    <2>2. Clean(convars, 0) /\ \A key \in Key : Setting(convars, 0, key) = {}
      BY DEF Clean, Setting
    <2>3. Holds(0)
      BY <2>1, <2>2 DEF Agrees
    <2>4. QED
      BY <2>3
  <1>4. ASSUME NEW k \in 0 .. n - 1, k \in T
        PROVE  k + 1 \in T
    <2> DEFINE convar == convars[k+1]
    <2>1. f[k+1] = Apply(f[k], convar)
      BY <1>2
    <2>2. convar \in ConVar /\ k \in Nat /\ k + 1 \in 0 .. n
      OBVIOUS
    <2>3. Holds(k)
      BY <1>4
    <2>4. Clean(convars, k + 1)
             <=> Clean(convars, k)
                 /\ (Considered(convar) => PreferenceError(convar) = None)
      BY <2>2 DEF Clean
    <2>5. \A key \in Key :
             Setting(convars, k + 1, key) =
                Setting(convars, k, key) \cup
                IF Considered(convar) /\ Clean(convars, k + 1) /\ Names(convar, key)
                THEN {k + 1} ELSE {}
      BY <2>2 DEF Setting
    <2>6. f[k].error = None <=> Clean(convars, k)
      BY <2>3
    <2> HIDE DEF convar
    <2>7. CASE f[k].error # None \/ ~ Considered(convar)
      <3>1. f[k+1] = f[k]
        BY <2>1, <2>7 DEF Apply
      <3>2. Clean(convars, k + 1) <=> Clean(convars, k)
        BY <2>4, <2>6, <2>7
      <3>3. \A key \in Key : Setting(convars, k + 1, key) = Setting(convars, k, key)
        BY <2>5, <2>6, <2>7, <3>2
      <3>4. Agrees(p, convars, k + 1, f[k+1].preferences)
        BY <2>3, <3>1, <3>3 DEF Agrees
      <3>5. Holds(k + 1)
        BY <2>3, <3>1, <3>2, <3>4
      <3>6. QED
        BY <2>2, <3>5
    <2>8. CASE /\ f[k].error = None /\ Considered(convar)
               /\ PreferenceError(convar) # None
      <3>1. f[k+1] = [f[k] EXCEPT !.error = PreferenceError(convar)]
        BY <2>1, <2>8 DEF Apply
      <3>2. /\ f[k+1] = [preferences |-> f[k].preferences,
                         error |-> PreferenceError(convar)]
        BY <2>3, <3>1
      <3>3. ~ Clean(convars, k + 1)
        BY <2>4, <2>8
      <3>4. \A key \in Key : Setting(convars, k + 1, key) = Setting(convars, k, key)
        BY <2>5, <3>3
      <3>5. Agrees(p, convars, k + 1, f[k+1].preferences)
        BY <2>3, <3>2, <3>4 DEF Agrees
      <3>6. Holds(k + 1)
        BY <2>3, <2>8, <3>2, <3>3, <3>5
      <3>7. QED
        BY <2>2, <3>6
    <2>9. CASE /\ f[k].error = None /\ Considered(convar)
               /\ PreferenceError(convar) = None
      <3> DEFINE q == UpdatePreference(f[k].preferences, convar)
      <3>1. f[k+1] = [f[k] EXCEPT !.preferences = q]
        BY <2>1, <2>9 DEF Apply
      <3> HIDE DEF q
      <3>2. f[k+1] = [preferences |-> q, error |-> f[k].error]
        BY <2>3, <3>1
      <3>3. Clean(convars, k + 1)
        BY <2>4, <2>6, <2>9
      <3>4. Shaped(f[k].preferences)
        BY <2>3
      <3>5. Shaped(q) /\ \A key \in Key :
               Value(q, key) = IF Names(convar, key) THEN Asked(key, convar.value)
                               ELSE Value(f[k].preferences, key)
        <4>1. <<"rtd", Plain>> \in Key
          BY DEF Key, Named, Enumerated
        <4>2. QED
          BY <2>2, <3>4, <4>1, SetsOne DEF q
      <3>6. Agrees(p, convars, k + 1, q)
        <4>1. SUFFICES ASSUME NEW key \in Key
                       PROVE  \/ /\ Setting(convars, k + 1, key) = {}
                                 /\ Value(q, key) = Value(p, key)
                              \/ \E j \in Setting(convars, k + 1, key) :
                                    /\ \A i \in Setting(convars, k + 1, key) : i <= j
                                    /\ Value(q, key) = Asked(key, convars[j].value)
          BY DEF Agrees
        <4>2. CASE Names(convar, key)
          <5>1. Setting(convars, k + 1, key) = Setting(convars, k, key) \cup {k + 1}
            BY <2>5, <2>9, <3>3, <4>2
          <5>2. \A i \in Setting(convars, k, key) : i <= k + 1
            BY <2>2 DEF Setting
          <5>3. Value(q, key) = Asked(key, convars[k+1].value)
            BY <3>5, <4>2 DEF convar
          <5>4. QED
            BY <2>2, <5>1, <5>2, <5>3
        <4>3. CASE ~ Names(convar, key)
          <5>1. Setting(convars, k + 1, key) = Setting(convars, k, key)
            BY <2>5, <4>3
          <5>2. Value(q, key) = Value(f[k].preferences, key)
            BY <3>5, <4>3
          <5>3. QED
            BY <2>3, <5>1, <5>2 DEF Agrees
        <4>4. QED
          BY <4>2, <4>3
      <3>7. Holds(k + 1)
        BY <2>9, <3>2, <3>3, <3>5, <3>6
      <3>8. QED
        BY <2>2, <3>7
    <2>10. QED
      BY <2>7, <2>8, <2>9
  <1>5. n \in T
    <2> HIDE DEF T
    <2>1. 0 .. n \subseteq T
      BY <1>3, <1>4, Induction
    <2>2. QED
      BY <2>1
  <1>6. QED
    BY <1>2, <1>5

(* The definitions of LastSetting, for any messages in the place of those  *)
(* of the state.                                                           *)
PlacesIn(ms) == {p \in (1 .. MaxMessages) \X (1 .. MaxConVars) :
                    p[1] \in DOMAIN ms /\ p[2] \in DOMAIN ms[p[1]]}

TakenIn(ms, p) == Considered(ms[p[1]][p[2]]) /\ Clean(ms[p[1]], p[2])

SetIn(ms, key) ==
    {p \in PlacesIn(ms) : TakenIn(ms, p) /\ Names(ms[p[1]][p[2]], key)}

LastIn(ms, key) ==
    {ms[p[1]][p[2]] : p \in {q \in SetIn(ms, key) :
                               \A r \in SetIn(ms, key) : r = q \/ Before(r, q)}}

LEMMA LastSettingIn ==
    ASSUME NEW key
    PROVE  LastSetting(key[1], key[2]) = LastIn(messages, key)
  BY DEF LastSetting, LastIn, SetIn, Names, TakenIn, Taken, Clean, PlacesIn, Places, At

(* A message adds its own places after all others, and changes nothing     *)
(* about those.                                                            *)
LEMMA PlacesGrow ==
    ASSUME NEW ms \in Seq(Seq(ConVar)), Len(ms) < MaxMessages,
           NEW n \in 1 .. MaxConVars, NEW convars \in [1 .. n -> ConVar], NEW key
    PROVE  LET m == Len(ms)
               longer == Append(ms, convars)
           IN  /\ SetIn(longer, key) = SetIn(ms, key) \cup
                      {<<m + 1, i>> : i \in Setting(convars, n, key)}
               /\ \A p \in SetIn(ms, key) : p[1] \in 1 .. m /\ longer[p[1]] = ms[p[1]]
               /\ longer[m + 1] = convars
  <1> DEFINE m == Len(ms)
             longer == Append(ms, convars)
             place(i) == <<m + 1, i>>
  <1>1. /\ m \in Nat /\ m + 1 \in 1 .. MaxMessages
        /\ MaxMessages \in Nat /\ MaxConVars \in Nat /\ 1 .. n \subseteq 1 .. MaxConVars
        /\ n \in Nat
    BY FunctionsAssumption
  <1>2. /\ DOMAIN ms = 1 .. m /\ DOMAIN longer = 1 .. (m + 1)
        /\ \A k \in 1 .. m : longer[k] = ms[k]
        /\ longer[m + 1] = convars
    OBVIOUS
  <1> HIDE DEF m, longer
  <1>3. \A p \in PlacesIn(ms) : p[1] \in 1 .. m /\ longer[p[1]] = ms[p[1]]
    BY <1>2 DEF PlacesIn
  <1>4. PlacesIn(longer) = PlacesIn(ms) \cup {place(i) : i \in 1 .. n}
    <2> DEFINE All == (1 .. MaxMessages) \X (1 .. MaxConVars)
    <2>1. \A p \in All : p \in PlacesIn(longer)
                             <=> p \in PlacesIn(ms) \/ (p[1] = m + 1 /\ p[2] \in 1 .. n)
      BY <1>1, <1>2 DEF PlacesIn
    <2>2. /\ \A i \in 1 .. n : place(i) \in All
          /\ \A p \in All : p[1] = m + 1 /\ p[2] \in 1 .. n
                               <=> p \in {place(i) : i \in 1 .. n}
      BY <1>1
    <2>3. PlacesIn(longer) \subseteq All /\ PlacesIn(ms) \subseteq All
      BY DEF PlacesIn
    <2> HIDE DEF place, All
    <2>4. QED
      BY <2>1, <2>2, <2>3
  <1>5. \A p \in PlacesIn(ms) : TakenIn(longer, p) <=> TakenIn(ms, p)
    BY <1>3 DEF TakenIn
  <1>6. \A i \in 1 .. n : /\ place(i)[1] = m + 1 /\ place(i)[2] = i
                          /\ TakenIn(longer, place(i))
                               <=> Considered(convars[i]) /\ Clean(convars, i)
    BY <1>2 DEF TakenIn
  <1>7. Setting(convars, n, key)
          = {i \in 1 .. n : /\ TakenIn(longer, place(i))
                            /\ Names(longer[place(i)[1]][place(i)[2]], key)}
    <2> HIDE DEF place
    <2>1. QED
      BY <1>2, <1>6 DEF Setting
  <1>8. SetIn(longer, key) = SetIn(ms, key) \cup {place(i) : i \in Setting(convars, n, key)}
    <2> HIDE DEF place
    <2>1. \A p \in PlacesIn(ms) : p \in SetIn(longer, key) <=> p \in SetIn(ms, key)
      BY <1>3, <1>4, <1>5 DEF SetIn
    <2>2. \A i \in 1 .. n : place(i) \in SetIn(longer, key)
                             <=> i \in Setting(convars, n, key)
      BY <1>4, <1>7 DEF SetIn
    <2>3. /\ SetIn(longer, key) \subseteq PlacesIn(longer)
          /\ SetIn(ms, key) \subseteq PlacesIn(ms)
          /\ Setting(convars, n, key) \subseteq 1 .. n
      BY <1>7 DEF SetIn
    <2>4. QED
      BY <1>4, <2>1, <2>2, <2>3
  <1>9. QED
    BY <1>2, <1>3, <1>8 DEF SetIn, m, longer

(* So the last setting of a preference is the message's last one, if any.  *)
LEMMA LastGrows ==
    ASSUME NEW ms \in Seq(Seq(ConVar)), Len(ms) < MaxMessages,
           NEW n \in 1 .. MaxConVars, NEW convars \in [1 .. n -> ConVar], NEW key
    PROVE  LET longer == Append(ms, convars)
               new == Setting(convars, n, key)
           IN  /\ new = {} => LastIn(longer, key) = LastIn(ms, key)
               /\ \A j \in new : (\A i \in new : i <= j)
                                    => LastIn(longer, key) = {convars[j]}
  <1> DEFINE m == Len(ms)
             longer == Append(ms, convars)
             new == Setting(convars, n, key)
             place(i) == <<m + 1, i>>
             old == SetIn(ms, key)
             all == SetIn(longer, key)
  <1>1. m \in Nat /\ MaxConVars \in Nat /\ n \in Nat /\ new \subseteq 1 .. n
    BY FunctionsAssumption DEF Setting
  <1>2. /\ all = old \cup {place(i) : i \in new}
        /\ \A p \in old : p[1] \in 1 .. m /\ longer[p[1]] = ms[p[1]]
        /\ longer[m + 1] = convars
    BY <1>1, PlacesGrow
  <1>3. /\ LastIn(longer, key)
              = {longer[p[1]][p[2]] : p \in {q \in all :
                                               \A r \in all : r = q \/ Before(r, q)}}
        /\ LastIn(ms, key)
              = {ms[p[1]][p[2]] : p \in {q \in old :
                                           \A r \in old : r = q \/ Before(r, q)}}
    BY DEF LastIn
  <1> HIDE DEF m, longer, new, old, all
  <1>4. ASSUME new = {}
        PROVE  LastIn(longer, key) = LastIn(ms, key)
    <2>1. all = old
      BY <1>2, <1>4
    <2>2. QED
      BY <1>2, <1>3, <2>1
  <1>5. ASSUME NEW j \in new, \A i \in new : i <= j
        PROVE  LastIn(longer, key) = {convars[j]}
    <2>1. \A p \in old : Before(p, place(j)) /\ ~ Before(place(j), p)
      BY <1>1, <1>2 DEF Before
    <2>2. \A i \in new : /\ ~ Before(place(j), place(i))
                         /\ i = j \/ Before(place(i), place(j))
      BY <1>1, <1>5 DEF Before
    <2>3. longer[place(j)[1]][place(j)[2]] = convars[j]
      BY <1>2
    <2> HIDE DEF place
    <2>4. {q \in all : \A r \in all : r = q \/ Before(r, q)} = {place(j)}
      BY <1>2, <1>5, <2>1, <2>2
    <2>5. QED
      BY <1>3, <2>3, <2>4
  <1>6. QED
    BY <1>4, <1>5 DEF longer, new

(* What is asked for last is what the session has. *)
Session ==
    /\ messages \in Seq(Seq(ConVar))
    /\ Shaped(preferences)
    /\ \A key \in Key :
          \/ /\ LastIn(messages, key) = {}
             /\ Value(preferences, key) = Value(DefaultPreferences, key)
          \/ \E convar :
                /\ LastIn(messages, key) = {convar}
                /\ Value(preferences, key) = Asked(key, convar.value)

LEMMA SessionBegins == Init => Session
  <1>1. SUFFICES ASSUME Init
                 PROVE  Session
    OBVIOUS
  <1>2. messages = <<>> /\ preferences = DefaultPreferences
    BY <1>1 DEF Init
  <1>3. PlacesIn(<<>>) = {}
    BY DEF PlacesIn
  <1>4. \A key \in Key : LastIn(<<>>, key) = {}
    BY <1>3 DEF LastIn, SetIn
  <1>5. Shaped(DefaultPreferences)
    BY DEF Shaped, DefaultPreferences, Named, Enumerated
  <1>6. QED
    BY <1>2, <1>4, <1>5 DEF Session

LEMMA SessionKept == Session /\ [Next]_vars => Session'
  <1>1. SUFFICES ASSUME Session, [Next]_vars
                 PROVE  Session'
    OBVIOUS
  <1>2. CASE SetConVars
    <2>1. PICK n \in 1 .. MaxConVars : \E c \in [1 .. n -> ConVar] :
             /\ preferences' = UpdatePreferences(preferences, c).preferences
             /\ messages' = Append(messages, c)
      BY <1>2 DEF SetConVars
    <2>2. PICK convars \in [1 .. n -> ConVar] :
             /\ preferences' = UpdatePreferences(preferences, convars).preferences
             /\ messages' = Append(messages, convars)
      BY <2>1
    <2>3. /\ messages \in Seq(Seq(ConVar)) /\ Len(messages) < MaxMessages /\ n \in Nat
          /\ convars \in Seq(ConVar)
      BY <1>1, <1>2, FunctionsAssumption DEF Session, SetConVars
    <2>4. /\ Shaped(preferences')
          /\ Agrees(preferences, convars, n, preferences')
      BY <1>1, <2>2, <2>3, UpdateAgrees DEF Session
    <2>5. messages' \in Seq(Seq(ConVar))
      BY <2>2, <2>3
    <2>6. ASSUME NEW key \in Key
          PROVE  \/ /\ LastIn(messages', key) = {}
                    /\ Value(preferences', key) = Value(DefaultPreferences, key)
                 \/ \E convar :
                       /\ LastIn(messages', key) = {convar}
                       /\ Value(preferences', key) = Asked(key, convar.value)
      <3> DEFINE new == Setting(convars, n, key)
      <3>1. /\ new = {} => LastIn(messages', key) = LastIn(messages, key)
            /\ \A j \in new : (\A i \in new : i <= j)
                                 => LastIn(messages', key) = {convars[j]}
        <4>1. LET longer == Append(messages, convars)
              IN  /\ new = {} => LastIn(longer, key) = LastIn(messages, key)
                  /\ \A j \in new : (\A i \in new : i <= j)
                                       => LastIn(longer, key) = {convars[j]}
          BY <2>3, LastGrows
        <4> HIDE DEF new
        <4>2. QED
          BY <2>2, <4>1
      <3>2. \/ new = {} /\ Value(preferences', key) = Value(preferences, key)
            \/ \E j \in new : /\ \A i \in new : i <= j
                               /\ Value(preferences', key) = Asked(key, convars[j].value)
        BY <2>4 DEF Agrees
      <3> HIDE DEF new
      <3>3. QED
        BY <1>1, <3>1, <3>2 DEF Session
    <2>7. QED
      BY <2>4, <2>5, <2>6 DEF Session
  <1>3. CASE UNCHANGED session
    BY <1>1, <1>3 DEF Session, session
  <1>4. QED
    BY <1>1, <1>2, <1>3 DEF Next, vars, Join, Leave, AddField, AddOne

(* Over any number of messages, each preference has the value that was     *)
(* asked for last: a message counts up to its first bad preference.        *)
THEOREM LastSettingAlwaysWins == Spec => []LastSettingWins
  <1>1. Session => LastSettingWins
    <2>1. SUFFICES ASSUME Session
                   PROVE  LastSettingWins
      OBVIOUS
    <2> DEFINE last(name, arg) == (CHOOSE convar \in LastSetting(name, arg) : TRUE).value
    <2>2. ASSUME NEW key \in Key
          PROVE  Value(preferences, key) =
                    IF LastSetting(key[1], key[2]) # {}
                    THEN Asked(key, last(key[1], key[2]))
                    ELSE Value(DefaultPreferences, key)
      <3>1. LastSetting(key[1], key[2]) = LastIn(messages, key)
        BY LastSettingIn
      <3>2. CASE LastIn(messages, key) = {}
        BY <2>1, <3>1, <3>2 DEF Session
      <3>3. ASSUME NEW convar, LastIn(messages, key) = {convar},
                   Value(preferences, key) = Asked(key, convar.value)
            PROVE  Value(preferences, key) = Asked(key, last(key[1], key[2]))
        <4>1. (CHOOSE c \in LastSetting(key[1], key[2]) : TRUE) = convar
          BY <3>1, <3>3
        <4>2. last(key[1], key[2]) = convar.value
          BY <4>1
        <4>3. QED
          BY <3>3, <4>2
      <3> HIDE DEF last
      <3>4. QED
        BY <2>1, <3>1, <3>2, <3>3 DEF Session
    <2> HIDE DEF last
    <2>3. {"map_ban_", "gamemode_", "map_bans", "gamemodes"} \cap Named = {}
      BY DEF Named, Enumerated
    <2>4. \A name \in Named :
             preferences[name] = IF LastSetting(name, Plain) # {}
                                 THEN Number[last(name, Plain)]
                                 ELSE DefaultPreferences[name]
      <3>1. SUFFICES ASSUME NEW name \in Named
                     PROVE  preferences[name] = IF LastSetting(name, Plain) # {}
                                                THEN Number[last(name, Plain)]
                                                ELSE DefaultPreferences[name]
        OBVIOUS
      <3> DEFINE key == <<name, Plain>>
      <3>2. key \in Key /\ key[1] = name /\ key[2] = Plain
        BY DEF Key
      <3>3. /\ Value(preferences, key) = preferences[name]
            /\ Value(DefaultPreferences, key) = DefaultPreferences[name]
            /\ \A v : Asked(key, v) = Number[v]
        BY <2>3, <3>2 DEF Value, Asked
      <3> HIDE DEF key
      <3>4. QED
        BY <2>2, <3>2, <3>3
    <2>5. preferences.map_bans[0] = IF LastSetting("map_ban_", "0") # {}
                                    THEN last("map_ban_", "0") ELSE None
      <3> DEFINE key == <<"map_ban_", "0">>
      <3>1. key \in Key /\ key[1] = "map_ban_" /\ key[2] = "0"
        BY DEF Key
      <3>2. DefaultPreferences.map_bans[0] = None
        BY DEF DefaultPreferences, MAX_MAP_BANS
      <3>3. /\ Value(preferences, key) = preferences.map_bans[0]
            /\ Value(DefaultPreferences, key) = None
            /\ \A v : Asked(key, v) = v
        BY <3>1, <3>2 DEF Value, Asked
      <3> HIDE DEF key
      <3>4. QED
        BY <2>2, <3>1, <3>3
    <2>6. ASSUME NEW mode \in Gamemode
          PROVE  mode \in preferences.gamemodes
                    <=> IF LastSetting("gamemode_", mode) # {}
                        THEN last("gamemode_", mode) = "1"
                        ELSE mode \in DefaultPreferences.gamemodes
      <3> DEFINE key == <<"gamemode_", mode>>
      <3>1. key \in Key /\ key[1] = "gamemode_" /\ key[2] = mode
        BY DEF Key
      <3>2. /\ Value(preferences, key) = IF mode \in preferences.gamemodes THEN 1 ELSE 0
            /\ Value(DefaultPreferences, key)
                  = IF mode \in DefaultPreferences.gamemodes THEN 1 ELSE 0
            /\ \A v : Asked(key, v) = IF v = "1" THEN 1 ELSE 0
        BY <3>1 DEF Value, Asked
      <3> HIDE DEF key
      <3>3. QED
        BY <2>2, <3>1, <3>2
    <2>7. \A name \in Enumerated \cup {"party_size"} :
             preferences[name] = IF LastSetting(name, "") # {}
                                 THEN Number[last(name, "")]
                                 ELSE DefaultPreferences[name]
      BY <2>4, Zenon DEF Named, Plain
    <2>8. QED
      BY <2>5, <2>6, <2>7, Zenon DEF LastSettingWins, last
  <1>2. QED
    BY <1>1, SessionBegins, SessionKept, PTL DEF Spec

-----------------------------------------------------------------------------
(* What is written and read again *)

(* Sets of numbers have a least element. *)
LEMMA MinOf ==
    ASSUME NEW S, S \subseteq Nat, S # {}
    PROVE  Min(S) \in S /\ \A y \in S : Min(S) <= y
  <1> DEFINE R == {ss \in Nat \X Nat : ss[1] < ss[2]}
  <1>1. IsWellFoundedOn(R, Nat)
    <2>1. OpToRel(<, Nat) = R
      BY DEF OpToRel
    <2>2. QED
      BY <2>1, NatLessThanWellFounded
  <1>2. PICK x \in S : \A y \in S : ~ (<<y, x>> \in R)
    <2> HIDE DEF R
    <2>1. QED
      BY <1>1, WFMin
  <1>3. ASSUME NEW y \in S
        PROVE  x <= y
    <2>1. x \in Nat /\ y \in Nat
      OBVIOUS
    <2>2. ~ (y < x)
      BY <1>2, <2>1
    <2>3. QED
      BY <2>1, <2>2
  <1>4. QED
    BY <1>2, <1>3 DEF Min

(* What is left after the first n bytes, also when nothing is. *)
LEMMA AfterOf ==
    ASSUME NEW wire \in Seq(Nat), NEW n \in 0 .. Len(wire)
    PROVE  /\ After(wire, n) \in Seq(Nat)
           /\ Len(After(wire, n)) = Len(wire) - n
           /\ \A i \in 1 .. Len(wire) - n : After(wire, n)[i] = wire[n + i]
  <1>1. /\ Len(wire) \in Nat /\ n + 1 \in Int
        /\ \A i \in n + 1 .. Len(wire) : wire[i] \in Nat
    BY ElementOfSeq
  <1>2. /\ After(wire, n) \in Seq(Nat)
        /\ Len(After(wire, n)) = IF n + 1 <= Len(wire) THEN Len(wire) - (n + 1) + 1 ELSE 0
        /\ \A i \in 1 .. Len(wire) - (n + 1) + 1 : After(wire, n)[i] = wire[n + 1 + i - 1]
    BY <1>1, SubSeqProperties DEF After
  <1>3. QED
    BY <1>1, <1>2

LEMMA BeginningOf ==
    ASSUME NEW wire \in Seq(Nat), NEW n \in 0 .. Len(wire)
    PROVE  /\ SubSeq(wire, 1, n) \in Seq(Nat)
           /\ Len(SubSeq(wire, 1, n)) = n
           /\ \A i \in 1 .. n : SubSeq(wire, 1, n)[i] = wire[i]
  <1>1. Len(wire) \in Nat /\ \A i \in 1 .. n : wire[i] \in Nat
    BY ElementOfSeq
  <1>2. QED
    BY <1>1, SubSeqProperties

(* The string at the beginning of the wire, its terminator, and the rest. *)
Begins(wire, string, rest) ==
    /\ Len(wire) = Len(string) + 1 + Len(rest)
    /\ \A i \in 1 .. Len(string) : wire[i] = string[i]
    /\ wire[Len(string) + 1] = Nul
    /\ \A i \in 1 .. Len(rest) : wire[Len(string) + 1 + i] = rest[i]

(* A string that is shorter than the limit is read as it was written. *)
LEMMA ReadShort ==
    ASSUME NEW wire \in Seq(Nat), NEW string \in Seq({Letter, Lead, Trail}), Utf8(string),
           NEW rest \in Seq(Nat), Begins(wire, string, rest),
           NEW max_len \in Nat, Len(string) < max_len
    PROVE  ReadString(wire, max_len) = Got(string, rest)
  <1> DEFINE nuls == {i \in DOMAIN wire : wire[i] = Nul /\ i <= max_len}
             l == Len(string)
             n == IF nuls # {} THEN Min(nuls) - 1 ELSE max_len
             data == SubSeq(wire, 1, n)
  <1>1. /\ l \in Nat /\ Len(rest) \in Nat /\ Len(wire) = l + 1 + Len(rest)
        /\ DOMAIN wire = 1 .. Len(wire)
        /\ \A i \in 1 .. l : wire[i] = string[i] /\ string[i] # Nul
        /\ string \in Seq(Nat)
    <2>1. \A i \in 1 .. l : string[i] \in {Letter, Lead, Trail}
      BY ElementOfSeq
    <2>2. {Letter, Lead, Trail} \subseteq Nat \ {Nul}
      BY DEF Letter, Lead, Trail, Nul
    <2>3. string \in Seq(Nat)
      BY <2>2, SeqMonotonic
    <2>4. \A i \in 1 .. l : string[i] # Nul
      BY <2>1, <2>2
    <2>5. l \in Nat /\ Len(rest) \in Nat /\ DOMAIN wire = 1 .. Len(wire)
      OBVIOUS
    <2>6. Len(wire) = l + 1 + Len(rest) /\ \A i \in 1 .. l : wire[i] = string[i]
      BY DEF Begins
    <2> HIDE DEF l
    <2>7. QED
      BY <2>3, <2>4, <2>5, <2>6
  <1>2. l + 1 \in nuls /\ \A i \in nuls : l + 1 <= i
    <2>1. wire[l + 1] = Nul /\ l + 1 \in 1 .. Len(wire) /\ l + 1 <= max_len
      BY <1>1 DEF Begins
    <2>2. l + 1 \in nuls
      BY <1>1, <2>1
    <2>3. \A i \in nuls : i \in 1 .. Len(wire) /\ wire[i] = Nul
      BY <1>1
    <2> HIDE DEF nuls, l
    <2>4. ASSUME NEW i \in nuls
          PROVE  l + 1 <= i
      <3>1. i \in Nat /\ 1 <= i /\ wire[i] = Nul
        BY <1>1, <2>3
      <3>2. i \notin 1 .. l
        BY <1>1, <3>1
      <3>3. QED
        BY <1>1, <3>1, <3>2
    <2>5. QED
      BY <2>2, <2>4
  <1>3. Min(nuls) = l + 1
    <2>1. nuls \subseteq 1 .. Len(wire)
      BY <1>1
    <2> HIDE DEF nuls, l
    <2>2. nuls \subseteq Nat /\ nuls # {}
      BY <1>2, <2>1
    <2>3. Min(nuls) \in nuls /\ Min(nuls) <= l + 1
      BY <1>2, <2>2, MinOf
    <2>4. l + 1 <= Min(nuls) /\ Min(nuls) \in Nat
      BY <1>2, <2>2, <2>3
    <2>5. QED
      BY <1>1, <2>3, <2>4
  <1>4. n = l
    <2> HIDE DEF nuls, l
    <2>1. QED
      BY <1>1, <1>2, <1>3
  <1>5. data = string
    <2>1. /\ data \in Seq(Nat) /\ Len(data) = l
          /\ \A i \in 1 .. l : data[i] = wire[i]
      <3>1. l \in 0 .. Len(wire)
        BY <1>1
      <3> HIDE DEF n, l
      <3>2. QED
        BY <1>4, <3>1, BeginningOf
    <2> HIDE DEF data
    <2>2. QED
      BY <1>1, <2>1, SeqEqual
  <1>6. After(wire, n + 1) = rest
    <2>1. l + 1 \in 0 .. Len(wire)
      BY <1>1
    <2>2. /\ After(wire, l + 1) \in Seq(Nat)
          /\ Len(After(wire, l + 1)) = Len(rest)
          /\ \A i \in 1 .. Len(rest) : After(wire, l + 1)[i] = rest[i]
      <3>1. /\ Len(wire) - (l + 1) = Len(rest)
            /\ \A i \in 1 .. Len(rest) : wire[l + 1 + i] = rest[i]
        BY <1>1 DEF Begins
      <3> HIDE DEF l
      <3>2. QED
        BY <2>1, <3>1, AfterOf
    <2>3. After(wire, l + 1) = rest
      BY <2>2, SeqEqual
    <2>4. QED
      BY <1>4, <2>3
  <1>7. ReadString(wire, max_len) =
           IF n > Len(wire) \/ ~ Utf8(data) THEN Failed
           ELSE Got(data, After(wire, IF nuls # {} THEN n + 1 ELSE n))
    BY DEF ReadString
  <1> HIDE DEF nuls, n, data
  <1>8. QED
    BY <1>1, <1>2, <1>4, <1>5, <1>6, <1>7

(* Whatever is read, a string takes one byte more than it has, and none    *)
(* more when it is as long as the limit.                                   *)
LEMMA ReadTakes ==
    ASSUME NEW wire \in Seq(Nat), NEW max_len \in Nat,
           ReadString(wire, max_len).ok
    PROVE  LET got == ReadString(wire, max_len)
           IN  /\ got.value \in Seq(Nat) /\ got.rest \in Seq(Nat)
               /\ Len(wire) <= Len(got.rest) + Len(got.value) + 1
               /\ Len(got.value) >= max_len
                     => Len(wire) <= Len(got.rest) + Len(got.value)
  <1> DEFINE nuls == {i \in DOMAIN wire : wire[i] = Nul /\ i <= max_len}
             n == IF nuls # {} THEN Min(nuls) - 1 ELSE max_len
             data == SubSeq(wire, 1, n)
             left == After(wire, IF nuls # {} THEN n + 1 ELSE n)
  <1>1. ReadString(wire, max_len) =
           IF n > Len(wire) \/ ~ Utf8(data) THEN Failed ELSE Got(data, left)
    BY DEF ReadString
  <1>2. Len(wire) \in Nat /\ DOMAIN wire = 1 .. Len(wire)
    OBVIOUS
  <1>3. CASE nuls # {}
    <2>1. nuls \subseteq 1 .. Len(wire) /\ \A i \in nuls : i <= max_len
      BY <1>2
    <2>2. Min(nuls) \in nuls
      <3>1. nuls \subseteq Nat
        BY <1>2, <2>1
      <3> HIDE DEF nuls
      <3>2. QED
        BY <1>3, <3>1, MinOf
    <2>3. n \in 0 .. Len(wire) - 1 /\ n < max_len
      <3>1. n = Min(nuls) - 1
        BY <1>3
      <3> HIDE DEF n, nuls
      <3>2. Min(nuls) \in 1 .. Len(wire) /\ Min(nuls) <= max_len
        BY <2>1, <2>2
      <3>3. QED
        BY <1>2, <3>1, <3>2
    <2> HIDE DEF n, nuls
    <2>4. /\ data \in Seq(Nat) /\ Len(data) = n
          /\ left \in Seq(Nat) /\ Len(left) = Len(wire) - (n + 1)
      <3>1. n \in 0 .. Len(wire) /\ n + 1 \in 0 .. Len(wire)
        BY <1>2, <2>3
      <3>2. QED
        BY <1>3, <3>1, BeginningOf, AfterOf
    <2> HIDE DEF data, left
    <2>5. ReadString(wire, max_len) = Got(data, left)
      BY <1>1 DEF Failed
    <2>6. QED
      BY <1>2, <2>3, <2>4, <2>5 DEF Got
  <1>4. CASE nuls = {}
    <2>1. n = max_len
      BY <1>4
    <2>2. n <= Len(wire)
      <3> HIDE DEF n, data, left
      <3>1. QED
        BY <1>1, <1>2, <2>1 DEF Failed
    <2> HIDE DEF n, nuls
    <2>3. /\ data \in Seq(Nat) /\ Len(data) = n
          /\ left \in Seq(Nat) /\ Len(left) = Len(wire) - n
      <3>1. n \in 0 .. Len(wire)
        BY <1>2, <2>1, <2>2
      <3>2. QED
        BY <1>4, <3>1, BeginningOf, AfterOf
    <2> HIDE DEF data, left
    <2>4. ReadString(wire, max_len) = Got(data, left)
      BY <1>1 DEF Failed
    <2>5. QED
      BY <1>2, <2>1, <2>2, <2>3, <2>4 DEF Got
  <1>5. QED
    BY <1>3, <1>4

(* One more string is read after what was read so far. *)
ReadOneMore(got, max_len) ==
    LET next == ReadString(got.rest, max_len)
    IN  IF got.ok /\ next.ok THEN Got(Append(got.value, next.value), next.rest)
        ELSE Failed

(* What was read after each of n strings. *)
ReadsInTurn(f, wire, n, max_len) ==
    /\ f[0] = Got(<<>>, wire)
    /\ \A k \in 1 .. n : f[k] = ReadOneMore(f[k-1], max_len)

(* The loop over the strings of a message. *)
LEMMA ReadLoop ==
    ASSUME NEW wire, NEW n \in Nat, NEW max_len
    PROVE  \E f : /\ ReadsInTurn(f, wire, n, max_len)
                 /\ ReadStrings(wire, n, max_len) = f[n]
  <1> DEFINE Is(m, f) == f = [k \in 0 .. m |-> IF k = 0 THEN Got(<<>>, wire)
                                              ELSE ReadOneMore(f[k-1], max_len)]
             T == {m \in 0 .. n : \E f : Is(m, f)}
             read == CHOOSE f : Is(n, f)
  <1>1. 0 \in T
    <2>1. Is(0, [k \in 0 .. 0 |-> Got(<<>>, wire)])
      OBVIOUS
    <2>2. \E f : Is(0, f)
      BY <2>1
    <2>3. QED
      BY <2>2
  <1>2. ASSUME NEW k \in 0 .. n - 1, k \in T
        PROVE  k + 1 \in T
    <2>1. PICK f : Is(k, f)
      BY <1>2
    <2> DEFINE g == [j \in 0 .. k + 1 |-> IF j = k + 1 THEN ReadOneMore(f[k], max_len)
                                         ELSE f[j]]
    <2>2. ASSUME NEW j \in 0 .. k + 1
          PROVE  g[j] = IF j = 0 THEN Got(<<>>, wire) ELSE ReadOneMore(g[j-1], max_len)
      <3>1. CASE j = k + 1
        BY <3>1
      <3>2. CASE j # k + 1
        <4>1. j \in 0 .. k
          BY <3>2
        <4>2. g[j] = f[j] /\ (j # 0 => g[j-1] = f[j-1])
          BY <4>1
        <4>3. QED
          BY <2>1, <4>1, <4>2
      <3>3. QED
        BY <3>1, <3>2
    <2>3. Is(k + 1, g)
      BY <2>2
    <2>4. k + 1 \in 0 .. n
      OBVIOUS
    <2>5. QED
      BY <2>3, <2>4
  <1>3. n \in T
    <2> HIDE DEF T
    <2>1. 0 .. n \subseteq T
      BY <1>1, <1>2, Induction
    <2>2. QED
      BY <2>1
  <1>4. \E f : Is(n, f)
    BY <1>3
  <1>5. Is(n, read)
    <2> HIDE DEF Is
    <2>1. QED
      BY <1>4
  <1>6. ReadStrings(wire, n, max_len) = read[n]
    BY DEF ReadStrings, ReadOneMore
  <1>7. ReadsInTurn(read, wire, n, max_len)
    <2> HIDE DEF read
    <2>1. QED
      BY <1>5 DEF ReadsInTurn
  <1>8. QED
    BY <1>6, <1>7

Text == {string \in Seq({Letter, Lead, Trail}) : Utf8(string)}
Line == Seq(Nat)

(* Strings in a row, left[k] being what is left after k of them. *)
InARow(strings, left, n) ==
    /\ strings \in Seq(Line) /\ Len(strings) = n
    /\ \A k \in 1 .. n : strings[k] \in Text
    /\ \A k \in 0 .. n : left[k] \in Line
    /\ \A k \in 1 .. n : Begins(left[k-1], strings[k], left[k])

(* The strings that were read are the first k of these. *)
Same(value, strings, k) ==
    /\ value \in Seq(Line) /\ Len(value) = k
    /\ \A i \in 1 .. k : value[i] = strings[i]

LEMMA SameGrows ==
    ASSUME NEW value \in Seq(Line), NEW string \in Line, NEW strings,
           NEW k \in Nat, Len(value) = k
    PROVE  /\ Append(value, string) \in Seq(Line) /\ Len(Append(value, string)) = k + 1
           /\ Same(Append(value, string), strings, k + 1)
                 <=> Same(value, strings, k) /\ string = strings[k + 1]
  <1> DEFINE more == Append(value, string)
  <1>1. /\ more \in Seq(Line) /\ Len(more) = k + 1
        /\ \A i \in 1 .. k : more[i] = value[i]
        /\ more[k + 1] = string
    OBVIOUS
  <1> HIDE DEF more
  <1>2. Same(more, strings, k + 1) <=> Same(value, strings, k) /\ string = strings[k + 1]
    BY <1>1 DEF Same
  <1>3. QED
    BY <1>1, <1>2 DEF more

(* Texts in a row that are all shorter than the limit are read as they     *)
(* were written, up to the last terminator.                                *)
LEMMA ShortOnesAreRead ==
    ASSUME NEW n \in Nat, NEW strings, NEW left, InARow(strings, left, n),
           NEW max_len \in Nat, \A k \in 1 .. n : Len(strings[k]) < max_len
    PROVE  ReadStrings(left[0], n, max_len) = Got(strings, left[n])
  <1>0. PICK f : /\ ReadsInTurn(f, left[0], n, max_len)
                 /\ ReadStrings(left[0], n, max_len) = f[n]
    BY ReadLoop
  <1>1. /\ f[0] = Got(<<>>, left[0])
        /\ \A k \in 1 .. n : f[k] = ReadOneMore(f[k-1], max_len)
        /\ ReadStrings(left[0], n, max_len) = f[n]
    BY <1>0 DEF ReadsInTurn
  <1> DEFINE T == {k \in 0 .. n : /\ f[k] = Got(f[k].value, left[k])
                                 /\ Same(f[k].value, strings, k)}
  <1>2. 0 \in T
    <2>1. f[0] = Got(<<>>, left[0])
      BY <1>1
    <2>2. f[0].value = <<>>
      BY <2>1 DEF Got
    <2>3. Same(f[0].value, strings, 0)
      BY <2>2, EmptySeq DEF Same
    <2>4. QED
      BY <2>1, <2>2, <2>3
  <1>3. ASSUME NEW k \in 0 .. n - 1, k \in T
        PROVE  k + 1 \in T
    <2>1. k + 1 \in 1 .. n /\ k + 1 \in 0 .. n /\ k + 1 - 1 = k /\ k \in 0 .. n /\ k \in Nat
      OBVIOUS
    <2>2. f[k] = Got(f[k].value, left[k]) /\ Same(f[k].value, strings, k)
      BY <1>3
    <2> HIDE DEF T
    <2>3. /\ strings[k+1] \in Text /\ strings[k+1] \in Line
          /\ left[k] \in Line /\ left[k+1] \in Line
          /\ Begins(left[k], strings[k+1], left[k+1])
          /\ Len(strings[k+1]) < max_len
      BY <2>1, ElementOfSeq DEF InARow
    <2>4. ReadString(left[k], max_len) = Got(strings[k+1], left[k+1])
      <3> DEFINE string == strings[k+1]
                 from == left[k]
                 to == left[k+1]
      <3>1. /\ string \in Seq({Letter, Lead, Trail}) /\ Utf8(string)
            /\ from \in Seq(Nat) /\ to \in Seq(Nat)
            /\ Begins(from, string, to) /\ Len(string) < max_len
        BY <2>3 DEF Text, Line
      <3> HIDE DEF string, from, to
      <3>2. ReadString(from, max_len) = Got(string, to)
        BY <3>1, ReadShort
      <3>3. QED
        BY <3>2 DEF string, from, to
    <2>5. f[k+1] = ReadOneMore(f[k], max_len)
      BY <1>1, <2>1
    <2>6. f[k].ok /\ f[k].rest = left[k]
      BY <2>2 DEF Got
    <2>7. f[k+1] = Got(Append(f[k].value, strings[k+1]), left[k+1])
      <3>1. ReadOneMore(f[k], max_len)
              = LET next == Got(strings[k+1], left[k+1])
                IN  IF f[k].ok /\ next.ok
                    THEN Got(Append(f[k].value, next.value), next.rest) ELSE Failed
        BY <2>4, <2>6 DEF ReadOneMore
      <3>2. QED
        BY <2>5, <2>6, <3>1 DEF Got
    <2>8. Same(f[k+1].value, strings, k + 1)
      <3> DEFINE value == f[k].value
                 string == strings[k+1]
      <3>1. value \in Seq(Line) /\ Len(value) = k /\ Same(value, strings, k)
        BY <2>2 DEF Same
      <3>2. f[k+1].value = Append(value, string) /\ string \in Line
        BY <2>3, <2>7 DEF Got
      <3>3. string = strings[k+1]
        OBVIOUS
      <3> HIDE DEF value, string
      <3>4. QED
        BY <2>1, <3>1, <3>2, <3>3, SameGrows
    <2>9. f[k+1] = Got(f[k+1].value, left[k+1])
      BY <2>7 DEF Got
    <2>10. QED
      BY <2>1, <2>8, <2>9 DEF T
  <1>4. n \in T
    <2> HIDE DEF T
    <2>1. 0 .. n \subseteq T
      BY <1>2, <1>3, Induction
    <2>2. QED
      BY <2>1
  <1>5. f[n].value = strings
    <2>1. Same(f[n].value, strings, n)
      BY <1>4
    <2>2. /\ f[n].value \in Seq(Line) /\ strings \in Seq(Line)
          /\ Len(f[n].value) = Len(strings)
          /\ \A i \in 1 .. Len(f[n].value) : f[n].value[i] = strings[i]
      BY <2>1 DEF Same, InARow
    <2>3. QED
      BY <2>2, SeqEqual
  <1>6. QED
    BY <1>1, <1>4, <1>5

(* One that is longer is cut, and one of just the limit leaves a byte more *)
(* than it should, which nothing that follows makes up for.                *)
LEMMA LongOnesAreNot ==
    ASSUME NEW n \in Nat, NEW strings, NEW left, InARow(strings, left, n),
           NEW max_len \in Nat, NEW long \in 1 .. n, ~ (Len(strings[long]) < max_len)
    PROVE  ReadStrings(left[0], n, max_len) # Got(strings, left[n])
  <1>0. PICK f : /\ ReadsInTurn(f, left[0], n, max_len)
                 /\ ReadStrings(left[0], n, max_len) = f[n]
    BY ReadLoop
  <1>1. /\ f[0] = Got(<<>>, left[0])
        /\ \A k \in 1 .. n : f[k] = ReadOneMore(f[k-1], max_len)
        /\ ReadStrings(left[0], n, max_len) = f[n]
    BY <1>0 DEF ReadsInTurn
  <1> DEFINE Read(k) == /\ f[k].rest \in Line
                        /\ f[k].value \in Seq(Line) /\ Len(f[k].value) = k
             Ahead(k) == /\ Len(f[k].rest) >= Len(left[k])
                         /\ long <= k => Len(f[k].rest) > Len(left[k])
             T == {k \in 0 .. n : f[k].ok => Read(k) /\ (Same(f[k].value, strings, k) => Ahead(k))}
  <1>2. 0 \in T
    <2>1. f[0] = Got(<<>>, left[0]) /\ left[0] \in Line
      BY <1>1 DEF InARow
    <2>2. f[0].value = <<>> /\ f[0].rest = left[0]
      BY <2>1 DEF Got
    <2>3. Read(0)
      BY <2>1, <2>2, EmptySeq
    <2>4. Len(left[0]) \in Nat
      BY <2>1 DEF Line
    <2>5. Ahead(0)
      BY <2>2, <2>4
    <2>6. QED
      BY <2>3, <2>5
  <1>3. ASSUME NEW k \in 0 .. n - 1, k \in T
        PROVE  k + 1 \in T
    <2>1. k + 1 \in 1 .. n /\ k + 1 \in 0 .. n /\ k + 1 - 1 = k /\ k \in 0 .. n /\ k \in Nat
      OBVIOUS
    <2>2. f[k].ok => Read(k) /\ (Same(f[k].value, strings, k) => Ahead(k))
      BY <1>3
    <2>3. f[k+1] = ReadOneMore(f[k], max_len)
      BY <1>1, <2>1
    <2> DEFINE next == ReadString(f[k].rest, max_len)
    <2> HIDE DEF T, Read, Ahead
    <2>4. CASE ~ (f[k].ok /\ next.ok)
      <3>1. f[k+1] = Failed
        BY <2>3, <2>4 DEF ReadOneMore
      <3>2. ~ f[k+1].ok
        BY <3>1 DEF Failed
      <3>3. QED
        BY <2>1, <3>2 DEF T
    <2>5. CASE f[k].ok /\ next.ok
      <3>1. f[k+1] = Got(Append(f[k].value, next.value), next.rest)
        BY <2>3, <2>5 DEF ReadOneMore
      <3>2. /\ next.value \in Line /\ next.rest \in Line
            /\ Len(f[k].rest) <= Len(next.rest) + Len(next.value) + 1
            /\ Len(next.value) >= max_len
                  => Len(f[k].rest) <= Len(next.rest) + Len(next.value)
        <4> DEFINE wire == f[k].rest
        <4>1. wire \in Seq(Nat) /\ ReadString(wire, max_len).ok
          BY <2>2, <2>5 DEF Read, Line
        <4> HIDE DEF wire
        <4>2. LET got == ReadString(wire, max_len)
              IN  /\ got.value \in Seq(Nat) /\ got.rest \in Seq(Nat)
                  /\ Len(wire) <= Len(got.rest) + Len(got.value) + 1
                  /\ Len(got.value) >= max_len
                        => Len(wire) <= Len(got.rest) + Len(got.value)
          BY <4>1, ReadTakes
        <4>3. QED
          BY <4>2 DEF wire, Line
      <3> HIDE DEF next
      <3>3. f[k].value \in Seq(Line) /\ Len(f[k].value) = k
        BY <2>2, <2>5 DEF Read
      <3>4. f[k+1].rest = next.rest /\ f[k+1].value = Append(f[k].value, next.value)
        BY <3>1 DEF Got
      <3> DEFINE value == f[k].value
                 string == next.value
      <3>8. /\ f[k+1].value \in Seq(Line) /\ Len(f[k+1].value) = k + 1
            /\ Same(f[k+1].value, strings, k + 1)
                  <=> Same(f[k].value, strings, k) /\ next.value = strings[k+1]
        <4>1. value \in Seq(Line) /\ Len(value) = k /\ string \in Line
          BY <3>2, <3>3
        <4>2. f[k+1].value = Append(value, string)
          BY <3>4
        <4>3. /\ Append(value, string) \in Seq(Line) /\ Len(Append(value, string)) = k + 1
              /\ Same(Append(value, string), strings, k + 1)
                    <=> Same(value, strings, k) /\ string = strings[k+1]
          <5> HIDE DEF value, string
          <5>1. QED
            BY <2>1, <4>1, SameGrows
        <4>4. QED
          BY <4>2, <4>3
      <3>5. Read(k + 1)
        BY <3>2, <3>4, <3>8 DEF Read
      <3>6. ASSUME Same(f[k+1].value, strings, k + 1)
            PROVE  Ahead(k + 1)
        <4>1. Same(f[k].value, strings, k) /\ next.value = strings[k+1]
          BY <3>6, <3>8
        <4>2. Ahead(k)
          BY <2>2, <2>5, <4>1
        <4>3. /\ Len(left[k]) = Len(strings[k+1]) + 1 + Len(left[k+1])
              /\ left[k] \in Line /\ left[k+1] \in Line
          <5>1. /\ Begins(left[k], strings[k+1], left[k+1])
                /\ left[k] \in Line /\ left[k+1] \in Line
            BY <2>1 DEF InARow
          <5>2. QED
            BY <5>1 DEF Begins
        <4> DEFINE before == Len(f[k].rest)
                   after == Len(next.rest)
                   due == Len(left[k])
                   rest == Len(left[k+1])
                   size == Len(next.value)
        <4>4. before \in Nat /\ after \in Nat /\ due \in Nat /\ rest \in Nat /\ size \in Nat
          <5>1. f[k].rest \in Line
            BY <2>2, <2>5 DEF Read
          <5>2. ASSUME NEW line \in Line
                PROVE  Len(line) \in Nat
            BY DEF Line
          <5>3. QED
            BY <3>2, <4>3, <5>1, <5>2
        <4>5. before <= after + size + 1 /\ (size >= max_len => before <= after + size)
          BY <3>2
        <4>6. before >= due /\ (long <= k => before > due)
          BY <4>2 DEF Ahead
        <4>7. due = size + 1 + rest
          BY <4>1, <4>3
        <4>8. long = k + 1 => size >= max_len
          <5>1. SUFFICES ASSUME long = k + 1
                         PROVE  size >= max_len
            OBVIOUS
          <5>2. ~ (size < max_len)
            BY <4>1, <5>1
          <5> HIDE DEF size
          <5>3. QED
            BY <4>4, <5>2
        <4>9. after >= rest /\ (long <= k + 1 => after > rest)
          <5> HIDE DEF before, after, due, rest, size
          <5>1. QED
            BY <2>1, <4>4, <4>5, <4>6, <4>7, <4>8
        <4>10. QED
          BY <3>4, <4>9 DEF Ahead
      <3>7. QED
        BY <2>1, <3>5, <3>6 DEF T
    <2>6. QED
      BY <2>4, <2>5
  <1>4. n \in T
    <2> HIDE DEF T
    <2>1. 0 .. n \subseteq T
      BY <1>2, <1>3, Induction
    <2>2. QED
      BY <2>1
  <1>5. SUFFICES ASSUME f[n] = Got(strings, left[n])
                 PROVE  FALSE
    BY <1>1
  <1>6. f[n].ok /\ f[n].rest = left[n] /\ f[n].value = strings
    BY <1>5 DEF Got
  <1>7. Same(f[n].value, strings, n)
    BY <1>6 DEF Same, InARow
  <1>8. Ahead(n) /\ left[n] \in Line
    <2>1. n \in 0 .. n
      OBVIOUS
    <2> HIDE DEF Ahead, Read
    <2>2. QED
      BY <1>4, <1>6, <1>7, <2>1 DEF InARow
  <1>9. Len(left[n]) \in Nat
    BY <1>8 DEF Line
  <1>10. QED
    BY <1>6, <1>8, <1>9

(* Strings are read as they were written exactly when all are shorter than *)
(* the limit.                                                              *)
LEMMA ReadAll ==
    ASSUME NEW n \in Nat, NEW strings, NEW left, InARow(strings, left, n),
           NEW max_len \in Nat
    PROVE  ReadStrings(left[0], n, max_len) = Got(strings, left[n])
              <=> \A k \in 1 .. n : Len(strings[k]) < max_len
  BY ShortOnesAreRead, LongOnesAreNot

(* What a longer line begins with. *)
Pre(line, longer) ==
    /\ line \in Line /\ longer \in Line
    /\ Len(line) <= Len(longer)
    /\ \A i \in 1 .. Len(line) : longer[i] = line[i]

LEMMA PreTransitive ==
    ASSUME NEW a, NEW b, NEW c, Pre(a, b), Pre(b, c)
    PROVE  Pre(a, c)
  <1>1. /\ a \in Line /\ b \in Line /\ c \in Line
        /\ Len(a) \in Nat /\ Len(b) \in Nat /\ Len(c) \in Nat
    BY DEF Pre, Line
  <1>2. Len(a) <= Len(b) /\ Len(b) <= Len(c)
    BY DEF Pre
  <1>3. ASSUME NEW i \in 1 .. Len(a)
        PROVE  c[i] = a[i]
    <2>1. i \in 1 .. Len(b)
      BY <1>1, <1>2
    <2>2. QED
      BY <2>1 DEF Pre
  <1>4. QED
    BY <1>1, <1>2, <1>3 DEF Pre

LEMMA PreOfTwo ==
    ASSUME NEW a \in Line, NEW b \in Line
    PROVE  /\ Pre(a, a \o b) /\ Len(a \o b) = Len(a) + Len(b)
           /\ \A i \in 1 .. Len(b) : (a \o b)[Len(a) + i] = b[i]
  <1>1. a \in Seq(Nat) /\ b \in Seq(Nat) /\ Len(a) \in Nat /\ Len(b) \in Nat
    BY DEF Line
  <1> DEFINE c == a \o b
  <1>2. /\ c \in Seq(Nat) /\ Len(c) = Len(a) + Len(b)
        /\ \A i \in 1 .. Len(a) + Len(b) : c[i] = IF i <= Len(a) THEN a[i] ELSE b[i - Len(a)]
    BY <1>1, ConcatProperties
  <1> HIDE DEF c
  <1>3. Pre(a, c)
    BY <1>1, <1>2 DEF Pre, Line
  <1>4. ASSUME NEW i \in 1 .. Len(b)
        PROVE  c[Len(a) + i] = b[i]
    <2>1. Len(a) + i \in 1 .. Len(a) + Len(b) /\ ~ (Len(a) + i <= Len(a)) /\ Len(a) + i - Len(a) = i
      BY <1>1
    <2>2. QED
      BY <1>2, <2>1
  <1>5. QED
    BY <1>2, <1>3, <1>4 DEF c

(* A string and its terminator. *)
LEMMA Terminated ==
    ASSUME NEW string \in Line
    PROVE  /\ WriteString(string) \in Line
           /\ Len(WriteString(string)) = Len(string) + 1
           /\ \A i \in 1 .. Len(string) : WriteString(string)[i] = string[i]
           /\ WriteString(string)[Len(string) + 1] = Nul
  <1>1. <<Nul>> \in Line /\ Len(<<Nul>>) = 1 /\ <<Nul>>[1] = Nul
    BY DEF Line, Nul
  <1>2. /\ Pre(string, WriteString(string))
        /\ Len(WriteString(string)) = Len(string) + 1
        /\ WriteString(string)[Len(string) + 1] = Nul
    BY <1>1, PreOfTwo DEF WriteString
  <1>3. QED
    BY <1>2 DEF Pre

(* In a line that begins with what was written, the string that was        *)
(* written last stands where the others end.                               *)
LEMMA LastWritten ==
    ASSUME NEW line, NEW a \in Line, NEW string \in Line,
           NEW b, b = a \o WriteString(string), Pre(b, line)
    PROVE  /\ After(line, Len(a)) \in Line /\ After(line, Len(b)) \in Line
           /\ Begins(After(line, Len(a)), string, After(line, Len(b)))
  <1> DEFINE whole == WriteString(string)
             from == After(line, Len(a))
             to == After(line, Len(b))
             l == Len(string)
             before == Len(a)
             all == Len(line)
  <1>1. /\ whole \in Line /\ Len(whole) = l + 1
        /\ \A i \in 1 .. l : whole[i] = string[i]
        /\ whole[l + 1] = Nul
    BY Terminated
  <1>2. /\ b \in Line /\ line \in Line /\ line \in Seq(Nat)
        /\ before \in Nat /\ l \in Nat /\ all \in Nat
    BY DEF Pre, Line
  <1>3. Len(b) = before + l + 1 /\ \A i \in 1 .. l + 1 : b[before + i] = whole[i]
    <2> HIDE DEF whole
    <2>1. Len(a \o whole) = Len(a) + Len(whole)
          /\ \A i \in 1 .. Len(whole) : (a \o whole)[Len(a) + i] = whole[i]
      BY <1>1, PreOfTwo
    <2>2. b = a \o whole
      BY DEF whole
    <2>3. QED
      BY <1>1, <1>2, <2>1, <2>2
  <1>4. before + l + 1 <= all /\ \A i \in 1 .. before + l + 1 : line[i] = b[i]
    BY <1>3 DEF Pre
  <1>5. /\ from \in Seq(Nat) /\ Len(from) = all - before
        /\ \A i \in 1 .. all - before : from[i] = line[before + i]
    <2>1. before \in 0 .. Len(line)
      BY <1>2, <1>4
    <2> HIDE DEF before
    <2>2. /\ After(line, before) \in Seq(Nat)
          /\ Len(After(line, before)) = Len(line) - before
          /\ \A i \in 1 .. Len(line) - before : After(line, before)[i] = line[before + i]
      BY <1>2, <2>1, AfterOf
    <2>3. QED
      BY <2>2 DEF before
  <1>6. /\ to \in Seq(Nat) /\ Len(to) = all - (before + l + 1)
        /\ \A i \in 1 .. all - (before + l + 1) : to[i] = line[before + l + 1 + i]
    <2> DEFINE n == before + l + 1
    <2>1. n \in 0 .. Len(line)
      BY <1>2, <1>4
    <2> HIDE DEF n
    <2>2. /\ After(line, n) \in Seq(Nat)
          /\ Len(After(line, n)) = Len(line) - n
          /\ \A i \in 1 .. Len(line) - n : After(line, n)[i] = line[n + i]
      BY <1>2, <2>1, AfterOf
    <2>3. QED
      BY <1>3, <2>2 DEF n
  <1> HIDE DEF whole, from, to, l, before, all
  <1>7. Len(from) = l + 1 + Len(to)
    BY <1>2, <1>4, <1>5, <1>6
  <1>8. ASSUME NEW i \in 1 .. l + 1
        PROVE  from[i] = whole[i]
    <2>1. i \in 1 .. all - before /\ before + i \in 1 .. before + l + 1
      BY <1>2, <1>4
    <2>2. QED
      BY <1>3, <1>4, <1>5, <2>1
  <1>9. ASSUME NEW i \in 1 .. Len(to)
        PROVE  from[l + 1 + i] = to[i]
    <2>1. /\ l + 1 + i \in 1 .. all - before /\ i \in 1 .. all - (before + l + 1)
          /\ before + (l + 1 + i) = before + l + 1 + i
      BY <1>2, <1>4, <1>6
    <2>2. QED
      BY <1>5, <1>6, <2>1
  <1>10. (\A i \in 1 .. l : from[i] = string[i]) /\ from[l + 1] = Nul
    <2>1. 1 .. l \subseteq 1 .. l + 1 /\ l + 1 \in 1 .. l + 1
      BY <1>2
    <2>2. QED
      BY <1>1, <1>8, <2>1
  <1>11. Begins(from, string, to)
    BY <1>7, <1>9, <1>10 DEF Begins, l
  <1>12. QED
    BY <1>5, <1>6, <1>11 DEF from, to, Line

(* What was written after each string of a message. *)
WritesInTurn(f, strings, n) ==
    /\ f[0] = <<n \div 2>>
    /\ \A k \in 1 .. n : f[k] = f[k-1] \o WriteString(strings[k])

(* The loop over the convars of a message. *)
LEMMA WriteLoop ==
    ASSUME NEW strings, NEW n \in Nat, Len(strings) = n
    PROVE  \E f : /\ WritesInTurn(f, strings, n)
                  /\ WriteConVars(strings) = f[n]
  <1> DEFINE Is(m, f) == f = [k \in 0 .. m |-> IF k = 0 THEN <<n \div 2>>
                                              ELSE f[k-1] \o WriteString(strings[k])]
             T == {m \in 0 .. n : \E f : Is(m, f)}
             wrote == CHOOSE f : Is(n, f)
  <1>1. 0 \in T
    <2>1. Is(0, [k \in 0 .. 0 |-> <<n \div 2>>])
      OBVIOUS
    <2> HIDE DEF Is
    <2>2. 0 \in 0 .. n
      OBVIOUS
    <2>3. QED
      BY <2>1, <2>2
  <1>2. ASSUME NEW k \in 0 .. n - 1, k \in T
        PROVE  k + 1 \in T
    <2>1. PICK f : Is(k, f)
      BY <1>2
    <2> DEFINE g == [j \in 0 .. k + 1 |-> IF j = k + 1 THEN f[k] \o WriteString(strings[k+1])
                                         ELSE f[j]]
    <2>2. ASSUME NEW j \in 0 .. k + 1
          PROVE  g[j] = IF j = 0 THEN <<n \div 2>> ELSE g[j-1] \o WriteString(strings[j])
      <3>1. CASE j = k + 1
        BY <3>1
      <3>2. CASE j # k + 1
        <4>1. j \in 0 .. k
          BY <3>2
        <4>2. g[j] = f[j] /\ (j # 0 => g[j-1] = f[j-1])
          BY <4>1
        <4>3. QED
          BY <2>1, <4>1, <4>2
      <3>3. QED
        BY <3>1, <3>2
    <2>3. Is(k + 1, g)
      BY <2>2
    <2>4. k + 1 \in 0 .. n
      OBVIOUS
    <2>5. QED
      BY <2>3, <2>4
  <1>3. n \in T
    <2> HIDE DEF T
    <2>1. 0 .. n \subseteq T
      BY <1>1, <1>2, Induction
    <2>2. QED
      BY <2>1
  <1>4. \E f : Is(n, f)
    BY <1>3
  <1>5. Is(n, wrote)
    <2> HIDE DEF Is
    <2>1. QED
      BY <1>4
  <1>6. WriteConVars(strings) = wrote[n]
    BY DEF WriteConVars
  <1>7. WritesInTurn(wrote, strings, n)
    <2> HIDE DEF wrote
    <2>1. wrote[0] = <<n \div 2>>
      <3>1. 0 \in 0 .. n
        OBVIOUS
      <3>2. QED
        BY <1>5, <3>1
    <2>2. ASSUME NEW k \in 1 .. n
          PROVE  wrote[k] = wrote[k-1] \o WriteString(strings[k])
      <3>1. k \in 0 .. n /\ k # 0
        OBVIOUS
      <3>2. QED
        BY <1>5, <3>1
    <2>3. QED
      BY <2>1, <2>2 DEF WritesInTurn
  <1>8. QED
    BY <1>6, <1>7

(* What was written first is at the beginning of all that is written. *)
LEMMA WrittenGrows ==
    ASSUME NEW n \in Nat, NEW strings, \A k \in 1 .. n : strings[k] \in Line,
           NEW f, WritesInTurn(f, strings, n)
    PROVE  /\ \A k \in 0 .. n : f[k] \in Line
           /\ \A k \in 0 .. n : Pre(f[k], f[n])
  <1>1. /\ f[0] = <<n \div 2>>
        /\ \A k \in 1 .. n : f[k] = f[k-1] \o WriteString(strings[k])
    BY DEF WritesInTurn
  <1> DEFINE T == {k \in 0 .. n : f[k] \in Line /\ \A j \in 0 .. k : Pre(f[j], f[k])}
  <1>2. \A line \in Line : Pre(line, line)
    BY DEF Pre, Line
  <1>3. 0 \in T
    <2>1. f[0] \in Line
      BY <1>1 DEF Line
    <2>2. QED
      BY <1>2, <2>1
  <1>4. ASSUME NEW k \in 0 .. n - 1, k \in T
        PROVE  k + 1 \in T
    <2>1. k + 1 \in 1 .. n /\ k + 1 \in 0 .. n /\ k + 1 - 1 = k
      OBVIOUS
    <2>2. f[k] \in Line /\ \A j \in 0 .. k : Pre(f[j], f[k])
      BY <1>4
    <2>3. f[k+1] = f[k] \o WriteString(strings[k+1]) /\ WriteString(strings[k+1]) \in Line
      <3> DEFINE j == k + 1
      <3>1. j \in 1 .. n /\ j - 1 = k
        BY <2>1
      <3> HIDE DEF j
      <3>2. strings[j] \in Line
        BY <3>1
      <3>3. \A string \in Line : WriteString(string) \in Line
        BY Terminated
      <3>4. f[j] = f[k] \o WriteString(strings[j])
        BY <1>1, <3>1
      <3>5. WriteString(strings[j]) \in Line
        BY <3>2, <3>3
      <3>6. QED
        BY <3>4, <3>5 DEF j
    <2>4. Pre(f[k], f[k+1]) /\ f[k+1] \in Line
      <3> DEFINE a == f[k]
                 b == WriteString(strings[k+1])
      <3>1. a \in Line /\ b \in Line
        BY <2>2, <2>3
      <3> HIDE DEF a, b
      <3>2. Pre(a, a \o b)
        BY <3>1, PreOfTwo
      <3>3. a \o b \in Line
        BY <3>2 DEF Pre
      <3>4. QED
        BY <2>3, <3>2, <3>3 DEF a, b
    <2>5. ASSUME NEW j \in 0 .. k + 1
          PROVE  Pre(f[j], f[k+1])
      <3>1. CASE j = k + 1
        BY <1>2, <2>4, <3>1
      <3>2. CASE j # k + 1
        <4>1. j \in 0 .. k
          BY <3>2
        <4>2. Pre(f[j], f[k])
          BY <2>2, <4>1
        <4>3. QED
          BY <2>4, <4>2, PreTransitive
      <3>3. QED
        BY <3>1, <3>2
    <2>6. QED
      BY <2>1, <2>4, <2>5
  <1>5. ASSUME NEW k \in 0 .. n
        PROVE  k \in T
    <2> HIDE DEF T
    <2>1. 0 .. n \subseteq T
      BY <1>3, <1>4, Induction
    <2>2. QED
      BY <2>1
  <1>6. n \in T /\ n \in 0 .. n
    BY <1>5
  <1>7. QED
    BY <1>5, <1>6

(* What was written with a message that follows, and what is left of it    *)
(* after each string.                                                      *)
Wire(f, n, next) == f[n] \o next
Left(f, n, next) == [k \in 0 .. n |-> After(Wire(f, n, next), Len(f[k]))]

LEMMA WrittenInARow ==
    ASSUME NEW n \in Nat, NEW strings \in Seq(Line), Len(strings) = n,
           \A k \in 1 .. n : strings[k] \in Text,
           NEW f, WritesInTurn(f, strings, n), NEW next \in Line
    PROVE  /\ Wire(f, n, next) \in Line /\ Wire(f, n, next) # <<>>
           /\ Wire(f, n, next)[1] = n \div 2
           /\ Left(f, n, next)[0] = Tail(Wire(f, n, next)) /\ Left(f, n, next)[n] = next
           /\ InARow(strings, Left(f, n, next), n)
  <1> DEFINE wire == f[n] \o next
             left == [k \in 0 .. n |-> After(wire, Len(f[k]))]
  <1>1. \A k \in 1 .. n : strings[k] \in Line
    BY ElementOfSeq
  <1>2. (\A k \in 0 .. n : f[k] \in Line) /\ \A k \in 0 .. n : Pre(f[k], f[n])
    BY <1>1, WrittenGrows
  <1>3. 0 \in 0 .. n /\ n \in 0 .. n
    OBVIOUS
  <1>4. f[n] \in Line
    BY <1>2, <1>3
  <1>5. /\ Pre(f[n], wire) /\ Len(wire) = Len(f[n]) + Len(next)
        /\ \A i \in 1 .. Len(next) : wire[Len(f[n]) + i] = next[i]
    <2> DEFINE a == f[n]
    <2>1. a \in Line
      BY <1>4
    <2> HIDE DEF a
    <2>2. /\ Pre(a, a \o next) /\ Len(a \o next) = Len(a) + Len(next)
          /\ \A i \in 1 .. Len(next) : (a \o next)[Len(a) + i] = next[i]
      BY <2>1, PreOfTwo
    <2>3. QED
      BY <2>2 DEF a
  <1> HIDE DEF wire
  <1>6. \A k \in 0 .. n : Pre(f[k], wire)
    <2>1. ASSUME NEW k \in 0 .. n
          PROVE  Pre(f[k], wire)
      <3>1. Pre(f[k], f[n])
        BY <1>2
      <3>2. QED
        BY <1>5, <3>1, PreTransitive
    <2>2. QED
      BY <2>1
  <1>7. wire \in Line /\ wire \in Seq(Nat) /\ Len(wire) \in Nat
    BY <1>5 DEF Pre, Line
  <1>8. Len(f[0]) = 1 /\ 1 <= Len(wire) /\ wire[1] = n \div 2
    <2>1. f[0] = <<n \div 2>>
      BY DEF WritesInTurn
    <2>2. Pre(f[0], wire)
      BY <1>3, <1>6
    <2>3. QED
      BY <2>1, <2>2 DEF Pre
  <1>9. left[0] = Tail(wire)
    <2>1. left[0] = After(wire, 1)
      BY <1>3, <1>8
    <2>2. 1 \in 0 .. Len(wire) /\ wire # <<>>
      BY <1>7, <1>8
    <2>3. /\ After(wire, 1) \in Seq(Nat) /\ Len(After(wire, 1)) = Len(wire) - 1
          /\ \A i \in 1 .. Len(wire) - 1 : After(wire, 1)[i] = wire[1 + i]
      BY <1>7, <2>2, AfterOf
    <2>4. /\ Tail(wire) \in Seq(Nat) /\ Len(Tail(wire)) = Len(wire) - 1
          /\ \A i \in 1 .. Len(wire) - 1 : Tail(wire)[i] = wire[i + 1]
      BY <1>7, <2>2, HeadTailProperties
    <2>5. \A i \in 1 .. Len(wire) - 1 : 1 + i = i + 1
      BY <1>7
    <2> DEFINE rest == After(wire, 1)
               tail == Tail(wire)
    <2>6. /\ rest \in Seq(Nat) /\ tail \in Seq(Nat) /\ Len(rest) = Len(tail)
          /\ \A i \in 1 .. Len(rest) : rest[i] = tail[i]
      <3> HIDE DEF rest, tail
      <3>1. QED
        BY <2>3, <2>4, <2>5 DEF rest, tail
    <2>7. rest = tail
      <3> HIDE DEF rest, tail
      <3>1. QED
        BY <2>6, SeqEqual
    <2>8. QED
      BY <2>1, <2>7
  <1>10. left[n] = next
    <2>1. left[n] = After(wire, Len(f[n]))
      BY <1>3
    <2> DEFINE m == Len(f[n])
    <2>2. m \in Nat /\ Len(next) \in Nat
      BY <1>4 DEF Line
    <2>3. m \in 0 .. Len(wire) /\ Len(wire) - m = Len(next)
      BY <1>5, <2>2
    <2>4. \A i \in 1 .. Len(next) : wire[m + i] = next[i]
      BY <1>5
    <2> HIDE DEF m
    <2>5. /\ After(wire, m) \in Seq(Nat) /\ Len(After(wire, m)) = Len(wire) - m
          /\ \A i \in 1 .. Len(wire) - m : After(wire, m)[i] = wire[m + i]
      BY <1>7, <2>3, AfterOf
    <2>6. next \in Seq(Nat)
      BY DEF Line
    <2>7. After(wire, m) = next
      BY <2>3, <2>4, <2>5, <2>6, SeqEqual
    <2>8. QED
      BY <2>1, <2>7 DEF m
  <1>11. ASSUME NEW k \in 1 .. n
         PROVE  left[k-1] \in Line /\ Begins(left[k-1], strings[k], left[k])
    <2>1. k - 1 \in 0 .. n /\ k \in 0 .. n
      OBVIOUS
    <2> DEFINE a == f[k-1]
               b == f[k]
               string == strings[k]
    <2>2. a \in Line /\ string \in Line /\ b = a \o WriteString(string)
      BY <1>1, <1>2, <2>1 DEF WritesInTurn
    <2>3. Pre(b, wire)
      BY <1>6, <2>1
    <2>4. left[k-1] = After(wire, Len(a)) /\ left[k] = After(wire, Len(b))
      BY <2>1
    <2> HIDE DEF a, b, string, left
    <2>5. After(wire, Len(a)) \in Line /\ Begins(After(wire, Len(a)), string, After(wire, Len(b)))
      BY <2>2, <2>3, LastWritten
    <2>6. QED
      BY <2>4, <2>5 DEF string
  <1>12. ASSUME NEW k \in 0 .. n
         PROVE  left[k] \in Line
    <2>1. CASE k = n
      BY <1>10, <2>1
    <2>2. CASE k # n
      <3> DEFINE j == k + 1
      <3>1. j \in 1 .. n /\ j - 1 = k
        BY <2>2
      <3> HIDE DEF j, left
      <3>2. left[j-1] \in Line
        BY <1>11, <3>1
      <3>3. QED
        BY <3>1, <3>2
    <2>3. QED
      BY <2>1, <2>2
  <1>13. InARow(strings, left, n)
    <2> HIDE DEF left
    <2>1. QED
      BY <1>11, <1>12 DEF InARow
  <1>14. wire # <<>>
    BY <1>8
  <1>15. QED
    <2>1. wire = Wire(f, n, next) /\ left = Left(f, n, next)
      BY DEF Wire, Left, wire
    <2> HIDE DEF left
    <2>2. QED
      BY <1>7, <1>8, <1>9, <1>10, <1>13, <1>14, <2>1

(* One string, and a message that follows. *)
LEMMA OneInARow ==
    ASSUME NEW strings \in Seq(Line), Len(strings) = 1, strings[1] \in Text,
           NEW next \in Line
    PROVE  LET wire == WriteString(strings[1]) \o next
               left == [k \in 0 .. 1 |-> IF k = 0 THEN wire ELSE next]
           IN  InARow(strings, left, 1)
  <1> DEFINE string == strings[1]
             whole == WriteString(string)
             wire == whole \o next
             left == [k \in 0 .. 1 |-> IF k = 0 THEN wire ELSE next]
  <1>1. string \in Line /\ Len(string) \in Nat
    <2>1. 1 \in 1 .. Len(strings)
      OBVIOUS
    <2>2. string \in Line
      BY <2>1, ElementOfSeq
    <2> HIDE DEF string
    <2>3. QED
      BY <2>2 DEF Line
  <1> HIDE DEF string
  <1>2. /\ whole \in Line /\ Len(whole) = Len(string) + 1
        /\ \A i \in 1 .. Len(string) : whole[i] = string[i]
        /\ whole[Len(string) + 1] = Nul
    BY <1>1, Terminated
  <1> HIDE DEF whole
  <1>3. /\ Pre(whole, wire) /\ Len(wire) = Len(whole) + Len(next)
        /\ \A i \in 1 .. Len(next) : wire[Len(whole) + i] = next[i]
    BY <1>2, PreOfTwo
  <1> HIDE DEF wire
  <1>4. Begins(wire, string, next)
    <2>1. \A i \in 1 .. Len(whole) : wire[i] = whole[i]
      BY <1>3 DEF Pre
    <2>2. 1 .. Len(string) \subseteq 1 .. Len(whole) /\ Len(string) + 1 \in 1 .. Len(whole)
      BY <1>1, <1>2
    <2>3. QED
      BY <1>2, <1>3, <2>1, <2>2 DEF Begins
  <1>5. wire \in Line
    BY <1>3 DEF Pre
  <1>6. left[0] = wire /\ left[1] = next
    OBVIOUS
  <1>7. /\ \A k \in 1 .. 1 : strings[k] \in Text
        /\ \A k \in 0 .. 1 : left[k] \in Line
        /\ \A k \in 1 .. 1 : Begins(left[k-1], strings[k], left[k])
    <2> HIDE DEF left
    <2>1. \A k \in 1 .. 1 : k = 1
      OBVIOUS
    <2>2. \A k \in 0 .. 1 : k = 0 \/ k = 1
      OBVIOUS
    <2>3. Begins(left[0], strings[1], left[1])
      BY <1>4, <1>6 DEF string
    <2>4. QED
      BY <1>5, <1>6, <2>1, <2>2, <2>3
  <1>8. InARow(strings, left, 1)
    <2> HIDE DEF left
    <2>1. QED
      BY <1>7 DEF InARow
  <1>9. QED
    BY <1>8 DEF left, wire, whole, string

-----------------------------------------------------------------------------
(* A message that is written and read again *)

(* The strings of a message. *)
Fields == fields \in Seq(Strings)

LEMMA FieldsStay == Spec => []Fields
  <1>1. Init => Fields
    BY DEF Init, Fields
  <1>2. Fields /\ [Next]_vars => Fields'
    <2>1. SUFFICES ASSUME Fields, [Next]_vars
                   PROVE  Fields'
      OBVIOUS
    <2>2. CASE AddField
      BY <2>1, <2>2 DEF AddField, Fields
    <2>3. CASE UNCHANGED fields
      BY <2>1, <2>3 DEF Fields
    <2>4. QED
      BY <2>1, <2>2, <2>3
         DEF Next, vars, server, written, SetConVars, Join, Leave, AddOne
  <1>3. QED
    BY <1>1, <1>2, PTL DEF Spec

LEMMA FieldsAreTexts ==
    ASSUME Fields
    PROVE  /\ fields \in Seq(Line) /\ Len(fields) \in Nat
           /\ DOMAIN fields = 1 .. Len(fields)
           /\ \A k \in 1 .. Len(fields) : fields[k] \in Text
  <1>1. Strings \subseteq Text
    BY FunctionsAssumption DEF Text
  <1>2. Text \subseteq Line
    <2>1. {Letter, Lead, Trail} \subseteq Nat
      BY DEF Letter, Lead, Trail
    <2>2. ASSUME NEW string \in Text
          PROVE  string \in Line
      <3>1. string \in Seq({Letter, Lead, Trail})
        BY DEF Text
      <3>2. QED
        BY <2>1, <3>1, SeqMonotonic DEF Line
    <2>3. QED
      BY <2>2
  <1>3. fields \in Seq(Text)
    BY <1>1, SeqMonotonic DEF Fields
  <1>4. fields \in Seq(Line)
    BY <1>2, <1>3, SeqMonotonic
  <1>5. \A k \in 1 .. Len(fields) : fields[k] \in Text
    BY <1>3, ElementOfSeq
  <1>6. QED
    BY <1>4, <1>5

(* What follows a message, in MessagesSurvive. *)
LEMMA NextIsLine == <<Letter, Nul>> \in Line
  BY DEF Line, Letter, Nul

(* The convars of a message, by ReadAll for strings in a row. *)
LEMMA ConVarsSurvive ==
    ASSUME Fields, Len(fields) % 2 = 0, NEW next \in Line
    PROVE  ReadMessage("convars", WriteConVars(fields) \o next) = Got(fields, next)
              <=> Short(MaxConVarPart)
  <1> DEFINE n == Len(fields)
             max_len == MaxConVarPart
  <1>1. /\ fields \in Seq(Line) /\ n \in Nat /\ DOMAIN fields = 1 .. n
        /\ \A k \in 1 .. n : fields[k] \in Text
    BY FieldsAreTexts
  <1>2. n = 2 * (n \div 2)
    <2> HIDE DEF n
    <2>1. n % 2 = 0
      BY DEF n
    <2>2. QED
      BY <1>1, <2>1
  <1>3. max_len \in Nat
    BY CodecAssumption
  <1>4. Len(fields) = n
    OBVIOUS
  <1> HIDE DEF n
  <1>5. PICK f : /\ WritesInTurn(f, fields, n)
                 /\ WriteConVars(fields) = f[n]
    BY <1>1, <1>4, WriteLoop
  <1> DEFINE wire == Wire(f, n, next)
             left == Left(f, n, next)
  <1>6. /\ wire \in Line /\ wire # <<>>
        /\ wire[1] = n \div 2
        /\ left[0] = Tail(wire) /\ left[n] = next
        /\ InARow(fields, left, n)
    BY <1>1, <1>4, <1>5, WrittenInARow
  <1> HIDE DEF wire, left, max_len
  <1>7. Head(wire) = n \div 2
    BY <1>6 DEF Line
  <1>8. ReadMessage("convars", wire) = ReadStrings(left[0], n, max_len)
    <2>1. ReadMessage("convars", wire)
            = ReadStrings(Tail(wire), 2 * Head(wire), MaxConVarPart)
      BY <1>6 DEF ReadMessage
    <2>2. 2 * Head(wire) = n
      BY <1>2, <1>7
    <2>3. QED
      BY <1>6, <2>1, <2>2 DEF max_len
  <1>9. ReadStrings(left[0], n, max_len) = Got(fields, left[n])
           <=> \A k \in 1 .. n : Len(fields[k]) < max_len
    BY <1>1, <1>3, <1>6, ReadAll
  <1>10. Short(MaxConVarPart) <=> \A k \in 1 .. n : Len(fields[k]) < max_len
    BY <1>1 DEF Short, max_len
  <1>11. WriteConVars(fields) \o next = wire
    BY <1>5 DEF wire, Wire
  <1>12. QED
    BY <1>6, <1>8, <1>9, <1>10, <1>11

(* The one string of a message, also by ReadAll. *)
LEMMA OneSurvives ==
    ASSUME Fields, Len(fields) = 1, NEW next \in Line, NEW max_len \in Nat
    PROVE  ReadStrings(WriteString(fields[1]) \o next, 1, max_len) = Got(fields, next)
              <=> Short(max_len)
  <1>1. /\ fields \in Seq(Line) /\ DOMAIN fields = 1 .. 1 /\ 1 \in 1 .. 1
        /\ \A k \in 1 .. 1 : fields[k] \in Text
    BY FieldsAreTexts
  <1> DEFINE wire == WriteString(fields[1]) \o next
             left == [k \in 0 .. 1 |-> IF k = 0 THEN wire ELSE next]
  <1>2. InARow(fields, left, 1)
    BY <1>1, OneInARow
  <1>3. left[0] = wire /\ left[1] = next
    OBVIOUS
  <1> HIDE DEF wire, left
  <1>4. ReadStrings(left[0], 1, max_len) = Got(fields, left[1])
           <=> \A k \in 1 .. 1 : Len(fields[k]) < max_len
    BY <1>2, ReadAll
  <1>5. Short(max_len) <=> \A k \in 1 .. 1 : Len(fields[k]) < max_len
    BY <1>1 DEF Short
  <1>6. QED
    BY <1>3, <1>4, <1>5 DEF wire

(* Messages of any number of strings, each of any length: what is read is  *)
(* what was written, and what follows is read from where it begins,        *)
(* exactly when every string is shorter than the limit of its field.       *)
THEOREM MessagesAlwaysSurvive == Spec => []MessagesSurvive
  <1>1. Fields => MessagesSurvive
    <2>1. SUFFICES ASSUME Fields
                   PROVE  MessagesSurvive
      OBVIOUS
    <2> DEFINE next == <<Letter, Nul>>
    <2>2. next \in Line
      BY NextIsLine
    <2>3. MaxReason \in Nat /\ MaxText \in Nat
      BY CodecAssumption
    <2>4. /\ WriteMessage("disconnect", fields).value = WriteString(fields[1])
          /\ WriteMessage("print", fields).value = WriteString(fields[1])
      BY DEF WriteMessage, Got
    <2>5. /\ \A wire : ReadMessage("disconnect", wire) = ReadStrings(wire, 1, MaxReason)
          /\ \A wire : ReadMessage("print", wire) = ReadStrings(wire, 1, MaxText)
      BY DEF ReadMessage
    <2> HIDE DEF next
    <2>6. ASSUME Len(fields) % 2 = 0
          PROVE  ReadMessage("convars", WriteConVars(fields) \o next) = Got(fields, next)
                    <=> Short(MaxConVarPart)
      BY <2>1, <2>2, <2>6, ConVarsSurvive
    <2>7. ASSUME Len(fields) = 1
          PROVE  /\ ReadStrings(WriteString(fields[1]) \o next, 1, MaxReason)
                       = Got(fields, next) <=> Short(MaxReason)
                 /\ ReadStrings(WriteString(fields[1]) \o next, 1, MaxText)
                       = Got(fields, next) <=> Short(MaxText)
      BY <2>1, <2>2, <2>3, <2>7, OneSurvives
    <2>8. QED
      BY <2>4, <2>5, <2>6, <2>7 DEF MessagesSurvive, next
  <1>2. QED
    BY <1>1, FieldsStay, PTL

-----------------------------------------------------------------------------
(* A number that is written and read again *)

Power(i) == Group ^ i
Top == 2 ^ U32_BITS

LEMMA Powers ==
    /\ Group \in Nat /\ Group > 1 /\ MAX_VARINT_32_BYTES \in Nat \ {0} /\ Top \in Nat \ {0}
    /\ Power(0) = 1
    /\ \A i \in 1 .. MAX_VARINT_32_BYTES : Power(i) = Group * Power(i-1)
    /\ \A i \in 0 .. MAX_VARINT_32_BYTES : Power(i) \in Nat
    /\ Top <= Power(MAX_VARINT_32_BYTES)
  <1> DEFINE m == MAX_VARINT_32_BYTES
             T == {i \in 0 .. m : Power(i) \in Nat}
  <1>1. /\ Group \in Nat /\ Group > 1 /\ m \in Nat \ {0} /\ Top \in Nat \ {0}
        /\ Power(0) = 1
        /\ \A i \in 1 .. m : Power(i) = Group * Power(i-1)
        /\ Top <= Power(m)
    BY CodecAssumption, PowersAssumption DEF Power, Top
  <1> HIDE DEF m
  <1>2. 0 \in T
    BY <1>1
  <1>3. ASSUME NEW k \in 0 .. m - 1, k \in T
        PROVE  k + 1 \in T
    <2> DEFINE j == k + 1
    <2>1. j \in 1 .. m /\ j \in 0 .. m /\ j - 1 = k
      BY <1>1
    <2> HIDE DEF j
    <2>2. Power(j) = Group * Power(k) /\ Power(k) \in Nat
      BY <1>1, <1>3, <2>1
    <2>3. Power(j) \in Nat
      BY <1>1, <2>2
    <2>4. QED
      BY <2>1, <2>3 DEF j
  <1>4. 0 .. m \subseteq T
    <2> HIDE DEF T
    <2>1. QED
      BY <1>1, <1>2, <1>3, Induction
  <1>5. QED
    BY <1>1, <1>4 DEF m

(* The bytes of each number up to the one that is written. *)
Groups(f, value) ==
    \A v \in 0 .. value :
        f[v] = IF v >= Group THEN <<Group + (v % Group)>> \o f[v \div Group] ELSE <<v>>

(* A quotient by a group is smaller. *)
LEMMA Shrinks ==
    ASSUME NEW v \in Nat, v >= Group
    PROVE  v \div Group \in 0 .. v - 1
  <1>1. Group \in Nat /\ Group > 1
    BY Powers
  <1> DEFINE q == v \div Group
  <1>2. q \in Nat /\ q * Group <= v
    BY <1>1
  <1> HIDE DEF q
  <1>3. q = 0 \/ q < q * Group
    BY <1>1, <1>2
  <1>4. QED
    BY <1>1, <1>2, <1>3 DEF q

(* The recursion over the groups of a number. *)
LEMMA WriteGroups ==
    ASSUME NEW value \in Nat
    PROVE  \E f : Groups(f, value) /\ WriteVarint32(value) = f[value]
  <1> DEFINE Is(m, f) == f = [v \in 0 .. m |->
                               IF v >= Group THEN <<Group + (v % Group)>> \o f[v \div Group]
                               ELSE <<v>>]
             T == {m \in 0 .. value : \E f : Is(m, f)}
             bytes == CHOOSE f : Is(value, f)
  <1>1. Group \in Nat /\ Group > 1
    BY Powers
  <1>2. 0 \in T
    <2>1. ASSUME NEW v \in 0 .. 0
          PROVE  ~ (v >= Group)
      BY <1>1
    <2>2. Is(0, [v \in 0 .. 0 |-> <<v>>])
      BY <2>1
    <2> HIDE DEF Is
    <2>3. 0 \in 0 .. value
      OBVIOUS
    <2>4. QED
      BY <2>2, <2>3
  <1>3. ASSUME NEW k \in 0 .. value - 1, k \in T
        PROVE  k + 1 \in T
    <2>1. PICK f : Is(k, f)
      BY <1>3
    <2> DEFINE last == IF k + 1 >= Group
                       THEN <<Group + ((k + 1) % Group)>> \o f[(k + 1) \div Group]
                       ELSE <<k + 1>>
               g == [v \in 0 .. k + 1 |-> IF v = k + 1 THEN last ELSE f[v]]
    <2>2. ASSUME NEW v \in 0 .. k + 1
          PROVE  g[v] = IF v >= Group THEN <<Group + (v % Group)>> \o g[v \div Group]
                        ELSE <<v>>
      <3>1. ASSUME v >= Group
            PROVE  g[v \div Group] = f[v \div Group]
        <4>1. v \div Group \in 0 .. v - 1
          BY <3>1, Shrinks
        <4> DEFINE q == v \div Group
        <4> HIDE DEF q
        <4>2. q \in 0 .. k + 1 /\ q # k + 1
          BY <4>1 DEF q
        <4>3. g[q] = f[q]
          BY <4>2
        <4>4. QED
          BY <4>3 DEF q
      <3>2. CASE v = k + 1
        <4>1. g[v] = last
          BY <3>2
        <4> HIDE DEF g
        <4>2. QED
          BY <3>1, <3>2, <4>1
      <3>3. CASE v # k + 1
        <4>1. v \in 0 .. k /\ g[v] = f[v]
          BY <3>3
        <4>2. f[v] = IF v >= Group THEN <<Group + (v % Group)>> \o f[v \div Group] ELSE <<v>>
          BY <2>1, <4>1
        <4> HIDE DEF g
        <4>3. QED
          BY <3>1, <4>1, <4>2
      <3>4. QED
        BY <3>2, <3>3
    <2>3. Is(k + 1, g)
      <3>1. g = [v \in 0 .. k + 1 |-> g[v]]
        OBVIOUS
      <3> HIDE DEF g
      <3>2. QED
        BY <2>2, <3>1
    <2>4. k + 1 \in 0 .. value
      OBVIOUS
    <2> HIDE DEF Is, g
    <2>5. QED
      BY <2>3, <2>4
  <1>4. \E f : Is(value, f)
    <2>1. 0 .. value \subseteq T
      <3> HIDE DEF T
      <3>1. QED
        BY <1>2, <1>3, Induction
    <2> HIDE DEF Is
    <2>2. QED
      BY <2>1
  <1>5. Is(value, bytes)
    <2> HIDE DEF Is
    <2>1. QED
      BY <1>4
  <1>6. WriteVarint32(value) = bytes[value]
    BY DEF WriteVarint32
  <1>7. Groups(bytes, value)
    <2> HIDE DEF bytes
    <2>1. QED
      BY <1>5 DEF Groups
  <1>8. QED
    BY <1>6, <1>7

(* What is left of a number after each of n groups. *)
Quotients(q, value, n) ==
    /\ q[0] = value
    /\ \A k \in 1 .. n : q[k] = q[k-1] \div Group

LEMMA QuotientsExist ==
    ASSUME NEW value \in Nat, NEW n \in Nat
    PROVE  \E q : Quotients(q, value, n)
  <1> DEFINE T == {m \in 0 .. n : \E q : Quotients(q, value, m)}
  <1>1. 0 \in T
    <2>1. Quotients([k \in 0 .. 0 |-> value], value, 0)
      BY DEF Quotients
    <2>2. QED
      BY <2>1
  <1>2. ASSUME NEW m \in 0 .. n - 1, m \in T
        PROVE  m + 1 \in T
    <2>1. PICK q : Quotients(q, value, m)
      BY <1>2
    <2> DEFINE r == [k \in 0 .. m + 1 |-> IF k = m + 1 THEN q[m] \div Group ELSE q[k]]
    <2>2. r[0] = value
      BY <2>1 DEF Quotients
    <2>3. ASSUME NEW k \in 1 .. m + 1
          PROVE  r[k] = r[k-1] \div Group
      <3>1. r[k-1] = q[k-1]
        OBVIOUS
      <3>2. CASE k = m + 1
        BY <3>1, <3>2
      <3>3. CASE k # m + 1
        <4>1. k \in 1 .. m /\ r[k] = q[k]
          BY <3>3
        <4>2. QED
          BY <2>1, <3>1, <4>1 DEF Quotients
      <3>4. QED
        BY <3>2, <3>3
    <2>4. Quotients(r, value, m + 1)
      <3> HIDE DEF r
      <3>1. QED
        BY <2>2, <2>3 DEF Quotients
    <2>5. m + 1 \in 0 .. n
      OBVIOUS
    <2>6. QED
      BY <2>4, <2>5
  <1>3. n \in T
    <2> HIDE DEF T
    <2>1. 0 .. n \subseteq T
      BY <1>1, <1>2, Induction
    <2>2. QED
      BY <2>1
  <1>4. QED
    BY <1>3

(* What the first k groups add up to. *)
Sums(sum, wire, n) ==
    /\ sum[0] = 0
    /\ \A k \in 1 .. n : sum[k] = sum[k-1] + (wire[k] % Group) * Power(k-1)

LEMMA ReadGroups ==
    ASSUME NEW wire, NEW n \in Nat,
           NEW ends, ends = {i \in DOMAIN wire : wire[i] < Group /\ i <= MAX_VARINT_32_BYTES},
           n = IF ends # {} THEN Min(ends) ELSE MAX_VARINT_32_BYTES
    PROVE  \E sum : /\ Sums(sum, wire, n)
                    /\ ReadVarint32(wire)
                         = IF n > Len(wire) THEN Failed
                           ELSE Got(sum[n] % Top, After(wire, n))
  <1> DEFINE Is(m, f) == f = [k \in 0 .. m |->
                               IF k = 0 THEN 0
                               ELSE f[k-1] + (wire[k] % Group) * Group ^ (k - 1)]
             T == {m \in 0 .. n : \E f : Is(m, f)}
             sum == CHOOSE f : Is(n, f)
  <1>1. 0 \in T
    <2>1. Is(0, [k \in 0 .. 0 |-> 0])
      OBVIOUS
    <2> HIDE DEF Is
    <2>2. 0 \in 0 .. n
      OBVIOUS
    <2>3. QED
      BY <2>1, <2>2
  <1>2. ASSUME NEW m \in 0 .. n - 1, m \in T
        PROVE  m + 1 \in T
    <2>1. PICK f : Is(m, f)
      BY <1>2
    <2> DEFINE Term(k) == (wire[k] % Group) * Group ^ (k - 1)
               g == [k \in 0 .. m + 1 |-> IF k = m + 1 THEN f[m] + Term(m + 1) ELSE f[k]]
    <2>2. \A k \in 0 .. m : f[k] = IF k = 0 THEN 0 ELSE f[k-1] + Term(k)
      BY <2>1
    <2>3. ASSUME NEW k \in 0 .. m + 1
          PROVE  g[k] = IF k = 0 THEN 0 ELSE g[k-1] + Term(k)
      <3> HIDE DEF Term
      <3>1. CASE k = m + 1
        BY <3>1
      <3>2. CASE k # m + 1
        <4>1. k \in 0 .. m
          BY <3>2
        <4>2. g[k] = f[k] /\ (k # 0 => g[k-1] = f[k-1])
          BY <4>1
        <4>3. QED
          BY <2>2, <4>1, <4>2
      <3>3. QED
        BY <3>1, <3>2
    <2>4. Is(m + 1, g)
      <3>1. g = [k \in 0 .. m + 1 |-> g[k]]
        OBVIOUS
      <3> HIDE DEF g
      <3>2. QED
        BY <2>3, <3>1
    <2>5. m + 1 \in 0 .. n
      OBVIOUS
    <2> HIDE DEF Is, g
    <2>6. QED
      BY <2>4, <2>5
  <1>3. \E f : Is(n, f)
    <2>1. 0 .. n \subseteq T
      <3> HIDE DEF T
      <3>1. QED
        BY <1>1, <1>2, Induction
    <2> HIDE DEF Is
    <2>2. QED
      BY <2>1
  <1>4. Is(n, sum)
    <2> HIDE DEF Is
    <2>1. QED
      BY <1>3
  <1>5. ReadVarint32(wire)
          = IF n > Len(wire) THEN Failed ELSE Got(sum[n] % Top, After(wire, n))
    BY DEF ReadVarint32, Top
  <1>6. Sums(sum, wire, n)
    <2> HIDE DEF sum
    <2>1. sum[0] = 0
      <3>1. 0 \in 0 .. n
        OBVIOUS
      <3>2. QED
        BY <1>4, <3>1
    <2>2. ASSUME NEW k \in 1 .. n
          PROVE  sum[k] = sum[k-1] + (wire[k] % Group) * Power(k-1)
      <3>1. k \in 0 .. n /\ k # 0
        OBVIOUS
      <3>2. QED
        BY <1>4, <3>1 DEF Power
    <2>3. QED
      BY <2>1, <2>2 DEF Sums
  <1>7. QED
    BY <1>5, <1>6

(* The bytes of a number: one, or one that is marked and those of the      *)
(* quotient.                                                               *)
LEMMA GroupsShape ==
    ASSUME NEW value \in Nat, NEW f, Groups(f, value), NEW v \in 0 .. value
    PROVE  /\ f[v] \in Line /\ Len(f[v]) \in Nat \ {0}
           /\ v < Group => Len(f[v]) = 1 /\ f[v][1] = v
           /\ v >= Group =>
                 /\ Len(f[v]) = 1 + Len(f[v \div Group]) /\ Len(f[v \div Group]) # 0
                 /\ f[v][1] = Group + (v % Group)
                 /\ \A i \in 1 .. Len(f[v \div Group]) : f[v][1 + i] = f[v \div Group][i]
  <1>1. Group \in Nat /\ Group > 1
    BY Powers
  <1>2. ASSUME NEW u \in 0 .. value, u < Group
        PROVE  f[u] \in Line /\ Len(f[u]) = 1 /\ f[u][1] = u
    <2>1. ~ (u >= Group)
      BY <1>1, <1>2
    <2>2. f[u] = <<u>>
      BY <2>1 DEF Groups
    <2>3. QED
      BY <2>2 DEF Line
  <1>3. ASSUME NEW u \in 0 .. value, u >= Group, f[u \div Group] \in Line
        PROVE  /\ f[u] \in Line /\ Len(f[u]) = 1 + Len(f[u \div Group])
               /\ f[u][1] = Group + (u % Group)
               /\ \A i \in 1 .. Len(f[u \div Group]) : f[u][1 + i] = f[u \div Group][i]
    <2> DEFINE a == <<Group + (u % Group)>>
               b == f[u \div Group]
    <2>1. f[u] = a \o b
      BY <1>3 DEF Groups
    <2>2. a \in Line /\ Len(a) = 1 /\ a[1] = Group + (u % Group)
      BY <1>1 DEF Line
    <2>3. b \in Line
      BY <1>3
    <2> HIDE DEF a, b
    <2>4. /\ Pre(a, a \o b) /\ Len(a \o b) = Len(a) + Len(b)
          /\ \A i \in 1 .. Len(b) : (a \o b)[Len(a) + i] = b[i]
      BY <2>2, <2>3, PreOfTwo
    <2>5. a \o b \in Line /\ (a \o b)[1] = a[1]
      BY <2>2, <2>4 DEF Pre
    <2>6. /\ f[u] \in Line /\ Len(f[u]) = 1 + Len(b) /\ f[u][1] = Group + (u % Group)
          /\ \A i \in 1 .. Len(b) : f[u][1 + i] = b[i]
      BY <2>1, <2>2, <2>4, <2>5
    <2>7. QED
      BY <2>6 DEF b
  <1>4. ASSUME NEW line \in Line
        PROVE  Len(line) \in Nat
    BY DEF Line
  <1> DEFINE Fine(u) == f[u] \in Line /\ Len(f[u]) # 0
             T == {m \in 0 .. value : \A u \in 0 .. m : Fine(u)}
  <1>5. 0 \in T
    <2>1. \A u \in 0 .. 0 : u \in 0 .. value /\ u < Group
      BY <1>1
    <2>2. \A u \in 0 .. 0 : Fine(u)
      BY <1>2, <2>1
    <2> HIDE DEF Fine
    <2>3. QED
      BY <2>2
  <1>6. ASSUME NEW m \in 0 .. value - 1, m \in T
        PROVE  m + 1 \in T
    <2>1. m + 1 \in 0 .. value /\ \A u \in 0 .. m : Fine(u)
      BY <1>6
    <2>2. Fine(m + 1)
      <3> DEFINE u == m + 1
      <3>1. u \in 0 .. value /\ u \in Nat /\ u - 1 = m
        OBVIOUS
      <3> HIDE DEF u
      <3>2. CASE u < Group
        BY <1>2, <3>1, <3>2 DEF u
      <3>3. CASE u >= Group
        <4> DEFINE rest == u \div Group
        <4>1. rest \in 0 .. m
          BY <3>1, <3>3, Shrinks
        <4> HIDE DEF rest
        <4>2. f[rest] \in Line /\ Len(f[rest]) \in Nat
          BY <1>4, <2>1, <4>1
        <4>3. f[u] \in Line /\ Len(f[u]) = 1 + Len(f[rest])
          BY <1>3, <3>1, <3>3, <4>2 DEF rest
        <4>4. Len(f[u]) # 0
          BY <4>2, <4>3
        <4>5. QED
          BY <4>3, <4>4 DEF u
      <3>4. QED
        BY <1>1, <3>1, <3>2, <3>3
    <2> HIDE DEF Fine
    <2>3. \A u \in 0 .. m + 1 : u \in 0 .. m \/ u = m + 1
      OBVIOUS
    <2>4. QED
      BY <2>1, <2>2, <2>3
  <1>7. ASSUME NEW u \in 0 .. value
        PROVE  f[u] \in Line /\ Len(f[u]) \in Nat \ {0}
    <2>1. 0 .. value \subseteq T
      <3> HIDE DEF T
      <3>1. QED
        BY <1>5, <1>6, Induction
    <2>2. u \in T /\ u \in 0 .. u
      BY <2>1
    <2>3. Fine(u)
      <3> HIDE DEF Fine
      <3>1. QED
        BY <2>2
    <2>4. QED
      BY <1>4, <2>3
  <1>8. CASE v < Group
    BY <1>1, <1>2, <1>7, <1>8
  <1>9. CASE v >= Group
    <2>1. v \div Group \in 0 .. v - 1
      BY <1>9, Shrinks
    <2>2. v \div Group \in 0 .. value
      <3> DEFINE rest == v \div Group
      <3> HIDE DEF rest
      <3>1. rest \in 0 .. v - 1
        BY <2>1 DEF rest
      <3>2. rest \in 0 .. value
        BY <3>1
      <3>3. QED
        BY <3>2 DEF rest
    <2>3. f[v \div Group] \in Line /\ Len(f[v \div Group]) # 0
      BY <1>7, <2>2
    <2>4. /\ Len(f[v]) = 1 + Len(f[v \div Group])
          /\ f[v][1] = Group + (v % Group)
          /\ \A i \in 1 .. Len(f[v \div Group]) : f[v][1 + i] = f[v \div Group][i]
      BY <1>3, <1>9, <2>3
    <2>5. ~ (v < Group)
      BY <1>1, <1>9
    <2>6. QED
      BY <1>7, <2>3, <2>4, <2>5
  <1>10. QED
    BY <1>1, <1>8, <1>9

(* The quotients stay numbers up to the one that is written. *)
LEMMA QuotientsShrink ==
    ASSUME NEW value \in Nat, NEW n \in Nat, NEW q, Quotients(q, value, n),
           NEW k \in 0 .. n
    PROVE  q[k] \in 0 .. value
  <1>1. Group \in Nat /\ Group > 1
    BY Powers
  <1> DEFINE T == {j \in 0 .. n : q[j] \in 0 .. value}
  <1>2. 0 \in T
    BY DEF Quotients
  <1>3. ASSUME NEW j \in 0 .. n - 1, j \in T
        PROVE  j + 1 \in T
    <2> DEFINE i == j + 1
    <2>1. i \in 1 .. n /\ i \in 0 .. n /\ i - 1 = j
      OBVIOUS
    <2> HIDE DEF i
    <2>2. q[i] = q[j] \div Group /\ q[j] \in 0 .. value
      BY <1>3, <2>1 DEF Quotients
    <2>3. q[i] \in 0 .. value
      <3>1. CASE q[j] >= Group
        <4>1. q[i] \in 0 .. q[j] - 1
          BY <2>2, <3>1, Shrinks
        <4>2. QED
          BY <2>2, <4>1
      <3>2. CASE q[j] < Group
        <4>1. q[j] \div Group = 0
          BY <1>1, <2>2, <3>2
        <4>2. QED
          BY <2>2, <4>1
      <3>3. QED
        BY <1>1, <2>2, <3>1, <3>2
    <2>4. QED
      BY <2>1, <2>3 DEF i
  <1>4. 0 .. n \subseteq T
    <2> HIDE DEF T
    <2>1. QED
      BY <1>2, <1>3, Induction
  <1>5. QED
    BY <1>4

(* What is written for a number, l bytes. *)
Encoded(f, value, wire, l) ==
    Groups(f, value) /\ wire = f[value] /\ l = Len(wire)

(* Byte k + 1 is what the k-th quotient leaves, marked but for the last. *)
LEMMA BytesOfQuotients ==
    ASSUME NEW value \in Nat, NEW f, NEW wire, NEW l, Encoded(f, value, wire, l),
           NEW q, Quotients(q, value, l), NEW k \in 0 .. l - 1
    PROVE  /\ k < l - 1 => q[k] >= Group /\ wire[k + 1] = Group + (q[k] % Group)
           /\ k = l - 1 => q[k] < Group /\ wire[k + 1] = q[k]
  <1>0. Groups(f, value) /\ wire = f[value] /\ l = Len(wire)
    BY DEF Encoded
  <1> USE <1>0
  <1>1. wire \in Line /\ l \in Nat \ {0}
    BY GroupsShape
  <1>2. \A j \in 0 .. l : q[j] \in 0 .. value
    BY <1>1, QuotientsShrink
  <1>3. Group \in Nat /\ Group > 1
    BY Powers
  <1> DEFINE Tail_(j) == /\ Len(f[q[j]]) = l - j
                         /\ \A i \in 1 .. l - j : wire[j + i] = f[q[j]][i]
             T == {j \in 0 .. l - 1 : Tail_(j)}
  <1>4. 0 \in T
    <2>1. q[0] = value
      BY DEF Quotients
    <2>2. Tail_(0)
      BY <1>1, <2>1
    <2>3. 0 \in 0 .. l - 1
      BY <1>1
    <2> HIDE DEF Tail_
    <2>4. QED
      BY <2>2, <2>3
  <1>5. ASSUME NEW j \in 0 .. l - 1 - 1, j \in T
        PROVE  j + 1 \in T
    <2> DEFINE i == j + 1
               v == q[j]
               rest == v \div Group
    <2>1. i \in 1 .. l /\ i \in 0 .. l - 1 /\ i - 1 = j /\ j \in 0 .. l /\ l - j > 1
      BY <1>1
    <2>2. Tail_(j)
      BY <1>5
    <2>3. v \in 0 .. value /\ v \in Nat
      BY <1>2, <2>1
    <2> HIDE DEF i, v
    <2>4. q[i] = rest
      BY <2>1 DEF Quotients, v
    <2>5. Len(f[v]) = l - j /\ \A x \in 1 .. l - j : wire[j + x] = f[v][x]
      BY <2>2 DEF v
    <2>6. v >= Group
      <3>1. v < Group => Len(f[v]) = 1
        BY <2>3, GroupsShape
      <3>2. Len(f[v]) # 1
        BY <1>1, <2>1, <2>5
      <3>3. QED
        BY <1>3, <2>3, <3>1, <3>2
    <2> HIDE DEF rest
    <2>7. /\ Len(f[v]) = 1 + Len(f[rest])
          /\ \A x \in 1 .. Len(f[rest]) : f[v][1 + x] = f[rest][x]
      BY <2>3, <2>6, GroupsShape DEF rest
    <2>8. rest \in 0 .. value
      BY <1>2, <2>1, <2>4
    <2>9. Len(f[rest]) \in Nat
      BY <2>8, GroupsShape
    <2>10. Len(f[rest]) = l - i
      <3> DEFINE all == Len(f[v])
                 size == Len(f[rest])
      <3>1. all = 1 + size /\ all = l - j /\ size \in Nat
        BY <2>5, <2>7, <2>9
      <3> HIDE DEF all, size
      <3>2. size = l - i
        BY <1>1, <2>1, <3>1
      <3>3. QED
        BY <3>2 DEF size
    <2>11. ASSUME NEW x \in 1 .. l - i
           PROVE  wire[i + x] = f[rest][x]
      <3>1. 1 + x \in 1 .. l - j /\ j + (1 + x) = i + x
        BY <1>1, <2>1
      <3>2. wire[j + (1 + x)] = f[v][1 + x]
        BY <2>5, <3>1
      <3>3. f[v][1 + x] = f[rest][x]
        BY <2>7, <2>10
      <3>4. QED
        BY <3>1, <3>2, <3>3
    <2>12. Tail_(i)
      BY <2>4, <2>10, <2>11
    <2> HIDE DEF Tail_
    <2>13. QED
      BY <2>1, <2>12 DEF i
  <1>6. Tail_(k)
    <2> HIDE DEF T
    <2>1. 0 .. l - 1 \subseteq T
      <3> DEFINE m == l - 1
      <3>1. m \in Nat
        BY <1>1
      <3> HIDE DEF m
      <3>2. 0 .. m \subseteq T
        BY <1>4, <1>5, <3>1, Induction DEF m
      <3>3. QED
        BY <3>2 DEF m
    <2>2. k \in T
      BY <2>1
    <2>3. QED
      BY <2>2 DEF T
  <1> DEFINE v == q[k]
  <1>7. v \in 0 .. value /\ v \in Nat /\ 1 \in 1 .. l - k /\ l - k \in Nat
    BY <1>1, <1>2
  <1>8. Len(f[v]) = l - k /\ wire[k + 1] = f[v][1]
    BY <1>6, <1>7
  <1> HIDE DEF v
  <1>9. ASSUME k < l - 1
        PROVE  v >= Group /\ wire[k + 1] = Group + (v % Group)
    <2>1. Len(f[v]) # 1
      BY <1>1, <1>8, <1>9
    <2>2. ~ (v < Group)
      BY <1>7, <2>1, GroupsShape
    <2>3. v >= Group
      BY <1>3, <1>7, <2>2
    <2>4. f[v][1] = Group + (v % Group)
      BY <1>7, <2>3, GroupsShape
    <2>5. QED
      BY <1>8, <2>3, <2>4
  <1>10. ASSUME k = l - 1
         PROVE  v < Group /\ wire[k + 1] = v
    <2>1. Len(f[v]) = 1
      BY <1>1, <1>8, <1>10
    <2>2. ~ (v >= Group)
      <3>1. SUFFICES ASSUME v >= Group
                     PROVE  FALSE
        OBVIOUS
      <3> DEFINE size == Len(f[v \div Group])
      <3>2. v \div Group \in 0 .. v - 1
        BY <1>7, <3>1, Shrinks
      <3>3. v \div Group \in 0 .. value
        <4> DEFINE rest == v \div Group
        <4> HIDE DEF rest
        <4>1. rest \in 0 .. v - 1
          BY <3>2 DEF rest
        <4>2. rest \in 0 .. value
          BY <1>7, <4>1
        <4>3. QED
          BY <4>2 DEF rest
      <3>4. size \in Nat
        BY <3>3, GroupsShape
      <3> DEFINE all == Len(f[v])
      <3>5. all = 1 + size /\ size # 0 /\ all = 1
        BY <1>7, <2>1, <3>1, GroupsShape
      <3> HIDE DEF all, size
      <3>6. QED
        BY <3>4, <3>5
    <2>3. v < Group
      BY <1>3, <1>7, <2>2
    <2>4. f[v][1] = v
      BY <1>7, <2>3, GroupsShape
    <2>5. QED
      BY <1>8, <2>3, <2>4
  <1>11. QED
    BY <1>9, <1>10 DEF v

(* A quotient, its remainder and their weights. *)
LEMMA OneGroup ==
    ASSUME NEW q \in Nat, NEW p \in Nat
    PROVE  /\ q \div Group \in Nat /\ q % Group \in Nat
           /\ q * p = (q % Group) * p + (q \div Group) * (Group * p)
  <1> DEFINE a == q \div Group
             b == q % Group
  <1>1. Group \in Nat /\ Group > 1
    BY Powers
  <1>2. a \in Nat /\ b \in Nat /\ q = a * Group + b
    BY <1>1
  <1> HIDE DEF a, b
  <1>3. q * p = (a * Group) * p + b * p
    BY <1>1, <1>2
  <1>4. (a * Group) * p = a * (Group * p)
    BY <1>1, <1>2
  <1>5. (a * Group) * p \in Nat /\ b * p \in Nat
    BY <1>1, <1>2
  <1>6. q * p = b * p + a * (Group * p)
    BY <1>3, <1>4, <1>5
  <1>7. QED
    BY <1>2, <1>6 DEF a, b

(* A quotient times its weight is no more than the number. *)
LEMMA WeightsBounded ==
    ASSUME NEW value \in Nat, NEW n \in Nat, NEW q, Quotients(q, value, n),
           NEW k \in 0 .. n, k <= MAX_VARINT_32_BYTES
    PROVE  q[k] * Power(k) <= value
  <1> DEFINE most == MAX_VARINT_32_BYTES
             T == {j \in 0 .. n : j <= most => q[j] * Power(j) <= value}
  <1>1. /\ Group \in Nat /\ Group > 1 /\ most \in Nat
        /\ Power(0) = 1
        /\ \A i \in 1 .. most : Power(i) = Group * Power(i-1)
        /\ \A i \in 0 .. most : Power(i) \in Nat
    BY Powers
  <1>2. \A j \in 0 .. n : q[j] \in 0 .. value
    BY QuotientsShrink
  <1> HIDE DEF most
  <1>3. 0 \in T
    <2>1. q[0] = value
      BY DEF Quotients
    <2>2. QED
      BY <1>1, <2>1
  <1>4. ASSUME NEW j \in 0 .. n - 1, j \in T
        PROVE  j + 1 \in T
    <2> DEFINE i == j + 1
    <2>1. i \in 1 .. n /\ i \in 0 .. n /\ i - 1 = j /\ j \in 0 .. n /\ j \in Nat
      OBVIOUS
    <2>2. ASSUME i <= most
          PROVE  q[i] * Power(i) <= value
      <3>1. j <= most /\ i \in 1 .. most /\ j \in 0 .. most
        BY <1>1, <2>1, <2>2
      <3> HIDE DEF i
      <3>2. q[j] * Power(j) <= value
        BY <1>4, <3>1
      <3>3. q[i] = q[j] \div Group /\ Power(i) = Group * Power(j)
        BY <1>1, <2>1, <3>1 DEF Quotients
      <3> DEFINE v == q[j]
                 p == Power(j)
                 w == q[i]
      <3>4. v \in Nat /\ p \in Nat
        BY <1>1, <1>2, <2>1, <3>1
      <3> HIDE DEF v, p
      <3>5. /\ v \div Group \in Nat /\ v % Group \in Nat
            /\ v * p = (v % Group) * p + (v \div Group) * (Group * p)
        BY <3>4, OneGroup
      <3> DEFINE b == (v % Group) * p
                 c == (v \div Group) * (Group * p)
      <3>6. b \in Nat /\ c \in Nat
        <4> DEFINE r == v % Group
                   u == v \div Group
        <4>1. r \in Nat /\ u \in Nat
          BY <3>5
        <4> HIDE DEF r, u
        <4>2. r * p \in Nat /\ u * (Group * p) \in Nat
          BY <1>1, <3>4, <4>1
        <4>3. QED
          BY <4>2 DEF r, u
      <3>7. q[i] * Power(i) = c
        BY <3>3 DEF v, p
      <3>8. v * p <= value /\ v * p = b + c
        BY <3>2, <3>5 DEF v, p
      <3> HIDE DEF b, c
      <3>9. c <= value
        BY <3>6, <3>8
      <3>10. QED
        BY <3>7, <3>9
    <2> HIDE DEF i
    <2>3. i \in T
      BY <2>1, <2>2
    <2>4. QED
      BY <2>3 DEF i
  <1>5. 0 .. n \subseteq T
    <2> HIDE DEF T
    <2>1. QED
      BY <1>3, <1>4, Induction
  <1>6. QED
    BY <1>5 DEF most

(* The groups that were read and the quotient that was not, by its weight, *)
(* are the number.                                                         *)
LEMMA SumsAndQuotients ==
    ASSUME NEW value \in Nat, NEW f, NEW wire, NEW l, Encoded(f, value, wire, l),
           NEW q, Quotients(q, value, l), l <= MAX_VARINT_32_BYTES,
           NEW more, Pre(wire, more),
           NEW sum, Sums(sum, more, l)
    PROVE  sum[l] = value
  <1> DEFINE most == MAX_VARINT_32_BYTES
             T == {j \in 0 .. l - 1 : sum[j] \in Nat /\ sum[j] + q[j] * Power(j) = value}
  <1>1. /\ Group \in Nat /\ Group > 1 /\ most \in Nat
        /\ Power(0) = 1
        /\ \A i \in 1 .. most : Power(i) = Group * Power(i-1)
        /\ \A i \in 0 .. most : Power(i) \in Nat
    BY Powers
  <1>0. Groups(f, value) /\ wire = f[value] /\ l = Len(wire)
        /\ \A i \in 1 .. l : more[i] = wire[i]
    BY DEF Encoded, Pre
  <1>2. l \in Nat \ {0}
    BY <1>0, GroupsShape
  <1>3. \A j \in 0 .. l : q[j] \in 0 .. value
    BY <1>2, QuotientsShrink
  <1>4. l <= most
    OBVIOUS
  <1> HIDE DEF most
  <1>5. \A j \in 1 .. l : sum[j] = sum[j-1] + (wire[j] % Group) * Power(j-1)
    BY <1>0 DEF Sums
  <1>bytes. \A x \in 0 .. l - 1 :
           /\ x < l - 1 => q[x] >= Group /\ wire[x + 1] = Group + (q[x] % Group)
           /\ x = l - 1 => q[x] < Group /\ wire[x + 1] = q[x]
    BY BytesOfQuotients
  <1>most. most \in Nat
    BY <1>1
  <1>6. 0 \in T
    <2>1. q[0] = value /\ sum[0] = 0
      BY DEF Quotients, Sums
    <2>2. QED
      BY <1>1, <1>2, <2>1
  <1>7. ASSUME NEW j \in 0 .. l - 1 - 1, j \in T
        PROVE  j + 1 \in T
    <2> DEFINE i == j + 1
               v == q[j]
               p == Power(j)
               b == (v % Group) * p
               c == (v \div Group) * (Group * p)
    <2>1. /\ i \in 1 .. l /\ i \in 0 .. l - 1 /\ i - 1 = j
          /\ j \in 0 .. l - 1 /\ j \in 0 .. l /\ j < l - 1 /\ i \in 1 .. most /\ j \in 0 .. most
      BY <1>2, <1>4, <1>most
    <2>2. sum[j] \in Nat /\ sum[j] + v * p = value
      BY <1>7
    <2>3. wire[i] = Group + (v % Group)
      BY <1>bytes, <2>1
    <2>4. v \in Nat /\ p \in Nat
      <3>1. Power(j) \in Nat
        BY <1>1, <2>1
      <3>2. q[j] \in 0 .. value
        BY <1>3, <2>1
      <3>3. QED
        BY <3>1, <3>2
    <2> HIDE DEF i, v, p
    <2>5. /\ v \div Group \in Nat /\ v % Group \in Nat /\ v * p = b + c
      BY <2>4, OneGroup
    <2>6. b \in Nat /\ c \in Nat
      <3> DEFINE r == v % Group
                 u == v \div Group
      <3>1. r \in Nat /\ u \in Nat
        BY <2>5
      <3> HIDE DEF r, u
      <3>2. r * p \in Nat /\ u * (Group * p) \in Nat
        BY <1>1, <2>4, <3>1
      <3>3. QED
        BY <3>2 DEF r, u
    <2>7. wire[i] % Group = v % Group
      <3> DEFINE r == v % Group
      <3>1. wire[i] = Group + r /\ r \in 0 .. Group - 1
        BY <1>1, <2>3, <2>4
      <3> HIDE DEF r
      <3>2. (Group + r) % Group = r
        <4>1. Group + r = 1 * Group + r
          BY <1>1, <3>1
        <4>2. QED
          BY <1>1, <3>1, <4>1
      <3>3. QED
        BY <3>1, <3>2 DEF r
    <2>8. sum[i] = sum[j] + b
      BY <1>5, <2>1, <2>7 DEF p
    <2>9. q[i] * Power(i) = c
      <3>1. q[i] = v \div Group
        BY <2>1 DEF Quotients, v
      <3>2. Power(i) = Group * p
        BY <1>1, <2>1 DEF p
      <3>3. QED
        BY <3>1, <3>2
    <2> DEFINE before == sum[j]
    <2>10. before \in Nat /\ before + v * p = value /\ sum[i] = before + b
      BY <2>2, <2>8
    <2> HIDE DEF b, c, before
    <2>11. sum[i] \in Nat /\ sum[i] + c = value
      BY <2>5, <2>6, <2>10
    <2>12. QED
      BY <2>1, <2>9, <2>11 DEF i
  <1>8. l - 1 \in T
    <2> DEFINE m == l - 1
    <2>1. m \in Nat
      BY <1>2
    <2> HIDE DEF T
    <2>2. \A j \in 0 .. m - 1 : j \in T => j + 1 \in T
      BY <1>7
    <2> HIDE DEF m
    <2>3. 0 .. m \subseteq T
      BY <1>6, <2>1, <2>2, Induction
    <2>4. m \in T
      BY <2>1, <2>3
    <2>5. QED
      BY <2>4 DEF m
  <1> DEFINE k == l - 1
  <1>9. k \in 0 .. l - 1 /\ l \in 1 .. l /\ l = k + 1 /\ k \in 0 .. l
    BY <1>2
  <1>10. sum[k] \in Nat /\ sum[k] + q[k] * Power(k) = value
    BY <1>8
  <1>11. wire[k + 1] = q[k] /\ q[k] < Group
    BY <1>9, <1>bytes
  <1>12. sum[l] = sum[k] + (wire[l] % Group) * Power(k)
    BY <1>5, <1>9
  <1>13. wire[l] % Group = q[k]
    <2> DEFINE v == q[k]
    <2>1. v \in 0 .. value /\ wire[l] = v /\ v < Group
      BY <1>3, <1>9, <1>11
    <2> HIDE DEF v
    <2>2. v \in Nat
      BY <2>1
    <2>3. v % Group = v
      BY <1>1, <2>1, <2>2
    <2>4. QED
      BY <2>1, <2>3 DEF v
  <1>14. QED
    BY <1>10, <1>12, <1>13

(* A u32 has no more groups than the reader looks at. *)
LEMMA FewGroups ==
    ASSUME NEW value \in Nat, value < Top, NEW f, Groups(f, value)
    PROVE  Len(f[value]) <= MAX_VARINT_32_BYTES
  <1> DEFINE most == MAX_VARINT_32_BYTES
             wire == f[value]
             l == Len(wire)
  <1>1. /\ Group \in Nat /\ Group > 1 /\ most \in Nat \ {0} /\ Top \in Nat
        /\ \A i \in 0 .. most : Power(i) \in Nat
        /\ Top <= Power(most)
    BY Powers
  <1>2. l \in Nat \ {0}
    BY GroupsShape
  <1>3. SUFFICES ASSUME l > most
                 PROVE  FALSE
    BY <1>1, <1>2
  <1> HIDE DEF wire, l
  <1>4. PICK q : Quotients(q, value, l)
    BY <1>2, QuotientsExist
  <1> DEFINE k == most - 1
             v == q[k]
             w == q[most]
             p == Power(most)
  <1>5. /\ k \in 0 .. l - 1 /\ k < l - 1 /\ k \in 0 .. l
        /\ most \in 0 .. l /\ most \in 1 .. l /\ most \in 0 .. most
    BY <1>1, <1>2, <1>3
  <1>6. v >= Group
    <2>1. Encoded(f, value, wire, l)
      BY DEF Encoded, wire, l
    <2>2. QED
      BY <1>4, <1>5, <2>1, BytesOfQuotients
  <1>7. v \in Nat
    BY <1>2, <1>4, <1>5, QuotientsShrink
  <1>8. w = v \div Group
    BY <1>4, <1>5 DEF Quotients
  <1>9. w * p <= value
    <2>1. most <= MAX_VARINT_32_BYTES
      BY <1>1
    <2>2. QED
      BY <1>2, <1>4, <1>5, <2>1, WeightsBounded
  <1>10. p \in Nat /\ Top <= p
    BY <1>1, <1>5
  <1> HIDE DEF v, w, p, most
  <1>11. w \in Nat /\ w >= 1
    BY <1>1, <1>6, <1>7, <1>8
  <1>12. p <= w * p
    BY <1>10, <1>11
  <1>13. w * p \in Nat
    BY <1>10, <1>11
  <1>14. QED
    BY <1>1, <1>9, <1>10, <1>12, <1>13

LEMMA VarintSurvives ==
    ASSUME NEW value \in Nat, value < Top, NEW next \in Nat
    PROVE  /\ Len(WriteVarint32(value)) <= MAX_VARINT_32_BYTES
           /\ ReadVarint32(WriteVarint32(value) \o <<next>>) = Got(value, <<next>>)
  <1>1. PICK f : Groups(f, value) /\ WriteVarint32(value) = f[value]
    BY WriteGroups
  <1> DEFINE wire == f[value]
             l == Len(wire)
             more == wire \o <<next>>
             ends == {i \in DOMAIN more : more[i] < Group /\ i <= MAX_VARINT_32_BYTES}
  <1>2. wire \in Line /\ l \in Nat \ {0} /\ wire \in Seq(Nat)
    BY <1>1, GroupsShape DEF Line
  <1>3. l <= MAX_VARINT_32_BYTES
    BY <1>1, FewGroups
  <1>4. /\ Pre(wire, more) /\ Len(more) = l + 1 /\ more[l + 1] = next
    <2>1. <<next>> \in Line /\ Len(<<next>>) = 1 /\ <<next>>[1] = next
      BY DEF Line
    <2> DEFINE one == <<next>>
    <2> HIDE DEF wire, one
    <2>2. /\ Pre(wire, wire \o one) /\ Len(wire \o one) = Len(wire) + Len(one)
          /\ \A i \in 1 .. Len(one) : (wire \o one)[Len(wire) + i] = one[i]
      BY <1>2, <2>1, PreOfTwo DEF one
    <2>3. Len(one) = 1 /\ one[1] = next /\ 1 \in 1 .. Len(one)
      BY <2>1 DEF one
    <2>4. (wire \o one)[Len(wire) + 1] = next
      BY <2>2, <2>3
    <2>5. QED
      BY <2>2, <2>3, <2>4 DEF one
  <1>5. /\ more \in Line /\ more \in Seq(Nat) /\ DOMAIN more = 1 .. l + 1
        /\ \A i \in 1 .. l : more[i] = wire[i]
    <2>1. more \in Line /\ \A i \in 1 .. l : more[i] = wire[i]
      BY <1>4 DEF Pre
    <2> HIDE DEF more
    <2>2. QED
      BY <1>4, <2>1 DEF Line
  <1>6. PICK q : Quotients(q, value, l)
    BY <1>2, QuotientsExist
  <1>encoded. Encoded(f, value, wire, l)
    BY <1>1 DEF Encoded
  <1> HIDE DEF wire, l, more
  <1>7. ASSUME NEW k \in 0 .. l - 1
        PROVE  /\ k < l - 1 => q[k] >= Group /\ wire[k + 1] = Group + (q[k] % Group)
               /\ k = l - 1 => q[k] < Group /\ wire[k + 1] = q[k]
    BY <1>6, <1>encoded, BytesOfQuotients
  <1>8. Group \in Nat /\ Group > 1 /\ MAX_VARINT_32_BYTES \in Nat /\ Top \in Nat
    BY Powers
  <1>9. l \in ends
    <2> DEFINE k == l - 1
    <2>1. k \in 0 .. l - 1 /\ k + 1 = l /\ k = l - 1 /\ l \in 1 .. l + 1 /\ l \in 1 .. l
      BY <1>2
    <2>2. q[k] < Group /\ wire[k + 1] = q[k]
      BY <1>7, <2>1
    <2> HIDE DEF k
    <2>3. more[l] < Group
      BY <1>5, <2>1, <2>2
    <2>4. QED
      BY <1>3, <1>5, <2>1, <2>3
  <1>10. ASSUME NEW i \in ends
         PROVE  l <= i
    <2>1. i \in 1 .. l + 1 /\ more[i] < Group
      BY <1>5
    <2>2. SUFFICES ASSUME i < l
                   PROVE  FALSE
      BY <1>2, <2>1
    <2> DEFINE k == i - 1
    <2>3. k \in 0 .. l - 1 /\ k < l - 1 /\ k + 1 = i /\ i \in 1 .. l
      BY <1>2, <2>1, <2>2
    <2> HIDE DEF k
    <2>4. wire[i] = Group + (q[k] % Group) /\ q[k] \in Nat
      <3>1. k \in 0 .. l
        BY <1>2, <2>3
      <3>2. q[k] \in 0 .. value
        BY <1>2, <1>6, <3>1, QuotientsShrink
      <3>3. wire[k + 1] = Group + (q[k] % Group)
        BY <1>7, <2>3
      <3>4. QED
        BY <2>3, <3>2, <3>3
    <2> DEFINE r == q[k] % Group
    <2>5. r \in Nat
      BY <1>8, <2>4
    <2>6. more[i] = Group + r
      BY <1>5, <2>3, <2>4
    <2> HIDE DEF r
    <2>7. QED
      BY <1>8, <2>1, <2>5, <2>6
  <1>11. Min(ends) = l /\ ends # {}
    <2>1. ends \subseteq Nat
      BY <1>2, <1>5
    <2> HIDE DEF ends
    <2>2. Min(ends) \in ends /\ Min(ends) <= l
      BY <1>9, <2>1, MinOf
    <2>3. l <= Min(ends) /\ Min(ends) \in Nat
      BY <1>10, <2>1, <2>2
    <2>4. QED
      BY <1>2, <1>9, <2>2, <2>3
  <1>12. PICK sum : /\ Sums(sum, more, l)
                    /\ ReadVarint32(more)
                         = IF l > Len(more) THEN Failed
                           ELSE Got(sum[l] % Top, After(more, l))
    <2> DEFINE all == ends
    <2>1. all = {i \in DOMAIN more : more[i] < Group /\ i <= MAX_VARINT_32_BYTES}
      OBVIOUS
    <2>2. l = IF all # {} THEN Min(all) ELSE MAX_VARINT_32_BYTES
      BY <1>11
    <2> HIDE DEF all, ends
    <2>3. QED
      BY <1>2, <2>1, <2>2, ReadGroups
  <1>13. sum[l] = value
    BY <1>3, <1>4, <1>6, <1>12, <1>encoded, SumsAndQuotients
  <1>14. value % Top = value
    BY <1>8
  <1>15. After(more, l) = <<next>>
    <2> DEFINE rest == After(more, l)
               one == <<next>>
    <2>1. l \in 0 .. Len(more) /\ Len(more) - l = 1 /\ \A i \in 1 .. 1 : i = 1
      BY <1>2, <1>4
    <2>2. /\ rest \in Seq(Nat) /\ Len(rest) = Len(more) - l
          /\ \A i \in 1 .. Len(more) - l : rest[i] = more[l + i]
      BY <1>5, <2>1, AfterOf
    <2>3. one \in Seq(Nat) /\ Len(one) = 1 /\ one[1] = next
      OBVIOUS
    <2> HIDE DEF rest, one
    <2>4. Len(rest) = 1 /\ rest[1] = next
      BY <1>4, <2>1, <2>2
    <2>5. rest = one
      BY <2>1, <2>2, <2>3, <2>4, SeqEqual
    <2>6. QED
      BY <2>5 DEF rest, one
  <1>16. ReadVarint32(more) = Got(value, <<next>>)
    <2>1. ~ (l > Len(more))
      BY <1>2, <1>4
    <2>2. QED
      BY <1>12, <1>13, <1>14, <1>15, <2>1
  <1>17. QED
    BY <1>1, <1>3, <1>16 DEF more, l, wire

(* Every number of U32_BITS bits, whatever the widths of a group and of a  *)
(* number: it is read as it was written, in no more than                   *)
(* MAX_VARINT_32_BYTES bytes, and what follows is read from where it       *)
(* begins.                                                                 *)
THEOREM NumbersAlwaysSurvive == Spec => []NumbersSurvive
  <1> DEFINE IsU32 == varint \in 0 .. Top - 1
  <1>1. Init => IsU32
    BY Powers DEF Init
  <1>2. IsU32 /\ [Next]_vars => IsU32'
    <2>1. SUFFICES ASSUME IsU32, [Next]_vars
                   PROVE  IsU32'
      OBVIOUS
    <2>2. CASE AddOne
      <3>1. varint < Top - 1 /\ varint' = varint + 1
        BY <2>2 DEF AddOne, Top
      <3>2. Top \in Nat
        BY Powers
      <3>3. QED
        BY <2>1, <3>1, <3>2
    <2>3. CASE UNCHANGED varint
      BY <2>1, <2>3 DEF Top
    <2>4. QED
      BY <2>1, <2>2, <2>3
         DEF Next, vars, server, written, SetConVars, Join, Leave, AddField
  <1>3. IsU32 => NumbersSurvive
    <2>1. SUFFICES ASSUME IsU32, NEW next \in {0, Group}
                   PROVE  LET wire == WriteVarint32(varint)
                          IN  /\ Len(wire) <= MAX_VARINT_32_BYTES
                              /\ ReadVarint32(wire \o <<next>>) = Got(varint, <<next>>)
      BY DEF NumbersSurvive
    <2>2. varint \in Nat /\ varint < Top /\ next \in Nat
      BY <2>1, Powers
    <2>3. QED
      BY <2>2, VarintSurvives
  <1>4. QED
    BY <1>1, <1>2, <1>3, PTL DEF Spec

=============================================================================

----------------------- MODULE QuickplaySession_proofs -----------------------
(***************************************************************************)
(* The score of a server for every number of players and every maximum     *)
(* that fits a byte; TLC checks the same on the states of a server that    *)
(* fills up (MCFunctions).  Then what the two loops of the module, over    *)
(* convars and over the entries of a file, return.                         *)
(***************************************************************************)
EXTENDS QuickplaySession, WellFoundedInduction, TLAPS

Byte == 0 .. 255

(* Where the knots lie: the low count is not above the ideal one, and the  *)
(* ideal one not above the maximum by more than rounding adds.             *)
LEMMA Knots ==
    ASSUME NEW max_players \in Byte
    PROVE  /\ CountLow(max_players) \in Nat /\ CountLow(max_players) <= 100
           /\ CountIdeal(max_players) \in Nat
           /\ CountLow(max_players) <= CountIdeal(max_players)
           /\ NewMaxPlayers(max_players) \in Nat
           /\ max_players <= FULL_PLAYERS => NewMaxPlayers(max_players) = max_players
           /\ max_players > FULL_PLAYERS => NewMaxPlayers(max_players) < max_players
  BY DEF Byte, CountLow, CountIdeal, ToNearestEven, NewMaxPlayers, FULL_PLAYERS

(* For a server with players and room for a party, the two knots that      *)
(* score_server_by_players interpolates between are different, and the     *)
(* count lies between them: no division by zero, no extrapolation.         *)
THEOREM KnotsNeverCoincide ==
    ASSUME NEW players \in Byte, NEW max_players \in Byte, NEW party_size \in Byte,
           players > 0, HasRoom(players, max_players, party_size)
    PROVE  LET count == players + party_size
               s == Segment(count, max_players)
           IN  s[1] \in Nat /\ s[2] \in Nat /\ s[1] < count /\ count <= s[2]
  <1> DEFINE count == players + party_size
             low == CountLow(max_players)
             ideal == CountIdeal(max_players)
             full == NewMaxPlayers(max_players)
  <1>1. count \in Nat /\ 0 < count /\ count < max_players
    BY DEF Byte, HasRoom, SERVER_HEADROOM
  <1>2. /\ low \in Nat /\ ideal \in Nat /\ full \in Nat /\ max_players \in Nat
        /\ low <= ideal
        /\ full = max_players \/ full < max_players
    BY Knots DEF Byte, FULL_PLAYERS
  <1>3. Segment(count, max_players) =
            IF count <= low THEN <<0, low, 0, SCORE_LOW>>
            ELSE IF count <= ideal THEN <<low, ideal, SCORE_LOW, SCORE_IDEAL>>
            ELSE IF count <= full THEN <<ideal, full, SCORE_IDEAL, SCORE_FULLER>>
            ELSE <<full, max_players, SCORE_FULLER, SCORE_LOW>>
    BY DEF Segment
  <1> HIDE DEF count, low, ideal, full
  <1>4. LET s == Segment(count, max_players)
        IN  s[1] \in Nat /\ s[2] \in Nat /\ s[1] < count /\ count <= s[2]
    BY <1>1, <1>2, <1>3
  <1>5. QED
    BY <1>4 DEF count

(* What division rounds to. *)
LEMMA Quotient ==
    ASSUME NEW d \in Int, NEW t \in Nat, NEW n \in Nat, 0 < t, t <= n
    PROVE  /\ (d * t) \div n \in Int
           /\ d >= 0 => 0 <= (d * t) \div n /\ (d * t) \div n <= d
           /\ d <= 0 => d <= (d * t) \div n /\ (d * t) \div n <= 0
  <1> DEFINE q == (d * t) \div n
  <1>1. d * t \in Int
    OBVIOUS
  <1>2. q \in Int /\ n * q <= d * t /\ d * t < n * q + n
    BY <1>1
  <1>3. d >= 0 => 0 <= d * t /\ d * t <= d * n
    OBVIOUS
  <1>4. d <= 0 => d * n <= d * t /\ d * t <= 0
    OBVIOUS
  <1> HIDE DEF q
  <1>5. d >= 0 => 0 <= q /\ q <= d
    BY <1>2, <1>3
  <1>6. d <= 0 => d <= q /\ q <= 0
    BY <1>2, <1>4
  <1>7. QED
    BY <1>2, <1>5, <1>6 DEF q

(* A hundred shared by at most as many is at least one for each. *)
LEMMA ShareOfHundred ==
    ASSUME NEW t \in Nat, NEW n \in 1 .. 100, 0 < t
    PROVE  (100 * t) \div n >= 1
  <1> DEFINE q == (100 * t) \div n
  <1>1. q \in Int /\ 100 * t < n * q + n
    OBVIOUS
  <1>2. n <= 100 * t
    OBVIOUS
  <1> HIDE DEF q
  <1>3. q <= 0 => n * q <= 0
    BY <1>1
  <1>4. q >= 1
    BY <1>1, <1>2, <1>3
  <1>5. QED
    BY <1>4 DEF q

(* Between two numbers of a range one does not leave it.                   *)
LEMMA StaysBetween ==
    ASSUME NEW a \in Int, NEW b \in Int, NEW q \in Int,
           NEW bottom \in Int, NEW top \in Int,
           bottom <= a, a <= top, bottom <= b, b <= top,
           b - a >= 0 => 0 <= q /\ q <= b - a,
           b - a <= 0 => b - a <= q /\ q <= 0
    PROVE  a + q \in Int /\ bottom <= a + q /\ a + q <= top
  OBVIOUS

(* The score of a server with players and room for the party is positive,  *)
(* however few the players are, and at most the ideal score.               *)
THEOREM ScoreInRange ==
    ASSUME NEW players \in Byte, NEW max_players \in Byte, NEW party_size \in Byte,
           players > 0, HasRoom(players, max_players, party_size)
    PROVE  ScoreServerByPlayers(players, max_players, party_size)
              \in 1 .. SCORE_IDEAL
  <1> DEFINE count == players + party_size
             s == Segment(count, max_players)
             d == s[4] - s[3]
             q == (d * (count - s[1])) \div (s[2] - s[1])
  <1>1. s[1] \in Nat /\ s[2] \in Nat /\ s[1] < count /\ count <= s[2] /\ count \in Nat
    <2>1. count \in Nat
      BY DEF Byte
    <2>2. s[1] \in Nat /\ s[2] \in Nat /\ s[1] < count /\ count <= s[2]
      BY KnotsNeverCoincide
    <2>3. QED
      BY <2>1, <2>2
  <1>2. \/ s[3] = 0 /\ s[4] = 100 /\ s[1] = 0 /\ s[2] = CountLow(max_players)
        \/ s[3] = 100 /\ s[4] = 1600
        \/ s[3] = 1600 /\ s[4] = 200
        \/ s[3] = 200 /\ s[4] = 100
    BY DEF Segment, SCORE_LOW, SCORE_IDEAL, SCORE_FULLER
  <1>3. ScoreServerByPlayers(players, max_players, party_size) = s[3] + q
    BY DEF ScoreServerByPlayers, Lerp, Byte
  <1> HIDE DEF count, s
  <1>4. d \in Int
    BY <1>2
  <1>5. /\ q \in Int
        /\ d >= 0 => 0 <= q /\ q <= d
        /\ d <= 0 => d <= q /\ q <= 0
    <2> HIDE DEF d
    <2>1. count - s[1] \in Nat /\ s[2] - s[1] \in Nat
      BY <1>1
    <2>2. 0 < count - s[1] /\ count - s[1] <= s[2] - s[1]
      BY <1>1
    <2>3. QED
      BY <1>4, <2>1, <2>2, Quotient
  <1>6. CASE s[3] = 0
    <2>1. /\ s[4] = 100 /\ s[1] = 0 /\ s[2] = CountLow(max_players)
          /\ d = 100
      BY <1>2, <1>6 DEF d
    <2>2. s[2] \in 1 .. 100 /\ count > 0
      BY <1>1, <2>1, Knots
    <2>3. q >= 1
      BY <1>1, <2>1, <2>2, ShareOfHundred DEF q
    <2>4. QED
      BY <1>3, <1>5, <1>6, <2>1, <2>3 DEF SCORE_IDEAL
  <1> HIDE DEF q
  <1>7. CASE s[3] # 0
    <2> DEFINE from == s[3]
               to == s[4]
    <2>1. from \in Int /\ 100 <= from /\ from <= 1600
      BY <1>2, <1>7
    <2>2. to \in Int /\ 100 <= to /\ to <= 1600
      BY <1>2, <1>7
    <2>3. /\ q \in Int
          /\ to - from >= 0 => 0 <= q /\ q <= to - from
          /\ to - from <= 0 => to - from <= q /\ q <= 0
      BY <1>5
    <2> HIDE DEF d, from, to
    <2>4. from + q \in Int /\ 100 <= from + q /\ from + q <= 1600
      BY <2>1, <2>2, <2>3, StaysBetween
    <2>5. from + q \in 1 .. 1600
      BY <2>4
    <2>6. QED
      BY <1>3, <2>5 DEF from, SCORE_IDEAL
  <1>8. QED
    BY <1>6, <1>7

(* A server with room for one more player but not for the party costs the  *)
(* party at least ninety-nine points: find_server passes it over unless    *)
(* the server list gives it a score of a hundred or more.                  *)
THEOREM NoRoomIsCostly ==
    ASSUME NEW p, NEW server, p.party_size \in Byte, p.party_size > 1,
           server.players \in Byte, server.max_players \in Byte,
           HasRoom(server.players, server.max_players, 1),
           ~ HasRoom(server.players, server.max_players, p.party_size)
    PROVE  ScoreServer(p, server) <= -99000
  <1>1. ScoreServerByPlayers(server.players, server.max_players, p.party_size) = -100000
    BY DEF ScoreServerByPlayers, SCORE_NO_ROOM
  <1> DEFINE single == ScoreServerByPlayers(server.players, server.max_players, 1)
  <1>2. single \in Int /\ single >= -300
    <2>1. CASE server.players = 0
      <3>1. single = -300
        BY <2>1 DEF ScoreServerByPlayers, SCORE_EMPTY
      <3> HIDE DEF single
      <3>2. QED
        BY <3>1
    <2>2. CASE server.players # 0
      <3>1. server.players > 0 /\ 1 \in Byte
        BY <2>2 DEF Byte
      <3>2. single \in 1 .. SCORE_IDEAL
        BY <3>1, ScoreInRange
      <3> HIDE DEF single
      <3>3. QED
        BY <3>2 DEF SCORE_IDEAL
    <2>3. QED
      BY <2>1, <2>2
  <1>3. ScoreServer(p, server) =
           ScoreServerByPlayers(server.players, server.max_players, p.party_size)
             - single
    <2>1. ~ (p.party_size <= 1)
      BY DEF Byte
    <2>2. QED
      BY <2>1 DEF ScoreServer
  <1> HIDE DEF single
  <1>4. QED
    BY <1>1, <1>2, <1>3

-----------------------------------------------------------------------------
(* The score of a server is a number, whatever party asks. *)

(* The field of the preferences that the score depends on. *)
HasSize(p) == "party_size" \in DOMAIN p /\ p.party_size \in Byte

(* The fields of a server that the score depends on. *)
HasScore(server) ==
    server.players \in Byte /\ server.max_players \in Byte /\ server.score \in Int

(* The score by players, also of an empty server and of one without room.  *)
LEMMA ScoreByPlayersTyped ==
    ASSUME NEW players \in Byte, NEW max_players \in Byte, NEW party_size \in Byte
    PROVE  ScoreServerByPlayers(players, max_players, party_size) \in Int
  <1>1. CASE ~ HasRoom(players, max_players, party_size)
    BY <1>1 DEF ScoreServerByPlayers, SCORE_NO_ROOM
  <1>2. CASE HasRoom(players, max_players, party_size) /\ players = 0
    BY <1>2 DEF ScoreServerByPlayers, SCORE_EMPTY
  <1>3. CASE HasRoom(players, max_players, party_size) /\ players # 0
    <2>1. players > 0
      BY <1>3 DEF Byte
    <2>2. ScoreServerByPlayers(players, max_players, party_size) \in 1 .. SCORE_IDEAL
      BY <1>3, <2>1, ScoreInRange
    <2>3. QED
      BY <2>2 DEF SCORE_IDEAL
  <1>4. QED
    BY <1>1, <1>2, <1>3

(* Two scores can always be compared. *)
LEMMA ScoreTyped ==
    ASSUME NEW p, HasSize(p), NEW server, HasScore(server)
    PROVE  RecalculateServerScore(p, server) \in Int
  <1>1. 1 \in Byte
    BY DEF Byte
  <1>2. /\ ScoreServerByPlayers(server.players, server.max_players, p.party_size) \in Int
        /\ ScoreServerByPlayers(server.players, server.max_players, 1) \in Int
    BY <1>1, ScoreByPlayersTyped DEF HasSize, HasScore
  <1>3. ScoreServer(p, server) \in Int
    BY <1>2 DEF ScoreServer
  <1>4. QED
    BY <1>3 DEF RecalculateServerScore, HasScore

-----------------------------------------------------------------------------
(* Loops.  Both definitions are recursive functions on 0 .. n: that such a *)
(* function exists, and what its values are, follows by induction on n.    *)

(* Induction up to a bound, for a set in the place of a predicate. *)
LEMMA Induction ==
    ASSUME NEW n \in Nat, NEW T,
           0 \in T, \A k \in 0 .. n - 1 : k \in T => k + 1 \in T
    PROVE  0 .. n \subseteq T
  <1> DEFINE R == {ss \in Nat \X Nat : ss[1] < ss[2]}
             Bad == (0 .. n) \ T
  <1>1. IsWellFoundedOn(R, Nat)
    <2>1. OpToRel(<, Nat) = R
      BY DEF OpToRel
    <2>2. QED
      BY <2>1, NatLessThanWellFounded
  <1>2. Bad \subseteq Nat
    OBVIOUS
  <1>3. SUFFICES ASSUME Bad # {}
                 PROVE  FALSE
    OBVIOUS
  <1>4. PICK x \in Bad : \A y \in Bad : ~ (<<y, x>> \in R)
    <2> HIDE DEF R, Bad
    <2>1. QED
      BY <1>1, <1>2, <1>3, WFMin
  <1>5. x # 0 /\ x \in 0 .. n
    OBVIOUS
  <1>6. x - 1 \in 0 .. n - 1 /\ <<x - 1, x>> \in R
    BY <1>5
  <1>7. x - 1 \in T
    BY <1>4, <1>6
  <1>8. x - 1 + 1 \in T
    BY <1>6, <1>7
  <1>9. QED
    BY <1>5, <1>8

(* The loop over the convars ends with the last value of a function that   *)
(* applies one convar after the other.                                     *)
LEMMA ConvarLoop ==
    ASSUME NEW p, NEW convars, Len(convars) \in Nat
    PROVE  \E f : /\ f = [k \in 0 .. Len(convars) |->
                           IF k = 0 THEN [preferences |-> p, error |-> None]
                           ELSE Apply(f[k-1], convars[k])]
                 /\ UpdatePreferences(p, convars) = f[Len(convars)]
  <1> DEFINE n == Len(convars)
             Is(m, f) == f = [k \in 0 .. m |->
                            IF k = 0 THEN [preferences |-> p, error |-> None]
                            ELSE Apply(f[k-1], convars[k])]
             T == {m \in 0 .. n : \E f : Is(m, f)}
             after == CHOOSE f : Is(n, f)
  <1>1. 0 \in T
    <2>1. Is(0, [k \in 0 .. 0 |-> [preferences |-> p, error |-> None]])
      OBVIOUS
    <2>2. \E f : Is(0, f)
      BY <2>1
    <2>3. QED
      BY <2>2
  <1>2. ASSUME NEW k \in 0 .. n - 1, k \in T
        PROVE  k + 1 \in T
    <2>1. PICK f : Is(k, f)
      BY <1>2
    <2> DEFINE g == [j \in 0 .. k + 1 |-> IF j = k + 1 THEN Apply(f[k], convars[k+1])
                                         ELSE f[j]]
    <2>2. ASSUME NEW j \in 0 .. k + 1
          PROVE  g[j] = IF j = 0 THEN [preferences |-> p, error |-> None]
                        ELSE Apply(g[j-1], convars[j])
      <3>1. CASE j = k + 1
        BY <3>1
      <3>2. CASE j # k + 1
        <4>1. j \in 0 .. k
          BY <3>2
        <4>2. g[j] = f[j] /\ (j # 0 => g[j-1] = f[j-1])
          BY <4>1
        <4>3. QED
          BY <2>1, <4>1, <4>2
      <3>3. QED
        BY <3>1, <3>2
    <2>3. Is(k + 1, g)
      BY <2>2
    <2>4. k + 1 \in 0 .. n
      OBVIOUS
    <2>5. QED
      BY <2>3, <2>4
  <1>3. 0 .. n \subseteq T
    <2> HIDE DEF T
    <2>1. QED
      BY <1>1, <1>2, Induction
  <1>4. \E f : Is(n, f)
    BY <1>3
  <1>5. Is(n, after)
    <2> HIDE DEF Is
    <2>1. QED
      BY <1>4
  <1>6. UpdatePreferences(p, convars) = after[n]
    BY DEF UpdatePreferences
  <1>7. QED
    BY <1>5, <1>6

(* One preference leaves a party size that fits a byte. *)
LEMMA PreferenceTyped ==
    ASSUME NEW p, HasSize(p), NEW convar, PreferenceError(convar) = None
    PROVE  HasSize(UpdatePreference(p, convar))
  <1>1. CASE convar.name = "map_ban_"
    BY <1>1 DEF HasSize, UpdatePreference
  <1>2. CASE convar.name = "gamemode_"
    BY <1>2 DEF HasSize, UpdatePreference
  <1>3. CASE convar.name \notin {"map_ban_", "gamemode_"}
    <2> DEFINE v == Number[convar.value]
    <2>1. UpdatePreference(p, convar) = [p EXCEPT ![convar.name] = v]
      BY <1>3 DEF UpdatePreference
    <2>2. convar.name = "party_size" => v \in Byte
      <3>1. SUFFICES ASSUME convar.name = "party_size"
                     PROVE  v \in Byte
        OBVIOUS
      <3>2. PreferenceError(convar) =
              IF U8(convar.value) THEN None ELSE "UnparseableValue"
        BY <3>1 DEF PreferenceError, Enumerated
      <3>3. "UnparseableValue" # None
        BY ErrorAssumption DEF Error
      <3>4. U8(convar.value)
        BY <3>2, <3>3
      <3>5. v \in Nat /\ v <= 255
        BY <3>4, NumberAssumption DEF U8
      <3>6. QED
        BY <3>5 DEF Byte
    <2> HIDE DEF v
    <2>3. QED
      BY <2>1, <2>2 DEF HasSize
  <1>4. QED
    BY <1>1, <1>2, <1>3

(* So does a whole update, whether or not it ends with an error: what the  *)
(* score reads never depends on how far the loop came.                     *)
LEMMA UpdateTyped ==
    ASSUME NEW p, HasSize(p), NEW convars, Len(convars) \in Nat
    PROVE  HasSize(UpdatePreferences(p, convars).preferences)
  <1>1. PICK f : /\ f = [k \in 0 .. Len(convars) |->
                           IF k = 0 THEN [preferences |-> p, error |-> None]
                           ELSE Apply(f[k-1], convars[k])]
                 /\ UpdatePreferences(p, convars) = f[Len(convars)]
    BY ConvarLoop
  <1> DEFINE n == Len(convars)
             T == {k \in 0 .. n : /\ "preferences" \in DOMAIN f[k]
                                  /\ HasSize(f[k].preferences)}
  <1>2. 0 \in T
    BY <1>1
  <1>3. ASSUME NEW k \in 0 .. n - 1, k \in T
        PROVE  k + 1 \in T
    <2> DEFINE convar == convars[k+1]
    <2>1. f[k+1] = Apply(f[k], convar)
      BY <1>1
    <2>2. "preferences" \in DOMAIN f[k] /\ HasSize(f[k].preferences)
      BY <1>3
    <2>3. CASE f[k].error # None \/ ~ Considered(convar)
      BY <2>1, <2>2, <2>3 DEF Apply
    <2>4. CASE f[k+1] = [f[k] EXCEPT !.error = PreferenceError(convar)]
      BY <2>2, <2>4
    <2>5. CASE /\ PreferenceError(convar) = None
               /\ f[k+1] = [f[k] EXCEPT !.preferences =
                               UpdatePreference(f[k].preferences, convar)]
      <3>1. HasSize(UpdatePreference(f[k].preferences, convar))
        BY <2>2, <2>5, PreferenceTyped
      <3>2. QED
        BY <2>2, <2>5, <3>1
    <2>6. QED
      BY <2>1, <2>3, <2>4, <2>5 DEF Apply
  <1>4. 0 .. n \subseteq T
    <2> HIDE DEF T
    <2>1. QED
      BY <1>2, <1>3, Induction
  <1>5. QED
    BY <1>1, <1>4

(* The loop over the entries of a file. *)
LEMMA EntryLoop ==
    ASSUME NEW raw, NEW schema, Len(raw) \in Nat
    PROVE  \E f : /\ f = [k \in 0 .. Len(raw) |->
                           IF k = 0 THEN <<>>
                           ELSE IF ~ ServerParses(raw[k], schema) THEN f[k-1]
                           ELSE Append(f[k-1], ServerInfo(raw[k], schema))]
                 /\ ParseServerInfos(raw, schema) = f[Len(raw)]
  <1> DEFINE n == Len(raw)
             Is(m, f) == f = [k \in 0 .. m |->
                            IF k = 0 THEN <<>>
                            ELSE IF ~ ServerParses(raw[k], schema) THEN f[k-1]
                            ELSE Append(f[k-1], ServerInfo(raw[k], schema))]
             T == {m \in 0 .. n : \E f : Is(m, f)}
             parsed == CHOOSE f : Is(n, f)
  <1>1. 0 \in T
    <2>1. Is(0, [k \in 0 .. 0 |-> <<>>])
      OBVIOUS
    <2>2. \E f : Is(0, f)
      BY <2>1
    <2>3. QED
      BY <2>2
  <1>2. ASSUME NEW k \in 0 .. n - 1, k \in T
        PROVE  k + 1 \in T
    <2>1. PICK f : Is(k, f)
      BY <1>2
    <2> DEFINE next == IF ~ ServerParses(raw[k+1], schema) THEN f[k]
                       ELSE Append(f[k], ServerInfo(raw[k+1], schema))
               g == [j \in 0 .. k + 1 |-> IF j = k + 1 THEN next ELSE f[j]]
    <2>2. ASSUME NEW j \in 0 .. k + 1
          PROVE  g[j] = IF j = 0 THEN <<>>
                        ELSE IF ~ ServerParses(raw[j], schema) THEN g[j-1]
                        ELSE Append(g[j-1], ServerInfo(raw[j], schema))
      <3>1. CASE j = k + 1
        BY <3>1
      <3>2. CASE j # k + 1
        <4>1. j \in 0 .. k
          BY <3>2
        <4>2. g[j] = f[j] /\ (j # 0 => g[j-1] = f[j-1])
          BY <4>1
        <4>3. QED
          BY <2>1, <4>1, <4>2
      <3>3. QED
        BY <3>1, <3>2
    <2>3. Is(k + 1, g)
      BY <2>2
    <2>4. k + 1 \in 0 .. n
      OBVIOUS
    <2>5. QED
      BY <2>3, <2>4
  <1>3. 0 .. n \subseteq T
    <2> HIDE DEF T
    <2>1. QED
      BY <1>1, <1>2, Induction
  <1>4. \E f : Is(n, f)
    BY <1>3
  <1>5. Is(n, parsed)
    <2> HIDE DEF Is
    <2>1. QED
      BY <1>4
  <1>6. ParseServerInfos(raw, schema) = parsed[n]
    BY DEF ParseServerInfos
  <1>7. QED
    BY <1>5, <1>6

(* Every server of a list that was read has counts that fit a byte and a   *)
(* score: the entries that do not are left out.                            *)
LEMMA ServerListTyped ==
    ASSUME NEW s, NEW l \in DOMAIN ServerListFile, ServerListFile[l] # None
    PROVE  LET list == ServerList(s, l)
           IN  /\ Len(list) \in Nat
               /\ DOMAIN list = 1 .. Len(list)
               /\ \A i \in DOMAIN list : HasScore(list[i])
  <1> DEFINE raw == ServerListFile[l]
             schema == ParseSchema(SchemaFile[s])
             n == Len(raw)
             Good == {ServerInfo(raw[k], schema) :
                        k \in {j \in 1 .. n : ServerParses(raw[j], schema)}}
  <1>1. /\ n \in Nat
        /\ \A k \in 1 .. n : /\ raw[k].players \in Nat
                             /\ raw[k].max_players \in Nat
                             /\ raw[k].score \in Int
    BY FilesAssumption
  <1>2. \A server \in Good : HasScore(server)
    <2>1. SUFFICES ASSUME NEW k \in 1 .. n, ServerParses(raw[k], schema)
                   PROVE  HasScore(ServerInfo(raw[k], schema))
      OBVIOUS
    <2> HIDE DEF raw, schema, n
    <2>2. /\ raw[k].players \in Nat /\ raw[k].players <= 255
          /\ raw[k].max_players \in Nat /\ raw[k].max_players <= 255
          /\ raw[k].score \in Int
      BY <1>1, <2>1 DEF ServerParses
    <2>3. /\ ServerInfo(raw[k], schema).players = raw[k].players
          /\ ServerInfo(raw[k], schema).max_players = raw[k].max_players
          /\ ServerInfo(raw[k], schema).score = raw[k].score
      BY DEF ServerInfo
    <2>4. QED
      BY <2>2, <2>3 DEF HasScore, Byte
  <1> HIDE DEF raw, schema
  <1>3. PICK f : /\ f = [k \in 0 .. n |->
                           IF k = 0 THEN <<>>
                           ELSE IF ~ ServerParses(raw[k], schema) THEN f[k-1]
                           ELSE Append(f[k-1], ServerInfo(raw[k], schema))]
                 /\ ParseServerInfos(raw, schema) = f[n]
    BY <1>1, EntryLoop
  <1> DEFINE T == {k \in 0 .. n : f[k] \in Seq(Good)}
  <1>4. 0 \in T
    <2>1. f[0] = <<>>
      BY <1>1, <1>3
    <2>2. f[0] \in Seq(Good)
      <3> HIDE DEF Good
      <3>1. QED
        BY <2>1
    <2>3. QED
      BY <1>1, <2>2
  <1>5. ASSUME NEW k \in 0 .. n - 1, k \in T
        PROVE  k + 1 \in T
    <2>1. k + 1 \in 1 .. n /\ k + 1 \in 0 .. n /\ k + 1 # 0 /\ k + 1 - 1 = k
      BY <1>1
    <2>2. f[k+1] = IF ~ ServerParses(raw[k+1], schema) THEN f[k]
                   ELSE Append(f[k], ServerInfo(raw[k+1], schema))
      <3> DEFINE j == k + 1
      <3>1. f[j] = IF j = 0 THEN <<>>
                   ELSE IF ~ ServerParses(raw[j], schema) THEN f[j-1]
                   ELSE Append(f[j-1], ServerInfo(raw[j], schema))
        <4> HIDE DEF j, n
        <4>1. j \in 0 .. n
          BY <2>1 DEF j
        <4>2. QED
          BY <1>3, <4>1
      <3>2. QED
        BY <2>1, <3>1
    <2>3. ServerParses(raw[k+1], schema) => ServerInfo(raw[k+1], schema) \in Good
      BY <2>1
    <2>4. f[k] \in Seq(Good)
      BY <1>5
    <2> HIDE DEF Good
    <2>5. f[k+1] \in Seq(Good)
      BY <2>2, <2>3, <2>4
    <2>6. QED
      BY <2>1, <2>5
  <1>6. 0 .. n \subseteq T
    <2> HIDE DEF T
    <2>1. QED
      BY <1>1, <1>4, <1>5, Induction
  <1>7. ParseServerInfos(raw, schema) \in Seq(Good)
    <2>1. n \in 0 .. n
      BY <1>1
    <2>2. f[n] \in Seq(Good)
      BY <1>6, <2>1
    <2>3. QED
      BY <1>3, <2>2
  <1>8. ServerList(s, l) \in Seq(Good)
    BY <1>7 DEF ServerList, raw, schema
  <1> HIDE DEF Good
  <1>9. QED
    BY <1>2, <1>8
=============================================================================

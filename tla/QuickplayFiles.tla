--------------------------- MODULE QuickplayFiles ---------------------------
(***************************************************************************)
(* The two files that other programs write for quickplay, and what parsing *)
(* makes of them (src/quickplay/global.rs).  The module has no variables.  *)
(*                                                                         *)
(* A file's content is known by its version: SchemaFile and ServerListFile *)
(* give the JSON of each version, or None for one that cannot be read or   *)
(* decoded (a missing file, or one that was read while it was written).    *)
(***************************************************************************)
EXTENDS Integers, Sequences

CONSTANTS
    Address,         \* the addr strings that parse as a socket address
    SchemaFile,      \* the versions of the schema: map -> gamemode, or None
    ServerListFile,  \* the versions of the list: seq. of ServerInfoJson, or None
    None             \* the None of an Option, not a string, number or sequence

ASSUME FilesAssumption ==
    /\ None \notin Nat
    /\ 0 \in DOMAIN SchemaFile /\ 0 \in DOMAIN ServerListFile
    /\ \A l \in DOMAIN ServerListFile : LET raw == ServerListFile[l] IN
          raw # None =>
             /\ Len(raw) \in Nat
             /\ \A k \in 1 .. Len(raw) : /\ raw[k].players \in Nat
                                        /\ raw[k].max_players \in Nat
                                        /\ raw[k].score \in Int

Gamemode == {"payload", "koth", "attack_defense", "ctf", "capture_point",
             "payload_race", "alternative", "arena"}

(* What each string tag stands for. *)
TagOf == [nocrits |-> "NO_CRITS", norespawntime |-> "NO_RESPAWN_TIMES",
          respawntimes |-> "RESPAWN_TIMES", rtd |-> "RTD",
          classlimits |-> "CLASS_LIMITS", classbans |-> "CLASS_BANS",
          nocap |-> "NO_OBJECTIVES"]

StringTagsToFlags(gametype) == {TagOf[t] : t \in gametype \cap DOMAIN TagOf}

(* A map whose gamemode has another name is not in the schema. *)
ParseSchema(raw) ==
    [map \in {m \in DOMAIN raw : raw[m] \in Gamemode} |-> raw[map]]

ServerParses(raw, schema) ==
    /\ raw.map \in DOMAIN schema
    /\ raw.addr \in Address
    /\ raw.players <= 255
    /\ raw.max_players <= 255

ServerInfo(raw, schema) ==
    [addr |-> raw.addr, players |-> raw.players,
     max_players |-> raw.max_players, map |-> raw.map,
     gamemode |-> schema[raw.map], tags |-> StringTagsToFlags(raw.gametype),
     score |-> raw.score]

(* parse_server_infos_from_json: one bad entry does not spoil the others.  *)
ParseServerInfos(raw, schema) ==
    LET parsed[k \in 0 .. Len(raw)] ==
            IF k = 0 THEN <<>>
            ELSE IF ~ ServerParses(raw[k], schema) THEN parsed[k-1]
            ELSE Append(parsed[k-1], ServerInfo(raw[k], schema))
    IN  parsed[Len(raw)]

(* The list that version l of the list gives with version s of the schema. *)
ServerList(s, l) == ParseServerInfos(ServerListFile[l], ParseSchema(SchemaFile[s]))

=============================================================================

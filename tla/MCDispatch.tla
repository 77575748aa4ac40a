----------------------------- MODULE MCDispatch -----------------------------
(***************************************************************************)
(* A small instance of Dispatch: two clients; a schema that is torn, and a *)
(* list that is missing at first and then has servers that tie, that a     *)
(* preference excludes, that are full, and entries that do not parse.      *)
(***************************************************************************)
EXTENDS Dispatch

CONSTANTS alice, bob

Clients == {alice, bob}

Numerals == [n \in {"0", "1", "2", "3", "8", "300"} |->
                CASE n = "0" -> 0 [] n = "1" -> 1 [] n = "2" -> 2
                  [] n = "3" -> 3 [] n = "8" -> 8 [] n = "300" -> 300]

Addresses == {"a1", "a2", "a3"}

-----------------------------------------------------------------------------
(* Files *)

Schema1 == [koth_x |-> "koth", pl_y |-> "payload", ev_z |-> "special_events"]

Raw(addr, players, max_players, map, gametype, score) ==
    [addr |-> addr, players |-> players, max_players |-> max_players,
     map |-> map, gametype |-> gametype, score |-> score]

(* a1 and a2 tie; a3 has room for a party of eight, and a2 for nobody. *)
List1 ==
    <<Raw("nowhere", 8, 24, "koth_x", {}, 9000),
      Raw("a1", 20, 24, "koth_x", {"unknown_tag"}, 3000),
      Raw("a2", 24, 24, "pl_y", {}, 3000),
      Raw("a3", 8, 24, "pl_y", {"rtd"}, 2500)>>

(* Shorter: an event map, a count that does not fit a byte, a low score. *)
List2 ==
    <<Raw("a2", 4, 24, "ev_z", {}, 4000),
      Raw("a3", 300, 24, "pl_y", {}, 4000),
      Raw("a1", 12, 24, "koth_x", {}, 1500)>>

Schemas == [v \in 0 .. 1 |-> IF v = 0 THEN Schema1 ELSE None]
Lists == [v \in 0 .. 2 |-> CASE v = 0 -> None [] v = 1 -> List1 [] v = 2 -> List2]

-----------------------------------------------------------------------------
(* Messages *)

Signon == [kind |-> "signon"]
Quit == [kind |-> "disconnect"]
PrintText == [kind |-> "print"]
ConVars(convars) == [kind |-> "convars", convars |-> convars]
Var(name, arg, value) == [own |-> TRUE, name |-> name, arg |-> arg, value |-> value]
Foreign == [own |-> FALSE, name |-> "cl_name", arg |-> "", value |-> "x"]

Party == ConVars(<<Foreign, Var("party_size", "", "8"), Var("gamemode_", "koth", "0"),
                   Var("map_ban_", "1", "koth_x")>>)
HalfBad == ConVars(<<Var("rtd", "", "2"), Var("random_crits", "", "3"),
                     Var("party_size", "", "8")>>)
Batches == {<<HalfBad, Signon>>, <<Party, PrintText, Signon, Quit>>}

=============================================================================

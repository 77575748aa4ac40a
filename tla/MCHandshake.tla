---------------------------- MODULE MCHandshake ----------------------------
(***************************************************************************)
(* A small instance of Handshake: a client that compresses its datagrams,  *)
(* browses, connects, and moves between two addresses.                     *)
(***************************************************************************)
EXTENDS Handshake, TLC

CONSTANTS Home, Cafe, Alice

Challenges == (Home :> 11) @@ (Cafe :> 12)

AtHome == Alice :> Home
Current == Alice :> 24
HashedCdKey == Alice :> 2
Snappy == Alice :> "SNAP"
Attempts2 == Alice :> 2
Moves1 == Alice :> 1

=============================================================================

-------------------------- MODULE MCNetChannelPair --------------------------
(***************************************************************************)
(* Small instances of NetChannelPair: a client and a server, two           *)
(* subchannels of the eight, fragments of two bytes.                       *)
(***************************************************************************)
EXTENDS NetChannelPair, TLC

CONSTANTS Client, Server

MCPeer == {Client, Server}

Each(client, server) == (Client :> client) @@ (Server :> server)

(* Transfers: the client sends one, or two, or both peers send one. *)
OneSmall == Each(1, 0)
OneWay == Each(2, 0)
Both == Each(1, 1)

(* Packets each peer writes. *)
Seqs43 == Each(4, 3)
Seqs53 == Each(5, 3)

=============================================================================

--------------------------- MODULE MCConnections ---------------------------
(***************************************************************************)
(* Small instances of Connections: a client that reconnects, and another.  *)
(***************************************************************************)
EXTENDS Connections

CONSTANTS Alice, Bob

TwoClients == {Alice, Bob}
OneClient == {Alice}

=============================================================================

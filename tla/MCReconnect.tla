---------------------------- MODULE MCReconnect ----------------------------
(***************************************************************************)
(* A small instance of Reconnect: a client that sends one batch, connects  *)
(* again without having said goodbye, and sends another.                   *)
(***************************************************************************)
EXTENDS Reconnect

OneByte == {1}

=============================================================================

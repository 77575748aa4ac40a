--------------------------- MODULE ReliableStream ---------------------------
(***************************************************************************)
(* What one direction of a netchannel promises for its reliable messages:  *)
(* the batches given to queue_reliable_messages come out of read_packet on *)
(* the other side, whole, once each and in that order; and the sender      *)
(* forgets a batch only after the receiver has returned it.                *)
(***************************************************************************)
EXTENDS Naturals, Sequences

CONSTANT Batch  \* the batches of messages that may be queued

VARIABLES
    queued,      \* every batch handed to the sender, oldest first
    received,    \* every batch the receiver has returned
    completed    \* how many batches the sender has dropped as acknowledged

vars == <<queued, received, completed>>

Init ==
    /\ queued = <<>>
    /\ received = <<>>
    /\ completed = 0

Queue ==
    /\ \E batch \in Batch : queued' = Append(queued, batch)
    /\ UNCHANGED <<received, completed>>

Receive ==
    /\ Len(received) < Len(queued)
    /\ received' = Append(received, queued[Len(received) + 1])
    /\ UNCHANGED <<queued, completed>>

Complete ==
    /\ completed < Len(received)
    /\ completed' = completed + 1
    /\ UNCHANGED <<queued, received>>

Next == Queue \/ Receive \/ Complete

Spec == Init /\ [][Next]_vars
=============================================================================

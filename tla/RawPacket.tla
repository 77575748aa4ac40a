----------------------------- MODULE RawPacket -----------------------------
(***************************************************************************)
(* What decode_raw_packet (src/net/packet.rs) makes of a datagram.  The    *)
(* module has no constants and no variables.                               *)
(*                                                                         *)
(* A datagram is known by what its first four bytes say, or that it is     *)
(* shorter than that, and by the data behind them.  A compressed one holds *)
(* another datagram, or a corrupt one that does not decompress.            *)
(***************************************************************************)

Header == {"connectionless", "split", "compressed", "other", "short"}

Datagram(header, data) == [header |-> header, data |-> data]

Compressed(compression, inner) ==
    [header |-> "compressed", compression |-> compression, data |-> inner]

Error == [kind |-> "error"]

(* What the header says. *)
Classify(d) ==
    [kind |-> IF d.header = "connectionless" THEN "connectionless"
              ELSE "regular",
     data |-> d.data]

Decompresses(d) == d.compression = "SNAP" /\ d.data.header # "corrupt"

(* Mutant: a compressed packet is passed on as it came. *)
DecodeWithoutDecompressing(d) ==
    IF d.header \in {"split", "short"} THEN Error ELSE Classify(d)

(* The packet inside a compressed one is not unpacked again: one that is   *)
(* not connectionless is for a netchannel, whatever its header says.       *)
DecodeRawPacket(d) ==
    LET packet == IF d.header = "compressed" THEN d.data ELSE d
    IN  IF \/ d.header = "split"
           \/ d.header = "compressed" /\ ~ Decompresses(d)
           \/ packet.header = "short"
        THEN Error
        ELSE Classify(packet)

=============================================================================

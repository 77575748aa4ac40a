-------------------------------- MODULE Codec --------------------------------
(***************************************************************************)
(* Strings and variable-length numbers (src/io_util.rs) and the messages   *)
(* that are made of them (src/net/message.rs).  The module has no          *)
(* variables.  A reader is the sequence of bytes that are left; what it    *)
(* reads is a record [ok, value, rest], in which value and rest mean       *)
(* nothing unless ok.                                                      *)
(*                                                                         *)
(* A byte is a number.  Of UTF-8 only this is kept: Lead and Trail together *)
(* are one character, and neither is one alone.                            *)
(***************************************************************************)
EXTENDS Integers, Sequences, FiniteSetsExt

CONSTANTS
    GROUP_BITS,             \* bits of a number in one byte, 7 in the code
    MAX_VARINT_32_BYTES,    \* 5 in the code
    U32_BITS,               \* 32 in the code
    MaxReason,              \* 1024: the longest reason of a disconnect,
    MaxConVarPart,          \* 260: name or value of a convar,
    MaxText                 \* 2048: and text to print

ASSUME CodecAssumption ==
    /\ {GROUP_BITS, MAX_VARINT_32_BYTES, U32_BITS, MaxReason, MaxConVarPart, MaxText}
          \subseteq Nat \ {0}
    /\ GROUP_BITS * MAX_VARINT_32_BYTES >= U32_BITS

Nul == 0
Letter == 1
Lead == 2
Trail == 3

Failed == [ok |-> FALSE, value |-> <<>>, rest |-> <<>>]
Got(value, rest) == [ok |-> TRUE, value |-> value, rest |-> rest]

After(wire, n) == SubSeq(wire, n + 1, Len(wire))

-----------------------------------------------------------------------------
(* Strings *)

Utf8(data) ==
    \A i \in DOMAIN data :
        /\ data[i] = Lead => i < Len(data) /\ data[i + 1] = Trail
        /\ data[i] = Trail => i > 1 /\ data[i - 1] = Lead

WriteString(string) == string \o <<Nul>>

(* Mutant: one byte more than the limit is taken. *)
ReadStringTooLong(wire, max_len) ==
    LET nuls == {i \in DOMAIN wire : wire[i] = Nul /\ i <= max_len + 1}
        n == IF nuls # {} THEN Min(nuls) - 1 ELSE max_len + 1
        data == SubSeq(wire, 1, n)
    IN  IF n > Len(wire) \/ ~ Utf8(data) THEN Failed
        ELSE Got(data, After(wire, IF nuls # {} THEN n + 1 ELSE n))

(* Up to the terminator, which is read too, or max_len bytes, and then the *)
(* terminator is not looked for.  The limit may cut a character in two.    *)
ReadString(wire, max_len) ==
    LET nuls == {i \in DOMAIN wire : wire[i] = Nul /\ i <= max_len}
        n == IF nuls # {} THEN Min(nuls) - 1 ELSE max_len
        data == SubSeq(wire, 1, n)
    IN  IF n > Len(wire) \/ ~ Utf8(data) THEN Failed
        ELSE Got(data, After(wire, IF nuls # {} THEN n + 1 ELSE n))

-----------------------------------------------------------------------------
(* Numbers: groups of bits, the lowest first, each marked but the last.    *)

Group == 2 ^ GROUP_BITS

(* What the exponents say; it follows from CodecAssumption by arithmetic    *)
(* that the provers do not have.                                           *)
ASSUME PowersAssumption ==
    /\ Group \in Nat /\ Group > 1 /\ 2 ^ U32_BITS \in Nat \ {0}
    /\ Group ^ 0 = 1
    /\ \A i \in 1 .. MAX_VARINT_32_BYTES : Group ^ i = Group * Group ^ (i - 1)
    /\ 2 ^ U32_BITS <= Group ^ MAX_VARINT_32_BYTES

(* A number that does not end is what MAX_VARINT_32_BYTES bytes say; bits  *)
(* that a u32 has not are lost.                                            *)
ReadVarint32(wire) ==
    LET ends == {i \in DOMAIN wire : wire[i] < Group /\ i <= MAX_VARINT_32_BYTES}
        n == IF ends # {} THEN Min(ends) ELSE MAX_VARINT_32_BYTES
        sum[i \in 0 .. n] ==
            IF i = 0 THEN 0
            ELSE sum[i-1] + (wire[i] % Group) * Group ^ (i - 1)
    IN  IF n > Len(wire) THEN Failed
        ELSE Got(sum[n] % 2 ^ U32_BITS, After(wire, n))

(* Mutant: the boundary is off by one. *)
WriteVarint32Late(value) ==
    LET bytes[v \in 0 .. value] ==
            IF v > Group THEN <<Group + (v % Group)>> \o bytes[v \div Group]
            ELSE <<v>>
    IN  bytes[value]

WriteVarint32(value) ==
    LET bytes[v \in 0 .. value] ==
            IF v >= Group THEN <<Group + (v % Group)>> \o bytes[v \div Group]
            ELSE <<v>>
    IN  bytes[value]

-----------------------------------------------------------------------------
(* Messages, without their types *)

(* The strings of n fields in a row. *)
ReadStrings(wire, n, max_len) ==
    LET read[k \in 0 .. n] ==
            IF k = 0 THEN Got(<<>>, wire)
            ELSE LET next == ReadString(read[k-1].rest, max_len)
                 IN  IF read[k-1].ok /\ next.ok
                     THEN Got(Append(read[k-1].value, next.value), next.rest)
                     ELSE Failed
    IN  read[n]

(* Message::read: the types it knows, and the fields of each. *)
ReadMessage(type, wire) ==
    CASE type = "disconnect" -> ReadStrings(wire, 1, MaxReason)
      [] type = "print"      -> ReadStrings(wire, 1, MaxText)
      [] type = "convars"    ->
            IF wire = <<>> THEN Failed
            ELSE ReadStrings(Tail(wire), 2 * Head(wire), MaxConVarPart)
      [] type = "signon"     ->
            IF Len(wire) < 5 THEN Failed
            ELSE Got(SubSeq(wire, 1, 5), After(wire, 5))
      [] OTHER               -> Failed

(* Message::write: only what the server has to say. *)
WriteMessage(type, strings) ==
    IF type \in {"stringcmd", "print", "disconnect"}
    THEN Got(WriteString(strings[1]), <<>>) ELSE Failed

(* What the other end writes for convars (names and values in turn).       *)
WriteConVars(strings) ==
    LET written[k \in 0 .. Len(strings)] ==
            IF k = 0 THEN <<Len(strings) \div 2>>
            ELSE written[k-1] \o WriteString(strings[k])
    IN  written[Len(strings)]

=============================================================================

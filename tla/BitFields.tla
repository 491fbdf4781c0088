------------------------------ MODULE BitFields ------------------------------
(***************************************************************************)
(* Numbers in a buffer of bytes (parser/binary.rs).  A byte has ByteBits   *)
(* bits and the widest word WordBytes bytes; in the code 8 and 8.  A       *)
(* floating point number stands for the bits it is made of.                *)
(***************************************************************************)
EXTENDS Integers, Sequences

CONSTANTS ByteBits, WordBytes

ASSUME WordAssumption == ByteBits \in Nat \ {0} /\ WordBytes \in Nat /\ WordBytes % 4 = 0

Word == ByteBits * WordBytes

\* The bytes that so many bits take.
BytesFor(bits) == (bits + ByteBits - 1) \div ByteBits

Little(bytes) ==
    LET v[i \in 0..Len(bytes)] == IF i = 0 THEN 0 ELSE v[i - 1] + bytes[i] * 2 ^ (ByteBits * (i - 1))
    IN  v[Len(bytes)]

Big(bytes) ==
    LET v[i \in 0..Len(bytes)] == IF i = 0 THEN 0 ELSE v[i - 1] * 2 ^ ByteBits + bytes[i]
    IN  v[Len(bytes)]

\* The bits of a window of bytes from its bit "from" on.
Extract(bytes, from, bits, le) ==
    ((IF le THEN Little(bytes) ELSE Big(bytes)) \div 2 ^ from) % 2 ^ bits

\* read_uint: a field that does not make sense, or is not there, reads as 0.
ReadUint(data, at, bit, bits, le) ==
    LET count == BytesFor(bit + bits)
    IN  IF bits = 0 \/ bits > Word \/ bit >= ByteBits \/ at + count > Len(data) THEN 0
        ELSE Extract(SubSeq(data, at + 1, at + count), bit, bits, le)

\* Two's complement.
SignExtend(value, bits) ==
    IF bits > 0 /\ bits <= Word /\ value >= 2 ^ (bits - 1) THEN value - 2 ^ bits ELSE value

ReadInt(data, at, bit, bits, le) == SignExtend(ReadUint(data, at, bit, bits, le), bits)

\* bytes_to_f64: a float has half a word or a whole one, and no bit offset.
BytesToF64(data, at, bit, bits, kind, le) ==
    CASE kind = "float" -> IF bits \in {Word \div 2, Word} THEN ReadUint(data, at, 0, bits, le) ELSE 0
      [] kind = "int"   -> ReadInt(data, at, bit, bits, le)
      [] OTHER          -> ReadUint(data, at, bit, bits, le)
=============================================================================

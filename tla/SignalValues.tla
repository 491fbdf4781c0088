---------------------------- MODULE SignalValues ----------------------------
(***************************************************************************)
(* The samples of one channel, out of the records of its group             *)
(* (model/signal.rs, model/mod.rs, model/vlsd.rs).                         *)
(*                                                                         *)
(* A signal is its channel, the layout of its records, their bytes, their  *)
(* number n and what other blocks contribute.  A sample is a sequence: of  *)
(* one number for a numeric channel, of the bytes for text and blobs, of   *)
(* the elements for an array.  A text is the bytes it is decoded from, and *)
(* the label a conversion gives a number is that number; how wide a type   *)
(* an integer is narrowed to, which loses nothing, is left out.            *)
(***************************************************************************)
EXTENDS BitFields

Refused == [ok |-> FALSE, values |-> <<>>]
Read(values) == [ok |-> TRUE, values |-> values]

\* One answer per record.
PerRecord(s, Sample(_)) == Read([i \in 1..s.n |-> Sample(i - 1)])

Virtual(c) == c.channelType = "virtual"
TextKeyed(c) == c.conversion = "text keyed"

\* byte_size: the bytes of the value, not of the window its bits spill into.
ByteSize(c) == BytesFor(c.bits)

RecordStart(s, i) == i * s.layout.size + s.layout.offset
ValueOffset(s, i) == RecordStart(s, i) + s.channel.byte

\* bounds_check, sample_bytes.
InBounds(s, i) == ValueOffset(s, i) + ByteSize(s.channel) <= Len(s.data)
SampleBytes(s, i, width) == SubSeq(s.data, ValueOffset(s, i) + 1, ValueOffset(s, i) + width)
BytesPresent(s, i, width) == ValueOffset(s, i) + width <= Len(s.data)

\* What the channel's record field decodes to.
RawValueKind(c) ==
    CASE Virtual(c) -> "uint"
      [] c.kind \in {"uint", "int", "string", "complex"} -> c.kind
      [] c.kind = "float" -> IF c.bits <= Word \div 2 THEN "f32" ELSE "f64"
      [] OTHER -> "bytes"

ValueKind(c) ==
    CASE c.array # <<>> -> "f64"
      [] c.kind = "string" /\ ~TextKeyed(c) -> "string"
      [] c.conversion = "labels" -> "string"
      [] c.conversion \in {"linear", "unsupported"} -> "f64"
      [] OTHER -> RawValueKind(c)

\* Conversion::convert, with an offset of one and a factor of two.
Physical(c, x) == IF c.conversion = "linear" THEN 2 * x + 1 ELSE x

(***************************************************************************)
(* The fast path: one load per record.                                     *)
(***************************************************************************)

\* strided_offset: <<>> when the field cannot be read by striding.
StridedOffset(s) ==
    LET c == s.channel
        span == BytesFor(c.bit + c.bits)
        offset == s.layout.offset + c.byte
    IN  IF \/ Virtual(c) \/ ~c.le
           \/ c.bits = 0 \/ c.bit + c.bits > Word
           \/ s.n = 0 \/ (s.n - 1) * s.layout.size + offset + span > Len(s.data)
        THEN <<>>
        ELSE <<[offset |-> offset, span |-> span, bit |-> c.bit, bits |-> c.bits,
                aligned |-> c.bit = 0 /\ c.bits % ByteBits = 0]>>

\* Mutant of StridedRead: the record's own start is added a second time.
StridedReadTwice(s, field, i) ==
    LET at == i * s.layout.size + s.layout.offset + field.offset
    IN  Extract(SubSeq(s.data, at + 1, at + field.span), field.bit, field.bits, TRUE)

StridedRead(s, field, i) ==
    LET at == i * s.layout.size + field.offset
    IN  Extract(SubSeq(s.data, at + 1, at + field.span), field.bit, field.bits, TRUE)

\* decode_strided, decode_strided_raw: <<>> when the kind takes the long way.
DecodeStrided(s, kind, field, physical) ==
    LET c == s.channel
        width == IF kind = "f32" THEN Word \div 2 ELSE Word
        Sample(i) == CASE kind = "int" -> <<SignExtend(StridedRead(s, field, i), field.bits)>>
                       [] kind = "f64" /\ physical -> <<Physical(c, StridedRead(s, field, i))>>
                       [] OTHER -> <<StridedRead(s, field, i)>>
    IN  IF \/ kind \notin {"uint", "int", "f32", "f64"}
           \/ s.layout.size < field.span
           \/ kind \in {"f32", "f64"} /\ (~field.aligned \/ field.bits # width)
           \/ kind = "f64" /\ c.kind # "float"
        THEN <<>> ELSE <<PerRecord(s, Sample)>>

(***************************************************************************)
(* The general path.                                                       *)
(***************************************************************************)

\* read_raw_value, and raw_uint and raw_int, which differ in the type alone.
RawValue(s, i) ==
    LET c == s.channel
    IN  IF Virtual(c) THEN i
        ELSE BytesToF64(s.data, ValueOffset(s, i), c.bit, c.bits, c.kind, c.le)

Readable(s) == \A i \in 0..(s.n - 1) : Virtual(s.channel) \/ InBounds(s, i)

Numbers(s, Physically(_)) ==
    LET Sample(i) == <<Physically(RawValue(s, i))>>
    IN  IF Readable(s) THEN PerRecord(s, Sample) ELSE Refused

\* Text ends at its first zero byte.
Trimmed(bytes) ==
    LET zeros == {i \in DOMAIN bytes : bytes[i] = 0}
    IN  IF zeros = {} THEN bytes ELSE SubSeq(bytes, 1, (CHOOSE i \in zeros : \A j \in zeros : i <= j) - 1)

Blobs(s, Decoded(_)) ==
    LET width == ByteSize(s.channel)
        Sample(i) == Decoded(SampleBytes(s, i, width))
    IN  IF \A i \in 0..(s.n - 1) : BytesPresent(s, i, width) THEN PerRecord(s, Sample) ELSE Refused

AsIs(x) == x

\* complex_values: two floats end to end.
ComplexValues(s) ==
    LET part == s.channel.bits \div 2
        Sample(i) == <<ReadUint(s.data, ValueOffset(s, i), 0, part, s.channel.le),
                       ReadUint(s.data, ValueOffset(s, i) + BytesFor(part), 0, part, s.channel.le)>>
    IN  IF /\ s.channel.bits \in {Word, 2 * Word}
           /\ \A i \in 0..(s.n - 1) : BytesPresent(s, i, 2 * BytesFor(part))
        THEN PerRecord(s, Sample) ELSE Refused

General(s, kind, physical) ==
    LET Scaled(x) == IF physical THEN Physical(s.channel, x) ELSE x
    IN  CASE kind \in {"uint", "int", "f32", "f64"} -> Numbers(s, Scaled)
          [] kind = "complex" -> ComplexValues(s)
          [] kind = "string"  -> Blobs(s, Trimmed)
          [] kind = "bytes"   -> IF ByteSize(s.channel) = 0 THEN Refused ELSE Blobs(s, AsIs)

(***************************************************************************)
(* Samples that are not a field of their record.                           *)
(***************************************************************************)

\* A count that another channel of the same record holds.
CountAt(s, i) ==
    LET l == s.length[1] IN ReadUint(s.data, RecordStart(s, i) + l.byte, l.bit, l.bits, l.le)

\* max_length_values: as many of the field's bytes as the count says.
MaxLengthValues(s) ==
    LET most == ByteSize(s.channel)
        Sample(i) == SubSeq(SampleBytes(s, i, most), 1, CountAt(s, i))
    IN  IF /\ s.length # <<>>
           /\ \A i \in 0..(s.n - 1) : CountAt(s, i) <= most /\ BytesPresent(s, i, most)
        THEN PerRecord(s, Sample) ELSE Refused

\* get_from: the payload that begins where the record points, or none.
PayloadAt(s, offset) ==
    LET found == {k \in DOMAIN s.payloads[1] : s.payloads[1][k].offset = offset}
    IN  IF found = {} THEN <<>> ELSE s.payloads[1][CHOOSE k \in found : TRUE].bytes

\* variable_length_values: the offset is little-endian whatever the channel is.
VariableLengthValues(s) ==
    LET c == s.channel
        Payload(i) == PayloadAt(s, ReadUint(s.data, ValueOffset(s, i), c.bit, c.bits, TRUE))
        Sample(i) == IF c.kind = "string" THEN Trimmed(Payload(i)) ELSE Payload(i)
    IN  IF s.payloads # <<>> /\ Readable(s) THEN PerRecord(s, Sample) ELSE Refused

TextKeyedValues(s) ==
    LET payloads == VariableLengthValues(s)
    IN  IF s.channel.channelType # "variable length" THEN Blobs(s, Trimmed)
        ELSE [payloads EXCEPT !.values = [i \in DOMAIN payloads.values |-> Trimmed(payloads.values[i])]]

\* read_element_from_bytes; an element that is no number has no value.
Element(s, e, data, at) ==
    Physical(s.channel, IF e.kind = "int" THEN ReadInt(data, at, e.bit, e.bits, e.le)
                        ELSE ReadUint(data, at, e.bit, e.bits, e.le))

Product(shape) ==
    LET p[i \in 0..Len(shape)] == IF i = 0 THEN 1 ELSE p[i - 1] * shape[i] IN p[Len(shape)]

\* row_major_to_stored: where the j-th element in row order is stored when the
\* first dimension varies fastest.
StoredIndex(shape, j) ==
    LET rem[d \in 1..Len(shape)] == IF d = Len(shape) THEN j ELSE rem[d + 1] \div shape[d + 1]
        at[d \in 0..Len(shape)] ==
            IF d = 0 THEN 0 ELSE at[d - 1] + (rem[d] % shape[d]) * Product(SubSeq(shape, 1, d - 1))
    IN  at[Len(shape)]

MaxOf(f) == CHOOSE m \in {f[i] : i \in DOMAIN f} : \A i \in DOMAIN f : f[i] <= m

\* array_values and dynamic_array_values, which differ in where the number of
\* elements of a sample comes from.
ArrayValues(s) ==
    LET c == s.channel
        e == c.array[1]
        most == Product(c.shape)
        base == s.layout.offset + c.byte + e.byte
        room == IF base > s.layout.size THEN 0 ELSE s.layout.size - base
        listed == ~c.dynamic /\ e.offsets # <<>>
        fits == IF listed
                THEN MaxOf(e.offsets) + base + (IF e.bits = 0 THEN 1 ELSE BytesFor(e.bits)) <= s.layout.size
                ELSE most <= (room + e.stride - 1) \div e.stride
        Stored(j) == IF ~c.dynamic /\ e.inverse /\ Len(c.shape) > 1 THEN StoredIndex(c.shape, j) ELSE j
        At(i, j) == i * s.layout.size + base
                        + IF listed THEN e.offsets[j + 1] ELSE Stored(j) * e.stride
        used(i) == IF c.dynamic THEN CountAt(s, i) ELSE most
        Sample(i) == [j \in 1..used(i) |-> Element(s, e, s.data, At(i, j - 1))]
        Nothing(i) == <<>>
    IN  CASE c.dynamic /\ s.length = <<>> -> Refused
          [] most = 0 -> PerRecord(s, Nothing)
          [] ~fits \/ \E i \in 0..(s.n - 1) : used(i) > most -> Refused
          [] OTHER -> PerRecord(s, Sample)

\* group_array_values: one element per member group.
GroupArrayValues(s) ==
    LET c == s.channel
        e == c.array[1]
        m == s.members
        Member(j) == m[1 + IF e.inverse /\ Len(c.shape) > 1 THEN StoredIndex(c.shape, j) ELSE j]
        At(member, i) == i * member.layout.size + member.layout.offset + e.byte
        Sample(i) == [j \in DOMAIN m |-> LET k == Member(j - 1) IN Element(s, e, k.data, At(k, i))]
    IN  IF m = <<>> THEN Read(<<>>)
        ELSE IF Len(m) # Product(c.shape) \/ \E j \in DOMAIN m : m[j].n # m[1].n THEN Refused
        ELSE Read([i \in 1..m[1].n |-> Sample(i - 1)])

(***************************************************************************)
(* values and raw_values.                                                  *)
(***************************************************************************)

Fields(s, kind, physical) ==
    LET field == StridedOffset(s)
        fast == IF field = <<>> THEN <<>> ELSE DecodeStrided(s, kind, field[1], physical)
        labels == physical /\ s.channel.conversion = "labels"
    IN  IF fast # <<>> THEN fast[1]
        ELSE IF labels THEN Numbers(s, AsIs)
        ELSE General(s, kind, physical)

Arrays(s) ==
    IF s.channel.array[1].groups /\ ~s.channel.dynamic THEN GroupArrayValues(s) ELSE ArrayValues(s)

Values(s) ==
    LET c == s.channel
    IN  CASE c.unreadable -> Refused
          [] c.channelType = "max length" -> MaxLengthValues(s)
          [] c.kind = "unknown" -> Refused
          [] c.channelType = "variable length" /\ ~TextKeyed(c) -> VariableLengthValues(s)
          [] c.array # <<>> -> Arrays(s)
          [] TextKeyed(c) -> TextKeyedValues(s)
          [] c.conversion = "unsupported" -> Refused
          [] OTHER -> Fields(s, ValueKind(c), TRUE)

RawValues(s) ==
    LET c == s.channel
    IN  CASE c.unreadable -> Refused
          [] c.channelType = "max length" -> MaxLengthValues(s)
          [] c.channelType = "sync" \/ c.kind = "unknown" -> Refused
          [] c.channelType = "variable length" -> VariableLengthValues(s)
          [] c.array # <<>> -> Arrays(s)
          [] OTHER -> Fields(s, RawValueKind(c), FALSE)

(***************************************************************************)
(* Validity: <<>> when the file says nothing, else one flag per sample.    *)
(***************************************************************************)

HasInvalidation(s) == s.channel.hasInvalBit /\ s.layout.invalBytes > 0

InvalByte(c) == c.invalBit \div ByteBits

ValidAt(s, i) ==
    LET at == RecordStart(s, i) + s.layout.invalStart + InvalByte(s.channel)
    IN  at < Len(s.data) /\ (s.data[at + 1] \div 2 ^ (s.channel.invalBit % ByteBits)) % 2 = 0

Validity(s) ==
    LET c == s.channel
    IN  CASE c.allInvalid -> <<[i \in 1..s.n |-> FALSE]>>
          [] ~HasInvalidation(s) \/ InvalByte(c) >= s.layout.invalBytes -> <<>>
          [] OTHER -> <<[i \in 1..s.n |-> ValidAt(s, i - 1)]>>

IsValid(s, i) ==
    CASE s.channel.allInvalid -> FALSE
      [] \/ ~HasInvalidation(s) \/ InvalByte(s.channel) >= s.layout.invalBytes \/ i >= s.n -> TRUE
      [] OTHER -> ValidAt(s, i)
=============================================================================

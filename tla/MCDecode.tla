------------------------------ MODULE MCDecode ------------------------------
(***************************************************************************)
(* What turns stored bytes into measurements, one piece at a time: the     *)
(* fields of a version 4 record, the tables of the conversions and their   *)
(* formulas, the reader of version 3 files, the blocks of both versions    *)
(* with the summaries made of them, and the traffic a bus has logged; and  *)
(* the writer, which stores measurements as blocks.                        *)
(***************************************************************************)
EXTENDS SignalValues, Mdf3File, Writer

T == INSTANCE Conversions
B == INSTANCE BlockLayouts

CONSTANTS Tasks,        \* the pieces looked at
          MaxMuxDepth

U == INSTANCE BusDecode

VARIABLES task, item, done

mcVars == <<task, item, done, mdf3Vars, writerVars>>

Byte(j) == (5 * j + 3) % 8
Buffer(length) == [j \in 1..length |-> Byte(j)]

Layout(offset) == [size |-> 9, offset |-> offset, invalStart |-> 7, invalBytes |-> 1]

Channel(type, kind, byte, bit, bits, le, conversion) ==
    [channelType |-> type, kind |-> kind, byte |-> byte, bit |-> bit, bits |-> bits, le |-> le,
     conversion |-> conversion, unreadable |-> FALSE, allInvalid |-> FALSE, hasInvalBit |-> TRUE,
     invalBit |-> bit, array |-> <<>>, shape |-> <<>>, dynamic |-> FALSE]

Signal(channel, offset, cut) ==
    [channel |-> channel, layout |-> Layout(offset), n |-> 2, data |-> Buffer(18 - cut),
     length |-> <<>>, payloads |-> <<>>, members |-> <<>>]

\* A field within the seven bytes of its record, as the format has it.
Sensible(c) ==
    /\ BytesFor(c.byte * ByteBits + c.bit + c.bits) <= 7
    /\ c.kind \in {"string", "bytes", "float"} => c.bit = 0 /\ c.bits % ByteBits = 0
    /\ c.kind = "float" => c.bits \in {Word \div 2, Word}
    /\ c.kind \in {"string", "bytes"} => c.conversion = "none"
    /\ c.bits > 0

FieldSignals ==
    {s \in {Signal(Channel("fixed", k, by, bi, n, le, conv), o, cut) :
               k \in {"uint", "int", "float", "string", "bytes"}, by \in 0..2, bi \in 0..2,
               n \in 1..12, le \in BOOLEAN, conv \in {"none", "linear", "labels"},
               o \in 0..1, cut \in {0, 2}} :
        /\ Sensible(s.channel)
        /\ Len(s.data) < 18 => BytesFor(s.channel.bit + s.channel.bits) = ByteSize(s.channel)}

ElementOf(stride, bits, inverse, offsets) ==
    [kind |-> "int", byte |-> 1, bit |-> 0, bits |-> bits, le |-> TRUE, stride |-> stride,
     inverse |-> inverse, offsets |-> offsets, groups |-> FALSE]

\* The number of elements, of bytes, or the payload of a sample is in the
\* first byte of its record.
AllArraySignals ==
    {[Signal([Channel("fixed", "int", 1, 0, bits, TRUE, conv)
                 EXCEPT !.array = <<ElementOf(stride, bits, inverse, offsets)>>,
                        !.shape = shape, !.dynamic = dyn], 0, 0)
        EXCEPT !.length = <<[byte |-> 0, bit |-> 0, bits |-> 1, le |-> TRUE]>>] :
       bits \in {3, 4}, stride \in 1..2, inverse \in BOOLEAN, dyn \in BOOLEAN,
       offsets \in {<<>>, <<4, 0, 2, 3, 1, 5>>}, shape \in {<<2, 3>>, <<3, 2>>, <<3>>, <<2, 2>>},
       conv \in {"none", "linear"}}

\* The first of the elements that does not fit starts within the record.
Overhangs(s) ==
    LET e == s.channel.array[1]
        last == 2 + (Product(s.channel.shape) - 1) * e.stride
    IN  (e.offsets = <<>> \/ s.channel.dynamic) /\ last < 9 /\ last + BytesFor(e.bits) > 9

ArraySignals == {s \in AllArraySignals : ~Overhangs(s)}

Payloads == <<<<[offset |-> 0, bytes |-> <<4, 0, 1>>], [offset |-> 5, bytes |-> <<7>>]>>>>

OtherSignals ==
    {[Signal(Channel(type, kind, by, 0, bits, TRUE, conv), o, 0)
        EXCEPT !.length = <<[byte |-> 3, bit |-> 1, bits |-> 2, le |-> TRUE]>>, !.payloads = Payloads] :
       type \in {"max length", "variable length"}, kind \in {"string", "bytes"},
       by \in 0..3, bits \in {3, 6, 9}, conv \in {"none", "text keyed"}, o \in 0..1}
    \cup {Signal(Channel("fixed", "string", by, 0, bits, TRUE, "text keyed"), 0, 0) : by \in 0..3, bits \in {3, 6, 9}}
    \cup {Signal(Channel("fixed", "complex", by, 0, bits, le, "none"), 0, 0) :
             by \in 0..1, bits \in {12}, le \in BOOLEAN}
    \cup {Signal(Channel("virtual", "uint", 0, 0, bits, le, conv), 0, 0) :
             bits \in {0, 3}, le \in BOOLEAN, conv \in {"none", "linear", "labels"}}

(***************************************************************************)
(* Tables and formulas.                                                    *)
(***************************************************************************)

Ascending == {k \in [1..3 -> 0..4] : k[1] < k[2] /\ k[2] < k[3]}
Halves == {T!Over(n, 2) : n \in -1..9}

Table(kind, keys, upper, values) ==
    [kind |-> kind, keys |-> keys, upper |-> upper, values |-> values,
     entries |-> [i \in DOMAIN keys |-> T!Label(<<"a", "b", "c">>[i])], default |-> <<T!Label("none")>>]

Tables ==
    {[table |-> Table(kind, keys, keys, values), x |-> x] :
        kind \in {"interpolated", "lookup", "value to text"}, keys \in Ascending,
        values \in {<<0, 5, 3>>, <<4, 4, -1>>}, x \in Halves}
    \cup {[table |-> Table("range to text", keys, <<keys[1] + w, keys[2] + w, keys[3] + v>>, <<>>), x |-> x] :
             keys \in Ascending, w \in 0..1, v \in 1..2, x \in Halves}
    \cup {[table |-> Table("rational", <<>>, <<>>, <<a, b, c, 0, e, f>>), x |-> x] :
             a, b, c, e \in 0..2, f \in 1..2, x \in {T!Whole(1), T!Over(3, 2), T!Whole(-2)}}

Atoms == {T!Number, T!Variable}
Grown(args) ==
    {T!Node(op, <<a>>) : op \in {"neg", "f"}, a \in args}
    \cup {T!Node(op, <<a, b>>) : op \in {"+", "-", "*", "/", "^"}, a, b \in args}
Formulas == Atoms \cup Grown(Atoms \cup Grown(Atoms))

(***************************************************************************)
(* Version 3 files.                                                        *)
(***************************************************************************)

Dg3(next, down, ids, data) == [kind |-> "DG", next |-> next, down |-> down, ids |-> ids, data |-> data]
Cg3(next, down, id, size, cycles) ==
    [kind |-> "CG", next |-> next, down |-> down, id |-> id, size |-> size, cycles |-> cycles]
Cn3(next, start, bits, type, cc) ==
    [kind |-> "CN", next |-> next, start |-> start, bits |-> bits, type |-> type, cc |-> cc, le |-> TRUE]
Cc3(rule) == [kind |-> "CC", next |-> 0, rule |-> rule]
File(blocks, data) == [first |-> 1, blocks |-> blocks, data |-> data]

\* Two groups in one stream, with and without identifiers that tell them apart.
StreamFiles ==
    {File(1 :> Dg3(0, 2, ids, data) @@ 2 :> Cg3(3, 4, 1, 1, c1) @@ 3 :> Cg3(0, 5, b, size, c2)
            @@ 4 :> Cn3(6, 0, 3, "int", 0) @@ 5 :> Cn3(0, 1, 2, "uint", 7) @@ 6 :> Cn3(0, 2, 3, "uint", 0)
            @@ 7 :> Cc3("linear"), 9 :> stream) :
        ids \in 0..2, data \in {0, 9}, b \in 1..2, size \in 1..2, c1 \in 0..2, c2 \in 0..1,
        stream \in UNION {[1..n -> 1..2] : n \in {2, 3, 5, 7}}}
    \cup {File(1 :> Dg3(0, 2, ids, 9) @@ 2 :> Cg3(0, 4, id, size, cycles)
            @@ 4 :> Cn3(0, start, bits, type, cc) @@ 7 :> Cc3(rule), 9 :> Buffer(6)) :
        ids \in {0, 1}, id \in {3, 9}, size \in 0..2, cycles \in {0, 2}, start \in {0, 1, 3},
        bits \in {3, 6}, type \in {"uint", "int", "float", "text", "bytes", "unknown"},
        cc \in {0, 7, 8}, rule \in {"linear", "unsupported", "malformed"}}

\* Three groups and room for two, one channel of them misplaced.
CacheFiles ==
    {File(1 :> Dg3(2, 3, 1, 9) @@ 2 :> Dg3(0, 5, 0, 10)
            @@ 3 :> Cg3(4, 6, 1, 1, 1) @@ 4 :> Cg3(0, 7, 2, 1, 1) @@ 5 :> Cg3(0, 8, 1, 1, 2)
            @@ 6 :> Cn3(7, 0, 3, "uint", 0) @@ 7 :> Cn3(0, 1, bits, "uint", 0) @@ 8 :> Cn3(0, 0, 2, "uint", 11)
            @@ 11 :> Cc3("linear"), 9 :> <<2, 5, 1, 6>> @@ 10 :> <<7, 4>>) : bits \in {2, 3}}

\* Chains that come back, leave the file, or end in another kind of block.
ChainFiles ==
    {File(1 :> Dg3(d1, 3, 0, 0) @@ 2 :> Dg3(d2, 4, ids, 0) @@ 3 :> Cg3(0, c, 1, 0, 0)
            @@ 4 :> Cg3(g4, 5, 1, 0, 0) @@ 5 :> Cn3(n5, 0, bits, "uint", 0) @@ 6 :> Cn3(n6, 0, 3, "uint", 0),
          9 :> <<>>) :
        d1 \in {0, 1, 2, 8}, d2 \in {0, 1, 3}, ids \in {1, 3}, c \in {0, 5}, g4 \in {0, 3, 4},
        n5 \in {0, 5, 6}, n6 \in {0, 5}, bits \in {0, 1}}

(***************************************************************************)
(* Blocks: as long as the format has them, a byte short, and longer.       *)
(***************************************************************************)

Laid(want, links, flags, count, dims, storage) ==
    [want |-> want, kind |-> want, links |-> links, flags |-> flags, count |-> count, dims |-> dims, storage |-> storage]

\* The kinds that stand for one another, and a link to a block of no such kind.
Standing(want) ==
    CASE want = "DT" -> {"DT", "SD", "RD", "DV", "DI"} [] want = "TX" -> {"TX", "MD"} [] OTHER -> {want}
WithKinds(b) == {[b EXCEPT !.kind = k] : k \in Standing(b.want) \cup {"DZ"}}

\* The order the format gives the links of an array, one name for each.
ArrayLinks(b) ==
    LET n == Len(b.dims)
        Of(there, many, name) == IF there THEN [i \in 1..many |-> name] ELSE <<>>
    IN  Of(TRUE, 1, "ca_composition") \o Of(b.storage # "CnTemplate", B!Elements(b), "ca_data")
        \o Of(0 \in b.flags, 3 * n, "ca_dynamic_size") \o Of(1 \in b.flags, 3 * n, "input_quantity")
        \o Of(2 \in b.flags, 3, "output_quantity") \o Of(3 \in b.flags, 3, "comparison_quantity")
        \o Of(4 \in b.flags, n, "ca_axis_conversion") \o Of(4 \in b.flags /\ 5 \notin b.flags, 3 * n, "ca_axis")

ArrayBlocks ==
    UNION {{[b EXCEPT !.links = Len(ArrayLinks(b)) + d] : d \in {-1, 0, 1}} :
              b \in {Laid("CA", 1, flags, 0, dims, storage) : flags \in SUBSET (0..5), dims \in {<<2>>, <<2, 3>>},
                                                             storage \in {"CnTemplate", "CgTemplate", "DgTemplate"}}}

\* The bytes after the links.
BodySize(b) ==
    LET perBlock == 8 + 8 * b.count * Cardinality(b.flags \cap 1..3) + (IF 0 \in b.flags THEN 8 ELSE 8 * b.count)
    IN  CASE b.want \in {"HD", "CG", "EV"} -> 32 [] b.want = "FH" -> 16 [] b.want \in {"DG", "SI", "HL", "CH"} -> 8
          [] b.want = "CN" -> 72 [] b.want = "CC" -> 24 + 8 * b.count [] b.want = "AT" -> 40
          [] b.want \in {"SR", "DZ"} -> 24 [] b.want \in {"DT", "TX"} -> 5
          [] b.want \in {"DL", "LD"} -> perBlock
          [] b.want = "CA" -> 16 + 8 * Len(b.dims) + (IF 5 \in b.flags THEN 8 * B!FoldFunction(+, 0, b.dims) ELSE 0)

FixedBlocks ==
    UNION {WithKinds(Laid(want, links, {}, count, <<>>, "")) :
              want \in B!Kinds \ {"CA", "DL", "LD"}, links \in 0..13, count \in 0..2}
ListBlocks ==
    {Laid(want, links, flags, count, <<>>, "") :
        want \in {"DL", "LD"}, links \in 0..6, flags \in SUBSET {0, 1, 2, 3, 31}, count \in 0..3}

\* The blocks of version 3 in the lengths that make a difference, given in
\* whole, cut short, or with bytes of the next one.
Mdf3Forms ==
    {[want |-> want, kind |-> kind, length |-> length, given |-> given, sound |-> sound] :
        want \in {"ID", "HD", "DG", "CG", "CN", "TX"}, kind \in {"ID", "HD", "DG", "CG", "CN", "TX"},
        length \in {2, 24, 28, 64, 164, 207, 208, 218, 221, 222, 227, 228},
        given \in {3, 4, 23, 24, 25, 26, 63, 64, 164, 173, 174, 208, 218, 222, 228}, sound \in BOOLEAN}

(***************************************************************************)
(* Bus traffic.                                                            *)
(***************************************************************************)

NoMux == [kind |-> "none", by |-> "", ranges |-> {}]
Switch == [NoMux EXCEPT !.kind = "switch"]
Selected(raw) == [NoMux EXCEPT !.kind = "selected", !.ranges = {<<raw, raw>>}]
InRanges(by, ranges) == [kind |-> "range", by |-> by, ranges |-> ranges]

BusSignal(name, start, size, bigEndian, signed, mux) ==
    [name |-> name, start |-> start, size |-> size, bigEndian |-> bigEndian, signed |-> signed, mux |-> mux,
     factor |-> 2, offset |-> 1, table |-> <<>>]

BusFields ==
    {[signal |-> BusSignal("s", start, size, be, signed, NoMux), payload |-> payload] :
        start \in 0..8, size \in 0..13, be \in BOOLEAN, signed \in BOOLEAN,
        payload \in {<<>>, <<5>>, <<6, 3>>, <<1, 6, 4>>, <<3, 0, 7, 5, 2>>}}

\* Three signals, each the byte of its own place, under every multiplexing.
Multiplexings ==
    {NoMux, Switch, Selected(1), Selected(2)}
        \cup {InRanges(by, ranges) : by \in {"a", "b", "c", "missing"}, ranges \in {{<<0, 1>>}, {<<2, 2>>, <<0, 0>>}}}
BusMessages ==
    {[signals |-> <<BusSignal("a", 0, 3, FALSE, FALSE, m1), BusSignal("b", 3, 3, FALSE, FALSE, m2),
                    BusSignal("c", 6, 3, FALSE, FALSE, m3)>>, payload |-> payload] :
        m1, m2, m3 \in Multiplexings, payload \in {<<1, 2, 0>>, <<0, 1, 2>>, <<2, 0, 1>>, <<1, 1>>, <<0, 0, 0>>}}

Id(priority, broadcast, specific, from) ==
    [flag |-> FALSE, priority |-> priority, broadcast |-> broadcast, specific |-> specific, source |-> from]
Ids == {Id(p, b, s, a) : p \in 0..1, b \in BOOLEAN, s, a \in 0..1}
Flagged(id) == [id EXCEPT !.flag = TRUE]
Message(id, signals) == [id |-> id, signals |-> signals]
Matchings == {"exact", "group", "group and source"}
BusLookups ==
    {[db |-> [matching |-> matching, messages |-> <<Message(Flagged(i), <<>>), Message(j, <<>>), Message(k, <<>>)>>],
      id |-> id] :
        matching \in Matchings, i \in Ids, j \in {d \in Ids : d.priority = 0},
        k \in {Id(0, TRUE, 0, 1), Id(1, FALSE, 1, 0)}, id \in Ids}

BusDatabase ==
    [matching |-> "group",
     messages |-> <<Message(Id(0, TRUE, 0, 0), <<BusSignal("a", 0, 3, FALSE, FALSE, Switch),
                                                 [BusSignal("b", 3, 3, FALSE, TRUE, Selected(1))
                                                     EXCEPT !.table = <<<<1, "one">>, <<-2, "two">>, <<1, "uno">>>>]>>),
                    Message(Id(0, FALSE, 0, 0), <<BusSignal("a", 2, 6, TRUE, TRUE, NoMux)>>)>>]

BusGroup(protocol, ids, payloads, lengths, buses, marks, times) ==
    [protocol |-> protocol, hasMaster |-> TRUE, ids |-> ids, times |-> times, payloads |-> payloads,
     lengths |-> lengths, buses |-> buses, marks |-> marks]

Known == {Flagged(Id(0, TRUE, 0, 0)), Id(1, TRUE, 0, 1), Id(0, FALSE, 0, 0), Id(0, TRUE, 1, 0)}
SecondGroups ==
    {<<>>, <<BusGroup("can", <<Id(0, TRUE, 0, 0)>>, <<<<1, 6>>>>, <<>>, <<>>, <<>>, <<0>>)>>,
     <<[BusGroup("lin", <<>>, <<>>, <<>>, <<>>, <<>>, <<>>) EXCEPT !.hasMaster = FALSE]>>}
BusLogs ==
    {<<BusGroup(protocol, <<i, j>>, <<<<1, x, 7>>, <<y, 1>>>>, lengths, buses, marks, times)>> \o second :
        protocol \in {"can", "lin", "eth", "flexray"}, i, j \in Known, x \in {3, 6}, y \in {1, 2},
        lengths \in {<<>>, <<<<2, 9>>>>, <<<<3>>>>}, buses \in {<<>>, <<<<1>>>>, <<<<0, 1>>>>},
        marks \in {<<>>, <<<<1>>>>, <<<<0, 1>>>>}, times \in {<<4, 7>>, <<4>>}, second \in SecondGroups}

MCFiles == StreamFiles \cup CacheFiles \cup ChainFiles

(***************************************************************************)
(* The writer: axes out of order and with equal times, one kind of channel *)
(* for each way a channel is written, and sources whose groups and         *)
(* channels can and cannot be imported.                                    *)
(***************************************************************************)

Kind(type, vlsd, unit, comment, refs) ==
    [type |-> type, vlsd |-> vlsd, unit |-> unit, comment |-> comment, refs |-> refs]

Plain   == Kind("number", FALSE, 0, 0, << >>)
Labeled == Kind("number", FALSE, 2, 7, <<3, 0, 1>>)
Array   == Kind("array", FALSE, 0, 4, << >>)
Blob    == Kind("text", TRUE, 3, 0, << >>)

MCKinds == {Plain, Labeled, Array, Blob}

MCAxes == {<<2, 1, 1>>, <<1>>, << >>}

MCMaskOf(n) == {<< >>} \cup (IF n = 0 THEN {} ELSE {[i \in 1 .. n |-> i = 2]})

Chan(kind, mask, readable) == [kind |-> kind, mask |-> mask, readable |-> readable]

(* A group whose first channel is the master or, without one, a signal;    *)
(* three of its channels have a mask.                                      *)
Imports(master, times, readable) ==
    LET mask == [i \in DOMAIN times |-> i = 1]
    IN  [master |-> master, times |-> times,
         channels |-> <<Chan(Plain, << >>, TRUE), Chan(Labeled, mask, TRUE),
                        Chan(Blob, mask, readable), Chan(Array, [i \in DOMAIN times |-> i = 2], TRUE)>>]

(* One small enough to be edited twice; of two groups one is usable, since *)
(* an import of nothing goes on like an empty writer.                      *)
MCSources ==
    {<<<<[master |-> "usable", times |-> <<1, 0>>,
          channels |-> <<Chan(Plain, << >>, TRUE), Chan(Blob, <<FALSE, TRUE>>, TRUE)>>]>>>>}
    \cup UNION {{<<<<Imports(m, <<0, 2>>, r), Imports(n, <<1>>, TRUE)>>>>,
                <<<<Imports(m, <<1, 1>>, TRUE)>>, <<Imports(n, <<0>>, r)>>>>} :
                  <<m, n>> \in ({"usable", "unusable", "none"} \X {"usable", "unusable", "none"})
                                  \ {<<"unusable", "unusable">>}, r \in BOOLEAN}

-----------------------------------------------------------------------------

NoItem == <<>>

Init ==
    /\ done = FALSE
    /\ task \in Tasks
    /\ \/ task = "field" /\ item \in FieldSignals \cup ArraySignals \cup OtherSignals
       \/ task = "table" /\ item \in Tables
       \/ task = "formula" /\ item \in Formulas
       \/ task = "version 3" /\ item = NoItem
       \/ task = "block" /\ \E blocks \in {FixedBlocks, ListBlocks, ArrayBlocks} :
                                \E b \in blocks, d \in {-1, 0, 8}, room \in {-1, 0} :
                                   LET size == Max({0, B!DataOffset(b) + BodySize(b) + d})
                                   IN  item = b @@ [size |-> size, room |-> size + room]
       \/ task = "block 3" /\ item \in Mdf3Forms
       \/ task = "bus field" /\ item \in BusFields
       \/ task = "bus message" /\ item \in BusMessages
       \/ task = "bus lookup" /\ item \in BusLookups
       \/ task = "bus log" /\ item \in BusLogs
       \/ task = "writer" /\ item = NoItem
    /\ IF task = "version 3" THEN Mdf3Init
       ELSE /\ file = <<>> /\ tree = Declined /\ cache = <<>>
            /\ asked = <<>> /\ reply = Declined /\ reads = 0
    /\ IF task = "writer" THEN WriterInit
       ELSE /\ groups = <<>> /\ next_dg_id = 1 /\ calls = 0 /\ source = <<>> /\ report = {}
            /\ refused = FALSE /\ emitted = <<>>

\* The answers are functions of the item: looking at them is the only step.
LookAt ==
    /\ task \notin {"version 3", "writer"} /\ ~done /\ done' = TRUE
    /\ UNCHANGED <<task, item, mdf3Vars, writerVars>>

Version3 ==
    /\ task = "version 3"
    /\ reads > 0 => file \in CacheFiles
    /\ Mdf3Next
    /\ UNCHANGED <<task, item, done, writerVars>>

\* A bound: nothing is called while the file just written is looked at, since every call
\* but write forgets it and another write does not depend on it.
Writing ==
    /\ task = "writer" /\ emitted = <<>>
    /\ WriterNext /\ UNCHANGED <<task, item, done, mdf3Vars>>

Next == LookAt \/ Version3 \/ Writing

Spec == Init /\ [][Next]_mcVars

-----------------------------------------------------------------------------
(***************************************************************************)
(* Properties.                                                             *)
(***************************************************************************)

\* Bit k of the field that starts at the byte "at" of the buffer: counted from
\* the low end of its first byte, or of its last one when bytes are reversed.
FieldBit(data, at, bit, bits, le, k) ==
    LET q == bit + k
        byte == IF le THEN at + q \div ByteBits
                ELSE at + BytesFor(bit + bits) - 1 - q \div ByteBits
    IN  (data[byte + 1] \div 2 ^ (q % ByteBits)) % 2

FieldValue(data, at, bit, bits, kind, le) ==
    LET Weight(k) == IF kind = "int" /\ k = bits - 1 THEN -(2 ^ k) ELSE 2 ^ k
        sum[k \in 0..bits] ==
            IF k = 0 THEN 0 ELSE sum[k - 1] + FieldBit(data, at, bit, bits, le, k - 1) * Weight(k - 1)
    IN  sum[bits]

Scaled(s, x) == IF s.channel.conversion = "linear" THEN 2 * x + 1 ELSE x

\* The bytes of a field, and whether they are in the buffer.
StartOfField(s, i) == i * 9 + s.layout.offset + s.channel.byte
AllThere(s) == \A i \in 0..1 : StartOfField(s, i) + BytesFor(s.channel.bit + s.channel.bits) <= Len(s.data)
FieldBytes(s, i) == SubSeq(s.data, StartOfField(s, i) + 1, StartOfField(s, i) + BytesFor(s.channel.bits))

UpToZero(bytes) ==
    CHOOSE t \in {SubSeq(bytes, 1, k) : k \in 0..Len(bytes)} :
        /\ \A j \in DOMAIN t : t[j] # 0
        /\ Len(t) < Len(bytes) => bytes[Len(t) + 1] = 0

InText(s, bytes) == IF s.channel.kind = "string" \/ s.channel.conversion = "text keyed"
                    THEN UpToZero(bytes) ELSE bytes

\* The place of the element at given indices, rows first unless inverse.
Index(shape, a, b, inverse) == IF inverse THEN a + b * shape[1] ELSE a * shape[2] + b

ElementOfRow(s, i, j) ==
    LET e == s.channel.array[1]
        shape == s.channel.shape
        place == IF Len(shape) = 1 \/ s.channel.dynamic THEN j
                 ELSE Index(shape, j \div shape[2], j % shape[2], e.inverse)
        at == StartOfField(s, i) + e.byte
                  + IF e.offsets # <<>> /\ ~s.channel.dynamic THEN e.offsets[j + 1] ELSE place * e.stride
    IN  Scaled(s, FieldValue(s.data, at, 0, e.bits, "int", TRUE))

\* What the sample of record i is, read off the definition of the format.
SampleOf(s, i) ==
    LET c == s.channel
        l == s.length[1]
        count == FieldValue(s.data, i * 9 + s.layout.offset + l.byte, l.bit, l.bits, "uint", TRUE)
        payload == {p \in {s.payloads[1][k] : k \in 1..2} :
                       p.offset = FieldValue(s.data, StartOfField(s, i), 0, c.bits, "uint", TRUE)}
        half == Word \div 2
    IN  CASE c.channelType = "virtual" -> <<Scaled(s, i)>>
          [] c.kind = "complex" ->
                 [part \in 1..2 |->
                     FieldValue(s.data, StartOfField(s, i) + (part - 1) * BytesFor(half), 0, half, "uint", c.le)]
          [] c.channelType = "max length" -> SubSeq(FieldBytes(s, i), 1, count)
          [] c.channelType = "variable length" ->
                 IF payload = {} THEN <<>> ELSE InText(s, (CHOOSE p \in payload : TRUE).bytes)
          [] c.array # <<>> ->
                 [j \in 1..(IF c.dynamic THEN count
                            ELSE IF Len(c.shape) = 1 THEN c.shape[1] ELSE c.shape[1] * c.shape[2]) |->
                     ElementOfRow(s, i, j - 1)]
          [] c.kind \in {"string", "bytes"} -> InText(s, FieldBytes(s, i))
          [] OTHER -> <<Scaled(s, FieldValue(s.data, StartOfField(s, i), c.bit, c.bits, c.kind, c.le))>>

\* Where the declared count, shape or bounds do not allow an answer.
CannotAnswer(s) ==
    LET c == s.channel
        l == s.length[1]
        count(i) == FieldValue(s.data, i * 9 + s.layout.offset + l.byte, l.bit, l.bits, "uint", TRUE)
        size == IF Len(c.shape) = 1 THEN c.shape[1] ELSE c.shape[1] * c.shape[2]
        e == c.array[1]
        reach == IF e.offsets # <<>> /\ ~c.dynamic THEN 5 + BytesFor(e.bits) ELSE (size - 1) * e.stride + BytesFor(e.bits)
    IN  \/ c.channelType = "max length" /\ \E i \in 0..1 : count(i) > BytesFor(c.bits)
        \/ c.array # <<>> /\ c.byte + e.byte + reach > s.layout.size
        \/ c.array # <<>> /\ c.dynamic /\ \E i \in 0..1 : count(i) > size

\* Each sample of a channel is the bits its declaration names, in the byte
\* order it names, whichever of the two paths reads them and whatever stands
\* around them; a sample is refused only for bytes that are not there or a
\* count its field has no room for; raw samples differ from physical ones by
\* the conversion alone, and the flags of all samples are the flags of each
\* (values, raw_values, strided_offset, validity).
ChannelsAreTheirFields ==
        LET s == item
            c == s.channel
            answered == AllThere(s) /\ ~CannotAnswer(s)
            Expected(t) == Read([i \in 1..2 |-> SampleOf(t, i - 1)])
            raw == [s EXCEPT !.channel.conversion = "none"]
        IN  /\ Values(s) = IF answered \/ c.channelType = "virtual" THEN Expected(s) ELSE Refused
            /\ c.array = <<>> /\ ~TextKeyed(c) =>
                   RawValues(s) = IF answered \/ c.channelType = "virtual" THEN Expected(raw) ELSE Refused
            /\ Validity(s) = <<[i \in 1..2 |-> IsValid(s, i - 1)]>>
            /\ \A i \in 0..1 : i * 9 + 8 < Len(s.data) =>
                   (IsValid(s, i) <=> FieldBit(s.data, i * 9 + s.layout.offset + 7, 0, 1, TRUE, c.invalBit) = 0)

\* Where the bits of a signal stand, from the one its declaration names on:
\* towards the high end of each byte and of the payload, or, with the high
\* byte first, towards the low end and on with the high end of the next byte.
BitPlaces(s) ==
    LET Next1(bit) == IF s.bigEndian THEN (IF bit % ByteBits = 0 THEN bit + 2 * ByteBits - 1 ELSE bit - 1) ELSE bit + 1
        places[k \in 1..s.size] == IF k = 1 THEN s.start ELSE Next1(places[k - 1])
    IN  places

BitsOf(s, payload) ==
    LET Weight(k) == 2 ^ (IF s.bigEndian THEN s.size - k ELSE k - 1)
        Bit(place) == (payload[1 + place \div ByteBits] \div 2 ^ (place % ByteBits)) % 2
    IN  B!FoldFunction(+, 0, [k \in 1..s.size |-> Bit(BitPlaces(s)[k]) * Weight(k)])

Transmitted(s, payload) ==
    /\ s.size \in 1..Word
    /\ \A k \in 1..s.size : BitPlaces(s)[k] < ByteBits * Len(payload)

BusFieldIsItsBits ==
    LET s == item.signal IN U!RawValue(s, item.payload) = IF Transmitted(s, item.payload) THEN {BitsOf(s, item.payload)} ELSE {}

\* What decides over a signal: its own multiplexor, that one's, and so on.
Above(signals, s) ==
    LET over[k \in 0..Len(signals)] ==
            IF k = 0 THEN {s}
            ELSE over[k - 1] \cup UNION {U!Multiplexor(signals, t.mux) : t \in {u \in over[k - 1] : u.mux.kind \notin {"none", "switch"}}}
    IN  over[Len(signals)]

Decides(signals, by, s, payload) ==
    \E r \in s.mux.ranges : by \in U!Multiplexor(signals, s.mux) /\ Transmitted(by, payload) /\ BitsOf(by, payload) \in r[1]..r[2]

IsRoot(s) == s.mux.kind \in {"none", "switch"}

\* A signal is in a payload when everything above it is and says so, up to
\* one that is in all of them; a message whose multiplexors cannot be followed
\* to such a one is refused with its database, unless a switch is missing.
SignalsAreWhereTheirSwitchesSay ==
    LET signals == item.signals
        payload == item.payload
    IN  /\ \A i \in DOMAIN signals :
               U!Present(signals, signals[i], payload) <=>
                   /\ \E root \in Above(signals, signals[i]) : IsRoot(root)
                   /\ \A s \in Above(signals, signals[i]) :
                          IsRoot(s) \/ \E by \in Above(signals, signals[i]) : Decides(signals, by, s, payload)
        /\ U!IsValidGraph(signals) <=>
               /\ \A i \in DOMAIN signals : signals[i].mux.kind = "range" => signals[i].mux.by # "missing"
               /\ \A i \in DOMAIN signals :
                      \E s \in Above(signals, signals[i]) : IsRoot(s) \/ U!Multiplexor(signals, s.mux) = {}

\* The message of a frame carries its identifier, when one does; otherwise it
\* is of the frame's group, and of its source when one of the group is and
\* the source matters; of several of a group it is the first.
FramesFindTheirMessage ==
    LET messages == item.db.messages
        Like(m, exact, alike) ==
            LET id == messages[m].id
            IN  /\ id.broadcast = item.id.broadcast
                /\ id.broadcast \/ exact => id.specific = item.id.specific
                /\ alike \/ exact => id.source = item.id.source
                /\ exact => id.priority = item.id.priority
        Best(m) ==
            IF \E n \in DOMAIN messages : Like(n, TRUE, TRUE) THEN Like(m, TRUE, TRUE)
            ELSE LET bySource == /\ item.db.matching = "group and source"
                                 /\ \E n \in DOMAIN messages : Like(n, FALSE, TRUE)
                 IN  /\ item.db.matching # "exact" /\ Like(m, FALSE, bySource)
                     /\ \A n \in 1..(m - 1) : ~Like(n, FALSE, bySource)
        found == U!MessageIndex(item.db, item.id)
    IN  IF \E m \in DOMAIN messages : Best(m) THEN found # {} /\ \A m \in found : Best(m) ELSE found = {}

\* The readings of one signal on one bus: those of the frames of its message
\* that hold it, in the order of the frames.
Carrying(frames, bus, m, k) ==
    LET message == BusDatabase.messages[m]
        Held(f) == /\ f.bus = bus /\ m \in U!MessageIndex(BusDatabase, f.id)
                   /\ U!Present(message.signals, message.signals[k], f.data)
                   /\ Transmitted(message.signals[k], f.data)
    IN  U!SelectSeq(frames, Held)

SeriesAreTheirFrames(protocol) ==
    LET logs == U!SelectSeq(item, LAMBDA g : g.protocol = protocol)
        out == U!DecodeSignals(BusDatabase, item, protocol)
        frames == U!FlattenSeq([g \in DOMAIN logs |-> U!ReadFrames(logs[g]).frames])
        Signed(s, raw) == IF s.signed /\ raw >= 2 ^ (s.size - 1) THEN raw - 2 ^ s.size ELSE raw
        ValueOf(s, f) == Signed(s, BitsOf(s, f.data)) * s.factor + s.offset
        LabelOf(s, f) == LET key == Signed(s, BitsOf(s, f.data))
                         IN  CASE key = 1 -> <<"one">> [] key = -2 -> <<"two">> [] OTHER -> <<>>
        Expected(bus, m, k) ==
            LET c == Carrying(frames, bus, m, k)
                s == BusDatabase.messages[m].signals[k]
            IN  IF c = <<>> THEN {}
                ELSE {[key |-> <<bus, m, k>>, times |-> [i \in DOMAIN c |-> c[i].time],
                       values |-> [i \in DOMAIN c |-> ValueOf(s, c[i])],
                       texts |-> IF s.table = <<>> THEN <<>> ELSE <<[i \in DOMAIN c |-> LabelOf(s, c[i])]>>]}
        series == UNION {Expected(bus, c[1], c[2]) : bus \in 0..1, c \in {<<1, 1>>, <<1, 2>>, <<2, 1>>}}
    IN  out.read => /\ {out.frames[i] : i \in DOMAIN out.frames} = series
                    /\ Len(out.frames) = Cardinality(series)

\* A frame is of one record: what it says of its time, its identifier, its
\* payload and its length stands at one place of the columns it has.
FramesAreOfOneRecord(g) ==
    LET r == U!ReadFrames(g)
        logged == {i \in DOMAIN g.ids : (g.lengths = <<>> \/ i \in DOMAIN g.lengths[1])
                                        /\ (g.protocol # "flexray" \/ g.marks = <<>> \/ i \in DOMAIN g.marks[1])}
        IsOf(f, i) == /\ f.time = g.times[i] /\ f.id = [g.ids[i] EXCEPT !.flag = FALSE]
                      /\ Len(f.data) = IF g.lengths = <<>> \/ g.lengths[1][i] > Len(g.payloads[i])
                                       THEN Len(g.payloads[i]) ELSE g.lengths[1][i]
                      /\ \A j \in DOMAIN f.data : f.data[j] = g.payloads[i][j]
    IN  /\ r.read => /\ Len(r.frames) = Cardinality(logged)
                     /\ \A i \in logged : IsOf(r.frames[Cardinality({j \in logged : j <= i})], i)
        /\ g.hasMaster /\ Len(g.times) = Len(g.ids) /\ Len(g.payloads) = Len(g.ids)
               /\ g.lengths # <<>> /\ Len(g.lengths[1]) = Len(g.ids)
               /\ (g.protocol = "eth" => \A c \in {g.marks, g.buses} : c = <<>> \/ Len(c[1]) = Len(g.ids)) => r.read

\* A reading, of a channel or of a signal on a bus, is the bits its
\* declaration names in the record or frame it is of, and nothing else.
SamplesAreTheirFields ==
    /\ task = "field" /\ done => ChannelsAreTheirFields
    /\ task = "bus field" /\ done => BusFieldIsItsBits
    /\ task = "bus message" /\ done => SignalsAreWhereTheirSwitchesSay
    /\ task = "bus lookup" /\ done => FramesFindTheirMessage
    /\ task = "bus log" /\ done =>
           /\ \A g \in DOMAIN item : FramesAreOfOneRecord(item[g])
           /\ \A protocol \in {"can", "lin"} : SeriesAreTheirFrames(protocol)

\* On keys that ascend both versions interpolate on the line between the two
\* neighbours of a value, and hold the ends beyond them; both look up the
\* nearest key, the lower of two; both compute the same quotient of parabolas
\* wherever there is one; and a range that alone holds a value names it
\* (interpolate and nearest of blocks/conversion.rs and mdf3/conversions.rs).
TablesAgree ==
    LET t == item.table
        x == item.x
        n == Len(t.keys)
        four == T!Convert(t, x, FALSE)
        three == T!Convert3(t, x)
        OnLine(y) ==
            \A i \in 1..(n - 1) :
                T!AtLeast(x, t.keys[i]) /\ T!AtMost(x, t.keys[i + 1]) =>
                    (y.n - t.values[i] * y.d) * (t.keys[i + 1] - t.keys[i]) * x.d
                        = (t.values[i + 1] - t.values[i]) * (x.n - t.keys[i] * x.d) * y.d
        holding == {i \in 1..n : T!AtLeast(x, t.keys[i]) /\ T!AtMost(x, t.upper[i])}
        only == CHOOSE i \in holding : TRUE
    IN  CASE t.kind = "interpolated" ->
                 /\ four = three /\ OnLine(four)
                 /\ T!AtMost(x, t.keys[1]) => four = T!Whole(t.values[1])
                 /\ T!AtLeast(x, t.keys[n]) => four = T!Whole(t.values[n])
          [] t.kind = "lookup" ->
                 /\ four = three
                 /\ \E i \in 1..n :
                        /\ four = T!Whole(t.values[i])
                        /\ \A j \in 1..n : T!Distance(x, t.keys[i]) <= T!Distance(x, t.keys[j])
                        /\ \A j \in 1..(i - 1) : T!Distance(x, t.keys[i]) < T!Distance(x, t.keys[j])
          [] t.kind = "rational" -> four.d > 0 => four = three
          [] t.kind = "value to text" ->
                 T!ConvertText(t, x, FALSE) = T!Text(T!ConvertText3(t, x))
                     \/ (T!ConvertText3(t, x) = "" /\ \A i \in 1..n : ~T!Same(x, t.keys[i]))
          [] t.kind = "range to text" ->
                 /\ holding = {} => T!ConvertText3(t, x) = "none"
                 /\ Cardinality(holding) = 1 => T!ConvertText3(t, x) = t.entries[only].label
                 /\ Cardinality(holding) = 1 => T!ConvertText(t, x, FALSE) = T!Text(t.entries[only].label)

\* A formula means what it says: written with as few parentheses as arithmetic
\* allows, it parses to the tree it was written from (Expr::parse).
FormulaReadsAsWritten == LET e == T!Parse(T!Spelled(item, 1)) IN e.ok /\ e.tree = item

\* Physical values are what the conversion's table or formula says.
PhysicalIsByItsRule ==
    /\ task = "table" /\ done => TablesAgree
    /\ task = "formula" /\ done => FormulaReadsAsWritten

SumWidths(sections) == B!FoldFunction(+, 0, [s \in sections |-> s.width])
Apart(sections) == \A s, t \in sections : s = t \/ B!End(s) <= t.at \/ B!End(t) <= s.at
Tile(sections, from, to) ==
    /\ Apart(sections)
    /\ \A s \in sections : from <= s.at /\ B!End(s) <= to
    /\ SumWidths(sections) = to - from

\* A block long enough for what its flags and counts announce, with the links
\* its kind has. Attachments beyond the first are taken for a default X axis,
\* which with one or two links too few reaches into the data.
HasItsLinks(b) == b.links >= Len(B!LinkNames[b.want]) /\ ~(b.want = "CN" /\ b.links \in 10..11)
                  /\ (b.want \in {"DZ", "DT", "TX"} => b.links = 0)
                  /\ (b.want = "LD" => b.links = 1 + b.count * (IF 31 \in b.flags THEN 2 ELSE 1))

\* The names of the links of a block: the block map's, and the format's order
\* where the map has one name for several.
LinkOrder(b) ==
    CASE b.want = "CA" -> ArrayLinks(b)
      [] b.want = "LD" -> <<"ld_next">> \o [i \in 1..(b.links - 1) |-> IF i <= b.count THEN "ld_data" ELSE "ld_invalidation"]
      [] b.want = "CN" -> [i \in 1..b.links |-> IF i < 10 THEN B!LinkLabel("CN", i - 1) ELSE "default_x"]
      [] OTHER -> [i \in 1..b.links |-> B!LinkLabel(b.want, i - 1)]

\* Every link taken for one kind of reference is one of that kind.
LinksInOrder(b, links) ==
    LET order == LinkOrder(b)
    IN  \A s \in links : \A i \in (s.at - 24) \div 8 .. (B!End(s) - 24) \div 8 - 1 : i < Len(order) => order[i + 1] = s.name

\* What the writer would write of the kind, with the links and values of b.
WritersOf(b) ==
    CASE b.want = "HD" -> {B!WriteHd} [] b.want = "FH" -> {B!WriteFh} [] b.want = "DG" -> {B!WriteDg}
      [] b.want = "CG" -> {B!WriteCg} [] b.want = "CN" -> {B!WriteCn} [] b.want = "CA" -> {B!WriteCa(Len(b.dims))}
      [] b.want = "CC" -> {B!WriteCc(b.links - 4, b.count)} [] b.want = "TX" -> {B!WriteTx(b.size - 25)}
      [] b.want = "DT" -> {B!WriteData(b.size - 24)} [] b.want = "DZ" -> {B!WriteDz(0)} [] b.want = "HL" -> {B!WriteHl}
      [] b.want = "DL" /\ b.flags = {0} /\ b.count = 1 -> {B!WriteDl} [] OTHER -> {}

WriterAgrees(b, r) ==
    LET Told(sections) == {s \in sections : s.name # "reserved"}
    IN  \A w \in WritersOf(b) :
            b.flags \subseteq {0} /\ (b.want = "CA" => b.flags = {}) /\ b.links = w.count /\ b.size = w.size =>
                /\ r.read
                /\ UNION {B!Laid(s.at, [i \in 1..(s.width \div 8) |-> <<s.name, 8>>]) : s \in r.links} = w.links
                /\ Told(r.fields) = Told(w.fields)
                /\ SumWidths(w.links \cup w.fields) = w.size - 24

\* The bytes that a block of version 3 must have been given.
Ends3(b) ==
    CASE b.want = "ID" -> 64 [] b.want = "DG" -> 24 [] b.want = "CG" -> 26
      [] b.want = "TX" -> Max({4, Min({b.length, b.given})})
      [] b.want = "HD" -> IF b.length < 208 \/ b.given < 174 THEN 164 ELSE 174
      [] b.want = "CN" -> IF b.length < 222 THEN 218 ELSE IF b.length < 228 THEN 222 ELSE 228

Version3AsLaidOut(b) ==
    LET r == B!Parse3(b)
        last == IF b.want = "ID" THEN 32 ELSE Ends3(b)
        accepted ==
            /\ b.kind = b.want
            /\ b.given >= Ends3(b)
            /\ b.sound \/ b.want \notin {"ID", "DG", "CN"}
            /\ b.length >= 4 \/ b.want # "TX"
    IN  /\ r.read <=> accepted
        /\ r.read => Tile(r.fields \cup (IF b.want \in {"DG", "CG"} THEN {B!Section("length", 2, 2)} ELSE {}), 0, last)

\* A block is accepted when and only when it is of the kind looked for and it
\* and the file have room for what its counts and flags announce; its links
\* are read from its links and its fields from its data, none twice and none
\* left out between two others; each reference of an array, a list or a
\* channel is the one the format's order puts there; what the writer writes is
\* read back at the places where it was put; and the forms of a version 3
\* block have no hole and no overlap but for the lengths nobody needs
\* (ParseBlock of each kind, write_hd to write_cc, mdf3/blocks.rs).
BlocksReadAsLaidOut ==
    /\ task = "block" /\ done /\ HasItsLinks(item) =>
        LET b == item
            r == B!Parse(b)
            start == B!DataOffset(b)
            exact == start + BodySize(b)
            anyLength == b.want \in {"DT", "TX"}
        IN  /\ r.read <=> b.kind \in Standing(b.want) /\ b.size <= b.room
                              /\ (IF anyLength THEN b.size >= 24 ELSE exact <= b.size)
            /\ r.read =>
                   /\ Apart(r.links) /\ \A s \in r.links : 24 <= s.at /\ B!End(s) <= start
                   /\ LinksInOrder(b, r.links)
                   /\ Tile(r.fields, start, IF anyLength THEN b.size ELSE exact)
            /\ b.kind \in Standing(b.want) /\ b.room = b.size => WriterAgrees(b, r)
    /\ task = "block 3" /\ done =>
        /\ Version3AsLaidOut(item)
        /\ \A signature \in {"MDF", "UnFinMF"} :
               /\ Tile(B!IdBlock(signature, 64), 0, 64)
               /\ B!WriteId \cup B!SummaryId \subseteq B!IdBlock(signature, 64)

\* "One line describing what a block's own fields say" (inspect.rs:502): what
\* the line of a block says is what the reader of the block finds there.
SummaryReadsTheFields ==
    task = "block" /\ done /\ HasItsLinks(item) /\ B!Parse(item).read =>
        /\ B!Summarize(item) \subseteq B!Parse(item).fields
        /\ \A s \in B!Summarize(item) : s.name \in DOMAIN B!Codes =>
               \A v \in 0..15 : B!Decoded(B!SummaryCodes[s.name], v) = B!Decoded(B!Codes[s.name], v)
=============================================================================

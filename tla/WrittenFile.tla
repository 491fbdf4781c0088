----------------------------- MODULE WrittenFile -----------------------------
(***************************************************************************)
(* What src/src/write.rs emits for a list of channel groups, and what a    *)
(* reader finds who follows the links: the layout pass that assigns every  *)
(* offset, the pass that emits the blocks, and the records inside.         *)
(*                                                                         *)
(* A cell is the unit of record data: the master, one element of a number, *)
(* a VLSD offset or one byte of text.  Block sizes are those of the code   *)
(* with data counted in cells.  A cell is a triple of numbers, <<channel,  *)
(* sample, element>> for what was measured and <<0, n, tag>> for a number  *)
(* the writer made up.                                                     *)
(***************************************************************************)
EXTENDS Integers, FiniteSets, Sequences, SequencesExt

CONSTANTS
    FlagsPerByte,   \* invalidation bits that fit one byte of a record: 8
    RecordIds       \* values a record ID of one byte can have: 256

ASSUME LayoutAssumption ==
    FlagsPerByte \in Nat \ {0} /\ RecordIds \in Nat \ {0}

Number(n) == <<0, n, 0>>
Padding   == <<0, 0, 1>>

SumOf(n, F(_)) ==
    LET total[k \in 0 .. n] == IF k = 0 THEN 0 ELSE total[k - 1] + F(k) IN total[n]

(* Block sizes of write.rs.                                                *)
ID == 64
HD == 104
FH == 56
DG == 64
CG == 104
CN == 160
DT == 24
SD == 24
HL == 40
DL == 56
DZ == 48
TX(len)      == 24 + len + 1
TxIf(len)    == IF len = 0 THEN 0 ELSE TX(len)
CA           == 48 + 8
CC(refs)     == 24 + (4 + Len(refs)) * 8 + 24 + 8
NameLen      == 5
FhTextLen    == 30
Packed(n)    == (n + 1) \div 2    \* what a compressed stream of n cells takes
-----------------------------------------------------------------------------
(* SampleFormat::of, record_width: a text is as wide as its longest sample *)
(* and at least one byte.                                                  *)
RecordWidth(c) ==
    IF c.vlsd THEN 1
    ELSE LET longest == {Len(c.values[i]) : i \in DOMAIN c.values} \cup {1}
         IN  IF c.type = "text" THEN CHOOSE w \in longest : \A v \in longest : v <= w
             ELSE IF c.type = "array" THEN 2 ELSE 1

DataBytes(g)     == 1 + SumOf(Len(g.channels), LAMBDA c : RecordWidth(g.channels[c]))

(* Mutant: every channel before this one is taken for one element wide.    *)
OffsetOfElement(g, c) == 1 + SumOf(c - 1, LAMBDA d : 1)

(* byte_offsets, behind the master.                                        *)
ByteOffset(g, c) == 1 + SumOf(c - 1, LAMBDA d : RecordWidth(g.channels[d]))

MaskedBefore(g, c) == Cardinality({d \in 1 .. c - 1 : g.channels[d].masked})
InvalBytes(g) ==
    (MaskedBefore(g, Len(g.channels) + 1) + FlagsPerByte - 1) \div FlagsPerByte

(* inval_bit_indices: -1 for a channel written as wholly valid.            *)
InvalBit(g, c) == IF g.channels[c].masked THEN MaskedBefore(g, c) ELSE -1

RecordSize(g) == DataBytes(g) + InvalBytes(g)

(* build_sd_data: the samples in the order they were given, each behind    *)
(* its length, and where each begins.                                      *)
SdOffset(c, i) == SumOf(i - 1, LAMBDA j : 1 + Len(c.values[j]))
SdData(c) ==
    FlattenSeq([i \in DOMAIN c.values |-> <<Number(Len(c.values[i]))>> \o c.values[i]])

(* SampleFormat::encode: padded, or cut off, to the record width.          *)
Encode(c, i) ==
    IF c.vlsd THEN <<Number(SdOffset(c, i))>>
    ELSE [e \in 1 .. RecordWidth(c) |->
            IF e <= Len(c.values[i]) THEN c.values[i][e] ELSE Padding]

(* The invalidation bytes of sample i: byte b as the number its set bits   *)
(* make; a set bit means invalid.                                          *)
Flags(g, i) ==
    [b \in 1 .. InvalBytes(g) |->
        Number(SumOf(Len(g.channels), LAMBDA c :
            IF /\ InvalBit(g, c) \in (b - 1) * FlagsPerByte .. b * FlagsPerByte - 1
               /\ ~g.channels[c].valid[i]
            THEN 2 ^ (InvalBit(g, c) % FlagsPerByte) ELSE 0))]

Record(g, i) ==
    <<Number(g.times[i])>>
    \o FlattenSeq([c \in DOMAIN g.channels |-> Encode(g.channels[c], i)])
    \o Flags(g, i)

(* record_bytes and record_bytes_multi: the records of all groups of a     *)
(* data group by time, those of one time by group and then by sample;      *)
(* several groups put a one-byte record ID in front.                       *)
Earlier(gs, x, y) ==
    LET tx == gs[x[1]].times[x[2]]
        ty == gs[y[1]].times[y[2]]
    IN  \/ tx < ty
        \/ tx = ty /\ x[1] < y[1]
        \/ tx = ty /\ x[1] = y[1] /\ x[2] < y[2]

SampleOrder(gs) ==
    LET refs == UNION {{<<g, i>> : i \in DOMAIN gs[g].times} : g \in DOMAIN gs}
    IN  [k \in 1 .. Cardinality(refs) |->
            CHOOSE x \in refs : Cardinality({y \in refs : Earlier(gs, y, x)}) = k - 1]

RecordBytes(gs) ==
    LET order == SampleOrder(gs)
    IN  FlattenSeq([k \in DOMAIN order |->
            (IF Len(gs) > 1 THEN <<Number(order[k][1] % RecordIds)>> ELSE << >>)
            \o Record(gs[order[k][1]], order[k][2])])

(* transpose, and un_transpose of the reader: column by column over the    *)
(* whole records, the rest as it is.                                       *)
Transpose(raw, width) ==
    LET lines == Len(raw) \div width
    IN  [k \in DOMAIN raw |->
            IF k > lines * width THEN raw[k]
            ELSE raw[((k - 1) % lines) * width + (k - 1) \div lines + 1]]

UnTranspose(data, width) ==
    LET lines == Len(data) \div width
    IN  [k \in DOMAIN data |->
            IF k > lines * width THEN data[k]
            ELSE data[((k - 1) % width) * lines + (k - 1) \div width + 1]]
-----------------------------------------------------------------------------
(* The blocks.                                                             *)
Block(kind, size, links, nums, cells) ==
    [kind |-> kind, size |-> size, links |-> links, nums |-> nums, cells |-> cells]

TxBlock(c, which, len) ==
    IF len = 0 THEN << >> ELSE <<Block("TX", TX(len), << >>, << >>, <<<<c.name, 0, which>>>>)>>

(* Mutant: the region of a channel is laid out without its comment.        *)
CcAtPastTheUnit(c) == CN + TX(NameLen) + TxIf(c.unit)

(* ChannelLayout::new: how far into the channel's region each of its       *)
(* blocks lands; size is the whole region.                                 *)
CcAt(c) == CN + TX(NameLen) + TxIf(c.unit) + TxIf(c.comment)
CaAt(c) ==
    CcAt(c) + (IF c.conv THEN CC(c.refs) + SumOf(Len(c.refs), LAMBDA k : TxIf(c.refs[k])) ELSE 0)
SdAt(c)   == CaAt(c) + (IF c.shaped THEN CA ELSE 0)
SizeOf(c) == SdAt(c) + (IF c.vlsd THEN SD + Len(SdData(c)) ELSE 0)

(* The implicit master, as the channel it is laid out as.                  *)
Master ==
    [name |-> 0, type |-> "number", unit |-> 1, comment |-> 0, conv |-> FALSE, refs |-> << >>,
     vlsd |-> FALSE, shaped |-> FALSE, masked |-> FALSE, values |-> << >>, valid |-> << >>]

(* write_cn and the blocks behind it, for the channel at offset o.         *)
ChannelBlocks(c, o, next, offset, bit) ==
    LET refAt(k) == o + CcAt(c) + CC(c.refs) + SumOf(k - 1, LAMBDA j : TxIf(c.refs[j]))
    IN  <<Block("CN", CN,
            <<next, IF c.shaped THEN o + CaAt(c) ELSE 0, o + CN,
              IF c.conv THEN o + CcAt(c) ELSE 0, IF c.vlsd THEN o + SdAt(c) ELSE 0,
              IF c.unit = 0 THEN 0 ELSE o + CN + TX(NameLen),
              IF c.comment = 0 THEN 0 ELSE o + CN + TX(NameLen) + TxIf(c.unit)>>,
            <<offset, IF c.type = "text" /\ ~c.vlsd THEN RecordWidth(c) ELSE 1, bit>>, << >>)>>
        \o TxBlock(c, 1, NameLen) \o TxBlock(c, 2, c.unit) \o TxBlock(c, 3, c.comment)
        \o (IF c.conv
            THEN <<Block("CC", CC(c.refs),
                         [k \in DOMAIN c.refs |-> IF c.refs[k] = 0 THEN 0 ELSE refAt(k)],
                         << >>, << >>)>>
                 \o FlattenSeq([k \in DOMAIN c.refs |-> TxBlock(c, 3 + k, c.refs[k])])
            ELSE << >>)
        \o (IF c.shaped THEN <<Block("CA", CA, << >>, <<2>>, << >>)>> ELSE << >>)
        \o (IF c.vlsd THEN <<Block("SD", SD + Len(SdData(c)), << >>, << >>, SdData(c))>>
            ELSE << >>)

AllChannels(g) == <<Master>> \o g.channels

(* A channel group at offset o: the CG block and its channels.             *)
ChannelAt(g, o, k) == o + CG + SumOf(k - 1, LAMBDA j : SizeOf(AllChannels(g)[j]))
GroupSize(g)       == ChannelAt(g, 0, Len(g.channels) + 2)

GroupBlocks(g, o, next, id) ==
    <<Block("CG", CG, <<next, ChannelAt(g, o, 1)>>,
            <<id, Len(g.times), DataBytes(g), InvalBytes(g)>>, << >>)>>
    \o FlattenSeq([k \in 1 .. Len(g.channels) + 1 |->
          ChannelBlocks(AllChannels(g)[k], ChannelAt(g, o, k),
                        IF k > Len(g.channels) THEN 0 ELSE ChannelAt(g, o, k + 1),
                        IF k = 1 THEN 0 ELSE ByteOffset(g, k - 1),
                        IF k = 1 THEN -1 ELSE InvalBit(g, k - 1))])

(* Payload::build and write_payload: plain, or behind a header list and a  *)
(* data list; a transposed codec needs records of one size.                *)
CodecRefused(gs, codec) == codec = "transposed" /\ Len(gs) > 1

PayloadSize(gs, codec) ==
    IF codec = "plain" THEN DT + Len(RecordBytes(gs))
    ELSE HL + DL + DZ + Packed(Len(RecordBytes(gs)))

PayloadBlocks(gs, o, codec) ==
    LET raw == RecordBytes(gs)
        width == IF codec = "transposed" THEN RecordSize(gs[1]) ELSE 0
    IN  IF codec = "plain" THEN <<Block("DT", DT + Len(raw), << >>, << >>, raw)>>
        ELSE <<Block("HL", HL, <<o + HL>>, << >>, << >>),
               Block("DL", DL, <<0, o + HL + DL>>, <<Len(raw)>>, << >>),
               Block("DZ", DZ + Packed(Len(raw)), << >>, <<width, Len(raw)>>,
                     IF width = 0 THEN raw ELSE Transpose(raw, width))>>

(* Mf4Writer::write: data groups in the order their first channel group    *)
(* appears in, each with its channel groups in order.                      *)
DataGroups(groups) ==
    LET firsts == SelectSeq([k \in DOMAIN groups |-> k],
                            LAMBDA k : \A j \in 1 .. k - 1 : groups[j].dg # groups[k].dg)
    IN  [d \in DOMAIN firsts |->
            SelectSeq(groups, LAMBDA g : g.dg = groups[firsts[d]].dg)]

Emitted(groups, codec) ==
    LET dgs == DataGroups(groups)
        CgAt(gs, o, k) == o + DG + SumOf(k - 1, LAMBDA j : GroupSize(gs[j]))
        DataAt(gs, o)  == CgAt(gs, o, Len(gs) + 1)
        DgAt(d) == ID + HD + FH + TX(FhTextLen)
                   + SumOf(d - 1, LAMBDA e : DataAt(dgs[e], 0) + PayloadSize(dgs[e], codec))
        DgBlocks(d) ==
            LET gs == dgs[d]
                o  == DgAt(d)
            IN  <<Block("DG", DG, <<IF d = Len(dgs) THEN 0 ELSE DgAt(d + 1),
                                    CgAt(gs, o, 1), DataAt(gs, o)>>,
                        <<IF Len(gs) > 1 THEN 1 ELSE 0>>, << >>)>>
                \o FlattenSeq([k \in DOMAIN gs |->
                      GroupBlocks(gs[k], CgAt(gs, o, k),
                                  IF k = Len(gs) THEN 0 ELSE CgAt(gs, o, k + 1),
                                  IF Len(gs) > 1 THEN k ELSE 0)])
                \o PayloadBlocks(gs, DataAt(gs, o), codec)
    IN  <<Block("ID", ID, << >>, << >>, << >>),
          Block("HD", HD, <<IF dgs = << >> THEN 0 ELSE DgAt(1), ID + HD>>, << >>, << >>),
          Block("FH", FH, <<0, ID + HD + FH>>, << >>, << >>),
          Block("TX", TX(FhTextLen), << >>, << >>, << >>)>>
        \o FlattenSeq([d \in DOMAIN dgs |-> DgBlocks(d)])
-----------------------------------------------------------------------------
(* The reader of src/src/file.rs, as far as these blocks go.               *)
RECURSIVE StartsFrom(_, _, _)
StartsFrom(file, k, off) ==
    IF k > Len(file) THEN << >> ELSE <<off>> \o StartsFrom(file, k + 1, off + file[k].size)
Starts(file) == StartsFrom(file, 1, 0)

(* The blocks by the offsets they begin at.                                *)
ByOffset(file) ==
    LET starts == Starts(file)
    IN  [off \in ToSet(starts) |-> file[CHOOSE k \in DOMAIN file : starts[k] = off]]

RECURSIVE BlocksAfter(_, _)
BlocksAfter(at, off) == IF off = 0 THEN << >> ELSE <<at[off]>> \o BlocksAfter(at, at[off].links[1])

DataOf(at, off) ==
    IF at[off].kind = "DT" THEN at[off].cells
    ELSE LET dz == at[at[at[off].links[1]].links[2]]
         IN  IF dz.nums[1] = 0 THEN dz.cells ELSE UnTranspose(dz.cells, dz.nums[1])

(* The records of one channel group out of the data: all of them, or those *)
(* behind its record ID.                                                   *)
RECURSIVE Demultiplexed(_, _, _)
Demultiplexed(cells, cgs, id) ==
    IF cells = << >> THEN << >>
    ELSE LET cg   == CHOOSE g \in ToSet(cgs) : g.nums[1] = cells[1][2]
             size == cg.nums[3] + cg.nums[4]
             rest == Demultiplexed(SubSeq(cells, size + 2, Len(cells)), cgs, id)
         IN  IF cg.nums[1] = id THEN <<SubSeq(cells, 2, size + 1)>> \o rest ELSE rest

RecordsOf(dg, data, cgs, cg) ==
    IF dg.nums[1] = 1 THEN Demultiplexed(data, cgs, cg.nums[1])
    ELSE LET size == cg.nums[3] + cg.nums[4]
         IN  [k \in 1 .. cg.nums[2] |-> SubSeq(data, (k - 1) * size + 1, k * size)]

(* One sample of a channel: its cells in the record, or in the ##SD block  *)
(* at the offset the record holds, without the padding.                    *)
ReadSample(at, cg, cn, record) ==
    LET from  == cn.nums[1] + 1
        width == IF cn.links[2] # 0 THEN at[cn.links[2]].nums[1] ELSE cn.nums[2]
        sd    == at[cn.links[5]].cells
        there == record[from][2]
        byte  == record[cg.nums[3] + cn.nums[3] \div FlagsPerByte + 1][2]
    IN  [value |-> SelectSeq(IF cn.links[5] # 0
                             THEN SubSeq(sd, there + 2, there + 1 + sd[there + 1][2])
                             ELSE SubSeq(record, from, from + width - 1),
                             LAMBDA x : x # Padding),
         valid |-> cn.nums[3] = -1 \/ (byte \div 2 ^ (cn.nums[3] % FlagsPerByte)) % 2 = 0]

TextAt(at, off) == IF off = 0 THEN << >> ELSE at[off].cells

ReadBack(file) ==
    LET at  == ByOffset(file)
        dgs == BlocksAfter(at, at[ID].links[1])
        Group(dg, cgs, cg) ==
            LET records == RecordsOf(dg, DataOf(at, dg.links[3]), cgs, cg)
                cns     == BlocksAfter(at, cg.links[2])
            IN  [times |-> [i \in DOMAIN records |-> records[i][1][2]],
                 channels |-> [c \in 1 .. Len(cns) - 1 |->
                    LET cn == cns[c + 1]
                    IN  [texts |-> <<TextAt(at, cn.links[3]), TextAt(at, cn.links[6]),
                                     TextAt(at, cn.links[7])>>,
                         refs  |-> IF cn.links[4] = 0 THEN << >>
                                   ELSE [k \in DOMAIN at[cn.links[4]].links |->
                                           TextAt(at, at[cn.links[4]].links[k])],
                         samples |-> [i \in DOMAIN records |->
                                        ReadSample(at, cg, cn, records[i])]]]]
    IN  [d \in DOMAIN dgs |->
            LET cgs == BlocksAfter(at, dgs[d].links[2])
            IN  [k \in DOMAIN cgs |-> Group(dgs[d], cgs, cgs[k])]]
=============================================================================

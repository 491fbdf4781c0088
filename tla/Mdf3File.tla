------------------------------ MODULE Mdf3File ------------------------------
(***************************************************************************)
(* The reader of version 3 files (mdf3/mod.rs, records.rs, blocks.rs,      *)
(* conversions.rs): the structure is walked once, the records of a data    *)
(* group are walked whenever a group is not in the cache.                  *)
(*                                                                         *)
(* A file is its blocks by address and, by the address of a data block,    *)
(* the bytes from there to the end of the file.  Text, dates and the VAX   *)
(* formats are left out; a sample is a sequence, as in SignalValues.       *)
(***************************************************************************)
EXTENDS BitFields, BoundedLru

CONSTANTS
    MaxChain,    \* MAX_CHAIN: how many blocks a chain may have
    LargestId,   \* what the one byte of a record identifier can hold
    Mdf3Files,   \* the files there are
    MaxReads     \* how often the user reads

VARIABLES
    file,        \* the file
    tree,        \* what open made of it
    cache,       \* values_cache: the groups decoded, by (data group, channel group)
    asked,       \* the last read: its kind and its channel
    reply,       \* what it returned
    reads        \* how many reads there were

mdf3Vars == <<file, tree, cache, asked, reply, reads>>

Declined == [ok |-> FALSE, values |-> <<>>]
Found(values) == [ok |-> TRUE, values |-> values]

(***************************************************************************)
(* The structure.                                                          *)
(***************************************************************************)

\* DgBlock::parse, CgBlock::parse, CnBlock::parse: a block of the right kind,
\* with no more than two identifiers and no channel without bits.
Parses(f, addr, kind) ==
    /\ addr \in DOMAIN f.blocks
    /\ f.blocks[addr].kind = kind
    /\ kind = "DG" => f.blocks[addr].ids <= 2
    /\ kind = "CN" => f.blocks[addr].bits > 0

\* A walk along "next" with the addresses seen; any fault fails the open.
RECURSIVE Follow(_, _, _, _)
Follow(f, kind, addr, seen) ==
    CASE addr = 0 -> Found(seen)
      [] addr # 0 /\ (Contains(seen, addr) \/ Len(seen) >= MaxChain \/ ~Parses(f, addr, kind)) -> Declined
      [] OTHER -> Follow(f, kind, f.blocks[addr].next, Append(seen, addr))

\* Every block of a chain, read; declined when the chain or one of them is.
Chain(f, kind, first, Block(_)) ==
    LET walk == Follow(f, kind, first, <<>>)
        read == [k \in DOMAIN walk.values |-> Block(f.blocks[walk.values[k]])]
    IN  IF walk.ok /\ \A k \in DOMAIN read : read[k].ok
        THEN Found([k \in DOMAIN read |-> read[k].values]) ELSE Declined

WalkChannels(f, first) == Chain(f, "CN", first, LAMBDA b : Found(b))

WalkChannelGroups(f, first) ==
    Chain(f, "CG", first,
          LAMBDA b : LET channels == WalkChannels(f, b.down)
                     IN  IF channels.ok
                         THEN Found([id |-> b.id, size |-> b.size, cycles |-> b.cycles,
                                     channels |-> channels.values])
                         ELSE Declined)

WalkDataGroups(f) ==
    Chain(f, "DG", f.first,
          LAMBDA b : LET groups == WalkChannelGroups(f, b.down)
                     IN  IF groups.ok
                         THEN Found([ids |-> b.ids, data |-> b.data, groups |-> groups.values])
                         ELSE Declined)

(***************************************************************************)
(* The records of one data group.                                          *)
(***************************************************************************)

\* ChannelLayout::build: whether the channel fits its record.
Fits(ch, size) ==
    /\ BytesFor(ch.start + ch.bits) <= size
    /\ ch.type \in {"text", "bytes"} => ch.start % ByteBits = 0 /\ ch.bits % ByteBits = 0
    /\ ch.type = "float" => ch.bits \in {Word \div 2, Word}
    /\ ch.type \in {"uint", "int"} => ch.bits <= Word
    /\ ch.type # "unknown"

\* Acc::push: the sample of a channel in one record.
Sample(ch, record) ==
    LET at == ch.start \div ByteBits
        span == BytesFor((ch.start % ByteBits) + ch.bits)
        bytes == SubSeq(record, at + 1, at + span)
        value == Extract(bytes, ch.start % ByteBits, ch.bits, ch.le)
        zeros == {k \in DOMAIN bytes : bytes[k] = 0}
    IN  CASE ch.type = "text"  -> IF zeros = {} THEN bytes ELSE SubSeq(bytes, 1, Min(zeros) - 1)
          [] ch.type = "bytes" -> bytes
          [] ch.type = "int"   -> <<SignExtend(value, ch.bits)>>
          [] OTHER             -> <<value>>

IdOf(dg, k) == IF dg.ids = 0 THEN 0 ELSE dg.groups[k].id

\* RecordPlan::build: identifiers that tell the groups apart.
Planned(dg) ==
    /\ dg.ids = 0 => Len(dg.groups) <= 1
    /\ \A k \in DOMAIN dg.groups : IdOf(dg, k) <= LargestId
    /\ \A j, k \in DOMAIN dg.groups : IdOf(dg, j) = IdOf(dg, k) => j = k

\* A data group has no length field: the groups' own declarations add up to it.
TotalBytes(dg) ==
    FoldSeq(LAMBDA cg, n : n + (cg.size + dg.ids) * cg.cycles, 0, dg.groups)

\* The copy of the identifier behind a record, where there is one.
Closes(dg, block, end, id) == dg.ids = 2 => block[end + 1] = id

\* The records of the block from pos on, each with the group it is of.
RECURSIVE WalkRecords(_, _, _, _)
WalkRecords(dg, block, pos, records) ==
    LET id == IF dg.ids = 0 THEN 0 ELSE block[pos + 1]
        owners == {k \in DOMAIN dg.groups : IdOf(dg, k) = id}
        owner == CHOOSE k \in owners : TRUE
        start == IF dg.ids = 0 THEN pos ELSE pos + 1
        end == start + dg.groups[owner].size
        trailing == IF dg.ids = 2 THEN 1 ELSE 0
    IN  IF pos >= Len(block) THEN Found(records)
        ELSE IF owners = {} \/ end + trailing > Len(block) \/ ~Closes(dg, block, end, id) THEN Declined
        ELSE WalkRecords(dg, block, end + trailing,
                         Append(records, [of |-> owner, bytes |-> SubSeq(block, start + 1, end)]))

\* Mutant of Agrees: the records need not be as many as declared.
AgreesAnyhow(dg, records) == TRUE

Agrees(dg, records) ==
    \A k \in DOMAIN dg.groups : Len(SelectSeq(records, LAMBDA r : r.of = k)) = dg.groups[k].cycles

\* finish: one slot per channel, empty where a channel's layout did not build.
Decoded(cg, records) ==
    [i \in DOMAIN cg.channels |->
        IF Fits(cg.channels[i], cg.size)
        THEN <<[r \in DOMAIN records |-> Sample(cg.channels[i], records[r].bytes)]>> ELSE <<>>]

\* read_channel_group: the whole group in one walk of the stream.
ReadChannelGroup(f, dg, c) ==
    LET cg == dg.groups[c]
        available == IF dg.data \in DOMAIN f.data THEN f.data[dg.data] ELSE <<>>
        walk == WalkRecords(dg, SubSeq(available, 1, TotalBytes(dg)), 0, <<>>)
    IN  CASE ~Planned(dg) -> Declined
          [] TotalBytes(dg) = 0 -> Found(Decoded(cg, <<>>))
          [] dg.data = 0 \/ TotalBytes(dg) > Len(available) -> Declined
          [] ~walk.ok \/ ~Agrees(dg, walk.values) -> Declined
          [] OTHER -> Found(Decoded(cg, SelectSeq(walk.values, LAMBDA r : r.of = c)))

(***************************************************************************)
(* Reading a channel.                                                      *)
(***************************************************************************)

CacheKey(g, c) == <<g, c>>

\* decoded_group_bytes, with one byte to a number.
DecodedBytes(decoded) ==
    LET Slot(slot) == IF slot = <<>> THEN 0 ELSE FoldSeq(LAMBDA s, n : n + Len(s), 0, slot[1])
    IN  FoldSeq(LAMBDA slot, n : n + Slot(slot), 0, decoded)

\* channel_values: what it returns and the cache it leaves.  The channel's own
\* layout is looked at before any record is.
ChannelValues(g, c, i) ==
    LET dg == tree.values[g]
        cg == dg.groups[c]
        key == CacheKey(g, c)
        held == cache[Find(cache, key)].value
        read == ReadChannelGroup(file, dg, c)
    IN  CASE ~Fits(cg.channels[i], cg.size) -> [reply |-> Declined, cache |-> cache]
          [] Fits(cg.channels[i], cg.size) /\ Holds(cache, key) /\ held[i] # <<>> ->
                 [reply |-> Found(held[i][1]), cache |-> Mark(cache, key, reads + 1)]
          [] OTHER ->
                 IF ~read.ok THEN [reply |-> Declined, cache |-> cache]
                 ELSE [reply |-> Found(read.values[i][1]),
                       cache |-> Insert(cache, key, read.values, DecodedBytes(read.values), reads + 1)]

\* Mdf3Conversion::parse: the rule a channel names, declined when its block is
\* no rule at all.
Conversion(f, ch) ==
    CASE ch.cc = 0 -> Found("none")
      [] ch.cc # 0 /\ (ch.cc \notin DOMAIN f.blocks \/ f.blocks[ch.cc].kind # "CC"
                       \/ f.blocks[ch.cc].rule = "malformed") -> Declined
      [] OTHER -> Found(f.blocks[ch.cc].rule)

\* apply: a rule this build does not know fails on the first sample it meets.
Apply(rule, ch, raw) ==
    CASE rule = "none" \/ ch.type \in {"text", "bytes"} -> Found(raw)
      [] rule = "linear" /\ ch.type \notin {"text", "bytes"} ->
             Found([k \in DOMAIN raw |-> <<2 * raw[k][1] + 1>>])
      [] OTHER -> IF raw = <<>> THEN Found(raw) ELSE Declined

\* channel_physical: the rule first, then the samples, then the one applied
\* to the others.
ChannelPhysical(g, c, i) ==
    LET ch == tree.values[g].groups[c].channels[i]
        rule == Conversion(file, ch)
        raw == ChannelValues(g, c, i)
    IN  IF ~rule.ok THEN [reply |-> Declined, cache |-> cache]
        ELSE IF ~raw.reply.ok THEN raw
        ELSE [raw EXCEPT !.reply = Apply(rule.values, ch, raw.reply.values)]

(***************************************************************************)
(* The program.                                                            *)
(***************************************************************************)

Mdf3Init ==
    /\ file \in Mdf3Files
    /\ tree = WalkDataGroups(file)
    /\ cache = <<>>
    /\ asked = <<>>
    /\ reply = Declined
    /\ reads = 0

\* Where the channels are.
Places ==
    IF tree.ok
    THEN {<<g, c, i>> \in (DOMAIN tree.values) \X (1..3) \X (1..3) :
             c \in DOMAIN tree.values[g].groups /\ i \in DOMAIN tree.values[g].groups[c].channels}
    ELSE {}

Answer(kind, p, outcome) ==
    /\ reads < MaxReads
    /\ reads' = reads + 1
    /\ asked' = <<kind, p>>
    /\ reply' = outcome.reply
    /\ cache' = outcome.cache
    /\ UNCHANGED <<file, tree>>

ReadChannel == \E p \in Places : Answer("raw", p, ChannelValues(p[1], p[2], p[3]))

ReadPhysical == \E p \in Places : Answer("physical", p, ChannelPhysical(p[1], p[2], p[3]))

Mdf3Next == ReadChannel \/ ReadPhysical
-----------------------------------------------------------------------------
(***************************************************************************)
(* Properties.                                                             *)
(***************************************************************************)

\* The orders its groups' records can have been written in: with as many of
\* each group as it declares, and identifiers where the stream has them.
OrdersOf(f, dg) ==
    LET n == FoldSeq(LAMBDA cg, sum : sum + cg.cycles, 0, dg.groups)
        stream == IF dg.data \in DOMAIN f.data THEN f.data[dg.data] ELSE <<>>
        Start(o, r) == LET at[k \in 1..r] == IF k = 1 THEN 0 ELSE at[k - 1] + dg.groups[o[k - 1]].size + dg.ids
                       IN  at[r]
        Bracketed(o, r) ==
            LET at == Start(o, r)
                size == dg.groups[o[r]].size
            IN  /\ at + size + dg.ids <= Len(stream)
                /\ dg.ids > 0 => stream[at + 1] = dg.groups[o[r]].id
                /\ dg.ids = 2 => stream[at + size + 2] = dg.groups[o[r]].id
        Payload(o, r) ==
            LET from == Start(o, r) + (IF dg.ids = 0 THEN 0 ELSE 1)
            IN  SubSeq(stream, from + 1, from + dg.groups[o[r]].size)
    IN  {[r \in 1..n |-> [of |-> o[r], bytes |-> Payload(o, r)]] :
            o \in {w \in [1..n -> DOMAIN dg.groups] :
                      /\ \A k \in DOMAIN dg.groups :
                             Cardinality({r \in 1..n : w[r] = k}) = dg.groups[k].cycles
                      /\ \A r \in 1..n : Bracketed(w, r)}}

\* Whatever was read before and in whatever order: the answer of a read is,
\* record by record, what the only possible order of the stream gives the
\* channel; it is refused when the channel does not fit its record, when the
\* groups cannot be told apart or no order is possible, or when the channel's
\* own conversion is no rule, and never for the sake of another channel or of
\* what the cache holds (channel_values, read_channel_group, RecordPlan).
ReadsAreTheRecording ==
    asked # <<>> =>
        LET p == asked[2]
            dg == tree.values[p[1]]
            cg == dg.groups[p[2]]
            ch == cg.channels[p[3]]
            rule == IF asked[1] = "raw" THEN Found("none") ELSE Conversion(file, ch)
            mine == {SelectSeq(o, LAMBDA r : r.of = p[2]) : o \in OrdersOf(file, dg)}
            samples == {[r \in DOMAIN m |-> Sample(ch, m[r].bytes)] : m \in mine}
            stored == dg.data # 0 \/ TotalBytes(dg) = 0
            expected == {Apply(rule.values, ch, IF TotalBytes(dg) = 0 THEN <<>> ELSE s) : s \in samples}
        IN  IF Fits(ch, cg.size) /\ Planned(dg) /\ stored /\ samples # {} /\ rule.ok
            THEN expected = {reply} ELSE ~reply.ok
=============================================================================

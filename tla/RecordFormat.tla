---------------------------- MODULE RecordFormat ----------------------------
(***************************************************************************)
(* The byte format of one MDF4 data group, as the reader sees it once the  *)
(* block chain has been indexed: a list of data blocks whose payloads form *)
(* one stream, and channel groups whose records are cut from that stream.  *)
(*                                                                         *)
(* A stream is a sequence of bytes; a position in it is counted from 0, as *)
(* in the code, so byte p of s is s[p + 1].  Two field widths are scaled   *)
(* down: a record ID is 1 or 2 bytes wide (the code also reads 4 and 8),   *)
(* and the length prefix of a variable-length record is Prefix bytes wide  *)
(* (4 in the code).                                                        *)
(***************************************************************************)
EXTENDS Naturals, Sequences

CONSTANT Prefix   \* width of a length prefix, scaled from 4

ASSUME PrefixAssumption == Prefix \in {1, 2}

Byte == 0..255

\* DataBlockInfo: the data section, the companion invalidation section of a
\* linked-data chain (di, meaningful when hasDi), and whether it is deflated.
Block == [data : Seq(Byte), di : Seq(Byte), hasDi : BOOLEAN, compressed : BOOLEAN]

\* ChannelGroup: record ID, data and invalidation bytes of a record, whether
\* it holds variable-length payloads, and the cycle count the file declares.
Group == [id : Nat, data : Nat, inval : Nat, vlsd : BOOLEAN, cycles : Nat]

DataGroup == [idSize : Nat, groups : Seq(Group), blocks : Seq(Block)]

Least(a, b) == IF a <= b THEN a ELSE b

(***************************************************************************)
(* Fields and records.                                                     *)
(***************************************************************************)

\* A little-endian field of n bytes at position p.
Field(s, p, n) == IF n = 1 THEN s[p + 1] ELSE s[p + 1] + 256 * s[p + 2]

PayloadSize(g) == g.data + g.inval

RecordSize(dg, g) == dg.idSize + PayloadSize(g)

Unsorted(dg) == dg.idSize > 0 /\ Len(dg.groups) > 1

\* read_record_id: nothing for a width it does not know, nor past the end.
HasId(dg, s, p) == dg.idSize \in {1, 2} /\ p + dg.idSize <= Len(s)

GroupsWithId(dg, rid) == {g \in DOMAIN dg.groups : dg.groups[g].id = rid}

\* record_map: filled in group order, so that the last of two groups that
\* declare one record ID is the one the walk finds.
GroupWithId(dg, rid) ==
    CHOOSE g \in GroupsWithId(dg, rid) :
        \A h \in GroupsWithId(dg, rid) : h <= g

(***************************************************************************)
(* One step of the open-time walk over a block s, at position p.           *)
(***************************************************************************)

\* The group whose record starts at p, when there is one.
GroupAt(dg, s, p) == GroupWithId(dg, Field(s, p, dg.idSize))

LengthAt(dg, s, p) == Field(s, p + dg.idSize, Prefix)

\* Mutant of Measurable: a fixed-size record need not end within the block.
MeasurableCut(dg, s, p) ==
    /\ p < Len(s)
    /\ HasId(dg, s, p)
    /\ GroupsWithId(dg, Field(s, p, dg.idSize)) # {}
    /\ LET g == dg.groups[GroupAt(dg, s, p)] IN
           g.vlsd => p + dg.idSize + Prefix <= Len(s)

\* The next record can be measured.  A variable-length record's payload is
\* not compared with the end of the block: only its length prefix is.
Measurable(dg, s, p) ==
    /\ p < Len(s)
    /\ HasId(dg, s, p)
    /\ GroupsWithId(dg, Field(s, p, dg.idSize)) # {}
    /\ LET g == dg.groups[GroupAt(dg, s, p)] IN
           IF g.vlsd THEN p + dg.idSize + Prefix <= Len(s)
           ELSE p + RecordSize(dg, g) <= Len(s)

After(dg, s, p) ==
    LET g == dg.groups[GroupAt(dg, s, p)] IN
        IF g.vlsd THEN p + dg.idSize + Prefix + LengthAt(dg, s, p)
        ELSE p + RecordSize(dg, g)

(***************************************************************************)
(* What one data block contributes to the stream.                          *)
(***************************************************************************)

\* The layout needed to interleave comes from the group's first channel group.
\* Without it the block is refused.
Readable(dg, b) ==
    b.hasDi => /\ Len(dg.groups) > 0
               /\ dg.groups[1].data > 0
               /\ dg.groups[1].inval > 0

\* read_block_payload: records and their invalidation bytes side by side, for
\* as many cycles as both sections hold; the data section alone otherwise.
Payload(dg, b) ==
    IF ~b.hasDi
    THEN b.data
    ELSE LET D == dg.groups[1].data
             I == dg.groups[1].inval
             cycles == Least(Len(b.data) \div D, Len(b.di) \div I)
             InRow(k) == (k - 1) % (D + I)
             Row(k) == (k - 1) \div (D + I)
         IN  [k \in 1..(cycles * (D + I)) |->
                 IF InRow(k) < D
                 THEN b.data[Row(k) * D + InRow(k) + 1]
                 ELSE b.di[Row(k) * I + (InRow(k) - D) + 1]]

\* effective_size: both sections, whether or not they interleave completely.
EffectiveSize(b) == Len(b.data) + (IF b.hasDi THEN Len(b.di) ELSE 0)
=============================================================================

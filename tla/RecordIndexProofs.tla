------------------------- MODULE RecordIndexProofs -------------------------
(***************************************************************************)
(* Proofs about RecordIndex, for every data group and not only the small   *)
(* ones that are model-checked: what the open-time walk records are the    *)
(* positions of whole, separate records, each at its own group's ID.       *)
(***************************************************************************)
EXTENDS RecordIndex, InductionFacts, TLAPS, SequenceTheorems, WellFoundedInduction

\* Every nonempty set of naturals below a bound has a largest element.
LEMMA LargestElement ==
    ASSUME NEW n \in Nat, NEW S, S \subseteq 1..n, S # {}
    PROVE  \E m \in S : \A h \in S : h <= m
PROOF
<1> DEFINE T == {n - g : g \in S}
<1>1. T \subseteq Nat /\ T # {}
  <2>1. \A g \in S : n - g \in Nat
    OBVIOUS
  <2>2. PICK s \in S : TRUE
    OBVIOUS
  <2>3. n - s \in T
    BY <2>2
  <2> QED
    BY <2>1, <2>3
<1>2. \E x \in T : \A y \in T : ~ (<<y, x>> \in OpToRel(<, Nat))
  BY <1>1, NatLessThanWellFounded, WFMin
<1>3. PICK x \in T : \A y \in T : ~(y < x)
  BY <1>1, <1>2 DEF OpToRel
<1>4. PICK m \in S : x = n - m
  OBVIOUS
<1>5. ASSUME NEW h \in S
      PROVE  h <= m
  <2>1. n - h \in T
    OBVIOUS
  <2>2. ~(n - h < n - m)
    BY <1>3, <1>4, <2>1
  <2> QED
    BY <2>2
<1> QED
  BY <1>5

\* The record map, when it knows an ID, yields a group that declares it.
LEMMA GroupWithIdIn ==
    ASSUME NEW d \in DataGroup, NEW rid, GroupsWithId(d, rid) # {}
    PROVE  /\ GroupWithId(d, rid) \in DOMAIN d.groups
           /\ d.groups[GroupWithId(d, rid)].id = rid
PROOF
<1> DEFINE S == GroupsWithId(d, rid)
<1>1. Len(d.groups) \in Nat /\ DOMAIN d.groups = 1..Len(d.groups)
  BY LenProperties DEF DataGroup
<1>2. S \subseteq 1..Len(d.groups)
  BY <1>1 DEF GroupsWithId
<1>3. \E m \in S : \A h \in S : h <= m
  BY <1>1, <1>2, LargestElement
<1>4. GroupWithId(d, rid) \in S
  BY <1>3 DEF GroupWithId
<1> QED
  BY <1>4 DEF GroupsWithId

\* Dividing by a size that is not zero, as both counts do.
LEMMA QuotientIsNat ==
    ASSUME NEW a \in Nat, NEW w \in Nat, w > 0
    PROVE  a \div w \in Nat
PROOF
  OBVIOUS

\* A row of a section that holds cycles whole rows of width w is inside it.
LEMMA RowInside ==
    ASSUME NEW len \in Nat, NEW w \in Nat, w > 0, NEW cycles \in Nat,
           cycles <= len \div w, NEW row \in Nat, row < cycles,
           NEW col \in Nat, col < w
    PROVE  row * w + col + 1 \in 1..len
PROOF
<1> DEFINE q == len \div w
<1>1. q \in Nat /\ q * w <= len
  OBVIOUS
<1>2. row + 1 <= q
  BY <1>1
<1>3. (row + 1) * w <= q * w
  BY <1>1, <1>2
<1>4. row * w + w = (row + 1) * w
  OBVIOUS
<1>5. row * w \in Nat
  OBVIOUS
<1> HIDE DEF q
<1> QED
  BY <1>1, <1>3, <1>4, <1>5

\* A block's contribution to the stream is a string of bytes, whatever the
\* lengths of its two sections.
LEMMA PayloadIsBytes ==
    ASSUME NEW d \in DataGroup, NEW b \in Block, Readable(d, b)
    PROVE  Payload(d, b) \in Seq(Byte)
PROOF
<1>1. CASE ~b.hasDi
  BY <1>1 DEF Payload, Block
<1>2. CASE b.hasDi
  <2> DEFINE D == d.groups[1].data
             I == d.groups[1].inval
             cycles == Least(Len(b.data) \div D, Len(b.di) \div I)
             W == D + I
             n == cycles * W
             col(k) == (k - 1) % W
             row(k) == (k - 1) \div W
             byte(k) == IF col(k) < D THEN b.data[row(k) * D + col(k) + 1]
                        ELSE b.di[row(k) * I + (col(k) - D) + 1]
  <2>1. /\ b.data \in Seq(Byte) /\ Len(b.data) \in Nat
        /\ b.di \in Seq(Byte) /\ Len(b.di) \in Nat
    BY LenProperties DEF Block
  <2>2. /\ D \in Nat /\ D > 0
        /\ I \in Nat /\ I > 0
        /\ W \in Nat /\ W > 0
    <3>1. Len(d.groups) > 0 /\ D > 0 /\ I > 0
      BY <1>2 DEF Readable
    <3>2. d.groups \in Seq(Group) /\ Len(d.groups) \in Nat
      BY LenProperties DEF DataGroup
    <3>3. d.groups[1] \in Group
      BY <3>1, <3>2, ElementOfSeq
    <3> QED
      BY <3>1, <3>3 DEF Group
  <2> HIDE DEF D, I, W
  <2>3. /\ cycles \in Nat
        /\ cycles <= Len(b.data) \div D
        /\ cycles <= Len(b.di) \div I
    <3>1. Len(b.data) \div D \in Nat /\ Len(b.di) \div I \in Nat
      BY <2>1, <2>2, QuotientIsNat
    <3> QED
      BY <3>1 DEF Least
  <2> HIDE DEF cycles
  <2>4. n \in Nat
    BY <2>2, <2>3
  <2>5. ASSUME NEW k \in 1..n
        PROVE  /\ row(k) \in Nat /\ row(k) < cycles
               /\ col(k) \in Nat /\ col(k) < W
    <3>1. k - 1 \in Nat /\ k - 1 < cycles * W
      BY <2>4
    <3>2. col(k) \in Nat /\ col(k) < W /\ row(k) \in Nat
      BY <2>2, <3>1
    <3>3. row(k) * W <= k - 1
      BY <2>2, <3>1
    <3> DEFINE r == row(k)
    <3>4. r \in Nat /\ r * W < cycles * W
      BY <2>2, <2>3, <3>1, <3>2, <3>3
    <3> HIDE DEF r
    <3>5. r < cycles
      BY <2>2, <2>3, <3>4
    <3> QED
      BY <3>2, <3>5 DEF r
  <2>6. ASSUME NEW k \in 1..n
        PROVE  byte(k) \in Byte
    <3>1. CASE col(k) < D
      <4>1. row(k) * D + col(k) + 1 \in 1..Len(b.data)
        BY <2>1, <2>2, <2>3, <2>5, <3>1, RowInside
      <4> QED
        BY <2>1, <3>1, <4>1, ElementOfSeq
    <3>2. CASE ~(col(k) < D)
      <4>1. col(k) - D \in Nat /\ col(k) - D < I
        BY <2>2, <2>5, <3>2 DEF W
      <4>2. row(k) * I + (col(k) - D) + 1 \in 1..Len(b.di)
        BY <2>1, <2>2, <2>3, <2>5, <4>1, RowInside
      <4> QED
        BY <2>1, <3>2, <4>2, ElementOfSeq
    <3> QED
      BY <3>1, <3>2
  <2>7. [k \in 1..n |-> byte(k)] \in Seq(Byte)
    BY <2>4, <2>6, IsASeq
  <2> QED
    BY <1>2, <2>7 DEF Payload, D, I, cycles, W
<1> QED
  BY <1>1, <1>2


(***************************************************************************)
(* One step of the walk.                                                   *)
(***************************************************************************)

\* A field read inside the bytes at hand is a natural number.
LEMMA FieldIsNat ==
    ASSUME NEW s \in Seq(Byte), NEW p \in Nat, NEW n \in {1, 2}, p + n <= Len(s)
    PROVE  Field(s, p, n) \in Nat
PROOF
<1>1. Len(s) \in Nat
  BY LenProperties
<1>2. p + 1 \in 1..Len(s) /\ (n = 2 => p + 2 \in 1..Len(s))
  BY <1>1
<1>3. s[p + 1] \in Byte /\ (n = 2 => s[p + 2] \in Byte)
  BY <1>2, ElementOfSeq
<1>4. s[p + 1] \in Nat /\ (n = 2 => s[p + 2] \in Nat)
  <2>1. \A x \in Byte : x \in Nat
    BY DEF Byte
  <2> QED
    BY <1>3, <2>1
<1>5. CASE n = 1
  BY <1>4, <1>5 DEF Field
<1>6. CASE n = 2
  BY <1>4, <1>6 DEF Field
<1> QED
  BY <1>5, <1>6

\* The sizes of a record are natural numbers, and the ID is part of one.
LEMMA RecordSizeIsNat ==
    ASSUME NEW d \in DataGroup, NEW g \in DOMAIN d.groups
    PROVE  /\ d.idSize \in Nat
           /\ d.groups[g] \in Group
           /\ PayloadSize(d.groups[g]) \in Nat
           /\ RecordSize(d, d.groups[g]) \in Nat
           /\ RecordSize(d, d.groups[g]) >= d.idSize
PROOF
<1>1. d.idSize \in Nat /\ d.groups \in Seq(Group)
  BY DEF DataGroup
<1>2. d.groups[g] \in Group
  BY <1>1, LenProperties, ElementOfSeq
<1>3. d.groups[g].data \in Nat /\ d.groups[g].inval \in Nat
  BY <1>2 DEF Group
<1>4. PayloadSize(d.groups[g]) \in Nat
  BY <1>3 DEF PayloadSize
<1> QED
  BY <1>1, <1>2, <1>4 DEF RecordSize

\* A record that can be measured moves the walk on, and a fixed-size one ends
\* inside the bytes at hand.
LEMMA StepAdvances ==
    ASSUME NEW d \in DataGroup, NEW s \in Seq(Byte), NEW p \in Nat,
           Measurable(d, s, p)
    PROVE  LET g == GroupAt(d, s, p) IN
           /\ HasId(d, s, p)
           /\ g \in DOMAIN d.groups
           /\ d.groups[g].id = Field(s, p, d.idSize)
           /\ After(d, s, p) \in Nat
           /\ After(d, s, p) > p
           /\ ~d.groups[g].vlsd => /\ After(d, s, p) = p + RecordSize(d, d.groups[g])
                                   /\ After(d, s, p) <= Len(s)
PROOF
<1> DEFINE g == GroupAt(d, s, p)
<1>1. HasId(d, s, p) /\ d.idSize \in {1, 2}
  BY DEF Measurable, HasId
<1>2. g \in DOMAIN d.groups /\ d.groups[g].id = Field(s, p, d.idSize)
  BY GroupWithIdIn DEF Measurable, GroupAt
<1>3. RecordSize(d, d.groups[g]) \in Nat /\ RecordSize(d, d.groups[g]) > 0
  BY <1>1, <1>2, RecordSizeIsNat
<1>4. CASE d.groups[g].vlsd
  <2>1. p + d.idSize \in Nat /\ (p + d.idSize) + Prefix <= Len(s)
    BY <1>1, <1>4 DEF Measurable
  <2>2. LengthAt(d, s, p) \in Nat
    BY <2>1, FieldIsNat, PrefixAssumption DEF LengthAt
  <2>3. After(d, s, p) = p + d.idSize + Prefix + LengthAt(d, s, p)
    BY <1>4 DEF After
  <2> QED
    BY <1>1, <1>2, <1>4, <2>2, <2>3, PrefixAssumption
<1>5. CASE ~d.groups[g].vlsd
  <2>1. After(d, s, p) = p + RecordSize(d, d.groups[g])
    BY <1>5 DEF After
  <2>2. p + RecordSize(d, d.groups[g]) <= Len(s)
    BY <1>5 DEF Measurable
  <2> QED
    BY <1>1, <1>2, <1>3, <1>5, <2>1, <2>2
<1> QED
  BY <1>4, <1>5

\* A position of the appended block reads the same in the stream.
LEMMA FieldInStream ==
    ASSUME NEW s \in Seq(Byte), NEW t \in Seq(Byte), NEW b \in Nat,
           b + Len(t) = Len(s), SubSeq(s, b + 1, Len(s)) = t,
           NEW p \in Nat, NEW n \in {1, 2}, p + n <= Len(t)
    PROVE  Field(s, b + p, n) = Field(t, p, n)
PROOF
<1>1. Len(s) \in Nat /\ Len(t) \in Nat
  BY LenProperties
<1>2. \A i \in (b + 1)..Len(s) : s[i] \in Byte
  BY <1>1, ElementOfSeq
<1>3. \A i \in 1..Len(t) : t[i] = s[b + i]
  <2>1. \A i \in 1..(Len(s) - (b + 1) + 1) : SubSeq(s, b + 1, Len(s))[i] = s[(b + 1) + i - 1]
    BY <1>1, <1>2, SubSeqProperties
  <2> QED
    BY <1>1, <2>1
<1> QED
  BY <1>1, <1>3 DEF Field

\* Appending to the stream changes no field already in it.
LEMMA FieldUnderAppend ==
    ASSUME NEW s \in Seq(Byte), NEW t \in Seq(Byte),
           NEW p \in Nat, NEW n \in {1, 2}, p + n <= Len(s)
    PROVE  Field(s \o t, p, n) = Field(s, p, n)
PROOF
<1>1. Len(s) \in Nat /\ Len(t) \in Nat
  BY LenProperties
<1>2. \A i \in 1..Len(s) : (s \o t)[i] = s[i]
  BY <1>1, ConcatProperties
<1> QED
  BY <1>1, <1>2 DEF Field


(***************************************************************************)
(* The inductive invariant.                                                *)
(***************************************************************************)

\* Before the first block is listed the invariant holds of an empty index.
LEMMA IndexInvInit == Init => IndexInv
PROOF
<1> SUFFICES ASSUME Init
             PROVE  IndexInv
  OBVIOUS
<1> USE DEF Init
<1>1. dg \in DataGroup
  BY DataGroupsAssumption
<1>2. \A g \in GroupIds : dg.groups[g].cycles \in Nat
  BY <1>1, RecordSizeIsNat DEF GroupIds, Group
<1>3. TypeOK
  BY <1>1, <1>2, EmptySeq DEF TypeOK
<1>4. \A g \in GroupIds : DOMAIN offsets[g] = {}
  OBVIOUS
<1>5. PhaseOK /\ BaseInLockStep
  BY DEF PhaseOK, BaseInLockStep
<1>6. RecordsBehind /\ IndexedAtOwnId /\ RecordsDisjoint /\ OffsetsAscend
  BY <1>4 DEF RecordsBehind, IndexedAtOwnId, RecordsDisjoint, OffsetsAscend
<1> QED
  BY <1>3, <1>5, <1>6 DEF IndexInv

\* The records indexed so far stay what they are while the index does.
LEMMA IndexUnchanged ==
    ASSUME IndexInv, UNCHANGED <<dg, stream, offsets>>
    PROVE  IndexedAtOwnId' /\ RecordsDisjoint' /\ OffsetsAscend'
PROOF
<1> USE DEF IndexInv, GroupIds
<1>1. IndexedAtOwnId'
  BY DEF IndexedAtOwnId
<1>2. RecordsDisjoint'
  BY DEF RecordsDisjoint
<1>3. OffsetsAscend'
  BY DEF OffsetsAscend
<1> QED
  BY <1>1, <1>2, <1>3

\* The block at hand while the walk is in it.
LEMMA DataIsBytes ==
    ASSUME IndexInv, phase = "block" \/ phase = "walk",
           block <= Len(dg.blocks), Readable(dg, dg.blocks[block])
    PROVE  data \in Seq(Byte) /\ Len(data) \in Nat
PROOF
<1>1. dg \in DataGroup /\ block \in Nat \ {0}
  BY DEF IndexInv, TypeOK
<1>2. dg.blocks \in Seq(Block) /\ Len(dg.blocks) \in Nat
  BY <1>1, LenProperties DEF DataGroup
<1>3. dg.blocks[block] \in Block
  BY <1>1, <1>2, ElementOfSeq
<1>4. data \in Seq(Byte)
  BY <1>1, <1>3, PayloadIsBytes DEF data
<1> QED
  BY <1>4, LenProperties

\* ReadBlock: the stream grows by the block, and what was indexed stays put.
LEMMA ReadBlockStep ==
    ASSUME IndexInv, ReadBlock
    PROVE  IndexInv'
PROOF
<1> USE DEF ReadBlock
<1>1. TypeOK /\ dg \in DataGroup /\ stream \in Seq(Byte) /\ base = Len(stream)
  BY DEF IndexInv, TypeOK, BaseInLockStep
<1>2. data \in Seq(Byte) /\ Len(data) \in Nat /\ data' = data
  BY DataIsBytes DEF data
<1>3. /\ stream' \in Seq(Byte)
      /\ Len(stream') = Len(stream) + Len(data)
      /\ Len(stream) \in Nat
  BY <1>1, <1>2, ConcatProperties, LenProperties
<1>4. TypeOK'
  BY <1>1, <1>3 DEF TypeOK, GroupIds
<1>5. PhaseOK'
  BY DEF PhaseOK
<1>6. BaseInLockStep'
  <2>1. SubSeq(stream', Len(stream) + 1, Len(stream) + Len(data)) = data
    <3>1. CASE Len(data) = 0
      <4>1. SubSeq(stream', Len(stream) + 1, Len(stream) + Len(data)) = <<>>
        BY <1>3, <3>1, SubSeqEmpty
      <4> QED
        BY <1>2, <3>1, <4>1, EmptySeq
    <3>2. CASE Len(data) # 0
      <4>1. SubSeq(stream', Len(stream) + 1, Len(stream) + Len(data))
                = SubSeq(data, (Len(stream) + 1) - Len(stream),
                               (Len(stream) + Len(data)) - Len(stream))
        BY <1>1, <1>2, <1>3, <3>2, SubSeqOfConcat2
      <4>2. /\ (Len(stream) + 1) - Len(stream) = 1
            /\ (Len(stream) + Len(data)) - Len(stream) = Len(data)
        BY <1>2, <1>3
      <4> QED
        BY <1>2, <4>1, <4>2, SubSeqFull
    <3> QED
      BY <3>1, <3>2
  <2> QED
    BY <1>1, <1>2, <1>3, <2>1 DEF BaseInLockStep
<1>7. ASSUME NEW g \in GroupIds, NEW i \in DOMAIN offsets[g]
      PROVE  offsets[g][i] \in Nat
  BY <1>1, <1>7, LenProperties, ElementOfSeq DEF TypeOK
<1>8. RecordsBehind'
  <2>1. RecordsBehind
    BY DEF IndexInv
  <2>2. \A g \in GroupIds : RecordSize(dg, dg.groups[g]) \in Nat
    BY <1>1, RecordSizeIsNat DEF GroupIds
  <2>3. base' = Len(stream) /\ pos' = 0
    BY <1>1
  <2> QED
    BY <1>2, <1>3, <1>7, <2>1, <2>2, <2>3 DEF RecordsBehind, GroupIds
<1>9. IndexedAtOwnId'
  <2> SUFFICES ASSUME NEW g \in GroupIds, NEW i \in DOMAIN offsets[g]
               PROVE  /\ HasId(dg, stream', offsets[g][i])
                      /\ Field(stream', offsets[g][i], dg.idSize) = dg.groups[g].id
    BY DEF IndexedAtOwnId, GroupIds
  <2>1. /\ HasId(dg, stream, offsets[g][i])
        /\ Field(stream, offsets[g][i], dg.idSize) = dg.groups[g].id
    BY DEF IndexInv, IndexedAtOwnId
  <2>2. dg.idSize \in {1, 2} /\ offsets[g][i] + dg.idSize <= Len(stream)
    BY <2>1 DEF HasId
  <2>3. Field(stream', offsets[g][i], dg.idSize) = Field(stream, offsets[g][i], dg.idSize)
    BY <1>1, <1>2, <1>7, <2>2, FieldUnderAppend
  <2>4. offsets[g][i] + dg.idSize <= Len(stream')
    BY <1>2, <1>3, <1>7, <2>2
  <2> QED
    BY <2>1, <2>2, <2>3, <2>4 DEF HasId
<1>10. RecordsDisjoint' /\ OffsetsAscend'
  BY DEF IndexInv, RecordsDisjoint, OffsetsAscend, GroupIds
<1> QED
  BY <1>4, <1>5, <1>6, <1>8, <1>9, <1>10 DEF IndexInv

\* EndBlock: the walk is behind everything the block produced.
LEMMA EndBlockStep ==
    ASSUME IndexInv, EndBlock
    PROVE  IndexInv'
PROOF
<1> USE DEF EndBlock
<1>1. TypeOK /\ dg \in DataGroup
  BY DEF IndexInv, TypeOK
<1>2. /\ base + Len(data) = Len(stream)
      /\ block <= Len(dg.blocks) /\ Readable(dg, dg.blocks[block])
  BY DEF IndexInv, BaseInLockStep, PhaseOK
<1>3. Len(data) \in Nat
  BY <1>2, DataIsBytes
<1>4. TypeOK'
  BY <1>1, <1>3 DEF TypeOK, GroupIds
<1>5. PhaseOK' /\ BaseInLockStep'
  BY <1>2 DEF PhaseOK, BaseInLockStep
<1>6. RecordsBehind'
  BY DEF IndexInv, RecordsBehind, GroupIds
<1> QED
  BY <1>4, <1>5, <1>6, IndexUnchanged DEF IndexInv

\* IndexRecord: the new record starts at the walk's position, behind which
\* every earlier record lies, and the walk moves past it.
LEMMA IndexRecordStep ==
    ASSUME IndexInv, IndexRecord
    PROVE  IndexInv'
PROOF
<1> DEFINE G == GroupAt(dg, data, pos)
           o == base + pos
           next == After(dg, data, pos)
<1> USE DEF GroupIds
<1>1. /\ TypeOK /\ dg \in DataGroup /\ stream \in Seq(Byte) /\ base \in Nat /\ pos \in Nat
      /\ offsets \in [GroupIds -> Seq(Nat)]
  BY DEF IndexInv, TypeOK
<1>2. /\ phase = "walk" /\ phase' = "walk" /\ Measurable(dg, data, pos)
      /\ pos' = next
      /\ UNCHANGED <<dg, total, block, base, stream, counts>> /\ data' = data
  BY DEF IndexRecord, data
<1>3. /\ base + Len(data) = Len(stream)
      /\ SubSeq(stream, base + 1, Len(stream)) = data
      /\ block <= Len(dg.blocks) /\ Readable(dg, dg.blocks[block])
  BY <1>2 DEF IndexInv, BaseInLockStep, PhaseOK
<1>4. data \in Seq(Byte) /\ Len(data) \in Nat /\ Len(stream) \in Nat
  BY <1>1, <1>2, <1>3, DataIsBytes, LenProperties
<1>5. /\ HasId(dg, data, pos)
      /\ G \in GroupIds
      /\ dg.groups[G].id = Field(data, pos, dg.idSize)
      /\ next \in Nat /\ next > pos
      /\ ~dg.groups[G].vlsd => /\ next = pos + RecordSize(dg, dg.groups[G])
                               /\ next <= Len(data)
  BY <1>1, <1>2, <1>4, StepAdvances
<1>6. /\ dg.idSize \in {1, 2} /\ pos + dg.idSize <= Len(data)
      /\ Field(stream, o, dg.idSize) = dg.groups[G].id
      /\ HasId(dg, stream, o)
      /\ o \in Nat /\ o < Len(stream)
  <2>1. dg.idSize \in {1, 2} /\ pos + dg.idSize <= Len(data)
    BY <1>5 DEF HasId
  <2>2. Field(stream, o, dg.idSize) = Field(data, pos, dg.idSize)
    <3>1. ASSUME NEW t \in Seq(Byte), base + Len(t) = Len(stream),
                 SubSeq(stream, base + 1, Len(stream)) = t, pos + dg.idSize <= Len(t)
          PROVE  Field(stream, base + pos, dg.idSize) = Field(t, pos, dg.idSize)
      <4>1. PICK s, b, p, n : s = stream /\ b = base /\ p = pos /\ n = dg.idSize
        OBVIOUS
      <4>2. s \in Seq(Byte) /\ b \in Nat /\ p \in Nat /\ n \in {1, 2}
        BY <1>1, <2>1, <4>1
      <4>3. b + Len(t) = Len(s) /\ SubSeq(s, b + 1, Len(s)) = t /\ p + n <= Len(t)
        BY <3>1, <4>1
      <4>4. Field(s, b + p, n) = Field(t, p, n)
        BY <3>1, <4>2, <4>3, FieldInStream
      <4> QED
        BY <4>1, <4>4
    <3> QED
      BY <1>3, <1>4, <2>1, <3>1
  <2>3. o + dg.idSize <= Len(stream)
    BY <1>1, <1>3, <1>4, <2>1
  <2> QED
    BY <1>1, <1>4, <1>5, <2>1, <2>2, <2>3 DEF HasId
<1>7. \A g \in GroupIds : RecordSize(dg, dg.groups[g]) \in Nat
  BY <1>1, RecordSizeIsNat
<1>8. /\ \A g \in GroupIds : g # G => offsets'[g] = offsets[g]
      /\ offsets'[G] = Append(offsets[G], o)
      /\ offsets' \in [GroupIds -> Seq(Nat)]
  <2>1. offsets' = [offsets EXCEPT ![G] = Append(@, o)]
    BY DEF IndexRecord
  <2>2. Append(offsets[G], o) \in Seq(Nat)
    BY <1>1, <1>5, <1>6
  <2> QED
    BY <1>1, <1>5, <2>1, <2>2
<1> HIDE DEF G, o, next
\* Every entry of the index is either an earlier one or the new one.
<1>9. ASSUME NEW g \in GroupIds, NEW i \in DOMAIN offsets'[g]
      PROVE  \/ i \in DOMAIN offsets[g] /\ offsets'[g][i] = offsets[g][i]
             \/ g = G /\ i = Len(offsets[G]) + 1 /\ offsets'[g][i] = o
  <2>1. CASE g # G
    BY <1>8, <2>1
  <2>2. CASE g = G
    <3>1. offsets[G] \in Seq(Nat) /\ Len(offsets[G]) \in Nat
          /\ DOMAIN offsets[G] = 1..Len(offsets[G])
      BY <1>1, <1>5, LenProperties
    <3>2. /\ DOMAIN offsets'[G] = 1..(Len(offsets[G]) + 1)
          /\ \A j \in 1..Len(offsets[G]) : offsets'[G][j] = offsets[G][j]
          /\ offsets'[G][Len(offsets[G]) + 1] = o
      BY <1>6, <1>8, <3>1
    <3> QED
      BY <1>9, <2>2, <3>1, <3>2
  <2> QED
    BY <2>1, <2>2
<1>10. \A g \in GroupIds : \A i \in DOMAIN offsets[g] : offsets[g][i] \in Nat /\ i \in Nat
  BY <1>1, LenProperties, ElementOfSeq
<1>11. \A g \in GroupIds : \A i \in DOMAIN offsets[g] :
           /\ offsets[g][i] < Len(stream) /\ offsets[g][i] < o
           /\ ~dg.groups[g].vlsd => /\ offsets[g][i] + RecordSize(dg, dg.groups[g]) <= o
                                    /\ offsets[g][i] + RecordSize(dg, dg.groups[g]) <= Len(stream)
  BY <1>2 DEF IndexInv, RecordsBehind, o
<1>12. TypeOK'
  BY <1>1, <1>2, <1>5, <1>8 DEF TypeOK
<1>13. PhaseOK' /\ BaseInLockStep'
  BY <1>2, <1>3 DEF PhaseOK, BaseInLockStep
<1>14. RecordsBehind'
  <2> SUFFICES ASSUME NEW g \in GroupIds, NEW i \in DOMAIN offsets'[g]
               PROVE  LET p == offsets'[g][i]
                          end == IF dg.groups[g].vlsd THEN p + 1
                                 ELSE p + RecordSize(dg, dg.groups[g])
                      IN  /\ p < Len(stream) /\ end <= Len(stream)
                          /\ p < base + next /\ end <= base + next
    BY <1>2 DEF RecordsBehind
  <2>1. o + 1 <= Len(stream) /\ o < base + next /\ o \in Nat /\ base + next \in Nat
    BY <1>1, <1>4, <1>5, <1>6 DEF o
  <2>2. CASE i \in DOMAIN offsets[g] /\ offsets'[g][i] = offsets[g][i]
    BY <1>4, <1>7, <1>10, <1>11, <2>1, <2>2
  <2>3. CASE g = G /\ offsets'[g][i] = o
    <3>1. CASE dg.groups[G].vlsd
      BY <1>4, <2>1, <2>3, <3>1
    <3>2. CASE ~dg.groups[G].vlsd
      <4>1. o + RecordSize(dg, dg.groups[G]) = base + next
        <5>1. RecordSize(dg, dg.groups[G]) \in Nat
          BY <1>5, <1>7
        <5>2. next = pos + RecordSize(dg, dg.groups[G])
          BY <1>5, <3>2
        <5> QED
          BY <1>1, <5>1, <5>2 DEF o
      <4>2. base + next <= Len(stream)
        BY <1>1, <1>3, <1>4, <1>5, <3>2
      <4> QED
        BY <1>4, <2>1, <2>3, <3>2, <4>1, <4>2
    <3> QED
      BY <3>1, <3>2
  <2> QED
    BY <1>9, <2>2, <2>3
<1>15. IndexedAtOwnId'
  <2>1. IndexedAtOwnId
    BY DEF IndexInv
  <2> QED
    BY <1>2, <1>6, <1>9, <2>1 DEF IndexedAtOwnId
<1>16. RecordsDisjoint'
  <2> SUFFICES ASSUME NEW g \in GroupIds, NEW h \in GroupIds,
                      NEW i \in DOMAIN offsets'[g], NEW j \in DOMAIN offsets'[h],
                      ~dg.groups[g].vlsd, offsets'[g][i] < offsets'[h][j]
               PROVE  offsets'[g][i] + RecordSize(dg, dg.groups[g]) <= offsets'[h][j]
    BY <1>2 DEF RecordsDisjoint
  <2>1. CASE i \in DOMAIN offsets[g] /\ offsets'[g][i] = offsets[g][i]
    <3>1. CASE j \in DOMAIN offsets[h] /\ offsets'[h][j] = offsets[h][j]
      BY <2>1, <3>1 DEF IndexInv, RecordsDisjoint
    <3>2. CASE offsets'[h][j] = o
      BY <1>11, <2>1, <3>2
    <3> QED
      BY <1>9, <3>1, <3>2
  <2>2. CASE offsets'[g][i] = o
    <3>1. offsets'[h][j] <= o
      BY <1>6, <1>9, <1>10, <1>11
    <3> QED
      BY <1>6, <1>9, <1>10, <2>2, <3>1
  <2> QED
    BY <1>9, <2>1, <2>2
<1>17. OffsetsAscend'
  <2> SUFFICES ASSUME NEW g \in GroupIds,
                      NEW i \in DOMAIN offsets'[g], NEW j \in DOMAIN offsets'[g], i < j
               PROVE  offsets'[g][i] < offsets'[g][j]
    BY <1>2 DEF OffsetsAscend
  <2>1. Len(offsets[g]) \in Nat /\ DOMAIN offsets[g] = 1..Len(offsets[g])
    BY <1>1, LenProperties
  <2>2. i \in DOMAIN offsets[g] /\ offsets'[g][i] = offsets[g][i]
    <3>1. ~(g = G /\ i = Len(offsets[G]) + 1)
      BY <1>9, <2>1
    <3> QED
      BY <1>9, <3>1
  <2>3. CASE j \in DOMAIN offsets[g] /\ offsets'[g][j] = offsets[g][j]
    BY <2>2, <2>3 DEF IndexInv, OffsetsAscend
  <2>4. CASE offsets'[g][j] = o
    BY <1>11, <2>2, <2>4
  <2> QED
    BY <1>9, <2>3, <2>4
<1> QED
  BY <1>12, <1>13, <1>14, <1>15, <1>16, <1>17 DEF IndexInv

\* The actions that only prepare the walk, refuse the file or end the walk.
LEMMA OtherSteps ==
    ASSUME IndexInv,
           \/ ListBlock \/ EndOfChain \/ NoBlocks \/ SizeSorted
           \/ StartWalk \/ ReadBlockFails \/ FinishWalk
    PROVE  IndexInv'
PROOF
<1>1. /\ TypeOK /\ dg \in DataGroup
      /\ dg.blocks \in Seq(Block) /\ Len(dg.blocks) \in Nat
      /\ stream \in Seq(Byte) /\ offsets \in [GroupIds -> Seq(Nat)]
  BY LenProperties DEF IndexInv, TypeOK, DataGroup
<1>2. UNCHANGED <<dg, pos, base, stream, offsets>> /\ phase # "walk" /\ phase' # "walk"
  BY DEF ListBlock, EndOfChain, NoBlocks, SizeSorted, StartWalk, ReadBlockFails, FinishWalk
<1>3. TypeOK'
  <2>1. CASE ListBlock
    <3>1. dg.blocks[block] \in Block
      BY <1>1, <2>1, ElementOfSeq DEF ListBlock, TypeOK
    <3>2. Len(dg.blocks[block].data) \in Nat /\ Len(dg.blocks[block].di) \in Nat
      BY <3>1, LenProperties DEF Block
    <3>3. EffectiveSize(dg.blocks[block]) \in Nat
      <4> DEFINE extra == IF dg.blocks[block].hasDi THEN Len(dg.blocks[block].di) ELSE 0
      <4>1. extra \in Nat
        BY <3>2, Zenon
      <4> HIDE DEF extra
      <4>2. Len(dg.blocks[block].data) + extra \in Nat
        BY <3>2, <4>1
      <4> QED
        BY <4>2 DEF EffectiveSize, extra
    <3> QED
      BY <1>1, <2>1, <3>3 DEF ListBlock, TypeOK, GroupIds
  <2>2. CASE EndOfChain
    BY <1>1, <2>2 DEF EndOfChain, TypeOK, GroupIds
  <2>3. CASE NoBlocks
    BY <1>1, <2>3 DEF NoBlocks, TypeOK, GroupIds
  <2>4. CASE SizeSorted
    <3>1. ASSUME NEW g \in GroupIds
          PROVE  SizedCount(g) \in Nat
      <4>1. RecordSize(dg, dg.groups[g]) \in Nat /\ counts[g] \in Nat /\ total \in Nat
        BY <1>1, RecordSizeIsNat DEF TypeOK, GroupIds
      <4>2. CASE RecordSize(dg, dg.groups[g]) = 0
        BY <4>2 DEF SizedCount
      <4>3. CASE RecordSize(dg, dg.groups[g]) # 0
        <5>1. total \div RecordSize(dg, dg.groups[g]) \in Nat
          BY <4>1, <4>3, QuotientIsNat
        <5> QED
          BY <4>1, <4>3, <5>1 DEF SizedCount
      <4> QED
        BY <4>2, <4>3
    <3> QED
      BY <1>1, <2>4, <3>1 DEF SizeSorted, TypeOK, GroupIds
  <2>5. CASE StartWalk
    BY <1>1, <2>5 DEF StartWalk, TypeOK, GroupIds
  <2>6. CASE ReadBlockFails
    BY <1>1, <2>6 DEF ReadBlockFails, TypeOK, GroupIds
  <2>7. CASE FinishWalk
    <3>1. \A g \in GroupIds : Len(offsets[g]) \in Nat
      BY <1>1, LenProperties
    <3> QED
      BY <1>1, <2>7, <3>1 DEF FinishWalk, TypeOK, GroupIds
  <2> QED
    BY <2>1, <2>2, <2>3, <2>4, <2>5, <2>6, <2>7
<1>4. PhaseOK' /\ BaseInLockStep'
  <2>1. stream = <<>> => Len(stream) = 0
    OBVIOUS
  <2> QED
    BY <2>1 DEF IndexInv, PhaseOK, BaseInLockStep, ListBlock, EndOfChain, NoBlocks, SizeSorted,
       StartWalk, ReadBlockFails, FinishWalk, GroupIds
<1>5. RecordsBehind'
  BY <1>2 DEF IndexInv, RecordsBehind, GroupIds
<1> QED
  BY <1>2, <1>3, <1>4, <1>5, IndexUnchanged DEF IndexInv

\* Steps that leave the index alone leave the invariant alone.
LEMMA IndexInvStutter ==
    ASSUME IndexInv, UNCHANGED indexVars
    PROVE  IndexInv'
PROOF
<1> USE DEF indexVars
<1>1. TypeOK'
  BY DEF IndexInv, TypeOK, GroupIds
<1>2. PhaseOK' /\ BaseInLockStep' /\ RecordsBehind'
  BY DEF IndexInv, PhaseOK, BaseInLockStep, RecordsBehind, GroupIds, data
<1> QED
  BY <1>1, <1>2, IndexUnchanged DEF IndexInv

\* Every step of opening a data group preserves the invariant.
LEMMA IndexInvStep == IndexInv /\ [IndexNext]_indexVars => IndexInv'
PROOF
<1> SUFFICES ASSUME IndexInv, [IndexNext]_indexVars
             PROVE  IndexInv'
  OBVIOUS
<1>1. CASE ReadBlock
  BY <1>1, ReadBlockStep
<1>2. CASE IndexRecord
  BY <1>2, IndexRecordStep
<1>3. CASE EndBlock
  BY <1>3, EndBlockStep
<1>4. CASE \/ ListBlock \/ EndOfChain \/ NoBlocks \/ SizeSorted
           \/ StartWalk \/ ReadBlockFails \/ FinishWalk
  BY <1>4, OtherSteps
<1>5. CASE UNCHANGED indexVars
  BY <1>5, IndexInvStutter
<1> QED
  BY <1>1, <1>2, <1>3, <1>4, <1>5 DEF IndexNext

\* index_records keeps its inductive invariant whatever the bytes are.
THEOREM IndexInvariant == IndexSpec => []IndexInv
PROOF
<1> QED
  BY IndexInvInit, IndexInvStep, PTL DEF IndexSpec

\* Type correctness of the open-time walk: no position, count or size ever
\* leaves its range, whatever lengths and IDs the bytes declare.
THEOREM IndexTypeCorrect == IndexSpec => []TypeOK
PROOF
<1>1. IndexInv => TypeOK
  BY DEF IndexInv
<1> QED
  BY <1>1, IndexInvariant, PTL

\* Every offset index_records remembers points at a record ID of the group it
\* is remembered for, in the stream that a later read assembles.
THEOREM IndexSound == IndexSpec => []IndexedAtOwnId
PROOF
<1>1. IndexInv => IndexedAtOwnId
  BY DEF IndexInv
<1> QED
  BY <1>1, IndexInvariant, PTL

\* No byte of the stream is read as part of two fixed-size records, of one
\* group or of two.
THEOREM IndexSeparates == IndexSpec => []RecordsDisjoint
PROOF
<1>1. IndexInv => RecordsDisjoint
  BY DEF IndexInv
<1> QED
  BY <1>1, IndexInvariant, PTL

\* A group's offsets ascend, so its records come in stream order.
THEOREM IndexAscends == IndexSpec => []OffsetsAscend
PROOF
<1>1. IndexInv => OffsetsAscend
  BY DEF IndexInv
<1> QED
  BY <1>1, IndexInvariant, PTL

\* Positions are relative to what blocks produced, not to what they declared:
\* the walk's base never parts from the stream.
THEOREM IndexInLockStep == IndexSpec => []BaseInLockStep
PROOF
<1>1. IndexInv => BaseInLockStep
  BY DEF IndexInv
<1> QED
  BY <1>1, IndexInvariant, PTL

\* Gathering a group's records delivers exactly as many as were counted: the
\* walk's bound checks leave none that the gather would have to drop.
THEOREM CountsDelivered == IndexSpec => []CountsAreDelivered
PROOF
<1>1. IndexInv => CountsAreDelivered
  <2> SUFFICES ASSUME IndexInv, phase = "open", Unsorted(dg), dg.blocks # <<>>,
                      NEW g \in GroupIds, ~dg.groups[g].vlsd,
                      PayloadSize(dg.groups[g]) > 0
               PROVE  Len(Gathered(stream, g)) = counts[g]
    BY DEF CountsAreDelivered
  <2> DEFINE size == PayloadSize(dg.groups[g])
             L == Len(offsets[g])
             Fits(i) == offsets[g][i] + dg.idSize + size <= Len(stream)
             Held(n) == /\ \A i \in 1..n : Fits(i)
                        /\ n < L => ~Fits(n + 1)
             n == CHOOSE k \in 0..L : Held(k)
             Start(i) == offsets[g][i] + dg.idSize
  <2>1. /\ dg \in DataGroup /\ counts[g] = L
        /\ offsets[g] \in Seq(Nat)
    BY DEF IndexInv, TypeOK, PhaseOK
  <2>2. L \in Nat /\ DOMAIN offsets[g] = 1..L
    BY <2>1, LenProperties
  <2>3. /\ dg.idSize \in Nat /\ size \in Nat
        /\ RecordSize(dg, dg.groups[g]) = dg.idSize + size
    BY <2>1, RecordSizeIsNat DEF GroupIds, RecordSize
  <2>4. \A i \in 1..L : offsets[g][i] \in Nat
    BY <2>1, <2>2, ElementOfSeq
  <2>5. \A i \in 1..L : offsets[g][i] + RecordSize(dg, dg.groups[g]) <= Len(stream)
    BY <2>2 DEF IndexInv, RecordsBehind
  <2>6. \A i \in 1..L : Fits(i)
    BY <2>3, <2>4, <2>5
  <2> HIDE DEF Fits
  <2>7. Held(L)
    BY <2>2, <2>6
  <2>8. n \in 0..L /\ Held(n)
    BY <2>2, <2>7
  <2>9. n = L
    BY <2>2, <2>6, <2>8
  <2>10. Gathered(stream, g) = [i \in 1..n |-> SubSeq(stream, Start(i) + 1, Start(i) + size)]
    BY DEF Gathered, Fits
  <2> HIDE DEF n
  <2> QED
    BY <2>1, <2>2, <2>9, <2>10
<1> QED
  BY <1>1, IndexInvariant, PTL

(***************************************************************************)
(* The stream the walk leaves behind.                                      *)
(***************************************************************************)

\* f[i] is what the first i blocks of d produce, up to the n-th.
IsJoin(f, d, n) ==
    /\ f \in [0..n -> Seq(Byte)]
    /\ f[0] = <<>>
    /\ \A i \in 1..n : /\ Readable(d, d.blocks[i])
                       /\ f[i] = f[i - 1] \o Payload(d, d.blocks[i])

\* s is what the first n blocks of d produce, and all of them were readable.
Joins(s, d, n) == \E f : IsJoin(f, d, n) /\ f[n] = s

\* At every block boundary of the walk the stream is all that came before.
SeedInv ==
    /\ phase = "sizing" => block = 1
    /\ phase = "block" => block - 1 <= Len(dg.blocks) /\ Joins(stream, dg, block - 1)
    /\ phase = "walk" => Joins(stream, dg, block)
    /\ (phase = "open" /\ Unsorted(dg) /\ dg.blocks # <<>>) =>
           Joins(stream, dg, Len(dg.blocks))

\* Before the first block there is nothing.
LEMMA NothingJoined ==
    ASSUME NEW d
    PROVE  Joins(<<>>, d, 0)
PROOF
<1> DEFINE f == [i \in 0..0 |-> <<>>]
<1>1. f \in [0..0 -> Seq(Byte)] /\ f[0] = <<>>
  BY EmptySeq
<1>2. 1..0 = {}
  OBVIOUS
<1>3. IsJoin(f, d, 0)
  BY <1>1, <1>2 DEF IsJoin
<1> QED
  BY <1>1, <1>3 DEF Joins

\* One more block is appended.
LEMMA OneMoreBlock ==
    ASSUME NEW d \in DataGroup, NEW n \in Nat, NEW s,
           Joins(s, d, n), n + 1 <= Len(d.blocks), Readable(d, d.blocks[n + 1])
    PROVE  Joins(s \o Payload(d, d.blocks[n + 1]), d, n + 1)
PROOF
<1>1. PICK f : IsJoin(f, d, n) /\ f[n] = s
  BY DEF Joins
<1> DEFINE more == Payload(d, d.blocks[n + 1])
           h == [i \in 0..(n + 1) |-> IF i = n + 1 THEN s \o more ELSE f[i]]
<1>2. s \in Seq(Byte)
  BY <1>1 DEF IsJoin
<1>3. more \in Seq(Byte)
  <2>1. d.blocks \in Seq(Block) /\ Len(d.blocks) \in Nat
    BY LenProperties DEF DataGroup
  <2>2. d.blocks[n + 1] \in Block
    BY <2>1, ElementOfSeq
  <2> QED
    BY <2>2, PayloadIsBytes
<1> HIDE DEF more
<1>4. s \o more \in Seq(Byte)
  BY <1>2, <1>3, ConcatProperties
<1> DEFINE whole == s \o more
<1> HIDE DEF whole
<1>5. h \in [0..(n + 1) -> Seq(Byte)]
  <2>1. \A i \in 0..(n + 1) : i # n + 1 => i \in 0..n
    OBVIOUS
  <2>2. \A i \in 0..n : f[i] \in Seq(Byte)
    BY <1>1 DEF IsJoin
  <2> QED
    BY <1>4, <2>1, <2>2
<1>6. h[0] = <<>>
  BY <1>1 DEF IsJoin
<1>7. h[n + 1] = s \o more
  OBVIOUS
<1>8. ASSUME NEW i \in 1..(n + 1)
      PROVE  Readable(d, d.blocks[i]) /\ h[i] = h[i - 1] \o Payload(d, d.blocks[i])
  <2>1. CASE i = n + 1
    <3>1. h[i - 1] = s
      BY <1>1, <2>1
    <3> QED
      BY <1>7, <2>1, <3>1 DEF more
  <2>2. CASE i # n + 1
    <3>1. i \in 1..n /\ h[i] = f[i] /\ h[i - 1] = f[i - 1]
      BY <2>2
    <3> QED
      BY <1>1, <3>1 DEF IsJoin
  <2> QED
    BY <2>1, <2>2
<1> HIDE DEF h
<1>9. IsJoin(h, d, n + 1)
  BY <1>5, <1>6, <1>8 DEF IsJoin
<1> QED
  BY <1>7, <1>9 DEF Joins, more

\* What all the blocks produce is what a later read assembles.
LEMMA JoinedIsWhole ==
    ASSUME dg \in DataGroup, NEW s, Joins(s, dg, Len(dg.blocks))
    PROVE  s = WholeStream
PROOF
<1> DEFINE N == Len(dg.blocks)
           Upto == CHOOSE u : u = [n \in 0..N |->
                       IF n = 0 THEN <<>> ELSE u[n - 1] \o Payload(dg, dg.blocks[n])]
<1>1. N \in Nat
  BY LenProperties DEF DataGroup
<1>2. WholeStream = Upto[N]
  BY DEF WholeStream
<1> HIDE DEF N
<1>3. PICK f : IsJoin(f, dg, N) /\ f[N] = s
  BY DEF Joins, N
<1>4. f = [n \in 0..N |-> IF n = 0 THEN <<>> ELSE f[n - 1] \o Payload(dg, dg.blocks[n])]
  <2>1. f \in [0..N -> Seq(Byte)]
    BY <1>3 DEF IsJoin
  <2> DEFINE h == [n \in 0..N |-> IF n = 0 THEN <<>> ELSE f[n - 1] \o Payload(dg, dg.blocks[n])]
  <2>2. \A n \in 0..N : f[n] = h[n]
    <3> SUFFICES ASSUME NEW n \in 0..N
                 PROVE  f[n] = h[n]
      OBVIOUS
    <3>1. CASE n = 0
      BY <1>3, <3>1 DEF IsJoin
    <3>2. CASE n # 0
      <4>1. n \in 1..N
        BY <1>1, <3>2
      <4> QED
        BY <1>3, <3>2, <4>1 DEF IsJoin
    <3> QED
      BY <3>1, <3>2
  <2>3. DOMAIN h = 0..N
    OBVIOUS
  <2>4. h = [n \in 0..N |-> h[n]]
    OBVIOUS
  <2> HIDE DEF h
  <2>5. f = h
    BY <2>1, <2>2, <2>4
  <2> QED
    BY <2>5 DEF h
<1>5. Upto = [n \in 0..N |-> IF n = 0 THEN <<>> ELSE Upto[n - 1] \o Payload(dg, dg.blocks[n])]
  BY <1>4
<1> HIDE DEF Upto
<1> DEFINE T == {n \in Nat : n <= N => f[n] = Upto[n]}
<1>6. 0 \in T
  BY <1>1, <1>3, <1>5 DEF IsJoin
<1>7. ASSUME NEW n \in T
      PROVE  n + 1 \in T
  <2> SUFFICES ASSUME n + 1 <= N
               PROVE  f[n + 1] = Upto[n + 1]
    OBVIOUS
  <2>1. /\ n \in Nat /\ n + 1 \in 0..N /\ n + 1 \in 1..N /\ n + 1 # 0
        /\ (n + 1) - 1 = n /\ n <= N
    BY <1>1
  <2>2. Upto[n + 1] = Upto[n] \o Payload(dg, dg.blocks[n + 1])
    BY <1>5, <2>1
  <2>3. f[n + 1] = f[n] \o Payload(dg, dg.blocks[n + 1])
    BY <1>3, <2>1 DEF IsJoin
  <2> QED
    BY <2>1, <2>2, <2>3
<1>8. N \in T
  <2> HIDE DEF T
  <2>1. T \in SUBSET Nat
    BY DEF T
  <2>2. T = Nat
    BY <1>6, <1>7, <2>1, NumberInduction
  <2> QED
    BY <1>1, <2>2
<1>9. f[N] = Upto[N]
  BY <1>1, <1>8
<1> QED
  BY <1>2, <1>3, <1>9

\* Every step keeps the stream what the blocks before it produced.
LEMMA SeedStep == IndexInv /\ SeedInv /\ [IndexNext]_indexVars => SeedInv'
PROOF
<1> SUFFICES ASSUME IndexInv, SeedInv, [IndexNext]_indexVars
             PROVE  SeedInv'
  OBVIOUS
<1> USE DEF SeedInv
<1>1. /\ dg \in DataGroup /\ block \in Nat /\ block # 0
      /\ phase \in {"listing", "sizing", "block", "walk", "open", "failed"}
      /\ dg.blocks \in Seq(Block) /\ Len(dg.blocks) \in Nat
  BY LenProperties DEF IndexInv, TypeOK, DataGroup
<1>2. dg' = dg
  BY DEF IndexNext, ListBlock, EndOfChain, NoBlocks, SizeSorted, StartWalk, ReadBlock,
         ReadBlockFails, IndexRecord, EndBlock, FinishWalk, indexVars
<1>3. CASE ListBlock
  BY <1>3 DEF ListBlock
<1>4. CASE EndOfChain
  BY <1>4 DEF EndOfChain
<1>5. CASE NoBlocks
  BY <1>2, <1>5 DEF NoBlocks
<1>6. CASE SizeSorted
  BY <1>2, <1>6 DEF SizeSorted
<1>7. CASE StartWalk
  <2>1. phase' = "block" /\ block' = 1 /\ stream' = <<>>
    BY <1>7 DEF StartWalk, IndexInv, PhaseOK
  <2>2. Joins(<<>>, dg, 0)
    BY NothingJoined
  <2>3. block' - 1 = 0 /\ 0 <= Len(dg.blocks)
    BY <1>1, <2>1
  <2> QED
    BY <1>2, <2>1, <2>2, <2>3
<1>8. CASE ReadBlock
  <2>1. /\ phase = "block" /\ phase' = "walk" /\ block' = block
        /\ block <= Len(dg.blocks) /\ Readable(dg, dg.blocks[block])
        /\ stream' = stream \o Payload(dg, dg.blocks[block])
    BY <1>8 DEF ReadBlock, data
  <2>2. Joins(stream, dg, block - 1)
    BY <2>1
  <2>3. PICK n \in Nat : n = block - 1 /\ n + 1 = block
    BY <1>1
  <2>4. Joins(stream \o Payload(dg, dg.blocks[n + 1]), dg, n + 1)
    BY <1>1, <2>1, <2>2, <2>3, OneMoreBlock
  <2> QED
    BY <1>2, <2>1, <2>3, <2>4
<1>9. CASE ReadBlockFails
  BY <1>9 DEF ReadBlockFails
<1>10. CASE IndexRecord
  BY <1>2, <1>10 DEF IndexRecord
<1>11. CASE EndBlock
  <2>1. /\ phase = "walk" /\ phase' = "block" /\ block' = block + 1
        /\ stream' = stream /\ block <= Len(dg.blocks)
    BY <1>11 DEF EndBlock, IndexInv, PhaseOK
  <2>2. block' - 1 = block
    BY <1>1, <2>1
  <2> QED
    BY <1>2, <2>1, <2>2
<1>12. CASE FinishWalk
  <2>1. /\ phase = "block" /\ phase' = "open" /\ block > Len(dg.blocks)
        /\ stream' = stream
    BY <1>12 DEF FinishWalk
  <2>2. block - 1 = Len(dg.blocks)
    BY <1>1, <2>1
  <2> QED
    BY <1>2, <2>1, <2>2
<1>13. CASE UNCHANGED indexVars
  BY <1>13 DEF indexVars
<1> QED
  BY <1>3, <1>4, <1>5, <1>6, <1>7, <1>8, <1>9, <1>10, <1>11, <1>12, <1>13 DEF IndexNext

\* The stream that seeds the cache after the walk is, byte for byte, the one a
\* later read of the whole signal would assemble from the blocks.
THEOREM IndexSeedsTheWholeStream == IndexSpec => []SeededStreamIsWhole
PROOF
<1>1. Init => SeedInv
  BY DEF Init, SeedInv
<1>2. IndexInv /\ SeedInv => SeededStreamIsWhole
  <2> SUFFICES ASSUME IndexInv, SeedInv, phase = "open", Unsorted(dg), dg.blocks # <<>>
               PROVE  stream = WholeStream
    BY DEF SeededStreamIsWhole
  <2>1. dg \in DataGroup /\ Joins(stream, dg, Len(dg.blocks))
    BY DEF IndexInv, TypeOK, SeedInv
  <2> QED
    BY <2>1, JoinedIsWhole
<1> QED
  BY <1>1, <1>2, SeedStep, IndexInvariant, PTL DEF IndexSpec
=============================================================================

---------------------------- MODULE RecordIndex ----------------------------
(***************************************************************************)
(* Opening a data group.  Its blocks are listed, with the running total of *)
(* their sizes (DataBlockIndex), and index_records then makes one walk over *)
(* the group's stream.  A sorted data group only has its cycle counts      *)
(* corrected.  An unsorted one, whose channel groups interleave their      *)
(* records in one stream, is walked record by record, and the position of  *)
(* every record is remembered for the reads that come later.               *)
(***************************************************************************)
EXTENDS RecordFormat

CONSTANT DataGroups   \* the data groups a file may hold

ASSUME DataGroupsAssumption == DataGroups \subseteq DataGroup

VARIABLES
    dg,       \* the data group being opened
    phase,    \* "listing", "sizing", "block", "walk", then "open" or "failed"
    total,    \* DataBlockIndex: total_size of the blocks listed
    block,    \* the data block at hand
    pos,      \* position within that block's payload
    base,     \* position of that payload within the stream
    stream,   \* the payloads appended so far
    offsets,  \* RecordIndex: positions of each channel group's records
    counts    \* sample_count of each channel group

indexVars == <<dg, phase, total, block, pos, base, stream, offsets, counts>>

GroupIds == DOMAIN dg.groups

data == Payload(dg, dg.blocks[block])

(***************************************************************************)
(* Initial state and actions.                                              *)
(***************************************************************************)

Init ==
    /\ dg \in DataGroups
    /\ phase = "listing"
    /\ total = 0
    /\ block = 1 /\ pos = 0 /\ base = 0
    /\ stream = <<>>
    /\ offsets = [g \in GroupIds |-> <<>>]
    /\ counts = [g \in GroupIds |-> dg.groups[g].cycles]

\* DataBlockIndex::push, once for every block of the chain.
ListBlock ==
    /\ phase = "listing"
    /\ block <= Len(dg.blocks)
    /\ total' = total + EffectiveSize(dg.blocks[block])
    /\ block' = block + 1
    /\ UNCHANGED <<dg, phase, pos, base, stream, offsets, counts>>

EndOfChain ==
    /\ phase = "listing"
    /\ block > Len(dg.blocks)
    /\ block' = 1
    /\ phase' = "sizing"
    /\ UNCHANGED <<dg, total, pos, base, stream, offsets, counts>>

\* No data blocks: the early return leaves every declared count as it is.
NoBlocks ==
    /\ phase = "sizing"
    /\ dg.blocks = <<>>
    /\ phase' = "open"
    /\ UNCHANGED <<dg, total, block, pos, base, stream, offsets, counts>>

\* A declared count of zero, or one the data cannot hold, is replaced by what
\* the data can hold.
SizedCount(g) ==
    LET size == RecordSize(dg, dg.groups[g])
        capacity == total \div size
    IN  IF size = 0 THEN 0
        ELSE IF counts[g] = 0 \/ counts[g] > capacity THEN capacity
        ELSE counts[g]

SizeSorted ==
    /\ phase = "sizing"
    /\ dg.blocks # <<>>
    /\ ~Unsorted(dg)
    /\ counts' = [g \in GroupIds |-> SizedCount(g)]
    /\ phase' = "open"
    /\ UNCHANGED <<dg, total, block, pos, base, stream, offsets>>

StartWalk ==
    /\ phase = "sizing"
    /\ dg.blocks # <<>>
    /\ Unsorted(dg)
    /\ phase' = "block"
    /\ UNCHANGED <<dg, total, block, pos, base, stream, offsets, counts>>

\* Mutant of ReadBlock: the stream keeps the data section alone.
ReadBlockRaw ==
    /\ phase = "block"
    /\ block <= Len(dg.blocks)
    /\ Readable(dg, dg.blocks[block])
    /\ stream' = stream \o dg.blocks[block].data
    /\ pos' = 0
    /\ phase' = "walk"
    /\ UNCHANGED <<dg, total, block, base, offsets, counts>>

\* append_block_payload, then the walk starts at the block's first byte.
ReadBlock ==
    /\ phase = "block"
    /\ block <= Len(dg.blocks)
    /\ Readable(dg, dg.blocks[block])
    /\ stream' = stream \o data
    /\ pos' = 0
    /\ phase' = "walk"
    /\ UNCHANGED <<dg, total, block, base, offsets, counts>>

\* The source refuses the bytes, or the block cannot be assembled: the error
\* is passed on and the file does not open.
ReadBlockFails ==
    /\ phase = "block"
    /\ block <= Len(dg.blocks)
    /\ phase' = "failed"
    /\ UNCHANGED <<dg, total, block, pos, base, stream, offsets, counts>>

\* Mutant of IndexRecord: the offset is one within the block.
IndexRecordUnrebased ==
    /\ phase = "walk"
    /\ Measurable(dg, data, pos)
    /\ LET g == GroupAt(dg, data, pos) IN
           offsets' = [offsets EXCEPT ![g] = Append(@, pos)]
    /\ pos' = After(dg, data, pos)
    /\ UNCHANGED <<dg, phase, total, block, base, stream, counts>>

IndexRecord ==
    /\ phase = "walk"
    /\ Measurable(dg, data, pos)
    /\ LET g == GroupAt(dg, data, pos) IN
           offsets' = [offsets EXCEPT ![g] = Append(@, base + pos)]
    /\ pos' = After(dg, data, pos)
    /\ UNCHANGED <<dg, phase, total, block, base, stream, counts>>

\* Mutant of EndBlock: only at the end, so that the walk cannot leave a record
\* it cannot measure.
EndBlockAtEnd ==
    /\ phase = "walk"
    /\ pos >= Len(data)
    /\ base' = base + Len(data)
    /\ block' = block + 1
    /\ phase' = "block"
    /\ UNCHANGED <<dg, total, pos, stream, offsets, counts>>

\* The end of the block, or a record that cannot be measured: either way the
\* walk goes on with the next block, after all the bytes this one produced.
EndBlock ==
    /\ phase = "walk"
    /\ ~Measurable(dg, data, pos)
    /\ base' = base + Len(data)
    /\ block' = block + 1
    /\ phase' = "block"
    /\ UNCHANGED <<dg, total, pos, stream, offsets, counts>>

\* Mutant of FinishWalk: a declared count that is not zero is believed.
FinishWalkTrusting ==
    /\ phase = "block"
    /\ block > Len(dg.blocks)
    /\ counts' = [g \in GroupIds |-> IF counts[g] = 0 THEN Len(offsets[g]) ELSE counts[g]]
    /\ phase' = "open"
    /\ UNCHANGED <<dg, total, block, pos, base, stream, offsets>>

\* The walk's counts replace the declared ones.
FinishWalk ==
    /\ phase = "block"
    /\ block > Len(dg.blocks)
    /\ counts' = [g \in GroupIds |-> Len(offsets[g])]
    /\ phase' = "open"
    /\ UNCHANGED <<dg, total, block, pos, base, stream, offsets>>

IndexNext ==
    \/ ListBlock
    \/ EndOfChain
    \/ NoBlocks
    \/ SizeSorted
    \/ StartWalk
    \/ ReadBlock
    \/ ReadBlockFails
    \/ IndexRecord
    \/ EndBlock
    \/ FinishWalk

IndexSpec == Init /\ [][IndexNext]_indexVars

\* index_records is one call: once begun it runs until it returns.
FairIndexSpec == IndexSpec /\ WF_indexVars(IndexNext)

(***************************************************************************)
(* The whole-signal reads that use the index.                              *)
(***************************************************************************)

\* read_raw_data_indexed: the stream a later read assembles.
WholeStream ==
    LET Upto[n \in 0..Len(dg.blocks)] ==
            IF n = 0 THEN <<>> ELSE Upto[n - 1] \o Payload(dg, dg.blocks[n])
    IN  Upto[Len(dg.blocks)]

\* gather_records: the records of one group, in stream order, up to the first
\* one that runs past the end.
Gathered(raw, g) ==
    LET size == PayloadSize(dg.groups[g])
        Fits(i) == offsets[g][i] + dg.idSize + size <= Len(raw)
        n == CHOOSE n \in 0..Len(offsets[g]) :
                 /\ \A i \in 1..n : Fits(i)
                 /\ n < Len(offsets[g]) => ~Fits(n + 1)
        Start(i) == offsets[g][i] + dg.idSize
    IN  IF size = 0 THEN <<>>
        ELSE [i \in 1..n |-> SubSeq(raw, Start(i) + 1, Start(i) + size)]

\* A sorted group's records are a stride; one past the end cannot be decoded.
Strided(raw, g) ==
    LET size == RecordSize(dg, dg.groups[g])
        held == IF size = 0 THEN 0 ELSE Least(counts[g], Len(raw) \div size)
    IN  [i \in 1..held |-> SubSeq(raw, (i - 1) * size + dg.idSize + 1, i * size)]

\* The records Mf4File::signal decodes.
EagerRecords(g) ==
    IF Unsorted(dg) THEN Gathered(WholeStream, g) ELSE Strided(WholeStream, g)

(***************************************************************************)
(* Properties.                                                             *)
(***************************************************************************)

TypeOK ==
    /\ dg \in DataGroup
    /\ phase \in {"listing", "sizing", "block", "walk", "open", "failed"}
    /\ total \in Nat
    /\ block \in Nat \ {0}
    /\ pos \in Nat
    /\ base \in Nat
    /\ stream \in Seq(Byte)
    /\ offsets \in [GroupIds -> Seq(Nat)]
    /\ counts \in [GroupIds -> Nat]

\* base, the position recorded offsets are relative to, has grown in lock step
\* with the stream: the block being walked is exactly the run that starts there
\* (comments in index_records on base and on advancing it).
BaseInLockStep ==
    /\ phase = "block" => base = Len(stream)
    /\ phase = "walk" => /\ base + Len(data) = Len(stream)
                         /\ SubSeq(stream, base + 1, Len(stream)) = data

\* Every recorded offset points at a record ID, and at that of the group it is
\* recorded for: what a later read cuts out there is a record of that group.
IndexedAtOwnId ==
    \A g \in GroupIds : \A i \in DOMAIN offsets[g] :
        /\ HasId(dg, stream, offsets[g][i])
        /\ Field(stream, offsets[g][i], dg.idSize) = dg.groups[g].id

\* No byte belongs to two fixed-size records: a record that starts after one
\* starts after its end.  Holds across groups and across blocks.
RecordsDisjoint ==
    \A g, h \in GroupIds :
        \A i \in DOMAIN offsets[g], j \in DOMAIN offsets[h] :
            (~dg.groups[g].vlsd /\ offsets[g][i] < offsets[h][j])
                => offsets[g][i] + RecordSize(dg, dg.groups[g]) <= offsets[h][j]

\* Every record indexed so far lies behind the walk, and inside the stream.
RecordsBehind ==
    \A g \in GroupIds : \A i \in DOMAIN offsets[g] :
        LET o == offsets[g][i]
            end == IF dg.groups[g].vlsd THEN o + 1
                   ELSE o + RecordSize(dg, dg.groups[g])
        IN  /\ o < Len(stream) /\ end <= Len(stream)
            /\ phase = "walk" => o < base + pos /\ end <= base + pos

\* What the phases of the walk have established.
PhaseOK ==
    /\ phase \in {"listing", "sizing"} => base = 0 /\ stream = <<>>
    /\ phase = "walk" => /\ block <= Len(dg.blocks)
                         /\ Readable(dg, dg.blocks[block])
    /\ (phase = "open" /\ Unsorted(dg) /\ dg.blocks # <<>>) =>
           \A g \in GroupIds : counts[g] = Len(offsets[g])

\* A group's offsets ascend, which the payload tables built from them rely on.
OffsetsAscend ==
    \A g \in GroupIds : \A i, j \in DOMAIN offsets[g] :
        i < j => offsets[g][i] < offsets[g][j]

\* The stream the walk assembled, which seeds the cache, is the one a later
\* read would assemble.
SeededStreamIsWhole ==
    (phase = "open" /\ Unsorted(dg) /\ dg.blocks # <<>>) => stream = WholeStream

\* The walk's count of a group is what reading that group then delivers: the
\* bounds the walk checks are the ones gathering the records needs.
CountsAreDelivered ==
    (phase = "open" /\ Unsorted(dg) /\ dg.blocks # <<>>) =>
        \A g \in GroupIds :
            (~dg.groups[g].vlsd /\ PayloadSize(dg.groups[g]) > 0)
                => Len(Gathered(stream, g)) = counts[g]

\* The inductive invariant the proofs use.
IndexInv ==
    /\ TypeOK
    /\ PhaseOK
    /\ BaseInLockStep
    /\ RecordsBehind
    /\ IndexedAtOwnId
    /\ RecordsDisjoint
    /\ OffsetsAscend

\* Opening ends: every record moves the walk on, whatever the bytes are.
WalkEnds == <>(phase \in {"open", "failed"})
=============================================================================

---------------------------- MODULE SignalChunks ----------------------------
(***************************************************************************)
(* Mf4File::signal_chunks: the same channel that signal() reads in one     *)
(* piece, read a bounded window of the stream at a time.  The reader has   *)
(* no index: it walks each window again, carries the bytes of a cut record *)
(* over to the next window, and numbers the variable-length payloads it    *)
(* meets as the whole stream would number them.                            *)
(*                                                                         *)
(* The file is opened first (RecordIndex), then one channel is read.  The  *)
(* consumer stops at the first error, as every caller in the repository    *)
(* does; the promise of SampleStream is about the chunks up to there.      *)
(***************************************************************************)
EXTENDS RecordIndex

CONSTANT Budget   \* CHUNK_BUDGET, the bytes of a block one window covers

ASSUME BudgetAssumption == Budget \in Nat \ {0}

VARIABLES
    status,       \* "closed", "reading", "failed" or "ended"
    target,       \* the channel's group
    vlsd,         \* the group holding its variable-length payloads, or 0
    window,       \* the next segment: its block, and where it starts in it
    carry,        \* bytes of a record left over from the previous window
    remaining,    \* samples not yet handed out
    payloadBase,  \* position in the payload stream the next window starts at
    delivered     \* the samples handed out so far: records and their values

chunkVars == <<status, target, vlsd, window, carry, remaining, payloadBase, delivered>>
vars == <<indexVars, chunkVars>>

(***************************************************************************)
(* Variable-length payloads (model/vlsd.rs).                               *)
(***************************************************************************)

\* Payloads numbered from first: each is addressed by where its length prefix
\* would stand if the payloads followed one another.
Numbered(payloads, first) ==
    LET Behind[n \in 0..Len(payloads)] ==
            IF n = 0 THEN first ELSE Behind[n - 1] + Prefix + Len(payloads[n])
    IN  [n \in 1..Len(payloads) |-> [at |-> Behind[n - 1], bytes |-> payloads[n]]]

\* A record that points at no payload decodes to an empty value.
Resolve(table, offset) ==
    LET hits == {n \in DOMAIN table : table[n].at = offset}
    IN  IF hits = {} THEN <<>> ELSE table[CHOOSE n \in hits : TRUE].bytes

\* The offset field of a pointing record, one byte wide here (eight in files).
Pointer(record) == record[1]

Sample(record, table) ==
    [record |-> record,
     value  |-> IF vlsd = 0 THEN record ELSE Resolve(table, Pointer(record))]

\* VlsdPayloads::from_records: the indexed payloads, up to a truncated one.
IndexedPayloads(raw) ==
    LET at(i) == offsets[vlsd][i] + dg.idSize
        Whole(i) == /\ at(i) + Prefix <= Len(raw)
                    /\ at(i) + Prefix + Field(raw, at(i), Prefix) <= Len(raw)
        n == CHOOSE n \in 0..Len(offsets[vlsd]) :
                 /\ \A i \in 1..n : Whole(i)
                 /\ n < Len(offsets[vlsd]) => ~Whole(n + 1)
        Bytes(i) == SubSeq(raw, at(i) + Prefix + 1,
                           at(i) + Prefix + Field(raw, at(i), Prefix))
    IN  [i \in 1..n |-> Bytes(i)]

\* What signal() returns for the channel.
EagerSamples ==
    LET records == EagerRecords(target)
        table == IF vlsd = 0 THEN <<>> ELSE Numbered(IndexedPayloads(WholeStream), 0)
    IN  [i \in 1..Len(records) |-> Sample(records[i], table)]

(***************************************************************************)
(* Windows (segments and read_block_range).                                *)
(***************************************************************************)

HasWindow == window.block <= Len(dg.blocks)

WindowBlock == dg.blocks[window.block]

\* The declared size, which for a block with an invalidation section is not
\* the size of its payload.
DeclaredSize(b) == Len(b.data)

OneWindow(b) == b.compressed \/ DeclaredSize(b) <= Budget

WindowLength ==
    IF OneWindow(WindowBlock)
    THEN IF DeclaredSize(WindowBlock) = 0 THEN 1 ELSE DeclaredSize(WindowBlock)
    ELSE Least(Budget, DeclaredSize(WindowBlock) - window.start)

EndsBlock ==
    OneWindow(WindowBlock) \/ window.start + WindowLength >= DeclaredSize(WindowBlock)

NextWindow ==
    IF EndsBlock THEN [block |-> window.block + 1, start |-> 0]
    ELSE [block |-> window.block, start |-> window.start + WindowLength]

\* A deflated or interleaved block is materialised whole and then cut; the
\* bytes of any other are read where they are, up to the declared size.
WindowBytes ==
    LET whole == Payload(dg, WindowBlock)
    IN  SubSeq(whole, window.start + 1, Least(window.start + WindowLength, Len(whole)))

(***************************************************************************)
(* Demux::collect: one walk over the bytes in hand.                        *)
(***************************************************************************)

\* Unlike the walk that built the index, this one wants a variable-length
\* record's payload in hand too, and for the target's own record ID the
\* target's payload.
Takeable(s, p) ==
    /\ Measurable(dg, s, p)
    /\ dg.groups[GroupAt(dg, s, p)].vlsd => After(dg, s, p) <= Len(s)
    /\ Field(s, p, dg.idSize) = dg.groups[target].id =>
           p + RecordSize(dg, dg.groups[target]) <= Len(s)

RecordAt(s, p) ==
    SubSeq(s, p + dg.idSize + 1, p + RecordSize(dg, dg.groups[target]))

PayloadAt(s, p) == SubSeq(s, p + dg.idSize + Prefix + 1, After(dg, s, p))

\* By record ID, as the demultiplexer compares them.
IsOf(s, p, g) == g # 0 /\ Field(s, p, dg.idSize) = dg.groups[g].id

IsPayload(s, p) == dg.groups[GroupAt(dg, s, p)].vlsd /\ IsOf(s, p, vlsd)

Collect(s) ==
    LET From[p \in 0..Len(s)] ==
            IF ~Takeable(s, p)
            THEN [records |-> <<>>, payloads |-> <<>>, consumed |-> p]
            ELSE LET rest == From[After(dg, s, p)] IN
                 [records |-> IF IsOf(s, p, target)
                              THEN <<RecordAt(s, p)>> \o rest.records
                              ELSE rest.records,
                  payloads |-> IF IsPayload(s, p)
                               THEN <<PayloadAt(s, p)>> \o rest.payloads
                               ELSE rest.payloads,
                  consumed |-> rest.consumed]
    IN  From[0]

(***************************************************************************)
(* Actions.                                                                *)
(***************************************************************************)

ChunkInit ==
    /\ Init
    /\ status = "closed"
    /\ target = 1 /\ vlsd = 0
    /\ window = [block |-> 1, start |-> 0]
    /\ carry = <<>>
    /\ remaining = 0
    /\ payloadBase = 0
    /\ delivered = <<>>

Index == IndexNext /\ UNCHANGED chunkVars

\* signal_chunks: a group without record bytes is refused, and so is a
\* companion payload group where there are no record IDs to find it by.
OpenChunks ==
    /\ phase = "open"
    /\ status = "closed"
    /\ \E g \in GroupIds, v \in {0} \cup GroupIds :
           /\ ~dg.groups[g].vlsd
           /\ v # 0 => dg.groups[v].vlsd /\ dg.groups[g].data > 0
           /\ IF Unsorted(dg) THEN PayloadSize(dg.groups[g]) > 0
              ELSE v = 0 /\ RecordSize(dg, dg.groups[g]) > 0
           /\ target' = g
           /\ vlsd' = v
           /\ remaining' = counts[g]
    /\ status' = "reading"
    /\ UNCHANGED <<indexVars, window, carry, payloadBase, delivered>>

Pulling == status = "reading" /\ remaining > 0 /\ HasWindow

\* Hands out as many of the window's records as the group still has samples.
HandOut(records, table) ==
    LET count == Least(Len(records), remaining)
    IN  /\ delivered' = delivered \o [i \in 1..count |-> Sample(records[i], table)]
        /\ remaining' = remaining - count

\* Mutant of Tailing: nothing is carried over.
TailingLost(buffer, consumed) == <<>>

\* The bytes of a window no record has used.
Tailing(buffer, consumed) == SubSeq(buffer, consumed + 1, Len(buffer))

\* Mutant of BaseAfter: every window numbers its payloads from the start.
BaseUnmoved(table) == payloadBase

\* VlsdPayloads::next_base: where the payload after the last one is numbered.
BaseAfter(table) ==
    LET last == table[Len(table)]
    IN  IF table = <<>> THEN payloadBase ELSE last.at + Prefix + Len(last.bytes)

\* A sorted window is a stride of records and a tail to carry over.
SortedWindow ==
    /\ Pulling
    /\ ~Unsorted(dg)
    /\ Readable(dg, WindowBlock)
    /\ LET buffer == carry \o WindowBytes
           size == RecordSize(dg, dg.groups[target])
           whole == Len(buffer) \div size
       IN  /\ carry' = Tailing(buffer, whole * size)
           /\ HandOut([i \in 1..whole |->
                           SubSeq(buffer, (i - 1) * size + dg.idSize + 1, i * size)],
                      <<>>)
    /\ window' = NextWindow
    /\ UNCHANGED <<indexVars, status, target, vlsd, payloadBase>>

\* A record cut by the end of the window is completed by the next one; a
\* record cut by the end of the block is dropped, as the index dropped it.
UnsortedWindow ==
    /\ Pulling
    /\ Unsorted(dg)
    /\ Readable(dg, WindowBlock)
    /\ LET buffer == carry \o WindowBytes
           demuxed == Collect(buffer)
           table == Numbered(demuxed.payloads, payloadBase)
       IN  /\ carry' = IF EndsBlock THEN <<>> ELSE Tailing(buffer, demuxed.consumed)
           /\ payloadBase' = BaseAfter(table)
           /\ HandOut(demuxed.records, table)
    /\ window' = NextWindow
    /\ UNCHANGED <<indexVars, status, target, vlsd>>

\* The window is used up and the carried bytes are gone with it.
WindowFails ==
    /\ Pulling
    /\ status' = "failed"
    /\ carry' = <<>>
    /\ window' = NextWindow
    /\ UNCHANGED <<indexVars, target, vlsd, remaining, payloadBase, delivered>>

\* Mutant of EndChunks: the samples and the windows must both be used up.
EndChunksOfBoth ==
    /\ status = "reading"
    /\ remaining = 0 /\ ~HasWindow
    /\ status' = "ended"
    /\ UNCHANGED <<indexVars, target, vlsd, window, carry, remaining, payloadBase, delivered>>

EndChunks ==
    /\ status = "reading"
    /\ remaining = 0 \/ ~HasWindow
    /\ status' = "ended"
    /\ UNCHANGED <<indexVars, target, vlsd, window, carry, remaining, payloadBase, delivered>>

ReadNext ==
    \/ SortedWindow
    \/ UnsortedWindow
    \/ WindowFails
    \/ EndChunks

Next ==
    \/ Index
    \/ OpenChunks
    \/ ReadNext

Spec == ChunkInit /\ [][Next]_vars

\* The consumer keeps calling next() until it returns None or an error.
FairSpec == Spec /\ WF_vars(ReadNext)

(***************************************************************************)
(* Properties.                                                             *)
(***************************************************************************)

Records(samples) == [i \in DOMAIN samples |-> samples[i].record]

promised == IF status = "closed" THEN <<>> ELSE EagerSamples

promiseStatus == IF phase = "failed" THEN "failed" ELSE status

\* A record of the block's walk never takes it past the block's end: some set of
\* places in the block has where the walk begins, and what follows each of them.
EndsWithin(d, s) ==
    \E places \in SUBSET (0..Len(s)) :
        /\ 0 \in places
        /\ \A p \in places : Measurable(d, s, p) => After(d, s, p) \in places

\* What the promise rests on: blocks without invalidation sections of their own,
\* and interleaved records that end in the block they begin in.
SelfContained(d) ==
    \A n \in DOMAIN d.blocks :
        /\ ~d.blocks[n].hasDi
        /\ Unsorted(d) => EndsWithin(d, d.blocks[n].data)

\* "The chunks together cover the same samples, in the same order": the
\* records handed out are always the first records signal() returns, and all
\* of them once the iterator ends.
RecordPromise == INSTANCE SampleStream WITH
    status <- promiseStatus,
    samples <- Records(promised),
    delivered <- Records(delivered)

CoversTheRecords == RecordPromise!Spec

\* Chunks number payloads as the whole stream numbers them, so a chunk may
\* miss a payload outside its window but never resolves to another's bytes.
NeverAnothersPayload ==
    \A i \in DOMAIN delivered :
        delivered[i].value \in {EagerSamples[i].value, <<>>}

\* A consumer that keeps pulling reaches the end or an error.
ChunksEnd == status = "reading" ~> status \in {"ended", "failed"}
=============================================================================

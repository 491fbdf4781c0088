--------------------------- MODULE MCSignalChunks ---------------------------
(***************************************************************************)
(* Small data groups for SignalChunks: blocks longer than the window       *)
(* budget, so that records are cut by windows and by blocks in every way.  *)
(***************************************************************************)
EXTENDS SignalChunks, SequencesExt

Plain(bytes) == [data |-> bytes, di |-> <<>>, hasDi |-> FALSE, compressed |-> FALSE]

Deflated(bytes) == [Plain(bytes) EXCEPT !.compressed = TRUE]

WithDi(bytes, inval) == [Plain(bytes) EXCEPT !.di = inval, !.hasDi = TRUE]

Fixed(id, d, i, n) == [id |-> id, data |-> d, inval |-> i, vlsd |-> FALSE, cycles |-> n]

Payloads(id) == [id |-> id, data |-> 0, inval |-> 0, vlsd |-> TRUE, cycles |-> 0]

Strings(n) == BoundedSeq({0, 1, 2}, n)

BlockLists(m, n) ==
    {<<Plain(a), Plain(b)>> : a \in Strings(m), b \in Strings(n)}
    \cup {<<Deflated(a), Plain(b)>> : a \in Strings(3), b \in Strings(2)}

Bus == <<Fixed(1, 1, 0, 0), Payloads(2)>>

UnsortedOver(groupLists, blockLists) ==
    [idSize : {1}, groups : groupLists, blocks : blockLists]

ShortBlocks == {<<1, 0>>, <<2, 0>>, <<2, 1>>}

\* A short block, then one window long enough for a payload and a record
\* that points at it.
LongWindow(bs) == {<<Plain(a), Deflated(b)>> : a \in ShortBlocks, b \in bs}

PayloadFirst == {<<2, 1>> \o s : s \in Strings(3)}

MCUnsorted ==
    {d \in UnsortedOver({Bus}, BlockLists(4, 3) \cup LongWindow(PayloadFirst)) : SelfContained(d)}
    \cup UnsortedOver({<<Fixed(1, 1, 0, 0), Fixed(0, 1, 1, 0)>>,
                       <<Fixed(1, 2, 0, 0), Fixed(1, 1, 0, 0)>>}, BlockLists(4, 1))
    \cup [idSize : {2}, groups : {<<Fixed(1, 1, 0, 0), Fixed(0, 0, 0, 0)>>},
          blocks : {<<Plain(a), Plain(b)>> : a, b \in {<<1, 0>> \o s : s \in Strings(3)}}]

\* Bytes that differ, so that a misplaced sample is a different one.
Ramp(from, n) == [i \in 1..n |-> from + i]

MCSorted ==
    [idSize : {0, 1},
     groups : {<<Fixed(0, d, i, n)>> : d \in 1..3, i \in {0, 1}, n \in {0, 2, 9}},
     blocks : {<<Plain(Ramp(0, m)), Deflated(Ramp(m, k)), Plain(Ramp(m + k, n))>> :
                  m \in 0..5, k \in 0..3, n \in 0..5} \cup {<<>>}]

MCChunks == MCUnsorted \cup MCSorted

\* Sorted data in blocks with invalidation sections of their own.
MCLinkedData ==
    [idSize : {0}, groups : {<<Fixed(0, 2, 1, 0)>>, <<Fixed(0, 1, 1, 0)>>},
     blocks : {<<WithDi(Ramp(0, 4), Ramp(10, n)), Plain(Ramp(4, k))>> :
                  n \in {2, 4}, k \in {0, 3}}]
=============================================================================

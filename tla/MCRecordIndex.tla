--------------------------- MODULE MCRecordIndex ---------------------------
(***************************************************************************)
(* Small data groups for RecordIndex.  In the unsorted ones every string   *)
(* over a three-byte alphabet stands for a block, so that the walk meets   *)
(* records, cut records, empty and overlong payloads, unknown IDs and      *)
(* padding in every order.                                                 *)
(***************************************************************************)
EXTENDS RecordIndex, SequencesExt

MCBytes == {0, 1, 2}

Plain(bytes) == [data |-> bytes, di |-> <<>>, hasDi |-> FALSE, compressed |-> FALSE]

WithDi(bytes, inval) ==
    [data |-> bytes, di |-> inval, hasDi |-> TRUE, compressed |-> FALSE]

Fixed(id, d, i, n) == [id |-> id, data |-> d, inval |-> i, vlsd |-> FALSE, cycles |-> n]

Payloads(id) == [id |-> id, data |-> 0, inval |-> 0, vlsd |-> TRUE, cycles |-> 0]

UnsortedGroups ==
    { <<Fixed(1, 1, 0, 0), Payloads(2)>>,
      <<Fixed(1, 1, 0, 9), Fixed(2, 1, 1, 0), Payloads(0)>>,
      <<Fixed(1, 0, 0, 0), Fixed(1, 2, 0, 0)>> }

\* Two blocks of up to MaxLen bytes each, and blocks with an empty one between.
TwoBlocks(n) ==
    { <<Plain(a), Plain(b)>> : a, b \in BoundedSeq(MCBytes, n) }

MCUnsorted ==
    [idSize : {1, 2}, groups : UnsortedGroups,
     blocks : TwoBlocks(3) \cup {<<Plain(a)>> : a \in BoundedSeq(MCBytes, 6)} \cup {<<>>}]
    \cup
    [idSize : {3}, groups : UnsortedGroups, blocks : TwoBlocks(1)]
    \cup
    [idSize : {1}, groups : {<<Fixed(1, 1, 1, 0), Fixed(2, 1, 1, 0)>>},
     blocks : { <<WithDi(a, b), Plain(c)>> :
                   a \in BoundedSeq(MCBytes, 3), b \in BoundedSeq({1, 2}, 2),
                   c \in BoundedSeq(MCBytes, 2) }]

\* A sorted group's bytes are never looked at when it is opened: the lengths
\* of the blocks and the declared counts are what matters.
Zeros(n) == [i \in 1..n |-> 0]

SortedGroups(k) ==
    { <<Fixed(0, d, i, n)>> : d \in 0..2, i \in {0, 1}, n \in 0..k }
    \cup { <<Fixed(0, 1, 0, n), Fixed(0, 2, 0, 1)>> : n \in 0..k }

SortedOver(k, blockLists) ==
    [idSize : {0}, groups : SortedGroups(k), blocks : blockLists]
    \cup
    [idSize : {1, 2}, groups : {<<Fixed(0, 1, 0, n)>> : n \in 0..k}, blocks : blockLists]

MCSorted ==
    SortedOver(4, {<<Plain(Zeros(m)), Plain(Zeros(n))>> : m, n \in 0..4})

\* Groups without a data block, and an invalidation section longer or shorter
\* than its data.
MCSortedDamaged ==
    SortedOver(2, {<<>>})
    \cup [idSize : {0}, groups : {<<Fixed(0, 1, 1, n)>> : n \in 0..2},
          blocks : {<<WithDi(Zeros(m), Zeros(n))>> : m, n \in 0..3}]

MCDataGroups == MCUnsorted \cup MCSorted \cup MCSortedDamaged
=============================================================================

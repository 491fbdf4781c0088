------------------------- MODULE SignalChunksProofs -------------------------
(***************************************************************************)
(* Proofs about SignalChunks, for every self-contained data group, window  *)
(* budget and length of record: the chunks together are what signal()      *)
(* returns, and no sample has the variable-length payload of another.      *)
(*                                                                         *)
(* The index was built by a walk over each block as a whole; the chunks    *)
(* come from walks over windows of it.  What ties the two together is the  *)
(* trail of a block: the places where the first walk was.  A window's walk *)
(* begins on the trail and follows it, and every place on the trail is in  *)
(* the index.                                                              *)
(*                                                                         *)
(* Payloads are numbered by counting the bytes of those before them.  What *)
(* the windows have numbered so far is a beginning of what signal()        *)
(* numbers, as the records handed out are a beginning of what it returns.  *)
(***************************************************************************)
EXTENDS SignalChunks, RecordIndexProofs, InductionFacts, TLAPS, SequenceTheorems

(***************************************************************************)
(* Bytes in hand that are bytes of something longer.                       *)
(***************************************************************************)

\* The bytes of b are those of s from q on.
SliceOf(b, s, q) ==
    /\ b \in Seq(Byte) /\ s \in Seq(Byte) /\ q \in Nat
    /\ q + Len(b) <= Len(s)
    /\ \A i \in 1..Len(b) : b[i] = s[q + i]

\* A part of a sequence of bytes is a slice of it.
LEMMA SubSeqIsSlice ==
    ASSUME NEW s \in Seq(Byte), NEW x \in Nat, NEW y \in Nat, x <= y, y <= Len(s)
    PROVE  SliceOf(SubSeq(s, x + 1, y), s, x) /\ Len(SubSeq(s, x + 1, y)) = y - x
<1>1. Len(s) \in Nat /\ \A i \in (x + 1)..y : s[i] \in Byte
  BY LenProperties, ElementOfSeq
<1>2. /\ SubSeq(s, x + 1, y) \in Seq(Byte)
      /\ Len(SubSeq(s, x + 1, y)) = IF x + 1 <= y THEN y - (x + 1) + 1 ELSE 0
      /\ \A i \in 1..(y - (x + 1) + 1) : SubSeq(s, x + 1, y)[i] = s[(x + 1) + i - 1]
  BY <1>1, SubSeqProperties
<1>3. Len(SubSeq(s, x + 1, y)) = y - x
  BY <1>2
<1>4. \A i \in 1..(y - x) : SubSeq(s, x + 1, y)[i] = s[x + i]
  BY <1>2
<1> QED
  BY <1>1, <1>2, <1>3, <1>4 DEF SliceOf

\* A slice of a slice.
LEMMA SliceOfSlice ==
    ASSUME NEW b, NEW s, NEW t, NEW q, NEW r, SliceOf(b, s, q), SliceOf(s, t, r)
    PROVE  SliceOf(b, t, r + q)
<1> USE DEF SliceOf
<1>1. Len(b) \in Nat /\ Len(s) \in Nat /\ Len(t) \in Nat
  BY LenProperties
<1>2. (r + q) + Len(b) <= Len(t)
  BY <1>1
<1>3. \A i \in 1..Len(b) : b[i] = t[(r + q) + i]
  BY <1>1
<1> QED
  BY <1>2, <1>3

\* Slices that follow one another are one slice.
LEMMA SlicesJoin ==
    ASSUME NEW a, NEW b, NEW s, NEW q, SliceOf(a, s, q), SliceOf(b, s, q + Len(a))
    PROVE  SliceOf(a \o b, s, q) /\ Len(a \o b) = Len(a) + Len(b)
<1>1. a \in Seq(Byte) /\ b \in Seq(Byte) /\ s \in Seq(Byte) /\ q \in Nat
  BY DEF SliceOf
<1>2. Len(a) \in Nat /\ Len(b) \in Nat /\ Len(s) \in Nat
  BY <1>1, LenProperties
<1>3. /\ a \o b \in Seq(Byte)
      /\ Len(a \o b) = Len(a) + Len(b)
      /\ \A i \in 1..Len(a) + Len(b) : (a \o b)[i] = IF i <= Len(a) THEN a[i] ELSE b[i - Len(a)]
  BY <1>1, ConcatProperties
<1>4. q + Len(a \o b) <= Len(s)
  BY <1>2, <1>3 DEF SliceOf
<1>5. ASSUME NEW i \in 1..Len(a \o b)
      PROVE  (a \o b)[i] = s[q + i]
  <2>1. CASE i <= Len(a)
    BY <1>2, <1>3, <2>1 DEF SliceOf
  <2>2. CASE ~(i <= Len(a))
    <3>1. i - Len(a) \in 1..Len(b) /\ (q + Len(a)) + (i - Len(a)) = q + i
      BY <1>1, <1>2, <1>3, <2>2
    <3>2. b[i - Len(a)] = s[(q + Len(a)) + (i - Len(a))]
      BY <3>1 DEF SliceOf
    <3> QED
      BY <1>3, <2>2, <3>1, <3>2
  <2> QED
    BY <2>1, <2>2
<1> QED
  BY <1>1, <1>3, <1>4, <1>5 DEF SliceOf

\* What is cut out of a slice is cut out of what it is a slice of.
LEMMA SliceCut ==
    ASSUME NEW b, NEW s, NEW q \in Nat, SliceOf(b, s, q),
           NEW x \in Nat, NEW y \in Nat, x <= y, y <= Len(b)
    PROVE  /\ SubSeq(b, x + 1, y) = SubSeq(s, (q + x) + 1, q + y)
           /\ SubSeq(b, x + 1, y) \in Seq(Byte)
           /\ Len(SubSeq(b, x + 1, y)) = y - x
<1>1. b \in Seq(Byte) /\ s \in Seq(Byte) /\ q \in Nat /\ Len(b) \in Nat /\ Len(s) \in Nat
  BY LenProperties DEF SliceOf
<1>2. q + x \in Nat /\ q + y \in Nat /\ q + x <= q + y /\ q + y <= Len(s)
  BY <1>1 DEF SliceOf
<1> DEFINE u == SubSeq(b, x + 1, y)
           v == SubSeq(s, (q + x) + 1, q + y)
<1>3. SliceOf(u, b, x) /\ Len(u) = y - x
  BY <1>1, SubSeqIsSlice
<1>4. SliceOf(v, s, q + x) /\ Len(v) = y - x
  <2>1. SliceOf(v, s, q + x) /\ Len(v) = (q + y) - (q + x)
    BY <1>1, <1>2, SubSeqIsSlice
  <2> QED
    BY <1>1, <2>1
<1> HIDE DEF u, v
<1>5. SliceOf(u, s, q + x)
  BY <1>3, SliceOfSlice
<1>6. u \in Seq(Byte) /\ v \in Seq(Byte) /\ Len(u) = Len(v) /\ \A i \in 1..Len(u) : u[i] = v[i]
  BY <1>3, <1>4, <1>5 DEF SliceOf
<1>7. u = v
  BY <1>6, SeqEqual
<1> QED
  BY <1>3, <1>6, <1>7 DEF u, v

\* A field reads the same in a slice.
LEMMA SliceField ==
    ASSUME NEW b, NEW s, NEW q, SliceOf(b, s, q),
           NEW p \in Nat, NEW n \in {1, 2}, p + n <= Len(b)
    PROVE  Field(b, p, n) = Field(s, q + p, n)
<1>1. q \in Nat /\ Len(b) \in Nat /\ \A i \in 1..Len(b) : b[i] = s[q + i]
  BY LenProperties DEF SliceOf
<1>2. /\ p + 1 \in 1..Len(b) /\ q + (p + 1) = (q + p) + 1
      /\ n = 2 => p + 2 \in 1..Len(b) /\ q + (p + 2) = (q + p) + 2
  BY <1>1
<1>3. /\ b[p + 1] = s[(q + p) + 1]
      /\ n = 2 => b[p + 2] = s[(q + p) + 2]
  BY <1>1, <1>2
<1> QED
  BY <1>3 DEF Field

(***************************************************************************)
(* Ascending positions, counted up to a place.                             *)
(***************************************************************************)

Ascending(o) == o \in Seq(Nat) /\ \A i, j \in 1..Len(o) : i < j => o[i] < o[j]

\* The first k of the positions are those before P.
CountedTo(o, k, P) ==
    /\ k \in 0..Len(o)
    /\ \A i \in 1..Len(o) : o[i] < P <=> i <= k

\* No position is at P or between it and Q.
Nowhere(o, P, Q) == \A i \in 1..Len(o) : o[i] < P \/ o[i] >= Q

\* A step from a place that is one of the positions.
LEMMA CountOne ==
    ASSUME NEW o, Ascending(o), NEW k, NEW P \in Nat, NEW Q \in Nat, P < Q,
           CountedTo(o, k, P), Nowhere(o, P + 1, Q), \E i \in 1..Len(o) : o[i] = P
    PROVE  k + 1 \in 1..Len(o) /\ o[k + 1] = P /\ CountedTo(o, k + 1, Q)
<1>1. /\ o \in Seq(Nat) /\ Len(o) \in Nat /\ \A i \in 1..Len(o) : o[i] \in Nat
      /\ k \in 0..Len(o)
  BY LenProperties, ElementOfSeq DEF Ascending, CountedTo
<1>2. PICK j \in 1..Len(o) : o[j] = P
  OBVIOUS
<1>3. j > k
  BY <1>1, <1>2 DEF CountedTo
<1>4. k + 1 \in 1..Len(o)
  BY <1>1, <1>2, <1>3
<1>5. o[k + 1] >= P
  BY <1>1, <1>4 DEF CountedTo
<1>6. j = k + 1
  <2>1. ~(k + 1 < j)
    BY <1>1, <1>2, <1>4, <1>5 DEF Ascending
  <2> QED
    BY <1>1, <1>2, <1>3, <2>1
<1>7. ASSUME NEW i \in 1..Len(o)
      PROVE  o[i] < Q <=> i <= k + 1
  <2>1. CASE i <= k + 1
    <3>1. o[i] <= P
      BY <1>1, <1>2, <1>6, <2>1 DEF Ascending
    <3> QED
      BY <1>1, <2>1, <3>1
  <2>2. CASE ~(i <= k + 1)
    <3>1. o[i] > P
      BY <1>1, <1>2, <1>4, <1>6, <2>2 DEF Ascending
    <3>2. ~(o[i] < P + 1)
      BY <1>1, <3>1
    <3> QED
      BY <1>1, <2>2, <3>2 DEF Nowhere
  <2> QED
    BY <2>1, <2>2
<1> QED
  BY <1>1, <1>2, <1>4, <1>6, <1>7 DEF CountedTo

\* A step from a place that is none.
LEMMA CountNone ==
    ASSUME NEW o \in Seq(Nat), NEW k, NEW P \in Nat, NEW Q \in Nat, P <= Q,
           CountedTo(o, k, P), Nowhere(o, P, Q)
    PROVE  CountedTo(o, k, Q)
<1>1. \A i \in 1..Len(o) : o[i] \in Nat
  BY LenProperties, ElementOfSeq
<1> QED
  BY <1>1 DEF CountedTo, Nowhere

\* Both parts of a concatenation are slices of it.
LEMMA ConcatSlices ==
    ASSUME NEW a \in Seq(Byte), NEW b \in Seq(Byte)
    PROVE  SliceOf(a, a \o b, 0) /\ SliceOf(b, a \o b, Len(a))
<1>1. Len(a) \in Nat /\ Len(b) \in Nat
  BY LenProperties
<1>2. /\ a \o b \in Seq(Byte)
      /\ Len(a \o b) = Len(a) + Len(b)
      /\ \A i \in 1..Len(a) + Len(b) : (a \o b)[i] = IF i <= Len(a) THEN a[i] ELSE b[i - Len(a)]
  BY ConcatProperties
<1>3. ASSUME NEW i \in 1..Len(a)
      PROVE  (a \o b)[0 + i] = a[i]
  BY <1>1, <1>2
<1>4. ASSUME NEW i \in 1..Len(b)
      PROVE  (a \o b)[Len(a) + i] = b[i]
  <2>1. Len(a) + i \in 1..Len(a) + Len(b) /\ ~(Len(a) + i <= Len(a)) /\ (Len(a) + i) - Len(a) = i
    BY <1>1
  <2> QED
    BY <1>2, <2>1
<1> QED
  BY <1>1, <1>2, <1>3, <1>4 DEF SliceOf

(***************************************************************************)
(* Where the blocks are in the stream.                                     *)
(***************************************************************************)

\* Ends(d)[n] is where the n-th block ends, and the next begins.
Ends(d) ==
    LET end[n \in 0..Len(d.blocks)] ==
            IF n = 0 THEN 0 ELSE end[n - 1] + Len(d.blocks[n].data)
    IN  end

\* No block has an invalidation section of its own: what it produces is its data.
Plain(d) == \A n \in 1..Len(d.blocks) : ~d.blocks[n].hasDi

LEMMA BlocksAreBlocks ==
    ASSUME NEW d \in DataGroup
    PROVE  /\ Len(d.blocks) \in Nat /\ DOMAIN d.blocks = 1..Len(d.blocks)
           /\ \A n \in 1..Len(d.blocks) :
                 d.blocks[n] \in Block /\ d.blocks[n].data \in Seq(Byte) /\ Len(d.blocks[n].data) \in Nat
<1>1. d.blocks \in Seq(Block)
  BY DEF DataGroup
<1>2. \A n \in 1..Len(d.blocks) : d.blocks[n] \in Block
  BY <1>1, ElementOfSeq
<1>3. \A n \in 1..Len(d.blocks) : d.blocks[n].data \in Seq(Byte)
  BY <1>2 DEF Block
<1> QED
  BY <1>1, <1>2, <1>3, LenProperties

LEMMA EndsAre ==
    ASSUME NEW d \in DataGroup
    PROVE  /\ Ends(d) \in [0..Len(d.blocks) -> Nat]
           /\ Ends(d)[0] = 0
           /\ \A n \in 1..Len(d.blocks) : Ends(d)[n] = Ends(d)[n - 1] + Len(d.blocks[n].data)
<1> DEFINE N == Len(d.blocks)
           F == [n \in 1..N |-> [x \in Nat |-> x + Len(d.blocks[n].data)]]
<1>1. N \in Nat /\ \A n \in 1..N : Len(d.blocks[n].data) \in Nat
  BY BlocksAreBlocks
<1>2. F \in [1..N -> [Nat -> Nat]]
  BY <1>1
<1>3. PICK f : IsRecursion(f, N, Nat, 0, F)
  <2> HIDE DEF F, N
  <2> QED
    BY <1>1, <1>2, Recursion
<1>4. f = [n \in 0..N |-> IF n = 0 THEN 0 ELSE f[n - 1] + Len(d.blocks[n].data)]
  <2>1. f \in [0..N -> Nat] /\ f = [n \in 0..N |-> IF n = 0 THEN 0 ELSE F[n][f[n - 1]]]
    BY <1>3 DEF IsRecursion
  <2>2. ASSUME NEW n \in 0..N, n # 0
        PROVE  F[n][f[n - 1]] = f[n - 1] + Len(d.blocks[n].data)
    <3>1. n \in 1..N /\ n - 1 \in 0..N
      BY <1>1, <2>2
    <3>2. f[n - 1] \in Nat
      BY <2>1, <3>1
    <3> QED
      BY <3>1, <3>2
  <2> HIDE DEF F, N
  <2>3. [n \in 0..N |-> IF n = 0 THEN 0 ELSE F[n][f[n - 1]]]
          = [n \in 0..N |-> IF n = 0 THEN 0 ELSE f[n - 1] + Len(d.blocks[n].data)]
    BY <2>2
  <2> QED
    BY <2>1, <2>3
<1> DEFINE E == Ends(d)
<1>5. E = [n \in 0..N |-> IF n = 0 THEN 0 ELSE E[n - 1] + Len(d.blocks[n].data)]
  BY <1>4 DEF Ends
<1> HIDE DEF E, N, F
<1> DEFINE T == {n \in Nat : n <= N => E[n] \in Nat}
<1>6. 0 \in T
  BY <1>1, <1>5
<1>7. ASSUME NEW n \in T
      PROVE  n + 1 \in T
  <2> SUFFICES ASSUME n + 1 <= N
               PROVE  E[n + 1] \in Nat
    OBVIOUS
  <2>1. n \in Nat /\ n + 1 \in 0..N /\ n + 1 \in 1..N /\ n + 1 # 0 /\ (n + 1) - 1 = n /\ n <= N
    BY <1>1
  <2>2. E[n + 1] = E[n] + Len(d.blocks[n + 1].data)
    BY <1>5, <2>1
  <2> QED
    BY <1>1, <2>1, <2>2
<1> HIDE DEF T
<1>8. T = Nat
  <2>1. T \in SUBSET Nat
    BY DEF T
  <2> QED
    BY <2>1, <1>6, <1>7, NumberInduction
<1>9. \A n \in 0..N : E[n] \in Nat
  BY <1>1, <1>8 DEF T
<1>10. E \in [0..N -> Nat]
  BY <1>5, <1>9
<1>11. \A n \in 1..N : n \in 0..N /\ n # 0
  BY <1>1
<1>12. \A n \in 1..N : E[n] = E[n - 1] + Len(d.blocks[n].data)
  BY <1>5, <1>11
<1>13. E[0] = 0
  BY <1>1, <1>5
<1> QED
  BY <1>10, <1>12, <1>13 DEF E, N

\* Blocks further on end no earlier.
LEMMA EndsGrow ==
    ASSUME NEW d \in DataGroup, NEW m \in 0..Len(d.blocks), NEW n \in m..Len(d.blocks)
    PROVE  Ends(d)[m] <= Ends(d)[n]
<1> DEFINE N == Len(d.blocks)
           E == Ends(d)
           T == {i \in Nat : m + i <= N => E[m] <= E[m + i]}
<1>1. N \in Nat /\ E \in [0..N -> Nat] /\ \A i \in 1..N : E[i] = E[i - 1] + Len(d.blocks[i].data)
  BY EndsAre, BlocksAreBlocks
<1>2. \A i \in 1..N : Len(d.blocks[i].data) \in Nat
  BY BlocksAreBlocks
<1> HIDE DEF N, E
<1>3. 0 \in T
  BY <1>1 DEF N
<1>4. ASSUME NEW i \in T
      PROVE  i + 1 \in T
  <2> SUFFICES ASSUME m + (i + 1) <= N
               PROVE  E[m] <= E[m + (i + 1)]
    OBVIOUS
  <2>1. /\ i \in Nat /\ m \in Nat /\ m + i <= N /\ m + i \in 0..N /\ m + (i + 1) \in 1..N
        /\ (m + (i + 1)) - 1 = m + i
    BY <1>1 DEF N
  <2>2. E[m] <= E[m + i]
    BY <2>1
  <2>3. E[m + (i + 1)] = E[m + i] + Len(d.blocks[m + (i + 1)].data)
    BY <1>1, <2>1
  <2>4. E[m + i] \in Nat /\ E[m] \in Nat /\ Len(d.blocks[m + (i + 1)].data) \in Nat
    BY <1>1, <1>2, <2>1
  <2> QED
    BY <2>2, <2>3, <2>4
<1> HIDE DEF T
<1>5. T = Nat
  <2>1. T \in SUBSET Nat
    BY DEF T
  <2> QED
    BY <2>1, <1>3, <1>4, NumberInduction
<1>6. n - m \in T /\ m + (n - m) = n /\ n <= N
  BY <1>1, <1>5 DEF N
<1> QED
  BY <1>6 DEF T, N, E

\* The stream w is the blocks of d, one after the other.
LaidOut(d, w) ==
    /\ w \in Seq(Byte)
    /\ Len(w) = Ends(d)[Len(d.blocks)]
    /\ \A n \in 1..Len(d.blocks) : SliceOf(d.blocks[n].data, w, Ends(d)[n - 1])

\* The same of the stream up to block m.
LaidUpTo(d, w, m) ==
    /\ w \in Seq(Byte)
    /\ Len(w) = Ends(d)[m]
    /\ \A n \in 1..m : SliceOf(d.blocks[n].data, w, Ends(d)[n - 1])

LEMMA OneMoreLaid ==
    ASSUME NEW d \in DataGroup, NEW m \in Nat, m + 1 <= Len(d.blocks), NEW w, LaidUpTo(d, w, m)
    PROVE  LaidUpTo(d, w \o d.blocks[m + 1].data, m + 1)
<1> DEFINE b == d.blocks[m + 1].data
           v == w \o b
<1>1. m + 1 \in 1..Len(d.blocks) /\ (m + 1) - 1 = m
  BY BlocksAreBlocks
<1>2. b \in Seq(Byte) /\ w \in Seq(Byte)
  BY <1>1, BlocksAreBlocks DEF LaidUpTo
<1>3. /\ SliceOf(w, v, 0) /\ SliceOf(b, v, Len(w))
      /\ v \in Seq(Byte) /\ Len(v) = Len(w) + Len(b)
  BY <1>2, ConcatSlices, ConcatProperties
<1>4. Ends(d)[m + 1] = Ends(d)[m] + Len(b) /\ Len(w) = Ends(d)[m]
  BY <1>1, EndsAre DEF LaidUpTo
<1> HIDE DEF v, b
<1>5. ASSUME NEW n \in 1..(m + 1)
      PROVE  SliceOf(d.blocks[n].data, v, Ends(d)[n - 1])
  <2>1. CASE n = m + 1
    BY <1>1, <1>3, <1>4, <2>1 DEF b
  <2>2. CASE n # m + 1
    <3>1. n \in 1..m
      BY <2>2
    <3>2. SliceOf(d.blocks[n].data, w, Ends(d)[n - 1])
      BY <3>1 DEF LaidUpTo
    <3>3. SliceOf(d.blocks[n].data, v, 0 + Ends(d)[n - 1])
      BY <1>3, <3>2, SliceOfSlice
    <3>4. 0 + Ends(d)[n - 1] = Ends(d)[n - 1]
      BY <3>2 DEF SliceOf
    <3> QED
      BY <3>3, <3>4
  <2> QED
    BY <2>1, <2>2
<1> QED
  BY <1>3, <1>4, <1>5 DEF LaidUpTo, v, b

\* What the first m blocks produce is laid out so, when none has a section more.
LEMMA JoinIsLaidOut ==
    ASSUME NEW d \in DataGroup, Plain(d), NEW m \in 0..Len(d.blocks)
    PROVE  \E w : Joins(w, d, m) /\ LaidUpTo(d, w, m)
<1> DEFINE T == {i \in Nat : i <= Len(d.blocks) => \E w : Joins(w, d, i) /\ LaidUpTo(d, w, i)}
<1>1. 0 \in T
  <2>1. Joins(<<>>, d, 0)
    BY NothingJoined
  <2>2. LaidUpTo(d, <<>>, 0)
    <3>1. <<>> \in Seq(Byte) /\ Len(<<>>) = 0
      BY EmptySeq
    <3>2. 1..0 = {}
      OBVIOUS
    <3> QED
      BY <3>1, <3>2, EndsAre DEF LaidUpTo
  <2> QED
    BY <2>1, <2>2
<1>2. ASSUME NEW i \in T
      PROVE  i + 1 \in T
  <2> SUFFICES ASSUME i + 1 <= Len(d.blocks)
               PROVE  \E w : Joins(w, d, i + 1) /\ LaidUpTo(d, w, i + 1)
    OBVIOUS
  <2>1. i \in Nat /\ i <= Len(d.blocks) /\ i + 1 \in 1..Len(d.blocks)
    BY BlocksAreBlocks
  <2>2. PICK w : Joins(w, d, i) /\ LaidUpTo(d, w, i)
    BY <2>1
  <2>3. Readable(d, d.blocks[i + 1]) /\ Payload(d, d.blocks[i + 1]) = d.blocks[i + 1].data
    BY <2>1 DEF Plain, Readable, Payload
  <2>4. Joins(w \o d.blocks[i + 1].data, d, i + 1)
    BY <2>1, <2>2, <2>3, OneMoreBlock
  <2>5. LaidUpTo(d, w \o d.blocks[i + 1].data, i + 1)
    BY <2>1, <2>2, OneMoreLaid
  <2> QED
    BY <2>4, <2>5
<1> HIDE DEF T
<1>3. T = Nat
  <2>1. T \in SUBSET Nat
    BY DEF T
  <2> QED
    BY <2>1, <1>1, <1>2, NumberInduction
<1>4. m \in T /\ m <= Len(d.blocks)
  BY <1>3, BlocksAreBlocks
<1> QED
  BY <1>4 DEF T

\* So is the stream a whole read assembles.
LEMMA WholeIsLaidOut ==
    ASSUME dg \in DataGroup, Plain(dg)
    PROVE  LaidOut(dg, WholeStream)
<1>1. Len(dg.blocks) \in 0..Len(dg.blocks)
  BY BlocksAreBlocks
<1>2. PICK w : Joins(w, dg, Len(dg.blocks)) /\ LaidUpTo(dg, w, Len(dg.blocks))
  BY <1>1, JoinIsLaidOut
<1>3. w = WholeStream
  BY <1>2, JoinedIsWhole
<1> QED
  BY <1>2, <1>3 DEF LaidUpTo, LaidOut

(***************************************************************************)
(* The trail the first walk left in a block.                               *)
(***************************************************************************)

\* No record was indexed at P or between it and Q.
Nothing(off, P, Q) == \A g \in DOMAIN off : Nowhere(off[g], P, Q)

\* A record was indexed at P for group g.
Indexed(off, g, P) == g \in DOMAIN off /\ \E i \in 1..Len(off[g]) : off[g][i] = P

\* The walk of block n went on from p: what it met there is in the index, what
\* follows it is in V, and nothing is indexed before that.
Passed(d, off, n, V, p) ==
    LET s == d.blocks[n].data
        at == Ends(d)[n - 1]
    IN  /\ Measurable(d, s, p)
        /\ After(d, s, p) \in V
        /\ Indexed(off, GroupAt(d, s, p), at + p)
        /\ Nothing(off, at + p + 1, at + Least(After(d, s, p), Len(s)))

\* The walk of block n has been at V, and is at here.
Underway(d, off, n, here) ==
    \E V \in SUBSET Nat :
        /\ 0 \in V
        /\ \A p \in V : \/ p = here
                        \/ Passed(d, off, n, V, p) /\ After(d, d.blocks[n].data, p) <= here

\* It was at V, and ended where no record could be measured.
WalkedOver(d, off, n, V) ==
    LET s == d.blocks[n].data
        at == Ends(d)[n - 1]
    IN  /\ 0 \in V
        /\ \A p \in V : IF Measurable(d, s, p) THEN Passed(d, off, n, V, p)
                        ELSE Nothing(off, at + p, at + Len(s))

Walked(d, off, n) == \E V \in SUBSET Nat : WalkedOver(d, off, n, V)

\* What the walk over the blocks has left in the index.
TrailInv ==
    /\ (phase \in {"listing", "sizing"} \/ dg.blocks = <<>>) =>
           \A g \in GroupIds : offsets[g] = <<>>
    /\ phase \in {"block", "walk"} => base = Ends(dg)[block - 1]
    /\ \A n \in 1..Len(dg.blocks) :
           (phase \in {"block", "walk"} /\ n < block) \/ (phase = "open" /\ Unsorted(dg)) =>
               Walked(dg, offsets, n)
    /\ phase = "walk" => Underway(dg, offsets, block, pos)
    /\ \A g \in GroupIds : offsets[g] # <<>> => GroupWithId(dg, dg.groups[g].id) = g

\* One more record indexed, at o for group G.
OneMore(off, more, G, o) ==
    /\ G \in DOMAIN off /\ o \in Nat
    /\ DOMAIN more = DOMAIN off
    /\ \A g \in DOMAIN off : off[g] \in Seq(Nat)
    /\ more[G] = Append(off[G], o)
    /\ \A g \in DOMAIN off : g # G => more[g] = off[g]

LEMMA IndexedUnderOneMore ==
    ASSUME NEW off, NEW more, NEW G, NEW o, OneMore(off, more, G, o)
    PROVE  /\ Indexed(more, G, o)
           /\ \A g, P : Indexed(off, g, P) => Indexed(more, g, P)
           /\ \A P, Q \in Nat : Nothing(off, P, Q) /\ (o < P \/ o >= Q) => Nothing(more, P, Q)
<1>1. /\ G \in DOMAIN off /\ off[G] \in Seq(Nat) /\ Len(off[G]) \in Nat /\ o \in Nat
      /\ DOMAIN more = DOMAIN off /\ more[G] = Append(off[G], o)
  BY LenProperties DEF OneMore
<1>2. /\ Len(more[G]) = Len(off[G]) + 1
      /\ \A i \in 1..Len(off[G]) : more[G][i] = off[G][i]
      /\ more[G][Len(off[G]) + 1] = o
  BY <1>1, AppendProperties
<1>3. Indexed(more, G, o)
  <2>1. Len(off[G]) + 1 \in 1..Len(more[G])
    BY <1>1, <1>2
  <2> QED
    BY <1>1, <1>2, <2>1 DEF Indexed
<1>4. ASSUME NEW g, NEW P, Indexed(off, g, P)
      PROVE  Indexed(more, g, P)
  <2>1. PICK i \in 1..Len(off[g]) : off[g][i] = P
    BY <1>4 DEF Indexed
  <2>2. g \in DOMAIN off
    BY <1>4 DEF Indexed
  <2>3. CASE g = G
    <3>1. i \in 1..Len(more[G]) /\ more[G][i] = P
      BY <1>1, <1>2, <2>1, <2>3
    <3> QED
      BY <1>1, <2>3, <3>1 DEF Indexed
  <2>4. CASE g # G
    <3>1. more[g] = off[g]
      BY <2>2, <2>4 DEF OneMore
    <3> QED
      BY <1>1, <2>1, <2>2, <3>1 DEF Indexed
  <2> QED
    BY <2>3, <2>4
<1>5. ASSUME NEW P \in Nat, NEW Q \in Nat, Nothing(off, P, Q), o < P \/ o >= Q
      PROVE  Nothing(more, P, Q)
  <2> SUFFICES ASSUME NEW g \in DOMAIN off, NEW i \in 1..Len(more[g])
               PROVE  more[g][i] < P \/ more[g][i] >= Q
    BY <1>1 DEF Nothing, Nowhere
  <2>1. CASE g = G
    <3>1. CASE i = Len(off[G]) + 1
      BY <1>2, <1>5, <2>1, <3>1
    <3>2. CASE i # Len(off[G]) + 1
      <4>1. i \in 1..Len(off[G])
        BY <1>1, <1>2, <2>1, <3>2
      <4>2. off[G][i] < P \/ off[G][i] >= Q
        BY <1>1, <1>5, <4>1 DEF Nothing, Nowhere
      <4> QED
        BY <1>2, <2>1, <4>1, <4>2
    <3> QED
      BY <3>1, <3>2
  <2>2. CASE g # G
    <3>1. more[g] = off[g]
      BY <2>2 DEF OneMore
    <3> QED
      BY <1>5, <3>1 DEF Nothing, Nowhere
  <2> QED
    BY <2>1, <2>2
<1> QED
  BY <1>3, <1>4, <1>5

\* Lengths and places in a block are numbers.
LEMMA PassedNumbers ==
    ASSUME NEW d \in DataGroup, NEW n \in 1..Len(d.blocks), NEW p \in Nat
    PROVE  /\ d.blocks[n].data \in Seq(Byte) /\ Len(d.blocks[n].data) \in Nat
           /\ Ends(d)[n - 1] \in Nat /\ Ends(d)[n] \in Nat
           /\ Ends(d)[n] = Ends(d)[n - 1] + Len(d.blocks[n].data)
           /\ Measurable(d, d.blocks[n].data, p) =>
                 /\ After(d, d.blocks[n].data, p) \in Nat
                 /\ After(d, d.blocks[n].data, p) > p
                 /\ Least(After(d, d.blocks[n].data, p), Len(d.blocks[n].data)) \in Nat
                 /\ Least(After(d, d.blocks[n].data, p), Len(d.blocks[n].data)) <= After(d, d.blocks[n].data, p)
                 /\ Least(After(d, d.blocks[n].data, p), Len(d.blocks[n].data)) <= Len(d.blocks[n].data)
<1>1. d.blocks[n].data \in Seq(Byte) /\ Len(d.blocks[n].data) \in Nat /\ Len(d.blocks) \in Nat
  BY BlocksAreBlocks
<1>2. n - 1 \in 0..Len(d.blocks) /\ n \in 0..Len(d.blocks)
  BY <1>1
<1>3. Ends(d)[n - 1] \in Nat /\ Ends(d)[n] \in Nat /\ Ends(d)[n] = Ends(d)[n - 1] + Len(d.blocks[n].data)
  BY <1>2, EndsAre
<1>4. ASSUME Measurable(d, d.blocks[n].data, p)
      PROVE  After(d, d.blocks[n].data, p) \in Nat /\ After(d, d.blocks[n].data, p) > p
  BY <1>1, <1>4, StepAdvances
<1> QED
  BY <1>1, <1>3, <1>4 DEF Least

\* A block walked over before stays so when a record further on is indexed.
LEMMA WalkedStays ==
    ASSUME NEW d \in DataGroup, NEW n \in 1..Len(d.blocks),
           NEW off, NEW more, NEW G, NEW o, OneMore(off, more, G, o),
           o >= Ends(d)[n], Walked(d, off, n)
    PROVE  Walked(d, more, n)
<1> DEFINE s == d.blocks[n].data
           at == Ends(d)[n - 1]
<1>1. PICK V \in SUBSET Nat : WalkedOver(d, off, n, V)
  BY DEF Walked
<1>2. s \in Seq(Byte) /\ Len(s) \in Nat /\ at \in Nat /\ Ends(d)[n] = at + Len(s) /\ o \in Nat
  BY PassedNumbers DEF OneMore
<1>3. ASSUME NEW p \in V
      PROVE  IF Measurable(d, s, p) THEN Passed(d, more, n, V, p)
             ELSE Nothing(more, at + p, at + Len(s))
  <2>1. CASE Measurable(d, s, p)
    <3> DEFINE to == Least(After(d, s, p), Len(s))
    <3>1. to \in Nat /\ to <= Len(s)
      BY <2>1, PassedNumbers
    <3>2. Passed(d, off, n, V, p)
      BY <1>1, <2>1 DEF WalkedOver
    <3>3. /\ Nothing(off, at + p + 1, at + to)
          /\ Indexed(off, GroupAt(d, s, p), at + p) /\ After(d, s, p) \in V
      BY <3>2 DEF Passed
    <3> HIDE DEF to, s, at
    <3>4. at + p + 1 \in Nat /\ at + to \in Nat /\ o >= at + to
      BY <1>2, <3>1
    <3>5. Nothing(more, at + p + 1, at + to)
      BY <3>3, <3>4, IndexedUnderOneMore
    <3>6. Indexed(more, GroupAt(d, s, p), at + p)
      BY <3>3, IndexedUnderOneMore
    <3> QED
      BY <2>1, <3>3, <3>5, <3>6 DEF Passed, to, s, at
  <2>2. CASE ~Measurable(d, s, p)
    <3>1. Nothing(off, at + p, at + Len(s))
      BY <1>1, <2>2 DEF WalkedOver
    <3> HIDE DEF s, at
    <3>2. at + p \in Nat /\ at + Len(s) \in Nat /\ o >= at + Len(s)
      BY <1>2
    <3>3. Nothing(more, at + p, at + Len(s))
      BY <3>1, <3>2, IndexedUnderOneMore
    <3> QED
      BY <2>2, <3>3
  <2> QED
    BY <2>1, <2>2
<1>4. WalkedOver(d, more, n, V)
  BY <1>1, <1>3 DEF WalkedOver
<1> QED
  BY <1>4 DEF Walked

\* The walk goes on: the record it is at is indexed behind all the others.
LEMMA UnderwayGoesOn ==
    ASSUME NEW d \in DataGroup, NEW n \in 1..Len(d.blocks), NEW here \in Nat,
           NEW off, NEW more, Underway(d, off, n, here),
           Measurable(d, d.blocks[n].data, here),
           OneMore(off, more, GroupAt(d, d.blocks[n].data, here), Ends(d)[n - 1] + here),
           \A g \in DOMAIN off : \A i \in 1..Len(off[g]) : off[g][i] < Ends(d)[n - 1] + here
    PROVE  Underway(d, more, n, After(d, d.blocks[n].data, here))
<1> DEFINE s == d.blocks[n].data
           at == Ends(d)[n - 1]
           next == After(d, s, here)
           o == at + here
           G == GroupAt(d, s, here)
<1>1. PICK V \in SUBSET Nat :
          /\ 0 \in V
          /\ \A p \in V : \/ p = here
                          \/ Passed(d, off, n, V, p) /\ After(d, s, p) <= here
  BY DEF Underway
<1>2. /\ s \in Seq(Byte) /\ Len(s) \in Nat /\ at \in Nat
      /\ next \in Nat /\ next > here /\ Least(next, Len(s)) \in Nat
  BY PassedNumbers
<1> DEFINE W == V \cup {next}
<1>3. W \in SUBSET Nat /\ 0 \in W
  BY <1>1, <1>2
<1>4. ASSUME NEW p \in W, p # next
      PROVE  Passed(d, more, n, W, p) /\ After(d, s, p) <= next
  <2>1. p \in V /\ p \in Nat
    BY <1>4
  <2>2. CASE p = here
    <3>1. Indexed(more, G, o)
      BY IndexedUnderOneMore
    <3>2. Nothing(more, o + 1, at + Least(next, Len(s)))
      <4>1. Nothing(off, o + 1, at + Least(next, Len(s)))
        <5> SUFFICES ASSUME NEW g \in DOMAIN off, NEW i \in 1..Len(off[g])
                     PROVE  off[g][i] < o + 1
          BY DEF Nothing, Nowhere
        <5>1. off[g][i] \in Nat /\ off[g][i] < o
          BY ElementOfSeq DEF OneMore
        <5> HIDE DEF o
        <5>2. o \in Nat
          BY <1>2 DEF o
        <5> QED
          BY <5>1, <5>2
      <4>2. o + 1 \in Nat /\ o < o + 1 /\ at + Least(next, Len(s)) \in Nat
        BY <1>2
      <4> QED
        BY <4>1, <4>2, IndexedUnderOneMore
    <3>3. Passed(d, more, n, W, here)
      BY <3>1, <3>2 DEF Passed
    <3> QED
      BY <1>2, <2>2, <3>3
  <2>3. CASE p # here
    <3>1. Passed(d, off, n, V, p) /\ After(d, s, p) <= here
      BY <1>1, <2>1, <2>3
    <3> DEFINE to == Least(After(d, s, p), Len(s))
    <3>2. /\ Measurable(d, s, p) /\ After(d, s, p) \in V
          /\ Indexed(off, GroupAt(d, s, p), at + p)
          /\ Nothing(off, at + p + 1, at + to)
      BY <3>1 DEF Passed
    <3>3. to \in Nat /\ to <= After(d, s, p) /\ After(d, s, p) \in Nat
      BY <2>1, <3>2, PassedNumbers
    <3> HIDE DEF to
    <3>4. at + p + 1 \in Nat /\ at + to \in Nat /\ o >= at + to
      <4>1. to <= here
        BY <3>1, <3>3
      <4>2. at \in Nat
        BY <1>2
      <4> HIDE DEF at
      <4> QED
        BY <2>1, <3>3, <4>1, <4>2
    <3>5. Nothing(more, at + p + 1, at + to)
      BY <3>2, <3>4, IndexedUnderOneMore
    <3>6. Indexed(more, GroupAt(d, s, p), at + p)
      BY <3>2, IndexedUnderOneMore
    <3>7. Passed(d, more, n, W, p)
      BY <3>2, <3>5, <3>6 DEF Passed, to
    <3>8. After(d, s, p) <= next
      BY <1>2, <3>1, <3>3
    <3> QED
      BY <3>7, <3>8
  <2> QED
    BY <2>2, <2>3
<1> QED
  BY <1>3, <1>4 DEF Underway

\* The walk ends where no record can be measured, behind all it indexed.
LEMMA UnderwayEnds ==
    ASSUME NEW d \in DataGroup, NEW n \in 1..Len(d.blocks), NEW here \in Nat,
           NEW off, Underway(d, off, n, here),
           ~Measurable(d, d.blocks[n].data, here),
           \A g \in DOMAIN off : \A i \in 1..Len(off[g]) : off[g][i] < Ends(d)[n - 1] + here
    PROVE  Walked(d, off, n)
<1> DEFINE s == d.blocks[n].data
           at == Ends(d)[n - 1]
<1>1. PICK V \in SUBSET Nat :
          /\ 0 \in V
          /\ \A p \in V : \/ p = here
                          \/ Passed(d, off, n, V, p) /\ After(d, s, p) <= here
  BY DEF Underway
<1>2. ASSUME NEW p \in V
      PROVE  IF Measurable(d, s, p) THEN Passed(d, off, n, V, p)
             ELSE Nothing(off, at + p, at + Len(s))
  <2>1. CASE p = here
    <3>1. Nothing(off, at + here, at + Len(s))
      BY DEF Nothing, Nowhere
    <3> QED
      BY <2>1, <3>1
  <2>2. CASE p # here
    <3>1. Passed(d, off, n, V, p)
      BY <1>1, <2>2
    <3>2. Measurable(d, s, p)
      BY <3>1 DEF Passed
    <3> QED
      BY <3>1, <3>2
  <2> QED
    BY <2>1, <2>2
<1>3. WalkedOver(d, off, n, V)
  BY <1>1, <1>2 DEF WalkedOver
<1> QED
  BY <1>3 DEF Walked

\* In the walk, the index is behind it.
LEMMA AllBehind ==
    ASSUME IndexInv, phase = "walk"
    PROVE  \A g \in DOMAIN offsets : \A i \in 1..Len(offsets[g]) : offsets[g][i] < base + pos
<1>1. offsets \in [GroupIds -> Seq(Nat)]
  BY DEF IndexInv, TypeOK
<1>2. \A g \in GroupIds : DOMAIN offsets[g] = 1..Len(offsets[g])
  BY <1>1, LenProperties
<1>3. \A g \in GroupIds : \A i \in DOMAIN offsets[g] : offsets[g][i] < base + pos
  BY DEF IndexInv, RecordsBehind
<1> QED
  BY <1>1, <1>2, <1>3

LEMMA TrailIndexRecord ==
    ASSUME IndexInv, Plain(dg), TrailInv, IndexRecord
    PROVE  TrailInv'
<1> DEFINE G == GroupAt(dg, data, pos)
           o == base + pos
<1>1. /\ dg \in DataGroup /\ base \in Nat /\ pos \in Nat /\ block \in Nat \ {0}
      /\ offsets \in [GroupIds -> Seq(Nat)]
      /\ phase = "walk" /\ block <= Len(dg.blocks) /\ Readable(dg, dg.blocks[block])
  BY DEF IndexInv, TypeOK, PhaseOK, IndexRecord
<1>2. block \in 1..Len(dg.blocks) /\ data = dg.blocks[block].data
  <2>1. block \in 1..Len(dg.blocks)
    BY <1>1, BlocksAreBlocks
  <2> QED
    BY <2>1 DEF Plain, data, Payload
<1>3. base = Ends(dg)[block - 1] /\ Underway(dg, offsets, block, pos)
  BY <1>1 DEF TrailInv
<1>4. /\ Measurable(dg, data, pos) /\ phase' = "walk"
      /\ offsets' = [offsets EXCEPT ![G] = Append(@, o)]
      /\ pos' = After(dg, data, pos)
      /\ UNCHANGED <<dg, total, block, base, stream, counts>>
  BY DEF IndexRecord
<1>5. /\ data \in Seq(Byte) /\ HasId(dg, data, pos) /\ G \in GroupIds
      /\ dg.groups[G].id = Field(data, pos, dg.idSize)
  <2>1. data \in Seq(Byte)
    BY <1>1, <1>2, BlocksAreBlocks
  <2> QED
    BY <1>1, <1>4, <2>1, StepAdvances DEF GroupIds
<1>6. OneMore(offsets, offsets', G, o)
  BY <1>1, <1>4, <1>5 DEF OneMore
<1>7. Underway(dg, offsets', block, pos')
  <2>1. \A g \in DOMAIN offsets : \A i \in 1..Len(offsets[g]) : offsets[g][i] < o
    BY <1>1, AllBehind
  <2> QED
    BY <1>1, <1>2, <1>3, <1>4, <1>6, <2>1, UnderwayGoesOn
<1>8. ASSUME NEW n \in 1..Len(dg.blocks), n < block
      PROVE  Walked(dg, offsets', n)
  <2>1. Walked(dg, offsets, n)
    BY <1>1, <1>8 DEF TrailInv
  <2>2. Ends(dg)[n] <= base /\ Ends(dg)[n] \in Nat
    <3>1. n \in 0..Len(dg.blocks) /\ block - 1 \in n..Len(dg.blocks)
      BY <1>1, <1>2, <1>8
    <3> QED
      BY <1>1, <1>3, <3>1, EndsGrow, EndsAre
  <2>3. o >= Ends(dg)[n]
    BY <1>1, <2>2
  <2> QED
    BY <1>1, <1>6, <2>1, <2>3, WalkedStays
<1>9. ASSUME NEW g \in GroupIds, offsets'[g] # <<>>
      PROVE  GroupWithId(dg, dg.groups[g].id) = g
  <2>1. CASE g = G
    BY <1>5, <2>1 DEF GroupAt
  <2>2. CASE g # G
    <3>1. offsets'[g] = offsets[g]
      BY <1>1, <1>6, <2>2 DEF OneMore
    <3> QED
      BY <1>9, <3>1 DEF TrailInv
  <2> QED
    BY <2>1, <2>2
<1>10. dg.blocks # <<>>
  BY <1>2
<1> QED
  BY <1>3, <1>4, <1>7, <1>8, <1>9, <1>10 DEF TrailInv, GroupIds

LEMMA TrailEndBlock ==
    ASSUME IndexInv, Plain(dg), TrailInv, EndBlock
    PROVE  TrailInv'
<1>1. /\ dg \in DataGroup /\ base \in Nat /\ pos \in Nat /\ block \in Nat \ {0}
      /\ phase = "walk" /\ block <= Len(dg.blocks) /\ Readable(dg, dg.blocks[block])
  BY DEF IndexInv, TypeOK, PhaseOK, EndBlock
<1>2. block \in 1..Len(dg.blocks) /\ data = dg.blocks[block].data
  <2>1. block \in 1..Len(dg.blocks)
    BY <1>1, BlocksAreBlocks
  <2> QED
    BY <2>1 DEF Plain, data, Payload
<1>3. base = Ends(dg)[block - 1] /\ Underway(dg, offsets, block, pos)
  BY <1>1 DEF TrailInv
<1>4. /\ ~Measurable(dg, data, pos) /\ phase' = "block" /\ base' = base + Len(data)
      /\ block' = block + 1
      /\ UNCHANGED <<dg, total, pos, stream, offsets, counts>>
  BY DEF EndBlock
<1>5. Walked(dg, offsets, block)
  BY <1>1, <1>2, <1>3, <1>4, AllBehind, UnderwayEnds
<1>6. base' = Ends(dg)[block' - 1]
  <2>1. block' - 1 = block
    BY <1>1, <1>4
  <2> QED
    BY <1>1, <1>2, <1>3, <1>4, <2>1, PassedNumbers
<1>7. ASSUME NEW n \in 1..Len(dg.blocks), n < block'
      PROVE  Walked(dg, offsets, n)
  <2>1. n < block \/ n = block
    BY <1>1, <1>4, <1>7
  <2> QED
    BY <1>1, <1>5, <2>1 DEF TrailInv
<1> QED
  BY <1>1, <1>4, <1>6, <1>7 DEF TrailInv, GroupIds

\* Every step keeps the trails.
LEMMA TrailStep == IndexInv /\ SeedInv /\ Plain(dg) /\ TrailInv /\ [IndexNext]_indexVars => TrailInv'
<1> SUFFICES ASSUME IndexInv, SeedInv, Plain(dg), TrailInv, [IndexNext]_indexVars
             PROVE  TrailInv'
  OBVIOUS
<1>1. /\ dg \in DataGroup /\ block \in Nat \ {0} /\ pos \in Nat
      /\ Len(dg.blocks) \in Nat /\ dg.blocks \in Seq(Block)
      /\ offsets \in [GroupIds -> Seq(Nat)]
  BY LenProperties DEF IndexInv, TypeOK, DataGroup
<1>2. CASE ListBlock
  BY <1>2 DEF ListBlock, TrailInv, GroupIds
<1>3. CASE EndOfChain
  BY <1>3 DEF EndOfChain, TrailInv, GroupIds
<1>4. CASE NoBlocks
  <2>1. 1..Len(dg.blocks) = {}
    BY <1>4 DEF NoBlocks
  <2> QED
    BY <1>4, <2>1 DEF NoBlocks, TrailInv, GroupIds
<1>5. CASE SizeSorted
  BY <1>5 DEF SizeSorted, TrailInv, GroupIds
<1>6. CASE StartWalk
  <2>1. phase' = "block" /\ block' = 1 /\ base' = 0 /\ UNCHANGED <<dg, offsets>>
    BY <1>6 DEF StartWalk, SeedInv, IndexInv, PhaseOK
  <2>2. base' = Ends(dg)[block' - 1]
    BY <1>1, <2>1, EndsAre
  <2>3. \A n \in 1..Len(dg.blocks) : ~(n < block')
    BY <2>1
  <2> QED
    BY <2>1, <2>2, <2>3 DEF TrailInv, GroupIds
<1>7. CASE ReadBlock
  <2>1. phase = "block" /\ phase' = "walk" /\ pos' = 0 /\ UNCHANGED <<dg, block, base, offsets>>
    BY <1>7 DEF ReadBlock
  <2>2. Underway(dg, offsets, block, 0)
    <3>1. {0} \in SUBSET Nat /\ 0 \in {0} /\ \A p \in {0} : p = 0
      OBVIOUS
    <3> QED
      BY <3>1 DEF Underway
  <2> QED
    BY <2>1, <2>2 DEF TrailInv, GroupIds
<1>8. CASE ReadBlockFails
  BY <1>8 DEF ReadBlockFails, TrailInv, GroupIds
<1>9. CASE IndexRecord
  BY <1>9, TrailIndexRecord
<1>10. CASE EndBlock
  BY <1>10, TrailEndBlock
<1>11. CASE FinishWalk
  <2>1. /\ phase = "block" /\ phase' = "open" /\ block > Len(dg.blocks)
        /\ UNCHANGED <<dg, block, base, offsets>>
    BY <1>11 DEF FinishWalk
  <2>2. \A n \in 1..Len(dg.blocks) : n < block
    BY <1>1, <2>1
  <2>3. \A n \in 1..Len(dg.blocks) : Walked(dg, offsets, n)
    BY <2>1, <2>2 DEF TrailInv
  <2> QED
    BY <2>1, <2>3 DEF TrailInv, GroupIds
<1>12. CASE UNCHANGED indexVars
  BY <1>12 DEF indexVars, TrailInv, GroupIds
<1> QED
  BY <1>2, <1>3, <1>4, <1>5, <1>6, <1>7, <1>8, <1>9, <1>10, <1>11, <1>12 DEF IndexNext

LEMMA TrailInit == Init => TrailInv
<1> SUFFICES ASSUME Init
             PROVE  TrailInv
  OBVIOUS
<1> QED
  BY DEF Init, TrailInv, GroupIds

(***************************************************************************)
(* A later walk on the trail.                                              *)
(***************************************************************************)

\* The place q of block n is on the trail, and no record after it leaves the block.
OnTrail(d, off, n, q) ==
    \E V \in SUBSET (0..Len(d.blocks[n].data)) : q \in V /\ WalkedOver(d, off, n, V)

\* The first byte of a block is on its trail.
LEMMA TrailBegins ==
    ASSUME NEW d \in DataGroup, NEW n \in 1..Len(d.blocks), NEW off,
           Walked(d, off, n), EndsWithin(d, d.blocks[n].data)
    PROVE  OnTrail(d, off, n, 0)
<1> DEFINE s == d.blocks[n].data
           at == Ends(d)[n - 1]
<1>1. PICK V \in SUBSET Nat : WalkedOver(d, off, n, V)
  BY DEF Walked
<1>2. PICK places \in SUBSET (0..Len(s)) :
          0 \in places /\ \A p \in places : Measurable(d, s, p) => After(d, s, p) \in places
  BY DEF EndsWithin
<1> DEFINE W == V \cap places
<1>3. W \in SUBSET (0..Len(s)) /\ 0 \in W
  BY <1>1, <1>2 DEF WalkedOver
<1>4. ASSUME NEW p \in W
      PROVE  IF Measurable(d, s, p) THEN Passed(d, off, n, W, p)
             ELSE Nothing(off, at + p, at + Len(s))
  <2>1. CASE Measurable(d, s, p)
    <3>1. Passed(d, off, n, V, p)
      BY <1>1, <2>1 DEF WalkedOver
    <3>2. After(d, s, p) \in W
      BY <1>2, <2>1, <3>1 DEF Passed
    <3>3. Passed(d, off, n, W, p)
      BY <3>1, <3>2 DEF Passed
    <3> QED
      BY <2>1, <3>3
  <2>2. CASE ~Measurable(d, s, p)
    BY <1>1, <2>2 DEF WalkedOver
  <2> QED
    BY <2>1, <2>2
<1>5. WalkedOver(d, off, n, W)
  BY <1>3, <1>4 DEF WalkedOver
<1> QED
  BY <1>3, <1>5 DEF OnTrail

\* What follows a place on the trail, and what is indexed up to there.
LEMMA TrailGoesOn ==
    ASSUME NEW d \in DataGroup, NEW n \in 1..Len(d.blocks), NEW off, NEW q, OnTrail(d, off, n, q)
    PROVE  /\ q \in 0..Len(d.blocks[n].data)
           /\ Measurable(d, d.blocks[n].data, q) =>
                 /\ OnTrail(d, off, n, After(d, d.blocks[n].data, q))
                 /\ After(d, d.blocks[n].data, q) \in 0..Len(d.blocks[n].data)
                 /\ Indexed(off, GroupAt(d, d.blocks[n].data, q), Ends(d)[n - 1] + q)
                 /\ Nothing(off, Ends(d)[n - 1] + q + 1, Ends(d)[n - 1] + After(d, d.blocks[n].data, q))
           /\ ~Measurable(d, d.blocks[n].data, q) => Nothing(off, Ends(d)[n - 1] + q, Ends(d)[n])
<1> DEFINE s == d.blocks[n].data
           at == Ends(d)[n - 1]
<1>1. PICK V \in SUBSET (0..Len(s)) : q \in V /\ WalkedOver(d, off, n, V)
  BY DEF OnTrail
<1>2. s \in Seq(Byte) /\ Len(s) \in Nat /\ at \in Nat /\ Ends(d)[n] = at + Len(s)
  BY PassedNumbers
<1>3. CASE Measurable(d, s, q)
  <2>1. Passed(d, off, n, V, q)
    BY <1>1, <1>3 DEF WalkedOver
  <2>2. After(d, s, q) \in V /\ After(d, s, q) \in 0..Len(s)
    BY <1>1, <2>1 DEF Passed
  <2>3. Least(After(d, s, q), Len(s)) = After(d, s, q)
    BY <2>2 DEF Least
  <2> QED
    BY <1>1, <1>3, <2>1, <2>2, <2>3 DEF Passed, OnTrail
<1>4. CASE ~Measurable(d, s, q)
  <2>1. Nothing(off, at + q, at + Len(s))
    BY <1>1, <1>4 DEF WalkedOver
  <2> QED
    BY <1>1, <1>2, <1>4, <2>1
<1> QED
  BY <1>3, <1>4

\* What opening an interleaved data group leaves: off is an index of stream w.
IsIndexOf(d, off, w) ==
    /\ off \in [DOMAIN d.groups -> Seq(Nat)]
    /\ \A g \in DOMAIN off : Ascending(off[g])
    /\ \A g \in DOMAIN off : \A i \in 1..Len(off[g]) :
          /\ d.idSize \in {1, 2} /\ off[g][i] + d.idSize <= Len(w)
          /\ Field(w, off[g][i], d.idSize) = d.groups[g].id
          /\ ~d.groups[g].vlsd => off[g][i] + RecordSize(d, d.groups[g]) <= Len(w)
    /\ \A g \in DOMAIN off : off[g] # <<>> => GroupWithId(d, d.groups[g].id) = g
    /\ \A n \in 1..Len(d.blocks) : Walked(d, off, n)

LEMMA OpenIsIndexed ==
    ASSUME IndexInv, SeedInv, TrailInv, phase = "open", Unsorted(dg)
    PROVE  IsIndexOf(dg, offsets, WholeStream)
<1>1. dg \in DataGroup /\ offsets \in [GroupIds -> Seq(Nat)]
  BY DEF IndexInv, TypeOK
<1>2. \A g \in GroupIds : Len(offsets[g]) \in Nat /\ DOMAIN offsets[g] = 1..Len(offsets[g])
  BY <1>1, LenProperties
<1>3. \A g \in GroupIds : Ascending(offsets[g])
  BY <1>1, <1>2 DEF IndexInv, OffsetsAscend, Ascending
<1>4. ASSUME NEW g \in GroupIds, NEW i \in 1..Len(offsets[g])
      PROVE  /\ dg.idSize \in {1, 2} /\ offsets[g][i] + dg.idSize <= Len(WholeStream)
             /\ Field(WholeStream, offsets[g][i], dg.idSize) = dg.groups[g].id
             /\ ~dg.groups[g].vlsd =>
                   offsets[g][i] + RecordSize(dg, dg.groups[g]) <= Len(WholeStream)
  <2>1. dg.blocks # <<>>
    <3>1. offsets[g] # <<>>
      BY <1>2
    <3> QED
      BY <3>1 DEF TrailInv
  <2>2. stream = WholeStream
    BY <1>1, <2>1, JoinedIsWhole DEF SeedInv
  <2>3. i \in DOMAIN offsets[g]
    BY <1>2
  <2>4. HasId(dg, stream, offsets[g][i]) /\ Field(stream, offsets[g][i], dg.idSize) = dg.groups[g].id
    BY <2>3 DEF IndexInv, IndexedAtOwnId
  <2>5. ~dg.groups[g].vlsd => offsets[g][i] + RecordSize(dg, dg.groups[g]) <= Len(stream)
    BY <2>3 DEF IndexInv, RecordsBehind
  <2> QED
    BY <2>2, <2>4, <2>5 DEF HasId
<1>5. \A g \in GroupIds : offsets[g] # <<>> => GroupWithId(dg, dg.groups[g].id) = g
  BY DEF TrailInv
<1>6. \A n \in 1..Len(dg.blocks) : Walked(dg, offsets, n)
  BY DEF TrailInv
<1> QED
  BY <1>1, <1>3, <1>4, <1>5, <1>6 DEF IsIndexOf, GroupIds

(***************************************************************************)
(* Windows.                                                                *)
(***************************************************************************)

\* A window begins where its block does, or within a block that is cut.
IsPlace(d, win) ==
    /\ win.block \in 1..(Len(d.blocks) + 1)
    /\ win.start \in Nat
    /\ \/ win.start = 0
       \/ /\ win.block <= Len(d.blocks)
          /\ ~OneWindow(d.blocks[win.block])
          /\ win.start < Len(d.blocks[win.block].data)

\* Where the window begins in the stream.
Begins(d, win) == Ends(d)[win.block - 1] + win.start

\* The bytes carried over are those before the window, from P on.
InHand(d, w, win, rest, P) ==
    /\ IsPlace(d, win)
    /\ SliceOf(rest, w, P)
    /\ P + Len(rest) = Begins(d, win)

LEMMA LeastOfTwo ==
    ASSUME NEW a \in Nat, NEW b \in Nat
    PROVE  /\ Least(a, b) \in Nat /\ Least(a, b) <= a /\ Least(a, b) <= b
           /\ Least(a, b) = a \/ Least(a, b) = b
           /\ a <= b => Least(a, b) = a
           /\ b <= a => Least(a, b) = b
  BY DEF Least

\* The next cut of a block of L bytes, of which a have been read.
LEMMA NextCut ==
    ASSUME NEW L \in Nat, NEW B \in Nat, B > 0, NEW a \in Nat, a < L,
           NEW len, len = Least(B, L - a)
    PROVE  len \in Nat /\ len > 0 /\ a + len <= L
<1>1. L - a \in Nat /\ L - a > 0
  OBVIOUS
<1>2. CASE B <= L - a
  BY <1>1, <1>2 DEF Least
<1>3. CASE ~(B <= L - a)
  BY <1>1, <1>3 DEF Least
<1> QED
  BY <1>2, <1>3

LEMMA WindowRead ==
    ASSUME dg \in DataGroup, Plain(dg), HasWindow, IsPlace(dg, window)
    PROVE  LET s == WindowBlock.data
               stop == IF EndsBlock THEN Len(s) ELSE window.start + WindowLength
           IN  /\ stop \in Nat /\ window.start <= stop /\ stop <= Len(s)
               /\ SliceOf(WindowBytes, s, window.start)
               /\ Len(WindowBytes) = stop - window.start
               /\ IsPlace(dg, NextWindow)
               /\ Begins(dg, NextWindow) = Ends(dg)[window.block - 1] + stop
               /\ EndsBlock => NextWindow = [block |-> window.block + 1, start |-> 0]
               /\ ~EndsBlock => NextWindow.block = window.block
<1> DEFINE n == window.block
           s == WindowBlock.data
           stop == IF EndsBlock THEN Len(s) ELSE window.start + WindowLength
<1>1. /\ n \in 1..Len(dg.blocks) /\ WindowBlock = dg.blocks[n] /\ Len(dg.blocks) \in Nat
      /\ s = dg.blocks[n].data /\ window.start \in Nat
      /\ s \in Seq(Byte) /\ Len(s) \in Nat
  <2>1. Len(dg.blocks) \in Nat
    BY BlocksAreBlocks
  <2>2. n \in 1..Len(dg.blocks) /\ window.start \in Nat
    BY <2>1 DEF HasWindow, IsPlace
  <2>3. dg.blocks[n].data \in Seq(Byte) /\ Len(dg.blocks[n].data) \in Nat
    BY <2>2, BlocksAreBlocks
  <2> QED
    BY <2>1, <2>2, <2>3 DEF WindowBlock
<1>2. Payload(dg, WindowBlock) = s
  BY <1>1 DEF Plain, Payload
<1>3. Ends(dg)[n - 1] \in Nat /\ Ends(dg)[n] = Ends(dg)[n - 1] + Len(s)
  <2>1. 0 \in Nat
    OBVIOUS
  <2> QED
    BY <1>1, <2>1, PassedNumbers
<1>4. WindowBytes = SubSeq(s, window.start + 1, Least(window.start + WindowLength, Len(s)))
  BY <1>2 DEF WindowBytes
<1>0. WindowBlock.data = s
  OBVIOUS
<1> HIDE DEF s
<1>5. CASE OneWindow(WindowBlock)
  <2>1. /\ window.start = 0 /\ EndsBlock /\ stop = Len(s)
        /\ WindowLength = IF Len(s) = 0 THEN 1 ELSE Len(s)
        /\ NextWindow = [block |-> n + 1, start |-> 0]
    BY <1>0, <1>1, <1>5 DEF IsPlace, EndsBlock, WindowLength, DeclaredSize, NextWindow
  <2>2. Least(window.start + WindowLength, Len(s)) = Len(s)
    BY <1>1, <2>1 DEF Least
  <2>3. SliceOf(WindowBytes, s, 0) /\ Len(WindowBytes) = Len(s) - 0
    BY <1>1, <1>4, <2>1, <2>2, SubSeqIsSlice
  <2>4. IsPlace(dg, NextWindow) /\ Begins(dg, NextWindow) = Ends(dg)[(n + 1) - 1] + 0
    BY <1>1, <2>1 DEF IsPlace, Begins
  <2>5. (n + 1) - 1 = n
    BY <1>1
  <2> QED
    BY <1>1, <1>3, <2>1, <2>3, <2>4, <2>5
<1>6. CASE ~OneWindow(WindowBlock)
  <2>1. Len(s) > Budget /\ Budget \in Nat \ {0}
    BY <1>0, <1>1, <1>6, BudgetAssumption DEF OneWindow, DeclaredSize
  <2>2. window.start < Len(s)
    BY <1>1, <2>1 DEF IsPlace
  <2>3. WindowLength = Least(Budget, Len(s) - window.start)
    BY <1>0, <1>6 DEF WindowLength, DeclaredSize
  <2>4. WindowLength \in Nat /\ WindowLength > 0 /\ window.start + WindowLength <= Len(s)
    <3>1. Budget \in Nat /\ Budget > 0 /\ Len(s) \in Nat /\ window.start \in Nat
      BY <1>1, <2>1
    <3> QED
      BY ONLY <2>2, <2>3, <3>1, NextCut
  <2>5. Least(window.start + WindowLength, Len(s)) = window.start + WindowLength
    BY <2>4 DEF Least
  <2> DEFINE to == window.start + WindowLength
  <2>6. to \in Nat /\ window.start <= to /\ to <= Len(s) /\ to - window.start = WindowLength
    <3>1. Len(s) \in Nat /\ window.start \in Nat
      BY <1>1
    <3> QED
      BY ONLY <2>4, <3>1 DEF to
  <2>7. SliceOf(WindowBytes, s, window.start) /\ Len(WindowBytes) = to - window.start
    <3>1. WindowBytes = SubSeq(s, window.start + 1, to)
      BY <1>4, <2>5
    <3>2. s \in Seq(Byte) /\ window.start \in Nat
      BY <1>1
    <3> HIDE DEF to
    <3> QED
      BY <2>6, <3>1, <3>2, SubSeqIsSlice
  <2>8. EndsBlock <=> to >= Len(s)
    BY <1>0, <1>6 DEF EndsBlock, DeclaredSize, to
  <2> HIDE DEF to
  <2>9. CASE EndsBlock
    <3>1. to = Len(s) /\ stop = Len(s)
      BY <1>1, <2>6, <2>8, <2>9
    <3>2. NextWindow = [block |-> n + 1, start |-> 0]
      BY <2>9 DEF NextWindow
    <3>3. IsPlace(dg, NextWindow) /\ Begins(dg, NextWindow) = Ends(dg)[(n + 1) - 1] + 0
      BY <1>1, <3>2 DEF IsPlace, Begins
    <3>4. (n + 1) - 1 = n
      BY <1>1
    <3>5. Begins(dg, NextWindow) = Ends(dg)[n - 1] + stop
      BY <1>3, <3>1, <3>3, <3>4
    <3> QED
      BY <1>1, <2>6, <2>7, <2>9, <3>1, <3>2, <3>3, <3>5
  <2>10. CASE ~EndsBlock
    <3>1. NextWindow = [block |-> n, start |-> to] /\ stop = to
      BY <2>10 DEF NextWindow, to
    <3>2. to < Len(s)
      BY <1>1, <2>6, <2>8, <2>10
    <3>3. IsPlace(dg, NextWindow) /\ Begins(dg, NextWindow) = Ends(dg)[n - 1] + to
      BY <1>1, <1>6, <2>6, <3>1, <3>2 DEF IsPlace, Begins
    <3> QED
      BY <1>1, <1>3, <2>6, <2>7, <2>10, <3>1, <3>3
  <2> QED
    BY <2>9, <2>10
<1> QED
  BY <1>0, <1>5, <1>6

\* The bytes in hand, with the window's, are the stream up to the next window.
LEMMA BufferIsSlice ==
    ASSUME dg \in DataGroup, Plain(dg), NEW w, LaidOut(dg, w), HasWindow,
           NEW P, InHand(dg, w, window, carry, P)
    PROVE  LET buffer == carry \o WindowBytes
           IN  /\ SliceOf(buffer, w, P)
               /\ P + Len(buffer) = Begins(dg, NextWindow)
<1> DEFINE n == window.block
           s == WindowBlock.data
           stop == IF EndsBlock THEN Len(s) ELSE window.start + WindowLength
           buffer == carry \o WindowBytes
<1>1. IsPlace(dg, window) /\ SliceOf(carry, w, P) /\ P + Len(carry) = Begins(dg, window)
  BY DEF InHand
<1>2. /\ stop \in Nat /\ window.start <= stop
      /\ SliceOf(WindowBytes, s, window.start)
      /\ Len(WindowBytes) = stop - window.start
      /\ Begins(dg, NextWindow) = Ends(dg)[n - 1] + stop
  BY <1>1, WindowRead
<1>3. n \in 1..Len(dg.blocks) /\ s = dg.blocks[n].data /\ window.start \in Nat
  BY <1>1, BlocksAreBlocks DEF HasWindow, IsPlace, WindowBlock
<1>4. Ends(dg)[n - 1] \in Nat
  BY <1>3, PassedNumbers
<1>5. SliceOf(s, w, Ends(dg)[n - 1])
  BY <1>3 DEF LaidOut
<1>6. SliceOf(WindowBytes, w, Ends(dg)[n - 1] + window.start)
  BY <1>2, <1>5, SliceOfSlice
<1>7. SliceOf(WindowBytes, w, P + Len(carry))
  BY <1>1, <1>6 DEF Begins
<1>8. SliceOf(buffer, w, P) /\ Len(buffer) = Len(carry) + Len(WindowBytes)
  BY <1>1, <1>7, SlicesJoin
<1>9. Len(carry) \in Nat /\ P \in Nat
  BY <1>1, LenProperties DEF SliceOf
<1> HIDE DEF stop, n, s, buffer
<1>10. P + Len(buffer) = Ends(dg)[n - 1] + stop
  <2>1. P + Len(carry) = Ends(dg)[window.block - 1] + window.start
    BY <1>1 DEF Begins
  <2>2. Ends(dg)[window.block - 1] \in Nat /\ window.start \in Nat
    BY <1>3, <1>4 DEF n
  <2>3. Len(WindowBytes) = stop - window.start /\ stop \in Nat
    BY <1>2
  <2>4. Len(buffer) = Len(carry) + Len(WindowBytes) /\ Len(carry) \in Nat /\ P \in Nat
    BY <1>8, <1>9
  <2>5. P + Len(buffer) = Ends(dg)[window.block - 1] + stop
    <3>1. PICK e, a, c, l, m :
              e = Ends(dg)[window.block - 1] /\ a = window.start
              /\ c = Len(carry) /\ l = Len(WindowBytes) /\ m = Len(buffer)
      OBVIOUS
    <3>2. P + c = e + a /\ e \in Nat /\ a \in Nat /\ l = stop - a /\ m = c + l /\ c \in Nat
      BY <2>1, <2>2, <2>3, <2>4, <3>1
    <3>3. stop \in Nat /\ P \in Nat
      BY <2>3, <2>4
    <3>4. P + m = e + stop
      BY ONLY <3>2, <3>3
    <3> QED
      BY <3>1, <3>4
  <2> QED
    BY <2>5 DEF n
<1> QED
  BY <1>2, <1>8, <1>10 DEF n, buffer

\* The bytes not used are carried over to the next window.
LEMMA TailIsSlice ==
    ASSUME NEW b, NEW w, NEW P, SliceOf(b, w, P), NEW c \in 0..Len(b)
    PROVE  SliceOf(Tailing(b, c), w, P + c) /\ (P + c) + Len(Tailing(b, c)) = P + Len(b)
<1>1. b \in Seq(Byte) /\ P \in Nat /\ Len(b) \in Nat
  BY LenProperties DEF SliceOf
<1>2. SliceOf(Tailing(b, c), b, c) /\ Len(Tailing(b, c)) = Len(b) - c
  BY <1>1, SubSeqIsSlice DEF Tailing
<1>3. SliceOf(Tailing(b, c), w, P + c)
  BY <1>2, SliceOfSlice
<1> QED
  BY <1>1, <1>2, <1>3

(***************************************************************************)
(* The walk over a window.                                                 *)
(***************************************************************************)

\* The parts f of a walk over b, one for every place it can be at.
WalksBy(f, b) ==
    /\ f \in [0..Len(b) -> [records : Seq(Seq(Byte)), payloads : Seq(Seq(Byte)), consumed : 0..Len(b)]]
    /\ \A p \in 0..Len(b) :
          ~Takeable(b, p) => f[p] = [records |-> <<>>, payloads |-> <<>>, consumed |-> p]
    /\ \A p \in 0..Len(b) :
          Takeable(b, p) =>
             /\ After(dg, b, p) \in 0..Len(b) /\ After(dg, b, p) > p
             /\ f[p].records = IF IsOf(b, p, target)
                               THEN <<RecordAt(b, p)>> \o f[After(dg, b, p)].records
                               ELSE f[After(dg, b, p)].records
             /\ f[p].payloads = IF IsPayload(b, p)
                                THEN <<PayloadAt(b, p)>> \o f[After(dg, b, p)].payloads
                                ELSE f[After(dg, b, p)].payloads
             /\ f[p].consumed = f[After(dg, b, p)].consumed

LEMMA AddsUp ==
    ASSUME NEW p \in Nat, NEW i \in Nat, NEW m \in Nat, NEW n \in Nat, NEW y, y = p + (i + (m + n))
    PROVE  p + i \in Nat /\ y \in Nat /\ p + i <= y
  OBVIOUS

LEMMA TakeableStep ==
    ASSUME dg \in DataGroup, target \in GroupIds,
           NEW b \in Seq(Byte), NEW p \in 0..Len(b), Takeable(b, p)
    PROVE  /\ After(dg, b, p) \in 0..Len(b) /\ After(dg, b, p) > p
           /\ IsOf(b, p, target) => RecordAt(b, p) \in Seq(Byte)
           /\ IsPayload(b, p) => PayloadAt(b, p) \in Seq(Byte)
<1>1. Len(b) \in Nat /\ p \in Nat
  BY LenProperties
<1>2. Measurable(dg, b, p)
  BY DEF Takeable
<1> DEFINE g == GroupAt(dg, b, p)
<1>3. /\ HasId(dg, b, p) /\ g \in DOMAIN dg.groups
      /\ After(dg, b, p) \in Nat /\ After(dg, b, p) > p
      /\ ~dg.groups[g].vlsd => After(dg, b, p) <= Len(b)
  BY <1>1, <1>2, StepAdvances
<1>4. After(dg, b, p) <= Len(b)
  BY <1>3 DEF Takeable
<1>5. /\ dg.idSize \in {1, 2}
      /\ dg.groups[g] \in Group /\ dg.groups[target] \in Group
  <2>1. dg.groups \in Seq(Group)
    BY DEF DataGroup
  <2> QED
    BY <1>3, <2>1, ElementOfSeq, LenProperties DEF HasId, GroupIds
<1>6. ASSUME IsOf(b, p, target)
      PROVE  RecordAt(b, p) \in Seq(Byte)
  <2> DEFINE x == p + dg.idSize
             y == p + RecordSize(dg, dg.groups[target])
  <2>1. x \in Nat /\ y \in Nat /\ x <= y /\ y <= Len(b)
    <3>1. dg.groups[target].data \in Nat /\ dg.groups[target].inval \in Nat /\ dg.idSize \in Nat
      BY <1>5 DEF Group
    <3>2. y = p + (dg.idSize + (dg.groups[target].data + dg.groups[target].inval))
      BY DEF RecordSize, PayloadSize
    <3>3. y <= Len(b)
      BY <1>6 DEF Takeable, IsOf
    <3>4. x \in Nat /\ y \in Nat /\ x <= y
      <4> HIDE DEF y
      <4> QED
        BY <1>1, <3>1, <3>2, AddsUp
    <3> QED
      BY <3>3, <3>4
  <2> HIDE DEF x, y
  <2>2. SubSeq(b, x + 1, y) \in Seq(Byte)
    BY <1>1, <2>1, SubSeqIsSlice DEF SliceOf
  <2> QED
    BY <2>2 DEF RecordAt, x, y
<1>7. ASSUME IsPayload(b, p)
      PROVE  PayloadAt(b, p) \in Seq(Byte)
  <2> DEFINE x == p + dg.idSize + Prefix
             y == After(dg, b, p)
  <2>1. x \in Nat /\ y \in Nat /\ x <= y /\ y <= Len(b)
    <3>1. dg.groups[g].vlsd
      BY <1>7 DEF IsPayload
    <3>2. x \in Nat /\ x <= Len(b)
      BY <1>1, <1>2, <1>5, <3>1, PrefixAssumption DEF Measurable
    <3>3. y = x + LengthAt(dg, b, p) /\ y \in Nat /\ y <= Len(b)
      BY <1>3, <1>4, <3>1 DEF After
    <3>4. LengthAt(dg, b, p) \in Nat
      <4>1. p + dg.idSize \in Nat /\ (p + dg.idSize) + Prefix <= Len(b)
        BY <1>1, <1>5, <3>2
      <4> HIDE DEF x, y
      <4>2. Field(b, p + dg.idSize, Prefix) \in Nat
        <5>1. \A i \in 1..Len(b) : b[i] \in Nat
          <6>1. \A i \in 1..Len(b) : b[i] \in Byte
            BY ElementOfSeq
          <6>2. \A x0 \in Byte : x0 \in Nat
            BY DEF Byte
          <6> QED
            BY ONLY <6>1, <6>2
        <5>2. (p + dg.idSize) + 1 \in 1..Len(b)
          BY <1>1, <4>1, PrefixAssumption
        <5>3. Prefix = 2 => (p + dg.idSize) + 2 \in 1..Len(b)
          BY <1>1, <4>1
        <5>4. CASE Prefix = 1
          BY <5>1, <5>2, <5>4 DEF Field
        <5>5. CASE Prefix = 2
          <6>1. b[(p + dg.idSize) + 1] \in Nat /\ b[(p + dg.idSize) + 2] \in Nat
            BY <5>1, <5>2, <5>3, <5>5
          <6> QED
            BY <5>5, <6>1 DEF Field
        <5> QED
          BY <5>4, <5>5, PrefixAssumption
      <4> QED
        BY <4>2 DEF LengthAt
    <3> HIDE DEF x, y
    <3> QED
      BY <3>2, <3>3, <3>4
  <2> HIDE DEF x, y
  <2>2. SubSeq(b, x + 1, y) \in Seq(Byte)
    BY <1>1, <2>1, SubSeqIsSlice DEF SliceOf
  <2> QED
    BY <2>2 DEF PayloadAt, x, y
<1> QED
  BY <1>3, <1>4, <1>6, <1>7

LEMMA CollectWalks ==
    ASSUME dg \in DataGroup, target \in GroupIds, NEW b \in Seq(Byte)
    PROVE  \E f : WalksBy(f, b) /\ Collect(b) = f[0]
<1> DEFINE N == Len(b)
           A == [records : Seq(Seq(Byte)), payloads : Seq(Seq(Byte)), consumed : 0..N]
           Go == {p \in 0..N : Takeable(b, p)}
           next == [p \in Go |-> After(dg, b, p)]
           stop == [p \in 0..N |-> [records |-> <<>>, payloads |-> <<>>, consumed |-> p]]
           Then(p, rest) == [records |-> IF IsOf(b, p, target)
                                         THEN <<RecordAt(b, p)>> \o rest.records
                                         ELSE rest.records,
                             payloads |-> IF IsPayload(b, p)
                                          THEN <<PayloadAt(b, p)>> \o rest.payloads
                                          ELSE rest.payloads,
                             consumed |-> rest.consumed]
           F == [p \in Go |-> [rest \in A |-> Then(p, rest)]]
<1>1. N \in Nat
  BY LenProperties
<1>2. \A p \in Go : /\ After(dg, b, p) \in 0..N /\ After(dg, b, p) > p
                    /\ IsOf(b, p, target) => RecordAt(b, p) \in Seq(Byte)
                    /\ IsPayload(b, p) => PayloadAt(b, p) \in Seq(Byte)
  BY TakeableStep
<1> HIDE DEF N
<1>3. ASSUME NEW p \in Go, NEW rest \in A
      PROVE  Then(p, rest) \in A
  <2>1. /\ rest.records \in Seq(Seq(Byte)) /\ rest.payloads \in Seq(Seq(Byte))
        /\ rest.consumed \in 0..N
    OBVIOUS
  <2>2. IsOf(b, p, target) => <<RecordAt(b, p)>> \o rest.records \in Seq(Seq(Byte))
    <3> SUFFICES ASSUME IsOf(b, p, target)
                 PROVE  <<RecordAt(b, p)>> \o rest.records \in Seq(Seq(Byte))
      OBVIOUS
    <3>1. <<RecordAt(b, p)>> \in Seq(Seq(Byte))
      BY <1>2
    <3> QED
      BY <2>1, <3>1, ConcatProperties
  <2>3. IsPayload(b, p) => <<PayloadAt(b, p)>> \o rest.payloads \in Seq(Seq(Byte))
    <3> SUFFICES ASSUME IsPayload(b, p)
                 PROVE  <<PayloadAt(b, p)>> \o rest.payloads \in Seq(Seq(Byte))
      OBVIOUS
    <3>1. <<PayloadAt(b, p)>> \in Seq(Seq(Byte))
      BY <1>2
    <3> QED
      BY <2>1, <3>1, ConcatProperties
  <2> QED
    BY <2>1, <2>2, <2>3
<1>4. F \in [Go -> [A -> A]]
  BY <1>3
<1>5. next \in [Go -> 0..N] /\ \A p \in Go : next[p] > p
  BY <1>2
<1>6. stop \in [0..N -> A]
  <2>1. <<>> \in Seq(Seq(Byte))
    BY EmptySeq
  <2> QED
    BY <2>1
<1>7. PICK f : IsUpward(f, N, A, Go, next, stop, F)
  <2>1. Go \in SUBSET (0..N)
    OBVIOUS
  <2> HIDE DEF A, Go, next, stop, F
  <2> QED
    BY <1>1, <1>4, <1>5, <1>6, <2>1, RecursionUpward
<1> DEFINE Is(h) == h = [p \in 0..N |-> IF ~Takeable(b, p)
                                        THEN [records |-> <<>>, payloads |-> <<>>, consumed |-> p]
                                        ELSE Then(p, h[After(dg, b, p)])]
<1>8. f \in [0..N -> A] /\ f = [p \in 0..N |-> IF p \in Go THEN F[p][f[next[p]]] ELSE stop[p]]
  BY <1>7 DEF IsUpward
<1>9. Is(f)
  <2>1. ASSUME NEW p \in 0..N
        PROVE  (IF p \in Go THEN F[p][f[next[p]]] ELSE stop[p])
                 = IF ~Takeable(b, p) THEN [records |-> <<>>, payloads |-> <<>>, consumed |-> p]
                   ELSE Then(p, f[After(dg, b, p)])
    <3>1. CASE Takeable(b, p)
      <4>1. p \in Go /\ next[p] = After(dg, b, p) /\ next[p] \in 0..N
        BY <1>5, <3>1
      <4>2. f[next[p]] \in A
        <5> HIDE DEF A, Go, next
        <5> QED
          BY <1>8, <4>1
      <4>3. F[p][f[next[p]]] = Then(p, f[next[p]])
        <5> HIDE DEF A, Go, next, Then
        <5> QED
          BY <4>1, <4>2
      <4> HIDE DEF A, Go, next, Then, F
      <4> QED
        BY <3>1, <4>1, <4>3
    <3>2. CASE ~Takeable(b, p)
      BY <3>2
    <3> QED
      BY <3>1, <3>2
  <2> HIDE DEF A, Go, next, stop, F, Then
  <2> QED
    BY <1>8, <2>1
<1> DEFINE E == CHOOSE h : Is(h)
<1>10. Collect(b) = E[0]
  BY DEF Collect, N
<1>11. Is(E)
  <2> HIDE DEF Is
  <2> QED
    BY <1>9
<1>12. \A p \in 0..N : Takeable(b, p) => /\ E[p] = Then(p, E[After(dg, b, p)])
                                         /\ After(dg, b, p) \in 0..N /\ After(dg, b, p) > p
  <2> HIDE DEF E, Then
  <2> QED
    BY <1>2, <1>11
<1>13. \A p \in 0..N : ~Takeable(b, p) => E[p] = [records |-> <<>>, payloads |-> <<>>, consumed |-> p]
  <2> HIDE DEF E, Then
  <2> QED
    BY <1>11
<1>14. \A p \in 0..N : E[p] \in A
  <2> DEFINE T == {m \in Nat : \A p \in 0..N : p + m >= N => E[p] \in A}
  <2>1. \A p \in 0..N : ~Takeable(b, p) => E[p] \in A
    <3>1. \A p \in 0..N : stop[p] \in A
      <4> HIDE DEF A, stop
      <4> QED
        BY <1>6
    <3> HIDE DEF A, E
    <3> QED
      BY <1>13, <3>1
  <2>2. \A p \in 0..N : Takeable(b, p) /\ E[After(dg, b, p)] \in A => E[p] \in A
    <3> HIDE DEF A, E, Then
    <3> QED
      BY <1>3, <1>12
  <2> HIDE DEF A, E, Then
  <2>3. 0 \in T
    <3>1. \A p \in 0..N : p + 0 >= N /\ Takeable(b, p) => FALSE
      BY <1>1, <1>12
    <3> QED
      BY <2>1, <3>1
  <2>4. ASSUME NEW m \in T
        PROVE  m + 1 \in T
    <3> SUFFICES ASSUME NEW p \in 0..N, p + (m + 1) >= N, Takeable(b, p)
                 PROVE  E[p] \in A
      BY <2>1
    <3>1. After(dg, b, p) \in 0..N /\ After(dg, b, p) > p
      BY <1>12
    <3>2. m \in Nat /\ After(dg, b, p) + m >= N
      BY <1>1, <3>1
    <3>3. E[After(dg, b, p)] \in A
      BY <3>1, <3>2
    <3> QED
      BY <2>2, <3>3
  <2> HIDE DEF T
  <2>5. T = Nat
    <3>1. T \in SUBSET Nat
      BY DEF T
    <3> QED
      BY <3>1, <2>3, <2>4, NumberInduction
  <2>6. \A p \in 0..N : p + N >= N
    BY <1>1
  <2> QED
    BY <1>1, <2>5, <2>6 DEF T
<1>15. E \in [0..N -> A]
  <2> HIDE DEF A, E, Then
  <2> QED
    BY <1>11, <1>14
<1>16. WalksBy(E, b)
  <2>1. \A p \in 0..N : Takeable(b, p) =>
             /\ After(dg, b, p) \in 0..N /\ After(dg, b, p) > p
             /\ E[p].records = IF IsOf(b, p, target)
                               THEN <<RecordAt(b, p)>> \o E[After(dg, b, p)].records
                               ELSE E[After(dg, b, p)].records
             /\ E[p].payloads = IF IsPayload(b, p)
                                THEN <<PayloadAt(b, p)>> \o E[After(dg, b, p)].payloads
                                ELSE E[After(dg, b, p)].payloads
             /\ E[p].consumed = E[After(dg, b, p)].consumed
    <3> SUFFICES ASSUME NEW p \in 0..N, Takeable(b, p)
                 PROVE  /\ After(dg, b, p) \in 0..Len(b) /\ After(dg, b, p) > p
                        /\ E[p].records = IF IsOf(b, p, target)
                                          THEN <<RecordAt(b, p)>> \o E[After(dg, b, p)].records
                                          ELSE E[After(dg, b, p)].records
                        /\ E[p].payloads = IF IsPayload(b, p)
                                           THEN <<PayloadAt(b, p)>> \o E[After(dg, b, p)].payloads
                                           ELSE E[After(dg, b, p)].payloads
                        /\ E[p].consumed = E[After(dg, b, p)].consumed
      BY DEF N
    <3>1. PICK r : r = E[After(dg, b, p)]
      OBVIOUS
    <3>2. PICK e : e = E[p]
      OBVIOUS
    <3> HIDE DEF E
    <3>3. e = Then(p, r)
      <4> HIDE DEF Then
      <4> QED
        BY <1>12, <3>1, <3>2
    <3>4. /\ e.records = IF IsOf(b, p, target) THEN <<RecordAt(b, p)>> \o r.records ELSE r.records
          /\ e.payloads = IF IsPayload(b, p) THEN <<PayloadAt(b, p)>> \o r.payloads ELSE r.payloads
          /\ e.consumed = r.consumed
      BY <3>3
    <3>5. After(dg, b, p) \in 0..Len(b) /\ After(dg, b, p) > p
      BY <1>2 DEF N
    <3> QED
      BY <3>1, <3>2, <3>4, <3>5
  <2> HIDE DEF E
  <2> QED
    BY <1>13, <1>15, <2>1 DEF WalksBy, N, A
<1> HIDE DEF E
<1> QED
  BY <1>10, <1>16

\* Sizes are numbers.
LEMMA SizesAre ==
    ASSUME NEW d \in DataGroup, NEW g \in DOMAIN d.groups
    PROVE  /\ d.groups[g] \in Group /\ d.groups[g].vlsd \in BOOLEAN
           /\ d.idSize \in Nat /\ PayloadSize(d.groups[g]) \in Nat
           /\ RecordSize(d, d.groups[g]) = d.idSize + PayloadSize(d.groups[g])
           /\ RecordSize(d, d.groups[g]) \in Nat
<1>1. d.groups \in Seq(Group) /\ d.idSize \in Nat
  BY DEF DataGroup
<1>2. d.groups[g] \in Group
  BY <1>1, ElementOfSeq, LenProperties
<1>3. d.groups[g].data \in Nat /\ d.groups[g].inval \in Nat /\ d.groups[g].vlsd \in BOOLEAN
  BY <1>2 DEF Group
<1>4. PayloadSize(d.groups[g]) \in Nat
  BY <1>3 DEF PayloadSize
<1> QED
  BY <1>1, <1>2, <1>3, <1>4 DEF RecordSize

\* A record ID reads the same in a slice.
LEMMA SameId ==
    ASSUME NEW d \in DataGroup, NEW b, NEW s, NEW q, SliceOf(b, s, q),
           NEW p \in Nat, HasId(d, b, p)
    PROVE  /\ HasId(d, s, q + p)
           /\ Field(b, p, d.idSize) = Field(s, q + p, d.idSize)
           /\ GroupAt(d, b, p) = GroupAt(d, s, q + p)
<1>1. q \in Nat /\ Len(b) \in Nat /\ Len(s) \in Nat /\ q + Len(b) <= Len(s)
  BY LenProperties DEF SliceOf
<1>2. d.idSize \in {1, 2} /\ p + d.idSize <= Len(b)
  BY DEF HasId
<1>3. Field(b, p, d.idSize) = Field(s, q + p, d.idSize)
  BY <1>2, SliceField
<1>4. (q + p) + d.idSize <= Len(s)
  BY <1>1, <1>2
<1> QED
  BY <1>2, <1>3, <1>4 DEF HasId, GroupAt

\* So does a length prefix.
LEMMA SameLength ==
    ASSUME NEW d \in DataGroup, NEW b, NEW s, NEW q, SliceOf(b, s, q),
           NEW p \in Nat, p + d.idSize + Prefix <= Len(b)
    PROVE  /\ LengthAt(d, b, p) = LengthAt(d, s, q + p)
           /\ LengthAt(d, b, p) \in Nat
<1>1. q \in Nat /\ Len(b) \in Nat /\ b \in Seq(Byte)
  BY LenProperties DEF SliceOf
<1>2. d.idSize \in Nat
  BY DEF DataGroup
<1> DEFINE x == p + d.idSize
<1>3. x \in Nat /\ x + Prefix <= Len(b) /\ q + x = (q + p) + d.idSize
  BY <1>1, <1>2
<1>4. /\ LengthAt(d, b, p) = Field(b, x, Prefix)
      /\ LengthAt(d, s, q + p) = Field(s, (q + p) + d.idSize, Prefix)
  BY DEF LengthAt
<1> HIDE DEF x
<1>5. Field(b, x, Prefix) = Field(s, q + x, Prefix)
  BY <1>3, PrefixAssumption, SliceField
<1>6. Field(b, x, Prefix) \in Nat
  <2>1. \A i \in 1..Len(b) : b[i] \in Byte
    BY <1>1, ElementOfSeq
  <2>2. \A v \in Byte : v \in Nat
    BY DEF Byte
  <2>3. \A i \in 1..Len(b) : b[i] \in Nat
    BY ONLY <2>1, <2>2
  <2>4. x + 1 \in 1..Len(b) /\ (Prefix = 2 => x + 2 \in 1..Len(b))
    BY <1>1, <1>3, PrefixAssumption
  <2>5. b[x + 1] \in Nat /\ (Prefix = 2 => b[x + 2] \in Nat)
    BY <2>3, <2>4
  <2> QED
    BY <2>5, PrefixAssumption DEF Field
<1> QED
  BY <1>3, <1>4, <1>5, <1>6

\* The numbers of a step, read in a slice and in what it is a slice of.
LEMMA StepNumbers ==
    ASSUME NEW q \in Nat, NEW p \in Nat, NEW i \in Nat, NEW x \in Nat, NEW l \in Nat, NEW m \in Nat,
           i > 0, q + l <= m
    PROVE  /\ p + i + x <= l => (q + p) + i + x <= m /\ q + p < m
           /\ p + i <= l => (q + p) + i <= m /\ q + p < m /\ p < l
           /\ (q + p) + i + x <= q + l => p + i <= l /\ p + i + x <= l /\ p < l
           /\ (q + p) + i + x = q + (p + i + x)
           /\ p + i + x \in Nat
  OBVIOUS

\* A record measured in a slice is measured in what it is a slice of.
LEMMA SameStep ==
    ASSUME NEW d \in DataGroup, NEW b, NEW s, NEW q, SliceOf(b, s, q),
           NEW p \in Nat, Measurable(d, b, p)
    PROVE  /\ Measurable(d, s, q + p)
           /\ After(d, s, q + p) = q + After(d, b, p)
           /\ After(d, b, p) \in Nat
           /\ Field(b, p, d.idSize) = Field(s, q + p, d.idSize)
           /\ GroupAt(d, b, p) = GroupAt(d, s, q + p)
<1>1. /\ q \in Nat /\ Len(b) \in Nat /\ Len(s) \in Nat /\ q + Len(b) <= Len(s)
      /\ b \in Seq(Byte) /\ s \in Seq(Byte)
  BY LenProperties DEF SliceOf
<1> DEFINE G == GroupAt(d, b, p)
<1>2. /\ HasId(d, b, p) /\ d.idSize \in {1, 2} /\ G \in DOMAIN d.groups
      /\ After(d, b, p) \in Nat
      /\ GroupsWithId(d, Field(b, p, d.idSize)) # {}
  BY <1>1, StepAdvances DEF HasId, Measurable
<1>3. /\ HasId(d, s, q + p)
      /\ Field(b, p, d.idSize) = Field(s, q + p, d.idSize)
      /\ GroupAt(d, s, q + p) = G
  BY <1>2, SameId
<1>4. d.idSize \in Nat /\ d.idSize > 0 /\ p + d.idSize <= Len(b)
  BY <1>2 DEF HasId
<1>5. q + p < Len(s)
  BY ONLY <1>1, <1>4, p \in Nat, StepNumbers
<1>6. CASE d.groups[G].vlsd
  <2>1. p + d.idSize + Prefix <= Len(b)
    BY <1>6 DEF Measurable
  <2>2. (q + p) + d.idSize + Prefix <= Len(s)
    <3>1. Prefix \in Nat
      BY PrefixAssumption
    <3> QED
      BY ONLY <1>1, <1>4, <2>1, <3>1, p \in Nat, StepNumbers
  <2>3. Measurable(d, s, q + p)
    BY <1>2, <1>3, <1>5, <1>6, <2>2 DEF Measurable
  <2>4. /\ After(d, b, p) = p + d.idSize + Prefix + LengthAt(d, b, p)
        /\ After(d, s, q + p) = (q + p) + d.idSize + Prefix + LengthAt(d, s, q + p)
    BY <1>3, <1>6 DEF After
  <2>5. LengthAt(d, b, p) = LengthAt(d, s, q + p) /\ LengthAt(d, b, p) \in Nat
    BY <2>1, SameLength
  <2>6. After(d, s, q + p) = q + After(d, b, p)
    <3>1. Prefix \in Nat
      BY PrefixAssumption
    <3> QED
      BY ONLY <1>1, <1>4, <2>4, <2>5, <3>1, p \in Nat
  <2> QED
    BY <1>2, <1>3, <2>3, <2>6
<1>7. CASE ~d.groups[G].vlsd
  <2> DEFINE r == RecordSize(d, d.groups[G])
  <2>1. p + r <= Len(b) /\ After(d, b, p) = p + r /\ After(d, s, q + p) = (q + p) + r
    BY <1>3, <1>7 DEF Measurable, After
  <2>2. r \in Nat
    BY <1>2, SizesAre
  <2> HIDE DEF r
  <2>3. (q + p) + r <= Len(s) /\ (q + p) + r = q + (p + r)
    BY <1>1, <2>1, <2>2
  <2>4. Measurable(d, s, q + p)
    BY <1>2, <1>3, <1>5, <1>7, <2>3 DEF Measurable, r
  <2> QED
    BY <1>2, <1>3, <2>1, <2>3, <2>4
<1> QED
  BY <1>6, <1>7

\* A record that ends within the slice is measured in the slice.
LEMMA StepInSlice ==
    ASSUME NEW d \in DataGroup, NEW b, NEW s, NEW q, SliceOf(b, s, q),
           NEW p \in Nat, Measurable(d, s, q + p), After(d, s, q + p) <= q + Len(b)
    PROVE  /\ Measurable(d, b, p)
           /\ After(d, b, p) <= Len(b)
<1>1. /\ q \in Nat /\ Len(b) \in Nat /\ Len(s) \in Nat /\ q + Len(b) <= Len(s)
      /\ b \in Seq(Byte) /\ s \in Seq(Byte) /\ q + p \in Nat
  BY LenProperties DEF SliceOf
<1> DEFINE G == GroupAt(d, s, q + p)
<1>2. /\ d.idSize \in {1, 2} /\ G \in DOMAIN d.groups
      /\ After(d, s, q + p) \in Nat
      /\ GroupsWithId(d, Field(s, q + p, d.idSize)) # {}
  BY <1>1, StepAdvances DEF HasId, Measurable
<1>3. d.idSize \in Nat /\ d.idSize > 0 /\ Prefix \in Nat
  BY <1>2, PrefixAssumption
<1>4. /\ d.groups[G].vlsd => /\ (q + p) + d.idSize + Prefix <= Len(s)
                             /\ After(d, s, q + p) = (q + p) + d.idSize + Prefix + LengthAt(d, s, q + p)
      /\ ~d.groups[G].vlsd => After(d, s, q + p) = (q + p) + RecordSize(d, d.groups[G])
  BY DEF Measurable, After
<1>5. /\ p + d.idSize <= Len(b)
      /\ d.groups[G].vlsd => p + d.idSize + Prefix <= Len(b)
      /\ ~d.groups[G].vlsd => p + RecordSize(d, d.groups[G]) <= Len(b)
  <2>1. CASE d.groups[G].vlsd
    <3> DEFINE x == Prefix + LengthAt(d, s, q + p)
    <3>1. LengthAt(d, s, q + p) \in Nat
      <4>1. s \in Seq(Byte) /\ 0 \in Nat /\ 0 + (q + p) = q + p
        BY <1>1
      <4>2. SliceOf(s, s, 0)
        BY <1>1 DEF SliceOf
      <4>3. (q + p) + d.idSize + Prefix <= Len(s)
        BY <1>4, <2>1
      <4> QED
        BY <1>1, <4>2, <4>3, SameLength
    <3>2. x \in Nat /\ Prefix <= x
      BY <1>3, <3>1
    <3>3. (q + p) + d.idSize + x <= q + Len(b)
      <4>1. (q + p) + d.idSize + Prefix + LengthAt(d, s, q + p) <= q + Len(b)
        BY <1>4, <2>1
      <4> QED
        BY ONLY <4>1, <1>1, <1>3, <3>1 DEF x
    <3> HIDE DEF x
    <3>4. p + d.idSize <= Len(b) /\ p + d.idSize + x <= Len(b)
      BY ONLY <1>1, <1>3, <3>2, <3>3, p \in Nat, StepNumbers
    <3>5. p + d.idSize + Prefix <= Len(b)
      BY ONLY <1>1, <1>3, <3>2, <3>4, p \in Nat
    <3> QED
      BY <2>1, <3>4, <3>5
  <2>2. CASE ~d.groups[G].vlsd
    <3> DEFINE r == RecordSize(d, d.groups[G])
    <3>1. r \in Nat /\ r = d.idSize + PayloadSize(d.groups[G]) /\ PayloadSize(d.groups[G]) \in Nat
      BY <1>2, SizesAre
    <3>2. (q + p) + r <= q + Len(b)
      BY <1>4, <2>2
    <3> HIDE DEF r
    <3>3. p + r <= Len(b) /\ d.idSize <= r
      BY ONLY <1>1, <1>3, <3>1, <3>2, p \in Nat
    <3>4. p + d.idSize <= Len(b)
      BY ONLY <1>1, <1>3, <3>1, <3>3, p \in Nat
    <3> QED
      BY <2>2, <3>3, <3>4 DEF r
  <2> QED
    BY <2>1, <2>2
<1>6. HasId(d, b, p)
  BY <1>2, <1>5 DEF HasId
<1>7. Field(b, p, d.idSize) = Field(s, q + p, d.idSize) /\ GroupAt(d, b, p) = G
  BY <1>6, SameId
<1>8. p < Len(b)
  BY ONLY <1>1, <1>3, <1>5, p \in Nat
<1>9. Measurable(d, b, p)
  BY <1>2, <1>5, <1>6, <1>7, <1>8 DEF Measurable
<1>10. After(d, s, q + p) = q + After(d, b, p) /\ After(d, b, p) \in Nat
  BY <1>9, SameStep
<1>11. After(d, b, p) <= Len(b)
  BY ONLY <1>1, <1>10, After(d, s, q + p) <= q + Len(b)
<1> QED
  BY <1>9, <1>11

\* The bytes that are group g's record at o.
Cut(d, w, g, o) == SubSeq(w, o + d.idSize + 1, o + RecordSize(d, d.groups[g]))

\* The bytes b in hand are those of block n from q on, and the target's records
\* are indexed in the stream w.
Hand(b, w, n, q) ==
    /\ dg \in DataGroup /\ n \in 1..Len(dg.blocks)
    /\ SliceOf(b, dg.blocks[n].data, q)
    /\ SliceOf(b, w, Ends(dg)[n - 1] + q)
    /\ IsIndexOf(dg, offsets, w)
    /\ target \in GroupIds /\ ~dg.groups[target].vlsd /\ offsets[target] # <<>>

LEMMA HandNumbers ==
    ASSUME NEW b, NEW w, NEW n, NEW q, Hand(b, w, n, q)
    PROVE  /\ q \in Nat /\ b \in Seq(Byte) /\ Len(b) \in Nat
           /\ Ends(dg)[n - 1] \in Nat /\ Ends(dg)[n] \in Nat
           /\ Ends(dg)[n] = Ends(dg)[n - 1] + Len(dg.blocks[n].data)
           /\ dg.blocks[n].data \in Seq(Byte) /\ Len(dg.blocks[n].data) \in Nat
           /\ q + Len(b) <= Len(dg.blocks[n].data)
           /\ Ascending(offsets[target])
           /\ target \in DOMAIN offsets /\ target # 0 /\ target \in DOMAIN dg.groups
<1>1. q \in Nat /\ b \in Seq(Byte) /\ Len(b) \in Nat /\ q + Len(b) <= Len(dg.blocks[n].data)
  BY LenProperties DEF Hand, SliceOf
<1>2. /\ Ends(dg)[n - 1] \in Nat /\ Ends(dg)[n] \in Nat
      /\ Ends(dg)[n] = Ends(dg)[n - 1] + Len(dg.blocks[n].data)
      /\ dg.blocks[n].data \in Seq(Byte) /\ Len(dg.blocks[n].data) \in Nat
  BY <1>1, PassedNumbers DEF Hand
<1>3. target \in DOMAIN offsets /\ target \in DOMAIN dg.groups
  BY DEF Hand, IsIndexOf, GroupIds
<1>4. dg.groups \in Seq(Group)
  BY DEF Hand, DataGroup
<1>5. target # 0
  BY <1>3, <1>4, LenProperties
<1>6. Ascending(offsets[target])
  BY <1>3 DEF Hand, IsIndexOf
<1> QED
  BY <1>1, <1>2, <1>3, <1>5, <1>6

\* A step of the window's walk is one of the trail's.
LEMMA StepOnTrail ==
    ASSUME NEW b, NEW w, NEW n, NEW q, Hand(b, w, n, q), NEW p \in 0..Len(b),
           OnTrail(dg, offsets, n, q + p), Takeable(b, p)
    PROVE  /\ Measurable(dg, dg.blocks[n].data, q + p)
           /\ GroupAt(dg, b, p) = GroupAt(dg, dg.blocks[n].data, q + p)
           /\ OnTrail(dg, offsets, n, q + After(dg, b, p))
           /\ Indexed(offsets, GroupAt(dg, b, p), Ends(dg)[n - 1] + (q + p))
           /\ Nothing(offsets, Ends(dg)[n - 1] + (q + p) + 1, Ends(dg)[n - 1] + (q + After(dg, b, p)))
<1> DEFINE s == dg.blocks[n].data
<1>1. dg \in DataGroup /\ n \in 1..Len(dg.blocks) /\ SliceOf(b, s, q) /\ p \in Nat
  BY HandNumbers DEF Hand
<1>2. Measurable(dg, b, p)
  BY DEF Takeable
<1>3. /\ Measurable(dg, s, q + p)
      /\ After(dg, s, q + p) = q + After(dg, b, p)
      /\ GroupAt(dg, b, p) = GroupAt(dg, s, q + p)
  BY <1>1, <1>2, SameStep
<1> DEFINE c == q + p
<1>4. /\ OnTrail(dg, offsets, n, After(dg, s, c))
      /\ Indexed(offsets, GroupAt(dg, s, c), Ends(dg)[n - 1] + c)
      /\ Nothing(offsets, Ends(dg)[n - 1] + c + 1, Ends(dg)[n - 1] + After(dg, s, c))
  <2>1. OnTrail(dg, offsets, n, c) /\ Measurable(dg, s, c)
    BY <1>3
  <2> HIDE DEF c
  <2> QED
    BY <1>1, <2>1, TrailGoesOn
<1> QED
  BY <1>3, <1>4

\* What one step counts of group g.
LEMMA StepCountsOf ==
    ASSUME NEW b, NEW w, NEW n, NEW q, Hand(b, w, n, q), NEW p \in 0..Len(b),
           OnTrail(dg, offsets, n, q + p), Takeable(b, p),
           NEW g \in DOMAIN dg.groups, GroupWithId(dg, dg.groups[g].id) = g,
           NEW k, CountedTo(offsets[g], k, Ends(dg)[n - 1] + (q + p))
    PROVE  /\ IsOf(b, p, g) =>
                 /\ GroupAt(dg, b, p) = g
                 /\ k + 1 \in 1..Len(offsets[g]) /\ offsets[g][k + 1] = Ends(dg)[n - 1] + (q + p)
                 /\ CountedTo(offsets[g], k + 1, Ends(dg)[n - 1] + (q + After(dg, b, p)))
           /\ ~IsOf(b, p, g) =>
                 CountedTo(offsets[g], k, Ends(dg)[n - 1] + (q + After(dg, b, p)))
<1> DEFINE at == Ends(dg)[n - 1]
           o == offsets[g]
           P == at + (q + p)
           Q == at + (q + After(dg, b, p))
<1>1. /\ q \in Nat /\ b \in Seq(Byte) /\ Len(b) \in Nat /\ p \in Nat
      /\ at \in Nat /\ Ascending(o)
      /\ g \in DOMAIN offsets /\ g # 0
  <2>1. g \in DOMAIN offsets /\ Ascending(o)
    BY DEF Hand, IsIndexOf
  <2>2. dg.groups \in Seq(Group)
    BY DEF Hand, DataGroup
  <2>3. g # 0
    BY <2>2, LenProperties
  <2> QED
    BY <2>1, <2>3, HandNumbers
<1>2. Measurable(dg, b, p) /\ HasId(dg, b, p) /\ dg.idSize \in {1, 2}
  BY DEF Takeable, Measurable, HasId
<1>3. After(dg, b, p) \in Nat /\ After(dg, b, p) > p
  <2>1. dg \in DataGroup
    BY DEF Hand
  <2> QED
    BY <1>1, <1>2, <2>1, StepAdvances
<1>4. P \in Nat /\ Q \in Nat /\ P < Q /\ P + 1 \in Nat
  <2>1. PICK e : e = After(dg, b, p)
    OBVIOUS
  <2>2. PICK a : a = at
    OBVIOUS
  <2>3. e \in Nat /\ e > p /\ a \in Nat
    BY <1>1, <1>3, <2>1, <2>2
  <2>4. P = a + (q + p) /\ Q = a + (q + e)
    BY <2>1, <2>2
  <2> HIDE DEF P, Q
  <2> QED
    BY <1>1, <2>3, <2>4
<1>5. /\ Indexed(offsets, GroupAt(dg, b, p), P)
      /\ Nothing(offsets, P + 1, Q)
  BY StepOnTrail
<1>6. Nowhere(o, P + 1, Q)
  BY <1>1, <1>5 DEF Nothing
<1>7. CountedTo(o, k, P)
  OBVIOUS
<1>8. ASSUME IsOf(b, p, g)
      PROVE  /\ GroupAt(dg, b, p) = g
             /\ k + 1 \in 1..Len(o) /\ o[k + 1] = P /\ CountedTo(o, k + 1, Q)
  <2>1. GroupAt(dg, b, p) = g
    BY <1>8 DEF GroupAt, IsOf
  <2>2. \E i \in 1..Len(o) : o[i] = P
    BY <1>5, <2>1 DEF Indexed
  <2> HIDE DEF P, Q, o
  <2>3. k + 1 \in 1..Len(o) /\ o[k + 1] = P /\ CountedTo(o, k + 1, Q)
    BY <1>1, <1>4, <1>6, <1>7, <2>2, CountOne
  <2> QED
    BY <2>1, <2>3
<1>9. ASSUME ~IsOf(b, p, g)
      PROVE  CountedTo(o, k, Q)
  <2>1. Field(b, p, dg.idSize) # dg.groups[g].id
    BY <1>1, <1>9 DEF IsOf
  <2>2. Field(b, p, dg.idSize) = Field(w, P, dg.idSize)
    <3>1. SliceOf(b, w, at + q) /\ p + dg.idSize <= Len(b)
      BY <1>2 DEF Hand, HasId
    <3>2. Field(b, p, dg.idSize) = Field(w, (at + q) + p, dg.idSize)
      BY <1>1, <1>2, <3>1, SliceField
    <3>3. (at + q) + p = P
      BY <1>1
    <3> QED
      BY <3>2, <3>3
  <2>3. \A i \in 1..Len(o) : Field(w, o[i], dg.idSize) = dg.groups[g].id
    BY <1>1 DEF Hand, IsIndexOf
  <2> HIDE DEF P, Q, o
  <2>4. \A i \in 1..Len(o) : o[i] # P
    BY <2>1, <2>2, <2>3
  <2>5. \A i \in 1..Len(o) : o[i] \in Nat
    BY <1>1, LenProperties, ElementOfSeq DEF Ascending
  <2>6. Nowhere(o, P, Q)
    <3>1. P \in Nat
      BY <1>4
    <3> QED
      BY ONLY <3>1, <1>6, <2>4, <2>5 DEF Nowhere
  <2>7. o \in Seq(Nat) /\ P <= Q
    BY <1>1, <1>4 DEF Ascending
  <2> QED
    BY <1>4, <1>7, <2>6, <2>7, CountNone
<1> QED
  BY <1>8, <1>9

\* What is x to y bytes behind p in b is what is there behind P in w.
CutAlike(b, w, p, P, x, y) ==
    /\ SubSeq(b, p + x + 1, p + y) = SubSeq(w, P + x + 1, P + y)
    /\ P + y <= Len(w)

\* The bytes from x to y in hand are those of the stream.
LEMMA HandCut ==
    ASSUME NEW b, NEW w, NEW n, NEW q, Hand(b, w, n, q), NEW p \in 0..Len(b),
           NEW x \in Nat, NEW y \in Nat, x <= y, p + y <= Len(b)
    PROVE  CutAlike(b, w, p, Ends(dg)[n - 1] + (q + p), x, y)
<1>1. PICK a : a = Ends(dg)[n - 1]
  OBVIOUS
<1>2. /\ q \in Nat /\ Len(b) \in Nat /\ p \in Nat /\ a \in Nat
      /\ SliceOf(b, w, a + q) /\ Len(w) \in Nat /\ (a + q) + Len(b) <= Len(w)
  <2>1. SliceOf(b, w, a + q)
    BY <1>1 DEF Hand
  <2>2. Len(w) \in Nat /\ (a + q) + Len(b) <= Len(w)
    BY <2>1, LenProperties DEF SliceOf
  <2> QED
    BY <1>1, <2>1, <2>2, HandNumbers
<1>3. PICK A, X, Y, P : A = a + q /\ X = p + x /\ Y = p + y /\ P = a + (q + p)
  OBVIOUS
<1>4. /\ A \in Nat /\ X \in Nat /\ Y \in Nat /\ X <= Y /\ Y <= Len(b)
      /\ A + X = P + x /\ A + Y = P + y /\ P + y <= Len(w)
  <2>1. A \in Nat /\ X \in Nat /\ Y \in Nat /\ X <= Y /\ Y <= Len(b)
    BY <1>2, <1>3
  <2>2. A + X = P + x /\ A + Y = P + y
    BY <1>2, <1>3
  <2>3. A + Y <= Len(w)
    BY <1>2, <1>3, <2>1
  <2> QED
    BY <2>1, <2>2, <2>3
<1>5. SubSeq(b, X + 1, Y) = SubSeq(w, (A + X) + 1, A + Y)
  BY <1>2, <1>3, <1>4, SliceCut
<1> QED
  BY <1>1, <1>3, <1>4, <1>5 DEF CutAlike

\* What one step counts of the target, and the record it takes.
LEMMA StepCounts ==
    ASSUME NEW b, NEW w, NEW n, NEW q, Hand(b, w, n, q), NEW p \in 0..Len(b),
           OnTrail(dg, offsets, n, q + p), Takeable(b, p),
           NEW k, CountedTo(offsets[target], k, Ends(dg)[n - 1] + (q + p))
    PROVE  /\ IsOf(b, p, target) =>
                 /\ CountedTo(offsets[target], k + 1, Ends(dg)[n - 1] + (q + After(dg, b, p)))
                 /\ RecordAt(b, p) = Cut(dg, w, target, offsets[target][k + 1])
           /\ ~IsOf(b, p, target) =>
                 CountedTo(offsets[target], k, Ends(dg)[n - 1] + (q + After(dg, b, p)))
<1>1. PICK P, Q : P = Ends(dg)[n - 1] + (q + p) /\ Q = Ends(dg)[n - 1] + (q + After(dg, b, p))
  OBVIOUS
<1>2. target \in DOMAIN dg.groups /\ GroupWithId(dg, dg.groups[target].id) = target
  <2>1. target \in DOMAIN offsets /\ target \in DOMAIN dg.groups
    BY HandNumbers
  <2> QED
    BY <2>1 DEF Hand, IsIndexOf
<1>3. /\ IsOf(b, p, target) => offsets[target][k + 1] = P /\ CountedTo(offsets[target], k + 1, Q)
      /\ ~IsOf(b, p, target) => CountedTo(offsets[target], k, Q)
  BY <1>1, <1>2, StepCountsOf
<1>4. ASSUME IsOf(b, p, target)
      PROVE  RecordAt(b, p) = Cut(dg, w, target, P)
  <2>1. dg \in DataGroup
    BY DEF Hand
  <2>2. PICK i, r : i = dg.idSize /\ r = RecordSize(dg, dg.groups[target])
    OBVIOUS
  <2>3. i \in Nat /\ r \in Nat /\ i <= r
    BY <1>2, <2>1, <2>2, SizesAre
  <2>4. p + r <= Len(b)
    BY <1>4, <2>2 DEF Takeable, IsOf
  <2>5. CutAlike(b, w, p, Ends(dg)[n - 1] + (q + p), i, r)
    BY <2>3, <2>4, HandCut
  <2>6. SubSeq(b, p + i + 1, p + r) = SubSeq(w, P + i + 1, P + r)
    BY ONLY <1>1, <2>5 DEF CutAlike
  <2> QED
    BY <2>2, <2>6 DEF RecordAt, Cut
<1> QED
  BY <1>1, <1>3, <1>4

\* Where the walk of the rest of a block stops, there is nothing more to index.
LEMMA StopOnTrail ==
    ASSUME NEW b, NEW w, NEW n, NEW q, Hand(b, w, n, q), NEW p \in 0..Len(b),
           OnTrail(dg, offsets, n, q + p), ~Takeable(b, p),
           q + Len(b) = Len(dg.blocks[n].data)
    PROVE  Nothing(offsets, Ends(dg)[n - 1] + (q + p), Ends(dg)[n])
<1> DEFINE s == dg.blocks[n].data
           c == q + p
<1>1. /\ dg \in DataGroup /\ n \in 1..Len(dg.blocks) /\ SliceOf(b, s, q)
      /\ p \in Nat /\ q \in Nat /\ Len(b) \in Nat
      /\ target # 0 /\ target \in DOMAIN dg.groups /\ target \in DOMAIN offsets
  <2>1. dg \in DataGroup /\ n \in 1..Len(dg.blocks) /\ SliceOf(b, s, q)
    BY DEF Hand
  <2> QED
    BY <2>1, HandNumbers
<1>2. ~Measurable(dg, s, c)
  <2> SUFFICES ASSUME Measurable(dg, s, c)
               PROVE  FALSE
    OBVIOUS
  <2>1. After(dg, s, c) \in 0..Len(s)
    <3> HIDE DEF c
    <3> QED
      BY <1>1, TrailGoesOn DEF c
  <2>2. After(dg, s, c) <= q + Len(b)
    BY <2>1
  <2>3. Measurable(dg, b, p) /\ After(dg, b, p) <= Len(b)
    BY <1>1, <2>2, StepInSlice
  <2>4. ASSUME Field(b, p, dg.idSize) = dg.groups[target].id
        PROVE  p + RecordSize(dg, dg.groups[target]) <= Len(b)
    <3>1. GroupWithId(dg, dg.groups[target].id) = target
      BY <1>1 DEF Hand, IsIndexOf
    <3>2. GroupAt(dg, b, p) = target
      BY <2>4, <3>1 DEF GroupAt
    <3> QED
      BY <2>3, <3>2 DEF Hand, Measurable
  <2> QED
    BY <2>3, <2>4 DEF Takeable
<1>3. OnTrail(dg, offsets, n, c)
  OBVIOUS
<1> HIDE DEF c
<1>4. Nothing(offsets, Ends(dg)[n - 1] + c, Ends(dg)[n])
  BY <1>1, <1>2, <1>3, TrailGoesOn
<1> QED
  BY <1>4 DEF c

\* What a walk over b has taken when it stops, with the target's first k records
\* behind where it began.
Gathers(r, b, w, n, q, k) ==
    /\ OnTrail(dg, offsets, n, q + r.consumed)
    /\ ~Takeable(b, r.consumed)
    /\ CountedTo(offsets[target], k + Len(r.records), Ends(dg)[n - 1] + (q + r.consumed))
    /\ \A i \in 1..Len(r.records) : r.records[i] = Cut(dg, w, target, offsets[target][k + i])

\* From p on, the walk takes the records indexed from p on.
GathersFrom(p, f, b, w, n, q) ==
    \A k \in Nat :
        OnTrail(dg, offsets, n, q + p) /\ CountedTo(offsets[target], k, Ends(dg)[n - 1] + (q + p)) =>
            Gathers(f[p], b, w, n, q, k)

\* Putting one record before others.
LEMMA OneBefore ==
    ASSUME NEW x \in Seq(Byte), NEW rest \in Seq(Seq(Byte))
    PROVE  /\ Len(<<x>> \o rest) = 1 + Len(rest) /\ Len(rest) \in Nat
           /\ (<<x>> \o rest)[1] = x
           /\ \A i \in 2..(1 + Len(rest)) : (<<x>> \o rest)[i] = rest[i - 1]
<1>1. <<x>> \in Seq(Seq(Byte)) /\ Len(<<x>>) = 1 /\ <<x>>[1] = x
  OBVIOUS
<1>2. Len(rest) \in Nat
  BY LenProperties
<1> QED
  BY <1>1, <1>2, ConcatProperties

LEMMA WalkGathers ==
    ASSUME NEW b, NEW w, NEW n, NEW q, Hand(b, w, n, q), NEW f, WalksBy(f, b)
    PROVE  \A p \in 0..Len(b) : GathersFrom(p, f, b, w, n, q)
<1> DEFINE o == offsets[target]
           at == Ends(dg)[n - 1]
           T == {m \in Nat : \A p \in 0..Len(b) : p + m >= Len(b) => GathersFrom(p, f, b, w, n, q)}
<1>1. Len(b) \in Nat /\ b \in Seq(Byte)
  BY HandNumbers
<1>2. ASSUME NEW p \in 0..Len(b), ~Takeable(b, p)
      PROVE  GathersFrom(p, f, b, w, n, q)
  <2> SUFFICES ASSUME NEW k \in Nat, OnTrail(dg, offsets, n, q + p), CountedTo(o, k, at + (q + p))
               PROVE  Gathers(f[p], b, w, n, q, k)
    BY DEF GathersFrom
  <2>1. PICK r : r = f[p]
    OBVIOUS
  <2>2. r.records = <<>> /\ r.consumed = p
    BY <1>2, <2>1 DEF WalksBy
  <2>3. Len(r.records) = 0 /\ k + Len(r.records) = k /\ 1..Len(r.records) = {}
    BY <2>2
  <2>4. Gathers(r, b, w, n, q, k)
    BY <1>2, <2>2, <2>3 DEF Gathers
  <2> QED
    BY <2>1, <2>4
<1>3. ASSUME NEW p \in 0..Len(b), Takeable(b, p), GathersFrom(After(dg, b, p), f, b, w, n, q)
      PROVE  GathersFrom(p, f, b, w, n, q)
  <2> SUFFICES ASSUME NEW k \in Nat, OnTrail(dg, offsets, n, q + p), CountedTo(o, k, at + (q + p))
               PROVE  Gathers(f[p], b, w, n, q, k)
    BY DEF GathersFrom
  <2>1. PICK next : next = After(dg, b, p)
    OBVIOUS
  <2>2. PICK r, rest : r = f[p] /\ rest = f[next]
    OBVIOUS
  <2>3. /\ next \in 0..Len(b) /\ next > p
        /\ r.records = IF IsOf(b, p, target) THEN <<RecordAt(b, p)>> \o rest.records ELSE rest.records
        /\ r.consumed = rest.consumed
        /\ rest.records \in Seq(Seq(Byte))
    BY <1>3, <2>1, <2>2 DEF WalksBy
  <2>4. OnTrail(dg, offsets, n, q + next)
    BY <1>3, <2>1, StepOnTrail
  <2>5. /\ IsOf(b, p, target) => /\ CountedTo(o, k + 1, at + (q + next))
                                 /\ RecordAt(b, p) = Cut(dg, w, target, o[k + 1])
        /\ ~IsOf(b, p, target) => CountedTo(o, k, at + (q + next))
    BY <1>3, <2>1, StepCounts
  <2>6. \A j \in Nat : CountedTo(o, j, at + (q + next)) => Gathers(rest, b, w, n, q, j)
    BY <1>3, <2>1, <2>2, <2>4 DEF GathersFrom
  <2>7. CASE IsOf(b, p, target)
    <3>1. Gathers(rest, b, w, n, q, k + 1)
      BY <2>5, <2>6, <2>7
    <3>2. r.records = <<RecordAt(b, p)>> \o rest.records /\ RecordAt(b, p) \in Seq(Byte)
      <4>1. dg \in DataGroup /\ target \in GroupIds
        BY DEF Hand
      <4> QED
        BY <1>1, <1>3, <2>3, <2>7, <4>1, TakeableStep
    <3>3. /\ Len(r.records) = 1 + Len(rest.records) /\ Len(rest.records) \in Nat
          /\ r.records[1] = RecordAt(b, p)
          /\ \A i \in 2..(1 + Len(rest.records)) : r.records[i] = rest.records[i - 1]
      BY <2>3, <3>2, OneBefore
    <3>4. (k + 1) + Len(rest.records) = k + Len(r.records)
      <4>1. PICK l, m : l = Len(rest.records) /\ m = Len(r.records)
        OBVIOUS
      <4>2. l \in Nat /\ m = 1 + l
        BY <3>3, <4>1
      <4>3. (k + 1) + l = k + m
        BY ONLY <4>2, k \in Nat
      <4> QED
        BY <4>1, <4>3
    <3>5. ASSUME NEW i \in 1..Len(r.records)
          PROVE  r.records[i] = Cut(dg, w, target, o[k + i])
      <4>1. CASE i = 1
        BY <2>5, <2>7, <3>3, <4>1
      <4>2. CASE i # 1
        <5>1. i \in 2..(1 + Len(rest.records)) /\ i - 1 \in 1..Len(rest.records) /\ (k + 1) + (i - 1) = k + i
          BY <3>3, <4>2
        <5>2. rest.records[i - 1] = Cut(dg, w, target, o[(k + 1) + (i - 1)])
          BY <3>1, <5>1 DEF Gathers
        <5> QED
          BY <3>3, <5>1, <5>2
      <4> QED
        BY <4>1, <4>2
    <3>6. Gathers(r, b, w, n, q, k)
      <4>1. /\ OnTrail(dg, offsets, n, q + rest.consumed)
            /\ ~Takeable(b, rest.consumed)
            /\ CountedTo(o, (k + 1) + Len(rest.records), at + (q + rest.consumed))
        BY <3>1 DEF Gathers
      <4> QED
        BY <2>3, <3>4, <3>5, <4>1 DEF Gathers
    <3> QED
      BY <2>2, <3>6
  <2>8. CASE ~IsOf(b, p, target)
    <3>1. Gathers(rest, b, w, n, q, k)
      BY <2>5, <2>6, <2>8
    <3>2. r.records = rest.records /\ r.consumed = rest.consumed
      BY <2>3, <2>8
    <3>3. Gathers(r, b, w, n, q, k)
      BY <3>1, <3>2 DEF Gathers
    <3> QED
      BY <2>2, <3>3
  <2> QED
    BY <2>7, <2>8
<1>4. 0 \in T
  <2> SUFFICES ASSUME NEW p \in 0..Len(b), p + 0 >= Len(b)
               PROVE  GathersFrom(p, f, b, w, n, q)
    OBVIOUS
  <2>1. ~Takeable(b, p)
    BY <1>1 DEF WalksBy
  <2> QED
    BY <1>2, <2>1
<1>5. ASSUME NEW m \in T
      PROVE  m + 1 \in T
  <2> SUFFICES ASSUME NEW p \in 0..Len(b), p + (m + 1) >= Len(b)
               PROVE  GathersFrom(p, f, b, w, n, q)
    OBVIOUS
  <2>1. CASE Takeable(b, p)
    <3>1. After(dg, b, p) \in 0..Len(b) /\ After(dg, b, p) > p
      BY <2>1 DEF WalksBy
    <3>2. m \in Nat /\ After(dg, b, p) + m >= Len(b)
      BY <1>1, <3>1
    <3>3. GathersFrom(After(dg, b, p), f, b, w, n, q)
      BY <3>1, <3>2
    <3> QED
      BY <1>3, <2>1, <3>3
  <2>2. CASE ~Takeable(b, p)
    BY <1>2, <2>2
  <2> QED
    BY <2>1, <2>2
<1> HIDE DEF T
<1>6. T = Nat
  <2>1. T \in SUBSET Nat
    BY DEF T
  <2> QED
    BY <2>1, <1>4, <1>5, NumberInduction
<1>7. \A p \in 0..Len(b) : p + Len(b) >= Len(b)
  BY <1>1
<1> QED
  BY <1>1, <1>6, <1>7 DEF T

\* What Demux::collect takes from a window.
LEMMA CollectGathers ==
    ASSUME NEW b, NEW w, NEW n, NEW q, Hand(b, w, n, q), OnTrail(dg, offsets, n, q),
           NEW k \in Nat, CountedTo(offsets[target], k, Ends(dg)[n - 1] + q)
    PROVE  /\ Gathers(Collect(b), b, w, n, q, k)
           /\ Collect(b).consumed \in 0..Len(b)
           /\ Collect(b).records \in Seq(Seq(Byte))
           /\ Collect(b).payloads \in Seq(Seq(Byte))
<1>1. dg \in DataGroup /\ target \in GroupIds /\ b \in Seq(Byte) /\ Len(b) \in Nat /\ q \in Nat
  BY HandNumbers DEF Hand
<1>2. PICK f : WalksBy(f, b) /\ Collect(b) = f[0]
  BY <1>1, CollectWalks
<1>3. 0 \in 0..Len(b) /\ q + 0 = q
  BY <1>1
<1>4. GathersFrom(0, f, b, w, n, q)
  BY <1>2, <1>3, WalkGathers
<1>5. Gathers(f[0], b, w, n, q, k)
  BY <1>3, <1>4 DEF GathersFrom
<1>6. f[0] \in [records : Seq(Seq(Byte)), payloads : Seq(Seq(Byte)), consumed : 0..Len(b)]
  BY <1>2, <1>3 DEF WalksBy
<1> QED
  BY <1>2, <1>5, <1>6

(***************************************************************************)
(* What the windows so far have left.                                      *)
(***************************************************************************)

\* In an interleaved data group: the bytes carried over begin on the trail, and
\* the k samples handed out for group g are those indexed before them.
OnTheTrail(d, off, w, g, win, rest, k) ==
    \E q \in Nat :
        /\ InHand(d, w, win, rest, Ends(d)[win.block - 1] + q)
        /\ CountedTo(off[g], k, Ends(d)[win.block - 1] + q)
        /\ win.block <= Len(d.blocks) => OnTrail(d, off, win.block, q)

\* A slice of the stream within a block is a slice of the block.
LEMMA SliceWithin ==
    ASSUME NEW b, NEW s, NEW w, NEW at \in Nat, NEW q \in Nat,
           SliceOf(b, w, at + q), SliceOf(s, w, at), q + Len(b) <= Len(s)
    PROVE  SliceOf(b, s, q)
<1>1. b \in Seq(Byte) /\ s \in Seq(Byte) /\ Len(b) \in Nat /\ Len(s) \in Nat
  BY LenProperties DEF SliceOf
<1>2. ASSUME NEW i \in 1..Len(b)
      PROVE  b[i] = s[q + i]
  <2>1. b[i] = w[(at + q) + i]
    BY DEF SliceOf
  <2>2. q + i \in 1..Len(s) /\ at + (q + i) = (at + q) + i
    BY <1>1
  <2>3. s[q + i] = w[at + (q + i)]
    BY <2>2 DEF SliceOf
  <2> QED
    BY <2>1, <2>2, <2>3
<1> QED
  BY <1>1, <1>2 DEF SliceOf

LEMMA NothingCarried ==
    ASSUME NEW w \in Seq(Byte), NEW P \in Nat, P <= Len(w)
    PROVE  SliceOf(<<>>, w, P) /\ Len(<<>>) = 0
<1>1. <<>> \in Seq(Byte) /\ Len(<<>>) = 0 /\ 1..0 = {}
  BY EmptySeq
<1>2. Len(w) \in Nat
  BY LenProperties
<1> QED
  BY <1>1, <1>2 DEF SliceOf

\* The place the next window begins is within the stream.
LEMMA PlaceNumbers ==
    ASSUME NEW d \in DataGroup, NEW w, LaidOut(d, w), NEW n \in 1..Len(d.blocks)
    PROVE  /\ Ends(d)[n] \in Nat /\ Ends(d)[n] <= Len(w) /\ (n + 1) - 1 = n
           /\ n + 1 \in 1..(Len(d.blocks) + 1)
<1>1. Len(d.blocks) \in Nat /\ n \in 0..Len(d.blocks) /\ Len(d.blocks) \in n..Len(d.blocks)
  BY BlocksAreBlocks
<1>2. Ends(d)[n] <= Ends(d)[Len(d.blocks)]
  BY <1>1, EndsGrow
<1>3. Ends(d)[n] \in Nat
  BY <1>1, EndsAre
<1> QED
  BY <1>1, <1>2, <1>3 DEF LaidOut

\* The bytes a window is walked over with those carried to it.
LEMMA WindowInHand ==
    ASSUME dg \in DataGroup, Plain(dg), NEW w, LaidOut(dg, w), IsIndexOf(dg, offsets, w),
           target \in GroupIds, ~dg.groups[target].vlsd, offsets[target] # <<>>,
           HasWindow, NEW q \in Nat,
           InHand(dg, w, window, carry, Ends(dg)[window.block - 1] + q)
    PROVE  LET buffer == carry \o WindowBytes
               n == window.block
               stop == IF EndsBlock THEN Len(dg.blocks[n].data) ELSE window.start + WindowLength
           IN  /\ n \in 1..Len(dg.blocks)
               /\ Hand(buffer, w, n, q)
               /\ q + Len(buffer) = stop
<1> DEFINE buffer == carry \o WindowBytes
<1>1. PICK n, s, at : n = window.block /\ s = dg.blocks[n].data /\ at = Ends(dg)[n - 1]
  OBVIOUS
<1>2. IsPlace(dg, window)
  BY DEF InHand
<1>3. n \in 1..Len(dg.blocks) /\ WindowBlock = dg.blocks[n]
  BY <1>1, <1>2, BlocksAreBlocks DEF HasWindow, IsPlace, WindowBlock
<1>4. s \in Seq(Byte) /\ Len(s) \in Nat /\ at \in Nat
  BY <1>1, <1>3, PassedNumbers
<1>5. PICK stop : stop = IF EndsBlock THEN Len(s) ELSE window.start + WindowLength
  OBVIOUS
<1>6. /\ stop \in Nat /\ stop <= Len(s)
      /\ Begins(dg, NextWindow) = at + stop
  BY <1>1, <1>2, <1>3, <1>5, WindowRead
<1>7. SliceOf(buffer, w, at + q) /\ (at + q) + Len(buffer) = at + stop
  BY <1>1, <1>6, BufferIsSlice
<1>8. buffer \in Seq(Byte) /\ Len(buffer) \in Nat
  BY <1>7, LenProperties DEF SliceOf
<1> HIDE DEF buffer
<1>9. q + Len(buffer) = stop
  BY ONLY <1>4, <1>6, <1>7, <1>8, q \in Nat
<1>10. SliceOf(s, w, at)
  BY <1>1, <1>3 DEF LaidOut
<1>11. SliceOf(buffer, s, q)
  BY <1>4, <1>6, <1>7, <1>9, <1>10, SliceWithin
<1>12. Hand(buffer, w, n, q)
  BY <1>1, <1>3, <1>7, <1>11 DEF Hand
<1> QED
  BY <1>1, <1>3, <1>5, <1>9, <1>12 DEF buffer

\* Where a window's walk stops, the next one goes on: the k samples of group g
\* are those before the bytes it leaves.
LEMMA TrailMovesOn ==
    ASSUME dg \in DataGroup, Plain(dg),
           \A n \in 1..Len(dg.blocks) : EndsWithin(dg, dg.blocks[n].data),
           NEW w, LaidOut(dg, w), HasWindow,
           NEW q \in Nat, InHand(dg, w, window, carry, Ends(dg)[window.block - 1] + q),
           NEW buffer, buffer = carry \o WindowBytes, Hand(buffer, w, window.block, q),
           q + Len(buffer) = (IF EndsBlock THEN Len(dg.blocks[window.block].data)
                              ELSE window.start + WindowLength),
           NEW c \in 0..Len(buffer), ~Takeable(buffer, c), OnTrail(dg, offsets, window.block, q + c),
           NEW g \in DOMAIN offsets, NEW k,
           CountedTo(offsets[g], k, Ends(dg)[window.block - 1] + (q + c))
    PROVE  OnTheTrail(dg, offsets, w, g, NextWindow,
                      IF EndsBlock THEN <<>> ELSE Tailing(buffer, c), k)
<1> DEFINE rest == IF EndsBlock THEN <<>> ELSE Tailing(buffer, c)
<1>1. PICK n, s, at : n = window.block /\ s = dg.blocks[n].data /\ at = Ends(dg)[n - 1]
  OBVIOUS
<1>2. IsPlace(dg, window) /\ IsIndexOf(dg, offsets, w)
  BY DEF InHand, Hand
<1>3. n \in 1..Len(dg.blocks) /\ WindowBlock = dg.blocks[n]
  BY <1>1, <1>2, BlocksAreBlocks DEF HasWindow, IsPlace, WindowBlock
<1>4. /\ s \in Seq(Byte) /\ Len(s) \in Nat /\ at \in Nat
      /\ Ends(dg)[n] = at + Len(s) /\ Ends(dg)[n] <= Len(w) /\ (n + 1) - 1 = n
      /\ Ends(dg)[n] \in Nat
  BY <1>1, <1>3, PassedNumbers, PlaceNumbers
<1>5. PICK stop : stop = IF EndsBlock THEN Len(s) ELSE window.start + WindowLength
  OBVIOUS
<1>6. /\ stop \in Nat /\ stop <= Len(s)
      /\ IsPlace(dg, NextWindow)
      /\ Begins(dg, NextWindow) = at + stop
      /\ EndsBlock => NextWindow = [block |-> n + 1, start |-> 0]
      /\ ~EndsBlock => NextWindow.block = n
  BY <1>1, <1>2, <1>3, <1>5, WindowRead
<1>7. SliceOf(buffer, w, at + q) /\ (at + q) + Len(buffer) = at + stop
  BY <1>1, <1>6, BufferIsSlice
<1>8. buffer \in Seq(Byte) /\ Len(buffer) \in Nat /\ c \in Nat /\ q + Len(buffer) = stop
  BY <1>1, <1>5, <1>7, LenProperties DEF SliceOf
<1>9. offsets[g] \in Seq(Nat)
  BY <1>2 DEF IsIndexOf
<1>10. CASE EndsBlock
  <2>1. NextWindow.block = n + 1 /\ NextWindow.block - 1 = n /\ NextWindow.start = 0
    BY <1>4, <1>6, <1>10
  <2>2. rest = <<>>
    BY <1>10
  <2>3. Ends(dg)[NextWindow.block - 1] + 0 = Ends(dg)[n]
    BY <1>4, <2>1
  <2>4. InHand(dg, w, NextWindow, rest, Ends(dg)[NextWindow.block - 1] + 0)
    <3>1. w \in Seq(Byte)
      BY DEF LaidOut
    <3>2. SliceOf(<<>>, w, Ends(dg)[n]) /\ Len(<<>>) = 0
      BY <1>4, <3>1, NothingCarried
    <3>3. Ends(dg)[n] + Len(<<>>) = Begins(dg, NextWindow)
      BY <1>4, <2>1, <3>2 DEF Begins
    <3> QED
      BY <1>6, <2>2, <2>3, <3>2, <3>3 DEF InHand
  <2>5. CountedTo(offsets[g], k, Ends(dg)[NextWindow.block - 1] + 0)
    <3>1. stop = Len(s)
      BY <1>5, <1>10
    <3>2. Nothing(offsets, at + (q + c), Ends(dg)[n])
      BY <1>1, <1>8, <3>1, StopOnTrail
    <3>3. Nowhere(offsets[g], at + (q + c), Ends(dg)[n])
      BY <3>2 DEF Nothing
    <3>4. at + (q + c) \in Nat /\ at + (q + c) <= Ends(dg)[n]
      BY ONLY <1>4, <1>8, <3>1, q \in Nat, c \in 0..Len(buffer)
    <3>5. CountedTo(offsets[g], k, at + (q + c))
      BY <1>1
    <3>6. CountedTo(offsets[g], k, Ends(dg)[n])
      BY <1>4, <1>9, <3>3, <3>4, <3>5, CountNone
    <3> QED
      BY <2>3, <3>6
  <2>6. NextWindow.block <= Len(dg.blocks) => OnTrail(dg, offsets, NextWindow.block, 0)
    <3> SUFFICES ASSUME n + 1 <= Len(dg.blocks)
                 PROVE  OnTrail(dg, offsets, n + 1, 0)
      BY <2>1
    <3>1. n + 1 \in 1..Len(dg.blocks)
      BY <1>3
    <3>2. Walked(dg, offsets, n + 1) /\ EndsWithin(dg, dg.blocks[n + 1].data)
      BY <1>2, <3>1 DEF IsIndexOf
    <3> QED
      BY <3>1, <3>2, TrailBegins
  <2>7. 0 \in Nat
    OBVIOUS
  <2> HIDE DEF rest
  <2>8. OnTheTrail(dg, offsets, w, g, NextWindow, rest, k)
    BY <2>4, <2>5, <2>6, <2>7 DEF OnTheTrail
  <2> QED
    BY <2>8 DEF rest
<1>11. CASE ~EndsBlock
  <2>1. NextWindow.block = n /\ rest = Tailing(buffer, c)
    BY <1>6, <1>11
  <2>2. q + c \in Nat /\ at + (q + c) = (at + q) + c
    BY <1>4, <1>8
  <2>3. SliceOf(rest, w, (at + q) + c) /\ ((at + q) + c) + Len(rest) = (at + q) + Len(buffer)
    BY <1>7, <2>1, TailIsSlice
  <2> HIDE DEF rest
  <2>4. InHand(dg, w, NextWindow, rest, at + (q + c))
    BY <1>6, <1>7, <2>2, <2>3 DEF InHand
  <2>5. OnTheTrail(dg, offsets, w, g, NextWindow, rest, k)
    BY <1>1, <2>1, <2>2, <2>4 DEF OnTheTrail
  <2> QED
    BY <2>5 DEF rest
<1> QED
  BY <1>10, <1>11

LEMMA TrailWindow ==
    ASSUME dg \in DataGroup, Plain(dg),
           \A n \in 1..Len(dg.blocks) : EndsWithin(dg, dg.blocks[n].data),
           NEW w, LaidOut(dg, w), IsIndexOf(dg, offsets, w),
           target \in GroupIds, ~dg.groups[target].vlsd, offsets[target] # <<>>,
           HasWindow, NEW k \in Nat,
           OnTheTrail(dg, offsets, w, target, window, carry, k)
    PROVE  LET buffer == carry \o WindowBytes
               taken == Collect(buffer)
               rest == IF EndsBlock THEN <<>> ELSE Tailing(buffer, taken.consumed)
           IN  /\ taken.records \in Seq(Seq(Byte))
               /\ k + Len(taken.records) <= Len(offsets[target])
               /\ \A i \in 1..Len(taken.records) :
                     taken.records[i] = Cut(dg, w, target, offsets[target][k + i])
               /\ OnTheTrail(dg, offsets, w, target, NextWindow, rest, k + Len(taken.records))
<1>1. PICK n, buffer, taken : n = window.block /\ buffer = carry \o WindowBytes /\ taken = Collect(buffer)
  OBVIOUS
<1>2. PICK q \in Nat :
          /\ InHand(dg, w, window, carry, Ends(dg)[n - 1] + q)
          /\ CountedTo(offsets[target], k, Ends(dg)[n - 1] + q)
          /\ n <= Len(dg.blocks) => OnTrail(dg, offsets, n, q)
  BY <1>1 DEF OnTheTrail
<1>3. /\ n \in 1..Len(dg.blocks) /\ Hand(buffer, w, n, q)
      /\ q + Len(buffer) = IF EndsBlock THEN Len(dg.blocks[n].data) ELSE window.start + WindowLength
  BY <1>1, <1>2, WindowInHand
<1>4. OnTrail(dg, offsets, n, q)
  BY <1>2, <1>3
<1>5. /\ Gathers(taken, buffer, w, n, q, k)
      /\ taken.consumed \in 0..Len(buffer)
      /\ taken.records \in Seq(Seq(Byte))
  BY <1>1, <1>2, <1>3, <1>4, CollectGathers
<1>6. PICK m, c : m = k + Len(taken.records) /\ c = taken.consumed
  OBVIOUS
<1>7. /\ OnTrail(dg, offsets, n, q + c)
      /\ ~Takeable(buffer, c)
      /\ CountedTo(offsets[target], m, Ends(dg)[n - 1] + (q + c))
      /\ \A i \in 1..Len(taken.records) : taken.records[i] = Cut(dg, w, target, offsets[target][k + i])
  BY <1>5, <1>6 DEF Gathers
<1>8. m <= Len(offsets[target])
  BY <1>7 DEF CountedTo
<1>9. OnTheTrail(dg, offsets, w, target, NextWindow, IF EndsBlock THEN <<>> ELSE Tailing(buffer, c), m)
  <2>1. c \in 0..Len(buffer) /\ target \in DOMAIN offsets
    BY <1>3, <1>5, <1>6, HandNumbers
  <2> QED
    BY <1>1, <1>2, <1>3, <1>7, <2>1, TrailMovesOn
<1> QED
  BY <1>1, <1>5, <1>6, <1>7, <1>8, <1>9

\* In a sorted data group: m records of group g are behind, less than one is
\* carried over, and k of its c samples are handed out.
InStride(d, w, g, c, win, rest, k) ==
    \E m \in Nat :
        /\ InHand(d, w, win, rest, m * RecordSize(d, d.groups[g]))
        /\ Len(rest) < RecordSize(d, d.groups[g])
        /\ k = Least(m, c)

\* The i-th record of group g in a sorted stream w.
Stride(d, w, g, i) ==
    SubSeq(w, (i - 1) * RecordSize(d, d.groups[g]) + d.idSize + 1, i * RecordSize(d, d.groups[g]))

\* Quotients, for records of z bytes.
LEMMA Quotient ==
    ASSUME NEW l \in Nat, NEW z \in Nat, z > 0
    PROVE  /\ l \div z \in Nat
           /\ (l \div z) * z \in Nat
           /\ (l \div z) * z <= l
           /\ l < (l \div z) * z + z
<1>1. l = (l \div z) * z + (l % z) /\ l % z \in 0..(z - 1)
  OBVIOUS
<1>2. l \div z \in Nat
  OBVIOUS
<1>3. (l \div z) * z \in Nat
  BY <1>2
<1> QED
  BY <1>1, <1>2, <1>3

LEMMA QuotientIs ==
    ASSUME NEW l \in Nat, NEW z \in Nat, z > 0, NEW m \in Nat, m * z <= l, l < m * z + z
    PROVE  l \div z = m
<1>1. PICK r : r = l - m * z
  OBVIOUS
<1>2. m * z \in Nat
  OBVIOUS
<1>3. r \in Nat /\ r < z /\ l = m * z + r
  BY <1>1, <1>2
<1> QED
  BY <1>3

LEMMA QuotientHolds ==
    ASSUME NEW l \in Nat, NEW z \in Nat, z > 0, NEW m \in Nat, m * z <= l
    PROVE  m <= l \div z
<1>1. PICK x : x = l \div z
  OBVIOUS
<1>2. x \in Nat /\ l < x * z + z
  BY <1>1, Quotient
<1>3. CASE x + 1 <= m
  <2>1. PICK y \in Nat : m = (x + 1) + y
    <3>1. m - (x + 1) \in Nat /\ m = (x + 1) + (m - (x + 1))
      BY <1>2, <1>3
    <3> QED
      BY <3>1
  <2>2. m * z = (x * z + z) + y * z
    BY <1>2, <2>1
  <2>3. y * z \in Nat /\ x * z \in Nat
    BY <1>2, <2>1
  <2>4. PICK a, b : a = x * z /\ b = y * z
    OBVIOUS
  <2>5. FALSE
    <3>1. a \in Nat /\ b \in Nat /\ l < a + z /\ (a + z) + b <= l
      BY <1>2, <2>2, <2>3, <2>4
    <3> QED
      BY ONLY <3>1, l \in Nat, z \in Nat
  <2> QED
    BY <2>5
<1> QED
  BY <1>1, <1>2, <1>3

\* Products, for the i-th of the records behind m others.
LEMMA StridePlaces ==
    ASSUME NEW z \in Nat, NEW m \in Nat, NEW t \in Nat, NEW i \in 1..t
    PROVE  /\ (i - 1) * z \in Nat /\ i * z \in Nat /\ i * z = (i - 1) * z + z
           /\ m * z \in Nat /\ t * z \in Nat
           /\ m * z + i * z = (m + i) * z
           /\ m * z + (i - 1) * z = ((m + i) - 1) * z
           /\ i * z <= t * z
<1>1. i - 1 \in Nat /\ i \in Nat /\ t - i \in Nat
  OBVIOUS
<1>2. (i - 1) * z \in Nat /\ i * z \in Nat /\ i * z = (i - 1) * z + z /\ m * z \in Nat /\ t * z \in Nat
  BY <1>1
<1>3. m * z + i * z = (m + i) * z
  BY <1>1
<1>4. m * z + (i - 1) * z = (m + (i - 1)) * z /\ m + (i - 1) = (m + i) - 1
  BY <1>1
<1>5. t * z = i * z + (t - i) * z /\ (t - i) * z \in Nat
  BY <1>1
<1> QED
  BY <1>1, <1>2, <1>3, <1>4, <1>5

\* How many samples are handed out after a window of t whole records.
LEMMA HandedOut ==
    ASSUME NEW m \in Nat, NEW t \in Nat, NEW c \in Nat, NEW k, k = Least(m, c), k < c
    PROVE  k = m /\ k + Least(t, c - k) = Least(m + t, c)
  BY DEF Least

LEMMA StrideWindow ==
    ASSUME dg \in DataGroup, Plain(dg), NEW w, LaidOut(dg, w),
           target \in GroupIds, RecordSize(dg, dg.groups[target]) > 0,
           HasWindow, NEW c \in Nat, NEW k, k < c,
           InStride(dg, w, target, c, window, carry, k)
    PROVE  LET buffer == carry \o WindowBytes
               size == RecordSize(dg, dg.groups[target])
               whole == Len(buffer) \div size
           IN  /\ whole \in Nat /\ k \in Nat
               /\ \A i \in 1..whole :
                     SubSeq(buffer, (i - 1) * size + dg.idSize + 1, i * size) = Stride(dg, w, target, k + i)
               /\ k + Least(whole, c - k) <= Least(c, Len(w) \div size)
               /\ InStride(dg, w, target, c, NextWindow, Tailing(buffer, whole * size),
                           k + Least(whole, c - k))
<1> DEFINE buffer == carry \o WindowBytes
           size == RecordSize(dg, dg.groups[target])
           whole == Len(buffer) \div size
<1>1. PICK m \in Nat : InHand(dg, w, window, carry, m * size) /\ k = Least(m, c)
  BY DEF InStride
<1>2. /\ size \in Nat /\ size > 0 /\ dg.idSize \in Nat
      /\ size = dg.idSize + PayloadSize(dg.groups[target]) /\ PayloadSize(dg.groups[target]) \in Nat
  BY SizesAre DEF GroupIds
<1>3. IsPlace(dg, window)
  BY <1>1 DEF InHand
<1>4. SliceOf(buffer, w, m * size) /\ m * size + Len(buffer) = Begins(dg, NextWindow)
  BY <1>1, BufferIsSlice
<1>5. IsPlace(dg, NextWindow)
  BY <1>3, WindowRead
<1> HIDE DEF buffer, size
<1>6. buffer \in Seq(Byte) /\ Len(buffer) \in Nat /\ w \in Seq(Byte) /\ Len(w) \in Nat
  BY <1>4, LenProperties DEF SliceOf
<1>7. /\ whole \in Nat /\ whole * size \in Nat
      /\ whole * size <= Len(buffer) /\ Len(buffer) < whole * size + size
  BY <1>2, <1>6, Quotient
<1> HIDE DEF whole
<1>8. k = m /\ k + Least(whole, c - k) = Least(m + whole, c)
  BY <1>1, <1>7, HandedOut
<1>9. ASSUME NEW i \in 1..whole
      PROVE  SubSeq(buffer, (i - 1) * size + dg.idSize + 1, i * size) = Stride(dg, w, target, k + i)
  <2>1. /\ (i - 1) * size \in Nat /\ i * size \in Nat /\ i * size = (i - 1) * size + size
        /\ m * size \in Nat
        /\ m * size + i * size = (m + i) * size
        /\ m * size + (i - 1) * size = ((m + i) - 1) * size
        /\ i * size <= whole * size
    <3>1. size \in Nat /\ whole \in Nat
      BY <1>2, <1>7
    <3> QED
      BY ONLY <3>1, m \in Nat, i \in 1..whole, StridePlaces
  <2>2. PICK a, b, e, l : a = (i - 1) * size /\ b = i * size /\ e = m * size /\ l = Len(buffer)
    OBVIOUS
  <2>3. PICK x : x = a + dg.idSize
    OBVIOUS
  <2>4. /\ a \in Nat /\ b \in Nat /\ e \in Nat /\ b = a + size /\ b <= l
        /\ e + b = (m + i) * size /\ e + a = ((m + i) - 1) * size
    <3>1. whole * size <= l /\ l \in Nat /\ whole * size \in Nat
      BY <1>6, <1>7, <2>2
    <3>2. b <= l
      BY <2>1, <2>2, <3>1
    <3> QED
      BY <2>1, <2>2, <3>2
  <2>5. x \in Nat /\ x <= b /\ e + x = (e + a) + dg.idSize
    BY <1>2, <2>3, <2>4
  <2>6. SubSeq(buffer, x + 1, b) = SubSeq(w, (e + x) + 1, e + b)
    <3>1. SliceOf(buffer, w, e) /\ b <= Len(buffer)
      BY <1>4, <2>2, <2>4
    <3>2. e \in Nat /\ x \in Nat /\ b \in Nat /\ x <= b
      BY <2>4, <2>5
    <3> QED
      BY ONLY <3>1, <3>2, SliceCut
  <2>7. Stride(dg, w, target, m + i)
          = SubSeq(w, ((m + i) - 1) * size + dg.idSize + 1, (m + i) * size)
    BY DEF Stride, size
  <2> QED
    BY <1>8, <2>2, <2>3, <2>4, <2>5, <2>6, <2>7
<1>10. Least(m + whole, c) <= Least(c, Len(w) \div size)
  <2>1. (m + whole) * size <= Len(w) /\ m + whole \in Nat
    <3>1. (m + whole) * size = m * size + whole * size /\ m + whole \in Nat
      <4>1. size \in Nat /\ whole \in Nat
        BY <1>2, <1>7
      <4> QED
        BY ONLY <4>1, m \in Nat
    <3>2. m * size + Len(buffer) <= Len(w) /\ m * size \in Nat
      BY <1>2, <1>4 DEF SliceOf
    <3>3. PICK a, b : a = m * size /\ b = whole * size
      OBVIOUS
    <3>4. a + b <= Len(w)
      BY <1>6, <1>7, <3>2, <3>3
    <3> QED
      BY <3>1, <3>3, <3>4
  <2>2. m + whole <= Len(w) \div size
    BY <1>2, <1>6, <2>1, QuotientHolds
  <2>3. Len(w) \div size \in Nat
    BY <1>2, <1>6, Quotient
  <2> QED
    BY <2>1, <2>2, <2>3 DEF Least
<1>11. InStride(dg, w, target, c, NextWindow, Tailing(buffer, whole * size), Least(m + whole, c))
  <2> DEFINE rest == Tailing(buffer, whole * size)
  <2>1. PICK t : t = whole * size
    OBVIOUS
  <2>2. t \in 0..Len(buffer) /\ Len(buffer) < t + size
    BY <1>6, <1>7, <2>1
  <2>3. SliceOf(rest, w, m * size + t) /\ (m * size + t) + Len(rest) = m * size + Len(buffer)
    BY <1>4, <2>1, <2>2, TailIsSlice
  <2>4. (m + whole) * size = m * size + t /\ m + whole \in Nat /\ m * size \in Nat
    <3>1. size \in Nat /\ whole \in Nat
      BY <1>2, <1>7
    <3>2. (m + whole) * size = m * size + whole * size
      BY ONLY <3>1, m \in Nat
    <3>3. m + whole \in Nat /\ m * size \in Nat
      BY ONLY <3>1, m \in Nat
    <3> QED
      BY ONLY <2>1, <3>2, <3>3
  <2> HIDE DEF rest
  <2>5. InHand(dg, w, NextWindow, rest, (m + whole) * size)
    BY <1>4, <1>5, <2>3, <2>4 DEF InHand
  <2>6. Len(rest) < size
    <3>1. rest \in Seq(Byte) /\ Len(rest) \in Nat
      BY <2>3, LenProperties DEF SliceOf
    <3>2. PICK e, l, r : e = m * size /\ l = Len(buffer) /\ r = Len(rest)
      OBVIOUS
    <3>3. /\ e \in Nat /\ l \in Nat /\ r \in Nat /\ size \in Nat /\ t \in 0..l /\ l < t + size
          /\ (e + t) + r = e + l
      BY <1>2, <1>6, <2>2, <2>3, <2>4, <3>1, <3>2
    <3>4. r < size
      BY ONLY <3>3
    <3> QED
      BY <3>2, <3>4
  <2> QED
    BY <2>4, <2>5, <2>6 DEF InStride, size, rest
<1>12. k \in Nat
  BY <1>8
<1>13. /\ whole \in Nat /\ k \in Nat
       /\ \A i \in 1..whole :
             SubSeq(buffer, (i - 1) * size + dg.idSize + 1, i * size) = Stride(dg, w, target, k + i)
       /\ k + Least(whole, c - k) <= Least(c, Len(w) \div size)
       /\ InStride(dg, w, target, c, NextWindow, Tailing(buffer, whole * size), k + Least(whole, c - k))
  BY <1>7, <1>8, <1>9, <1>10, <1>11, <1>12
<1> QED
  BY <1>13 DEF whole, buffer, size

(***************************************************************************)
(* What signal() returns.                                                  *)
(***************************************************************************)

\* The records of group g in the stream w of an opened data group.
EagerOf(d, off, cnt, w, g) ==
    IF Unsorted(d)
    THEN [i \in 1..Len(off[g]) |-> Cut(d, w, g, off[g][i])]
    ELSE [i \in 1..Least(Len(w) \div RecordSize(d, d.groups[g]), cnt[g]) |-> Stride(d, w, g, i)]

LEMMA WholeStays == dg' = dg => WholeStream' = WholeStream
  BY DEF WholeStream

\* The group a channel was opened for.
TargetOK ==
    /\ target \in GroupIds
    /\ ~dg.groups[target].vlsd
    /\ IF Unsorted(dg) THEN PayloadSize(dg.groups[target]) > 0
       ELSE RecordSize(dg, dg.groups[target]) > 0

LEMMA EagerIs ==
    ASSUME IndexInv, SeedInv, TrailInv, phase = "open", TargetOK, Plain(dg)
    PROVE  EagerRecords(target) = EagerOf(dg, offsets, counts, WholeStream, target)
<1>1. dg \in DataGroup /\ offsets \in [GroupIds -> Seq(Nat)] /\ counts \in [GroupIds -> Nat]
  BY DEF IndexInv, TypeOK
<1>2. target \in GroupIds /\ counts[target] \in Nat /\ offsets[target] \in Seq(Nat) /\ Len(offsets[target]) \in Nat
  BY <1>1, LenProperties DEF TargetOK
<1>3. Len(WholeStream) \in Nat
  <2>1. LaidOut(dg, WholeStream)
    BY <1>1, WholeIsLaidOut
  <2> QED
    BY <2>1, LenProperties DEF LaidOut
<1>4. CASE Unsorted(dg)
  <2> DEFINE raw == WholeStream
             size == PayloadSize(dg.groups[target])
             o == offsets[target]
             Fits(i) == o[i] + dg.idSize + size <= Len(raw)
             P(n) == (\A i \in 1..n : Fits(i)) /\ (n < Len(o) => ~Fits(n + 1))
             N == CHOOSE n \in 0..Len(o) : P(n)
  <2>1. \A i \in 1..Len(o) : Fits(i)
    <3>1. IsIndexOf(dg, offsets, raw)
      BY <1>4, OpenIsIndexed
    <3>2. target \in DOMAIN offsets /\ RecordSize(dg, dg.groups[target]) = dg.idSize + size /\ dg.idSize \in Nat /\ size \in Nat
      BY <1>1, <1>2, SizesAre DEF GroupIds
    <3>3. ~dg.groups[target].vlsd
      BY DEF TargetOK
    <3>4. \A i \in 1..Len(o) : o[i] + RecordSize(dg, dg.groups[target]) <= Len(raw) /\ o[i] \in Nat
      BY <1>2, <3>1, <3>2, <3>3, ElementOfSeq DEF IsIndexOf
    <3> HIDE DEF size, o, raw
    <3> QED
      BY <3>2, <3>4
  <2>2. size # 0
    <3>1. size > 0
      BY <1>4 DEF TargetOK
    <3> QED
      BY <3>1
  <2> HIDE DEF Fits
  <2>3. Len(o) \in 0..Len(o) /\ P(Len(o))
    BY <1>2, <2>1
  <2>4. \A n \in 0..Len(o) : P(n) => n = Len(o)
    <3> SUFFICES ASSUME NEW n \in 0..Len(o), P(n), n # Len(o)
                 PROVE  FALSE
      OBVIOUS
    <3>1. n < Len(o) /\ n + 1 \in 1..Len(o)
      BY <1>2
    <3> QED
      BY <2>1, <3>1
  <2>5. N = Len(o)
    <3> HIDE DEF P
    <3> QED
      BY <2>3, <2>4
  <2>6. EagerRecords(target) = [i \in 1..N |-> SubSeq(raw, (o[i] + dg.idSize) + 1, (o[i] + dg.idSize) + size)]
    BY <1>4, <2>2 DEF EagerRecords, Gathered, Fits
  <2> HIDE DEF N
  <2>7. \A i \in 1..Len(o) :
            SubSeq(raw, (o[i] + dg.idSize) + 1, (o[i] + dg.idSize) + size) = Cut(dg, raw, target, o[i])
    <3> SUFFICES ASSUME NEW i \in 1..Len(o)
                 PROVE  SubSeq(raw, (o[i] + dg.idSize) + 1, (o[i] + dg.idSize) + size) = Cut(dg, raw, target, o[i])
      OBVIOUS
    <3>1. o[i] \in Nat /\ dg.idSize \in Nat /\ size \in Nat /\ RecordSize(dg, dg.groups[target]) = dg.idSize + size
      BY <1>1, <1>2, SizesAre, ElementOfSeq DEF GroupIds
    <3> HIDE DEF o, size
    <3>2. (o[i] + dg.idSize) + size = o[i] + RecordSize(dg, dg.groups[target])
      BY <3>1
    <3> QED
      BY <3>2 DEF Cut
  <2>8. EagerRecords(target) = [i \in 1..Len(o) |-> Cut(dg, raw, target, o[i])]
    <3> HIDE DEF o, raw, size
    <3> QED
      BY <2>5, <2>6, <2>7
  <2> QED
    BY <1>4, <2>8 DEF EagerOf
<1>5. CASE ~Unsorted(dg)
  <2> DEFINE raw == WholeStream
             size == RecordSize(dg, dg.groups[target])
             held == Len(raw) \div size
  <2>1. size \in Nat /\ size > 0
    BY <1>1, <1>2, <1>5, SizesAre DEF TargetOK, GroupIds
  <2>2. size # 0
    BY <2>1
  <2>3. EagerRecords(target) = [i \in 1..Least(counts[target], held) |-> Stride(dg, raw, target, i)]
    BY <1>5, <2>2 DEF EagerRecords, Strided, Stride
  <2>4. held \in Nat
    <3> HIDE DEF size, raw
    <3> QED
      BY <1>3, <2>1, Quotient DEF raw
  <2> HIDE DEF held
  <2>5. Least(counts[target], held) = Least(held, counts[target])
    BY <1>2, <2>4 DEF Least
  <2> QED
    BY <1>5, <2>3, <2>5 DEF EagerOf, held
<1> QED
  BY <1>4, <1>5

LEMMA EagerLength ==
    ASSUME NEW d \in DataGroup, NEW off, NEW cnt, NEW w \in Seq(Byte), NEW g \in DOMAIN d.groups,
           off[g] \in Seq(Nat), cnt[g] \in Nat, ~Unsorted(d) => RecordSize(d, d.groups[g]) > 0
    PROVE  LET e == EagerOf(d, off, cnt, w, g)
           IN  /\ \E S : e \in Seq(S)
               /\ Len(e) \in Nat
               /\ Unsorted(d) => /\ Len(e) = Len(off[g])
                                 /\ \A i \in 1..Len(e) : e[i] = Cut(d, w, g, off[g][i])
               /\ ~Unsorted(d) => /\ Len(e) = Least(Len(w) \div RecordSize(d, d.groups[g]), cnt[g])
                                  /\ \A i \in 1..Len(e) : e[i] = Stride(d, w, g, i)
<1> DEFINE e == EagerOf(d, off, cnt, w, g)
           R(i) == IF Unsorted(d) THEN Cut(d, w, g, off[g][i]) ELSE Stride(d, w, g, i)
<1>1. PICK n : n = IF Unsorted(d) THEN Len(off[g])
                   ELSE Least(Len(w) \div RecordSize(d, d.groups[g]), cnt[g])
  OBVIOUS
<1>2. n \in Nat
  <2>1. CASE Unsorted(d)
    BY <1>1, <2>1, LenProperties
  <2>2. CASE ~Unsorted(d)
    <3>1. RecordSize(d, d.groups[g]) \in Nat /\ Len(w) \in Nat
      BY SizesAre, LenProperties
    <3>2. Len(w) \div RecordSize(d, d.groups[g]) \in Nat
      BY <2>2, <3>1, Quotient
    <3>3. Least(Len(w) \div RecordSize(d, d.groups[g]), cnt[g]) \in Nat
      BY <3>2, LeastOfTwo
    <3> QED
      BY <1>1, <2>2, <3>3
  <2> QED
    BY <2>1, <2>2
<1>3. e = [i \in 1..n |-> R(i)]
  <2>1. CASE Unsorted(d)
    BY <1>1, <2>1 DEF EagerOf
  <2>2. CASE ~Unsorted(d)
    BY <1>1, <2>2 DEF EagerOf
  <2> QED
    BY <2>1, <2>2
<1> HIDE DEF e, R
<1> DEFINE S == {R(i) : i \in 1..n}
<1>4. e \in Seq(S) /\ Len(e) = n
  <2>1. e \in [1..n -> S]
    BY <1>3
  <2> HIDE DEF S
  <2> QED
    BY <1>2, <2>1, LenProperties, SeqDef
<1>5. \A i \in 1..n : e[i] = R(i)
  BY <1>3
<1> HIDE DEF S
<1>6. \E SS : e \in Seq(SS)
  BY <1>4
<1> QED
  BY <1>1, <1>2, <1>4, <1>5, <1>6 DEF e, R

(***************************************************************************)
(* What the chunks have handed out.                                        *)
(***************************************************************************)

\* The samples handed out have the first of the records e, and rem of cnt are left.
Handed(e, given, cnt, rem) ==
    /\ \E S : given \in Seq(S)
    /\ rem \in Nat /\ Len(given) + rem = cnt
    /\ Len(given) <= Len(e)
    /\ \A i \in 1..Len(given) : given[i].record = e[i]

LEMMA HandedMore ==
    ASSUME NEW e, NEW given, NEW cnt, NEW rem, Handed(e, given, cnt, rem),
           NEW M, NEW more \in Seq(M), Len(more) <= rem, Len(given) + Len(more) <= Len(e),
           \A i \in 1..Len(more) : more[i].record = e[Len(given) + i]
    PROVE  /\ Handed(e, given \o more, cnt, rem - Len(more))
           /\ Len(given \o more) = Len(given) + Len(more)
<1>1. PICK S : given \in Seq(S)
  BY DEF Handed
<1> DEFINE U == S \cup M
           both == given \o more
<1>2. given \in Seq(U) /\ more \in Seq(U)
  <2>1. S \subseteq U /\ M \subseteq U
    OBVIOUS
  <2> HIDE DEF U
  <2> QED
    BY <1>1, <2>1, SeqMonotonic
<1>3. Len(given) \in Nat /\ Len(more) \in Nat
  BY <1>2, LenProperties
<1>4. /\ both \in Seq(U) /\ Len(both) = Len(given) + Len(more)
      /\ \A i \in 1..Len(given) + Len(more) :
             both[i] = IF i <= Len(given) THEN given[i] ELSE more[i - Len(given)]
  <2> HIDE DEF U
  <2> QED
    BY <1>2, ConcatProperties
<1> HIDE DEF both, U
<1>5. ASSUME NEW i \in 1..Len(both)
      PROVE  both[i].record = e[i]
  <2>1. CASE i <= Len(given)
    <3>1. i \in 1..Len(given) /\ both[i] = given[i]
      BY <1>3, <1>4, <2>1
    <3> QED
      BY <3>1 DEF Handed
  <2>2. CASE ~(i <= Len(given))
    <3>1. i - Len(given) \in 1..Len(more) /\ Len(given) + (i - Len(given)) = i
      BY <1>3, <1>4, <2>2
    <3>2. both[i] = more[i - Len(given)]
      BY <1>4, <2>2
    <3>3. more[i - Len(given)].record = e[Len(given) + (i - Len(given))]
      BY <3>1
    <3> QED
      BY <3>1, <3>2, <3>3
  <2> QED
    BY <2>1, <2>2
<1>6. /\ rem - Len(more) \in Nat /\ Len(both) + (rem - Len(more)) = cnt
      /\ Len(both) <= Len(e)
  <2>1. rem \in Nat /\ Len(given) + rem = cnt
    BY DEF Handed
  <2>2. PICK a, b, c, l : a = Len(given) /\ b = Len(more) /\ c = Len(both) /\ l = Len(e)
    OBVIOUS
  <2>3. a \in Nat /\ b \in Nat /\ c = a + b /\ a + rem = cnt /\ b <= rem /\ a + b <= l
    BY <1>3, <1>4, <2>1, <2>2
  <2>4. rem - b \in Nat /\ c + (rem - b) = cnt /\ c <= l
    BY ONLY <2>1, <2>3
  <2> QED
    BY <2>2, <2>4
<1>7. \E SS : both \in Seq(SS)
  BY <1>4
<1>8. Handed(e, both, cnt, rem - Len(more))
  BY <1>5, <1>6, <1>7 DEF Handed
<1> QED
  BY <1>4, <1>8 DEF both

\* A window hands out as many of its records as are left.
LEMMA WindowHandsOut ==
    ASSUME NEW e, NEW cnt, Handed(e, delivered, cnt, remaining),
           NEW records, Len(records) \in Nat, NEW table, HandOut(records, table),
           NEW n \in Nat, n = Least(Len(records), remaining), Len(delivered) + n <= Len(e),
           \A i \in 1..n : records[i] = e[Len(delivered) + i]
    PROVE  /\ Handed(e, delivered', cnt, remaining')
           /\ Len(delivered') = Len(delivered) + n
<1> DEFINE more == [i \in 1..n |-> Sample(records[i], table)]
           M == {Sample(records[i], table) : i \in 1..n}
<1>1. delivered' = delivered \o more /\ remaining' = remaining - n
  BY DEF HandOut
<1>2. more \in Seq(M) /\ Len(more) = n
  <2>1. more \in [1..n -> M]
    OBVIOUS
  <2> HIDE DEF M, more
  <2> QED
    BY <2>1, LenProperties, SeqDef
<1>3. \A i \in 1..n : more[i].record = e[Len(delivered) + i]
  BY DEF Sample
<1>4. n <= remaining
  BY DEF Least, Handed
<1> HIDE DEF more, M
<1>5. /\ Handed(e, delivered \o more, cnt, remaining - Len(more))
      /\ Len(delivered \o more) = Len(delivered) + Len(more)
  <2>1. /\ Len(more) <= remaining /\ Len(delivered) + Len(more) <= Len(e)
        /\ \A i \in 1..Len(more) : more[i].record = e[Len(delivered) + i]
    BY <1>2, <1>3, <1>4
  <2>2. more \in Seq(M)
    BY <1>2
  <2> QED
    BY <2>1, <2>2, HandedMore
<1> QED
  BY <1>1, <1>2, <1>5

(***************************************************************************)
(* The inductive invariant of the chunks.                                  *)
(***************************************************************************)

Returned == EagerOf(dg, offsets, counts, WholeStream, target)

\* Where the windows so far have got to, and what they have handed out.
WindowsInv ==
    /\ status \in {"closed", "reading", "failed", "ended"}
    /\ status = "closed" => /\ delivered = <<>> /\ carry = <<>>
                            /\ window = [block |-> 1, start |-> 0]
    /\ status # "closed" => /\ phase = "open" /\ TargetOK
                            /\ Handed(Returned, delivered, counts[target], remaining)
    /\ status = "reading" =>
          IF Unsorted(dg)
          THEN OnTheTrail(dg, offsets, WholeStream, target, window, carry, Len(delivered))
          ELSE InStride(dg, WholeStream, target, counts[target], window, carry, Len(delivered))

CoverInv == SelfContained(dg) /\ IndexInv /\ SeedInv /\ TrailInv /\ WindowsInv

LEMMA OpenFacts ==
    ASSUME SelfContained(dg), IndexInv, SeedInv, TrailInv, phase = "open", TargetOK
    PROVE  /\ dg \in DataGroup /\ Plain(dg) /\ LaidOut(dg, WholeStream)
           /\ WholeStream \in Seq(Byte) /\ Len(WholeStream) \in Nat
           /\ target \in DOMAIN dg.groups
           /\ counts[target] \in Nat /\ offsets[target] \in Seq(Nat) /\ Len(offsets[target]) \in Nat
           /\ Unsorted(dg) => /\ IsIndexOf(dg, offsets, WholeStream)
                              /\ \A n \in 1..Len(dg.blocks) : EndsWithin(dg, dg.blocks[n].data)
           /\ Unsorted(dg) /\ dg.blocks # <<>> => counts[target] = Len(offsets[target])
           /\ Unsorted(dg) /\ dg.blocks = <<>> => offsets[target] = <<>>
           /\ ~Unsorted(dg) => RecordSize(dg, dg.groups[target]) > 0
           /\ \E S : Returned \in Seq(S)
           /\ Len(Returned) \in Nat
           /\ Unsorted(dg) => /\ Len(Returned) = Len(offsets[target])
                              /\ \A i \in 1..Len(Returned) :
                                    Returned[i] = Cut(dg, WholeStream, target, offsets[target][i])
           /\ ~Unsorted(dg) =>
                 /\ Len(Returned) = Least(Len(WholeStream) \div RecordSize(dg, dg.groups[target]), counts[target])
                 /\ \A i \in 1..Len(Returned) : Returned[i] = Stride(dg, WholeStream, target, i)
<1>1. dg \in DataGroup /\ offsets \in [GroupIds -> Seq(Nat)] /\ counts \in [GroupIds -> Nat]
  BY DEF IndexInv, TypeOK
<1>2. /\ target \in DOMAIN dg.groups /\ target \in GroupIds
      /\ counts[target] \in Nat /\ offsets[target] \in Seq(Nat) /\ Len(offsets[target]) \in Nat
  BY <1>1, LenProperties DEF TargetOK, GroupIds
<1>3. Plain(dg) /\ (Unsorted(dg) => \A n \in 1..Len(dg.blocks) : EndsWithin(dg, dg.blocks[n].data))
  <2>1. DOMAIN dg.blocks = 1..Len(dg.blocks)
    BY <1>1, BlocksAreBlocks
  <2> QED
    BY <2>1 DEF SelfContained, Plain
<1>4. LaidOut(dg, WholeStream)
  BY <1>1, <1>3, WholeIsLaidOut
<1>5. WholeStream \in Seq(Byte) /\ Len(WholeStream) \in Nat
  BY <1>4, LenProperties DEF LaidOut
<1>6. Unsorted(dg) => IsIndexOf(dg, offsets, WholeStream)
  BY OpenIsIndexed
<1>7. Unsorted(dg) /\ dg.blocks # <<>> => counts[target] = Len(offsets[target])
  BY <1>2 DEF IndexInv, PhaseOK
<1>8. Unsorted(dg) /\ dg.blocks = <<>> => offsets[target] = <<>>
  BY <1>2 DEF TrailInv
<1>9. ~Unsorted(dg) => RecordSize(dg, dg.groups[target]) > 0
  BY DEF TargetOK
<1>10. /\ \E S : Returned \in Seq(S)
       /\ Len(Returned) \in Nat
       /\ Unsorted(dg) => /\ Len(Returned) = Len(offsets[target])
                          /\ \A i \in 1..Len(Returned) :
                                Returned[i] = Cut(dg, WholeStream, target, offsets[target][i])
       /\ ~Unsorted(dg) =>
             /\ Len(Returned) = Least(Len(WholeStream) \div RecordSize(dg, dg.groups[target]), counts[target])
             /\ \A i \in 1..Len(Returned) : Returned[i] = Stride(dg, WholeStream, target, i)
  <2> DEFINE w == WholeStream
  <2>1. w \in Seq(Byte)
    BY <1>5
  <2>2. Returned = EagerOf(dg, offsets, counts, w, target)
    BY DEF Returned
  <2> HIDE DEF w
  <2>3. LET e == EagerOf(dg, offsets, counts, w, target)
        IN  /\ \E S : e \in Seq(S)
            /\ Len(e) \in Nat
            /\ Unsorted(dg) => /\ Len(e) = Len(offsets[target])
                               /\ \A i \in 1..Len(e) : e[i] = Cut(dg, w, target, offsets[target][i])
            /\ ~Unsorted(dg) => /\ Len(e) = Least(Len(w) \div RecordSize(dg, dg.groups[target]), counts[target])
                                /\ \A i \in 1..Len(e) : e[i] = Stride(dg, w, target, i)
    BY <1>1, <1>2, <1>9, <2>1, EagerLength
  <2> QED
    BY <2>2, <2>3 DEF w
<1> QED
  BY <1>1, <1>2, <1>3, <1>4, <1>5, <1>6, <1>7, <1>8, <1>9, <1>10

LEMMA WindowsInit == ChunkInit => WindowsInv
  BY DEF ChunkInit, WindowsInv

\* The first window begins on the trail, with no sample of any group before it.
LEMMA TrailStarts ==
    ASSUME dg \in DataGroup, NEW w, LaidOut(dg, w), IsIndexOf(dg, offsets, w),
           \A n \in 1..Len(dg.blocks) : EndsWithin(dg, dg.blocks[n].data),
           NEW g \in DOMAIN offsets, NEW win, win = [block |-> 1, start |-> 0]
    PROVE  OnTheTrail(dg, offsets, w, g, win, <<>>, 0)
<1>1. w \in Seq(Byte) /\ Len(w) \in Nat /\ offsets[g] \in Seq(Nat) /\ Len(offsets[g]) \in Nat
  BY LenProperties DEF LaidOut, IsIndexOf
<1>2. /\ win.block = 1 /\ win.start = 0 /\ win.block - 1 = 0
      /\ Ends(dg)[0] = 0 /\ Len(dg.blocks) \in Nat
  BY EndsAre, BlocksAreBlocks
<1>3. InHand(dg, w, win, <<>>, 0)
  <2>1. IsPlace(dg, win) /\ Begins(dg, win) = 0
    BY <1>2 DEF IsPlace, Begins
  <2>2. SliceOf(<<>>, w, 0) /\ Len(<<>>) = 0
    <3>1. 0 \in Nat /\ 0 <= Len(w)
      BY <1>1
    <3> QED
      BY <1>1, <3>1, NothingCarried
  <2> QED
    BY <2>1, <2>2 DEF InHand
<1>4. Ends(dg)[win.block - 1] + 0 = 0 /\ 0 \in Nat
  BY <1>2
<1>5. CountedTo(offsets[g], 0, 0)
  <2>1. \A i \in 1..Len(offsets[g]) : offsets[g][i] \in Nat
    BY <1>1, ElementOfSeq
  <2> QED
    BY <1>1, <2>1 DEF CountedTo
<1>6. win.block <= Len(dg.blocks) => OnTrail(dg, offsets, win.block, 0)
  <2> SUFFICES ASSUME 1 <= Len(dg.blocks)
               PROVE  OnTrail(dg, offsets, 1, 0)
    BY <1>2
  <2>1. 1 \in 1..Len(dg.blocks)
    BY <1>2
  <2>2. Walked(dg, offsets, 1) /\ EndsWithin(dg, dg.blocks[1].data)
    BY <2>1 DEF IsIndexOf
  <2> QED
    BY <2>1, <2>2, TrailBegins
<1> QED
  BY <1>3, <1>4, <1>5, <1>6 DEF OnTheTrail

\* Opening the iterator: the first window begins where the stream does.
LEMMA OpenChunksStep ==
    ASSUME CoverInv, OpenChunks
    PROVE  WindowsInv'
<1>1. /\ phase = "open" /\ status = "closed" /\ status' = "reading" /\ remaining' = counts[target']
      /\ UNCHANGED <<indexVars, window, carry, payloadBase, delivered>>
      /\ target' \in GroupIds /\ ~dg.groups[target'].vlsd
      /\ IF Unsorted(dg) THEN PayloadSize(dg.groups[target']) > 0
         ELSE RecordSize(dg, dg.groups[target']) > 0
  BY DEF OpenChunks
<1>2. /\ delivered' = <<>> /\ carry' = <<>> /\ window' = [block |-> 1, start |-> 0]
      /\ dg' = dg /\ offsets' = offsets /\ counts' = counts /\ phase' = "open"
      /\ stream' = stream /\ total' = total /\ base' = base /\ block' = block /\ pos' = pos
      /\ WholeStream' = WholeStream
  BY <1>1, WholeStays DEF CoverInv, WindowsInv, indexVars
<1>3. TargetOK'
  BY <1>1, <1>2 DEF TargetOK, GroupIds
<1>4. PICK g : g = target'
  OBVIOUS
<1>5. /\ dg \in DataGroup /\ Plain(dg) /\ LaidOut(dg, WholeStream)
      /\ WholeStream \in Seq(Byte)
      /\ g \in DOMAIN dg.groups /\ g \in GroupIds
      /\ counts[g] \in Nat /\ offsets[g] \in Seq(Nat) /\ Len(offsets[g]) \in Nat
      /\ Unsorted(dg) => /\ IsIndexOf(dg, offsets, WholeStream)
                         /\ \A n \in 1..Len(dg.blocks) : EndsWithin(dg, dg.blocks[n].data)
  <2>1. dg \in DataGroup /\ offsets \in [GroupIds -> Seq(Nat)] /\ counts \in [GroupIds -> Nat]
    BY DEF CoverInv, IndexInv, TypeOK
  <2>2. /\ g \in DOMAIN dg.groups /\ g \in GroupIds
        /\ counts[g] \in Nat /\ offsets[g] \in Seq(Nat) /\ Len(offsets[g]) \in Nat
    BY <1>1, <1>4, <2>1, LenProperties DEF GroupIds
  <2>3. Plain(dg) /\ (Unsorted(dg) => \A n \in 1..Len(dg.blocks) : EndsWithin(dg, dg.blocks[n].data))
    <3>1. DOMAIN dg.blocks = 1..Len(dg.blocks)
      BY <2>1, BlocksAreBlocks
    <3> QED
      BY <3>1 DEF CoverInv, SelfContained, Plain
  <2>4. LaidOut(dg, WholeStream)
    BY <2>1, <2>3, WholeIsLaidOut
  <2>5. Unsorted(dg) => IsIndexOf(dg, offsets, WholeStream)
    BY <1>1, OpenIsIndexed DEF CoverInv
  <2> QED
    BY <2>1, <2>2, <2>3, <2>4, <2>5 DEF LaidOut
<1>6. PICK win : win = [block |-> 1, start |-> 0]
  OBVIOUS
<1>7. /\ win.block = 1 /\ win.start = 0 /\ win.block - 1 = 0
      /\ Ends(dg)[0] = 0 /\ Len(dg.blocks) \in Nat
  BY <1>5, <1>6, EndsAre, BlocksAreBlocks
<1>8. InHand(dg, WholeStream, win, <<>>, 0)
  <2>1. IsPlace(dg, win) /\ Begins(dg, win) = 0
    BY <1>7 DEF IsPlace, Begins
  <2>2. SliceOf(<<>>, WholeStream, 0) /\ Len(<<>>) = 0
    <3>1. 0 \in Nat /\ 0 <= Len(WholeStream)
      BY <1>5, LenProperties
    <3> QED
      BY <1>5, <3>1, NothingCarried
  <2> QED
    BY <2>1, <2>2 DEF InHand
<1>9. Len(<<>>) = 0
  OBVIOUS
<1>10. ASSUME Unsorted(dg)
       PROVE  OnTheTrail(dg, offsets, WholeStream, g, win, <<>>, 0)
  <2>1. PICK w : w = WholeStream
    OBVIOUS
  <2>2. g \in DOMAIN offsets
    BY <1>5, <1>10 DEF IsIndexOf, GroupIds
  <2>3. OnTheTrail(dg, offsets, w, g, win, <<>>, 0)
    BY <1>5, <1>6, <1>10, <2>1, <2>2, TrailStarts
  <2> QED
    BY <2>1, <2>3
<1>11. ASSUME ~Unsorted(dg)
       PROVE  InStride(dg, WholeStream, g, counts[g], win, <<>>, 0)
  <2>1. RecordSize(dg, dg.groups[g]) > 0 /\ RecordSize(dg, dg.groups[g]) \in Nat
    BY <1>1, <1>4, <1>5, <1>11, SizesAre
  <2>2. 0 * RecordSize(dg, dg.groups[g]) = 0 /\ 0 \in Nat
    BY <2>1
  <2>3. 0 = Least(0, counts[g])
    BY <1>5 DEF Least
  <2> QED
    BY <1>8, <1>9, <2>1, <2>2, <2>3 DEF InStride
<1>12. Handed(EagerOf(dg, offsets, counts, WholeStream, g), <<>>, counts[g], counts[g])
  <2>1. Len(EagerOf(dg, offsets, counts, WholeStream, g)) \in Nat
    <3>1. ~Unsorted(dg) => RecordSize(dg, dg.groups[g]) > 0
      BY <1>1, <1>4
    <3> DEFINE w == WholeStream
    <3>2. w \in Seq(Byte)
      BY <1>5
    <3> HIDE DEF w
    <3>3. Len(EagerOf(dg, offsets, counts, w, g)) \in Nat
      BY <1>5, <3>1, <3>2, EagerLength
    <3> QED
      BY <3>3 DEF w
  <2>2. <<>> \in Seq(Nat) /\ Len(<<>>) = 0 /\ 1..0 = {}
    BY EmptySeq
  <2> QED
    BY <1>5, <2>1, <2>2 DEF Handed
<1>13. Unsorted(dg)' <=> Unsorted(dg)
  BY <1>2
<1>14. Returned' = EagerOf(dg, offsets, counts, WholeStream, g)
  BY <1>2, <1>4 DEF Returned
<1> QED
  BY <1>1, <1>2, <1>3, <1>4, <1>6, <1>9, <1>10, <1>11, <1>12, <1>13, <1>14 DEF WindowsInv

\* What a step that leaves the opened file and the target alone leaves as it was.
LEMMA ReadingStays ==
    ASSUME CoverInv, status = "reading", UNCHANGED <<indexVars, target, vlsd>>
    PROVE  /\ phase = "open" /\ phase' = "open" /\ TargetOK /\ TargetOK'
           /\ dg' = dg /\ offsets' = offsets /\ counts' = counts /\ target' = target
           /\ WholeStream' = WholeStream
           /\ Returned' = Returned /\ (Unsorted(dg)' <=> Unsorted(dg))
           /\ Handed(Returned, delivered, counts[target], remaining)
<1>1. phase = "open" /\ TargetOK /\ Handed(Returned, delivered, counts[target], remaining)
  BY DEF CoverInv, WindowsInv
<1>2. phase' = "open" /\ dg' = dg /\ offsets' = offsets /\ counts' = counts /\ target' = target
  BY <1>1 DEF indexVars
<1>3. WholeStream' = WholeStream
  BY <1>2, WholeStays
<1>4. TargetOK'
  BY <1>1, <1>2 DEF TargetOK, GroupIds
<1> QED
  BY <1>1, <1>2, <1>3, <1>4 DEF Returned

LEMMA SortedWindowStep ==
    ASSUME CoverInv, SortedWindow
    PROVE  WindowsInv' /\ Len(delivered) <= Len(delivered')
<1>1. /\ status = "reading" /\ remaining > 0 /\ HasWindow /\ ~Unsorted(dg)
      /\ window' = NextWindow
      /\ UNCHANGED <<indexVars, status, target, vlsd, payloadBase>>
  BY DEF SortedWindow, Pulling
<1>2. /\ phase = "open" /\ phase' = "open" /\ TargetOK /\ TargetOK'
      /\ dg' = dg /\ offsets' = offsets /\ counts' = counts /\ target' = target
      /\ WholeStream' = WholeStream
      /\ Returned' = Returned /\ (Unsorted(dg)' <=> Unsorted(dg))
      /\ Handed(Returned, delivered, counts[target], remaining)
  BY <1>1, ReadingStays
<1>3. SelfContained(dg) /\ IndexInv /\ SeedInv /\ TrailInv
  BY DEF CoverInv
<1>4. /\ dg \in DataGroup /\ Plain(dg) /\ LaidOut(dg, WholeStream)
      /\ target \in DOMAIN dg.groups /\ target \in GroupIds
      /\ counts[target] \in Nat
      /\ RecordSize(dg, dg.groups[target]) > 0
      /\ Len(Returned) \in Nat
      /\ Len(Returned) = Least(Len(WholeStream) \div RecordSize(dg, dg.groups[target]), counts[target])
      /\ \A i \in 1..Len(Returned) : Returned[i] = Stride(dg, WholeStream, target, i)
      /\ Len(WholeStream) \div RecordSize(dg, dg.groups[target]) \in Nat
  <2>1. /\ dg \in DataGroup /\ Plain(dg) /\ LaidOut(dg, WholeStream)
        /\ target \in DOMAIN dg.groups /\ target \in GroupIds
        /\ counts[target] \in Nat
        /\ RecordSize(dg, dg.groups[target]) > 0
        /\ Len(Returned) \in Nat /\ Len(WholeStream) \in Nat
        /\ Len(Returned) = Least(Len(WholeStream) \div RecordSize(dg, dg.groups[target]), counts[target])
        /\ \A i \in 1..Len(Returned) : Returned[i] = Stride(dg, WholeStream, target, i)
    BY <1>1, <1>2, <1>3, OpenFacts DEF TargetOK
  <2>2. RecordSize(dg, dg.groups[target]) \in Nat
    BY <2>1, SizesAre
  <2>3. Len(WholeStream) \div RecordSize(dg, dg.groups[target]) \in Nat
    BY <2>1, <2>2, Quotient
  <2> QED
    BY <2>1, <2>3
<1>5. PICK w, c, k, buffer, size, whole :
          /\ w = WholeStream /\ c = counts[target] /\ k = Len(delivered)
          /\ buffer = carry \o WindowBytes /\ size = RecordSize(dg, dg.groups[target])
          /\ whole = Len(buffer) \div size
  OBVIOUS
<1>6. k + remaining = c /\ k \in Nat /\ c \in Nat /\ remaining \in Nat /\ k < c
  <2>1. PICK S : delivered \in Seq(S)
    BY <1>2 DEF Handed
  <2>2. k \in Nat /\ c \in Nat
    BY <1>4, <1>5, <2>1, LenProperties
  <2>3. k + remaining = c /\ remaining \in Nat
    BY <1>2, <1>5 DEF Handed
  <2> QED
    BY <1>1, <2>2, <2>3
<1>7. InStride(dg, w, target, c, window, carry, k)
  BY <1>1, <1>5 DEF CoverInv, WindowsInv
<1>8. /\ whole \in Nat
      /\ \A i \in 1..whole :
            SubSeq(buffer, (i - 1) * size + dg.idSize + 1, i * size) = Stride(dg, w, target, k + i)
      /\ k + Least(whole, c - k) <= Least(c, Len(w) \div size)
      /\ InStride(dg, w, target, c, NextWindow, Tailing(buffer, whole * size), k + Least(whole, c - k))
  <2>1. LaidOut(dg, w)
    BY <1>4, <1>5
  <2>2. LET bytes == carry \o WindowBytes
            z == RecordSize(dg, dg.groups[target])
            t == Len(bytes) \div z
        IN  /\ t \in Nat /\ k \in Nat
            /\ \A i \in 1..t :
                  SubSeq(bytes, (i - 1) * z + dg.idSize + 1, i * z) = Stride(dg, w, target, k + i)
            /\ k + Least(t, c - k) <= Least(c, Len(w) \div z)
            /\ InStride(dg, w, target, c, NextWindow, Tailing(bytes, t * z), k + Least(t, c - k))
    <3>1. /\ dg \in DataGroup /\ Plain(dg) /\ target \in GroupIds
          /\ RecordSize(dg, dg.groups[target]) > 0 /\ HasWindow /\ c \in Nat /\ k < c
      BY <1>1, <1>4, <1>6
    <3> QED
      BY ONLY <1>7, <2>1, <3>1, StrideWindow
  <2> QED
    BY ONLY <1>5, <2>2
<1>9. PICK records : records = [i \in 1..whole |-> SubSeq(buffer, (i - 1) * size + dg.idSize + 1, i * size)]
  OBVIOUS
<1>10. carry' = Tailing(buffer, whole * size) /\ HandOut(records, <<>>)
  BY <1>5, <1>9 DEF SortedWindow
<1>11. Len(records) = whole /\ \A i \in 1..whole : records[i] = Stride(dg, w, target, k + i)
  <2>1. \A i \in 1..whole : records[i] = Stride(dg, w, target, k + i)
    BY <1>8, <1>9
  <2>2. records \in Seq({records[i] : i \in 1..whole}) /\ Len(records) = whole
    <3> DEFINE M == {records[i] : i \in 1..whole}
    <3>1. records \in [1..whole -> M]
      BY <1>9
    <3> HIDE DEF M
    <3>2. records \in Seq(M) /\ Len(records) = whole
      BY <1>8, <3>1, LenProperties, SeqDef
    <3> QED
      BY <3>2 DEF M
  <2> QED
    BY <2>1, <2>2
<1>12. PICK n : n = Least(whole, remaining)
  OBVIOUS
<1>13. n \in Nat /\ n <= whole /\ n = Least(whole, c - k) /\ k + n <= Len(Returned)
  <2>1. c - k = remaining
    BY <1>6
  <2>2. n \in Nat /\ n <= whole /\ n = Least(whole, c - k)
    BY <1>6, <1>8, <1>12, <2>1, LeastOfTwo
  <2>3. Least(c, Len(w) \div size) = Least(Len(w) \div size, c)
    <3>1. Len(w) \div size \in Nat
      BY <1>4, <1>5
    <3> QED
      BY <1>6, <3>1 DEF Least
  <2> QED
    BY <1>4, <1>5, <1>8, <2>2, <2>3
<1>14. \A i \in 1..n : records[i] = Returned[k + i]
  <2> SUFFICES ASSUME NEW i \in 1..n
               PROVE  records[i] = Returned[k + i]
    OBVIOUS
  <2>1. i \in 1..whole /\ k + i \in 1..Len(Returned)
    BY <1>4, <1>6, <1>8, <1>13
  <2>2. records[i] = Stride(dg, w, target, k + i)
    BY <1>11, <2>1
  <2>3. Returned[k + i] = Stride(dg, w, target, k + i)
    BY <1>4, <1>5, <2>1
  <2> QED
    BY <2>2, <2>3
<1>15. Handed(Returned, delivered', counts[target], remaining') /\ Len(delivered') = k + n
  <2>1. Len(records) \in Nat /\ n = Least(Len(records), remaining) /\ Len(delivered) + n <= Len(Returned)
    BY <1>5, <1>8, <1>11, <1>12, <1>13
  <2>2. \A i \in 1..n : records[i] = Returned[Len(delivered) + i]
    BY <1>5, <1>14
  <2> QED
    BY <1>2, <1>5, <1>10, <1>13, <2>1, <2>2, WindowHandsOut
<1>16. InStride(dg, w, target, c, window', carry', Len(delivered'))
  BY <1>1, <1>8, <1>10, <1>13, <1>15
<1>17. WindowsInv'
  BY <1>1, <1>2, <1>5, <1>15, <1>16 DEF WindowsInv
<1>18. Len(delivered) <= Len(delivered')
  BY <1>5, <1>6, <1>13, <1>15
<1> QED
  BY <1>17, <1>18

LEMMA UnsortedWindowStep ==
    ASSUME CoverInv, UnsortedWindow
    PROVE  WindowsInv' /\ Len(delivered) <= Len(delivered')
<1>1. /\ status = "reading" /\ remaining > 0 /\ HasWindow /\ Unsorted(dg)
      /\ window' = NextWindow
      /\ UNCHANGED <<indexVars, status, target, vlsd>>
  BY DEF UnsortedWindow, Pulling
<1>2. /\ phase = "open" /\ phase' = "open" /\ TargetOK /\ TargetOK'
      /\ dg' = dg /\ offsets' = offsets /\ counts' = counts /\ target' = target
      /\ WholeStream' = WholeStream
      /\ Returned' = Returned /\ (Unsorted(dg)' <=> Unsorted(dg))
      /\ Handed(Returned, delivered, counts[target], remaining)
  BY <1>1, ReadingStays
<1>3. SelfContained(dg) /\ IndexInv /\ SeedInv /\ TrailInv
  BY DEF CoverInv
<1>4. /\ dg \in DataGroup /\ Plain(dg) /\ LaidOut(dg, WholeStream)
      /\ target \in GroupIds /\ ~dg.groups[target].vlsd
      /\ IsIndexOf(dg, offsets, WholeStream)
      /\ \A n \in 1..Len(dg.blocks) : EndsWithin(dg, dg.blocks[n].data)
      /\ Len(offsets[target]) \in Nat
      /\ dg.blocks # <<>> => counts[target] = Len(offsets[target])
      /\ Len(Returned) = Len(offsets[target])
      /\ \A i \in 1..Len(Returned) : Returned[i] = Cut(dg, WholeStream, target, offsets[target][i])
  BY <1>1, <1>2, <1>3, OpenFacts DEF TargetOK
<1>5. PICK w, k, buffer, taken :
          /\ w = WholeStream /\ k = Len(delivered)
          /\ buffer = carry \o WindowBytes /\ taken = Collect(buffer)
  OBVIOUS
<1>6. OnTheTrail(dg, offsets, w, target, window, carry, k)
  BY <1>1, <1>5 DEF CoverInv, WindowsInv
<1>7. dg.blocks # <<>>
  <2>1. IsPlace(dg, window)
    BY <1>6 DEF OnTheTrail, InHand
  <2>2. window.block \in 1..Len(dg.blocks)
    BY <1>1, <1>4, <2>1, BlocksAreBlocks DEF IsPlace, HasWindow
  <2>3. Len(<<>>) = 0
    OBVIOUS
  <2> QED
    BY <2>2, <2>3
<1>8. k + remaining = Len(offsets[target]) /\ k \in Nat /\ remaining \in Nat /\ offsets[target] # <<>>
  <2>1. PICK S : delivered \in Seq(S)
    BY <1>2 DEF Handed
  <2>2. k \in Nat
    BY <1>5, <2>1, LenProperties
  <2>3. k + remaining = Len(offsets[target]) /\ remaining \in Nat
    BY <1>2, <1>4, <1>5, <1>7 DEF Handed
  <2>4. Len(<<>>) = 0
    OBVIOUS
  <2> QED
    BY <1>1, <2>2, <2>3, <2>4
<1>9. PICK rest : rest = IF EndsBlock THEN <<>> ELSE Tailing(buffer, taken.consumed)
  OBVIOUS
<1>10. /\ taken.records \in Seq(Seq(Byte))
       /\ k + Len(taken.records) <= Len(offsets[target])
       /\ \A i \in 1..Len(taken.records) :
             taken.records[i] = Cut(dg, w, target, offsets[target][k + i])
       /\ OnTheTrail(dg, offsets, w, target, NextWindow, rest, k + Len(taken.records))
  <2>1. LaidOut(dg, w) /\ IsIndexOf(dg, offsets, w)
    BY <1>4, <1>5
  <2> QED
    BY <1>1, <1>4, <1>5, <1>6, <1>8, <1>9, <2>1, TrailWindow
<1>11. PICK table : table = Numbered(taken.payloads, payloadBase)
  OBVIOUS
<1>12. carry' = rest /\ HandOut(taken.records, table)
  BY <1>5, <1>9, <1>11 DEF UnsortedWindow
<1>13. PICK n : n = Len(taken.records)
  OBVIOUS
<1>14. n \in Nat /\ n <= remaining /\ n = Least(n, remaining) /\ k + n <= Len(Returned)
  <2>1. n \in Nat /\ k + n <= Len(offsets[target])
    BY <1>10, <1>13, LenProperties
  <2>2. n <= remaining
    BY <1>8, <2>1
  <2> QED
    BY <1>4, <1>8, <2>1, <2>2, LeastOfTwo
<1>15. \A i \in 1..n : taken.records[i] = Returned[k + i]
  <2> SUFFICES ASSUME NEW i \in 1..n
               PROVE  taken.records[i] = Returned[k + i]
    OBVIOUS
  <2>1. k + i \in 1..Len(Returned)
    BY <1>4, <1>8, <1>14
  <2>2. Returned[k + i] = Cut(dg, w, target, offsets[target][k + i])
    BY <1>4, <1>5, <2>1
  <2> QED
    BY <1>10, <1>13, <2>2
<1>16. Handed(Returned, delivered', counts[target], remaining') /\ Len(delivered') = k + n
  <2>1. Len(taken.records) \in Nat /\ n = Least(Len(taken.records), remaining) /\ Len(delivered) + n <= Len(Returned)
    BY <1>5, <1>13, <1>14
  <2>2. \A i \in 1..n : taken.records[i] = Returned[Len(delivered) + i]
    BY <1>5, <1>15
  <2> QED
    BY <1>2, <1>5, <1>12, <1>14, <2>1, <2>2, WindowHandsOut
<1>17. OnTheTrail(dg, offsets, w, target, window', carry', Len(delivered'))
  BY <1>1, <1>10, <1>12, <1>13, <1>16
<1>18. WindowsInv'
  BY <1>1, <1>2, <1>5, <1>16, <1>17 DEF WindowsInv
<1>19. Len(delivered) <= Len(delivered')
  BY <1>5, <1>8, <1>14, <1>16
<1> QED
  BY <1>18, <1>19

\* Opening goes on only while no iterator is.
LEMMA IndexStep ==
    ASSUME CoverInv, Index
    PROVE  /\ status = "closed" /\ phase # "open" /\ phase # "failed"
           /\ dg' = dg /\ WindowsInv'
<1>1. IndexNext /\ UNCHANGED chunkVars
  BY DEF Index
<1>2. phase # "open" /\ phase # "failed" /\ dg' = dg
  BY <1>1 DEF IndexNext, ListBlock, EndOfChain, NoBlocks, SizeSorted, StartWalk, ReadBlock,
              ReadBlockFails, IndexRecord, EndBlock, FinishWalk
<1>3. status = "closed" /\ delivered = <<>> /\ carry = <<>> /\ window = [block |-> 1, start |-> 0]
  BY <1>2 DEF CoverInv, WindowsInv
<1>4. status' = status /\ delivered' = delivered /\ carry' = carry /\ window' = window
  BY <1>1 DEF chunkVars
<1> QED
  BY <1>2, <1>3, <1>4 DEF WindowsInv

\* The reading is over: nothing is handed out any more.
LEMMA OverStep ==
    ASSUME CoverInv, status = "reading", status' \in {"failed", "ended"},
           UNCHANGED <<indexVars, target, vlsd, remaining, delivered>>
    PROVE  WindowsInv'
<1>1. /\ phase' = "open" /\ TargetOK'
      /\ counts' = counts /\ target' = target /\ Returned' = Returned
      /\ Handed(Returned, delivered, counts[target], remaining)
  BY ReadingStays
<1> QED
  BY <1>1 DEF WindowsInv

LEMMA CoverInit == ChunkInit /\ SelfContained(dg) => CoverInv
<1>1. ChunkInit => Init
  BY DEF ChunkInit
<1>2. Init => IndexInv /\ SeedInv /\ TrailInv
  BY IndexInvInit, TrailInit DEF Init, SeedInv
<1> QED
  BY <1>1, <1>2, WindowsInit DEF CoverInv

LEMMA CoverStep == CoverInv /\ [Next]_vars => CoverInv'
<1> SUFFICES ASSUME CoverInv, [Next]_vars
             PROVE  CoverInv'
  OBVIOUS
<1>1. [IndexNext]_indexVars
  BY DEF Next, Index, OpenChunks, ReadNext, SortedWindow, UnsortedWindow, WindowFails, EndChunks, vars
<1>2. dg' = dg
  BY <1>1 DEF indexVars, IndexNext, ListBlock, EndOfChain, NoBlocks, SizeSorted, StartWalk, ReadBlock,
              ReadBlockFails, IndexRecord, EndBlock, FinishWalk
<1>3. SelfContained(dg) /\ IndexInv /\ SeedInv /\ TrailInv /\ WindowsInv
  BY DEF CoverInv
<1>4. Plain(dg)
  <2>1. dg \in DataGroup
    BY <1>3 DEF IndexInv, TypeOK
  <2>2. DOMAIN dg.blocks = 1..Len(dg.blocks)
    BY <2>1, BlocksAreBlocks
  <2> QED
    BY <1>3, <2>2 DEF SelfContained, Plain
<1>5. SelfContained(dg')
  BY <1>2, <1>3
<1>6. IndexInv'
  BY <1>1, <1>3, IndexInvStep
<1>7. SeedInv'
  BY <1>1, <1>3, SeedStep
<1>8. TrailInv'
  BY <1>1, <1>3, <1>4, TrailStep
<1>9. WindowsInv'
  <2>1. CASE Index
    BY <2>1, IndexStep
  <2>2. CASE OpenChunks
    BY <2>2, OpenChunksStep
  <2>3. CASE SortedWindow
    BY <2>3, SortedWindowStep
  <2>4. CASE UnsortedWindow
    BY <2>4, UnsortedWindowStep
  <2>5. CASE WindowFails
    <3>1. status = "reading" /\ status' = "failed" /\ UNCHANGED <<indexVars, target, vlsd, remaining, delivered>>
      BY <2>5 DEF WindowFails, Pulling
    <3> QED
      BY <3>1, OverStep
  <2>6. CASE EndChunks
    <3>1. status = "reading" /\ status' = "ended" /\ UNCHANGED <<indexVars, target, vlsd, remaining, delivered>>
      BY <2>6 DEF EndChunks
    <3> QED
      BY <3>1, OverStep
  <2>7. CASE UNCHANGED vars
    <3>1. UNCHANGED <<indexVars, chunkVars>>
      BY <2>7 DEF vars
    <3>2. /\ dg' = dg /\ phase' = phase /\ offsets' = offsets /\ counts' = counts
          /\ UNCHANGED <<status, target, window, carry, remaining, delivered>>
      BY <3>1 DEF indexVars, chunkVars
    <3>3. WholeStream' = WholeStream
      BY <3>2, WholeStays
    <3> QED
      BY <1>3, <3>2, <3>3 DEF WindowsInv, TargetOK, GroupIds, Returned
  <2> QED
    BY <2>1, <2>2, <2>3, <2>4, <2>5, <2>6, <2>7 DEF Next, ReadNext
<1> QED
  BY <1>5, <1>6, <1>7, <1>8, <1>9 DEF CoverInv

(***************************************************************************)
(* The chunks are what they promise.                                       *)
(***************************************************************************)

\* What is promised of an iterator that is open are the records signal() returns.
LEMMA PromisedIs ==
    CoverInv => /\ status = "closed" => Records(promised) = <<>> /\ Records(delivered) = <<>>
                /\ status # "closed" =>
                      /\ Records(promised) = Returned
                      /\ Records(delivered) = SubSeq(Returned, 1, Len(delivered))
                      /\ Len(delivered) \in Nat /\ Len(delivered) <= Len(Returned)
                      /\ Len(Returned) \in Nat
                      /\ \E S : Returned \in Seq(S)
<1> SUFFICES ASSUME CoverInv
             PROVE  /\ status = "closed" => Records(promised) = <<>> /\ Records(delivered) = <<>>
                    /\ status # "closed" =>
                          /\ Records(promised) = Returned
                          /\ Records(delivered) = SubSeq(Returned, 1, Len(delivered))
                          /\ Len(delivered) \in Nat /\ Len(delivered) <= Len(Returned)
                          /\ Len(Returned) \in Nat
                          /\ \E S : Returned \in Seq(S)
  OBVIOUS
<1>1. Records(<<>>) = <<>>
  BY DEF Records
<1>2. CASE status = "closed"
  <2>1. promised = <<>> /\ delivered = <<>>
    BY <1>2 DEF promised, CoverInv, WindowsInv
  <2> QED
    BY <1>1, <1>2, <2>1
<1>3. CASE status # "closed"
  <2>1. /\ SelfContained(dg) /\ IndexInv /\ SeedInv /\ TrailInv /\ phase = "open" /\ TargetOK
        /\ Handed(Returned, delivered, counts[target], remaining)
    BY <1>3 DEF CoverInv, WindowsInv
  <2>2. Plain(dg) /\ Len(Returned) \in Nat
    BY <2>1, OpenFacts
  <2>3. PICK S : Returned \in Seq(S)
    BY <2>1, OpenFacts
  <2>4. EagerRecords(target) = Returned
    BY <2>1, <2>2, EagerIs DEF Returned
  <2>5. PICK e, l : e = Returned /\ l = Len(delivered)
    OBVIOUS
  <2>6. e \in Seq(S) /\ e = [i \in 1..Len(e) |-> e[i]] /\ DOMAIN e = 1..Len(e) /\ Len(e) \in Nat
    BY <2>2, <2>3, <2>5, LenProperties
  <2>7. Records(promised) = e
    <3>1. PICK table : EagerSamples = [i \in 1..Len(e) |-> Sample(e[i], table)]
      BY <2>4, <2>5 DEF EagerSamples
    <3>2. promised = [i \in 1..Len(e) |-> Sample(e[i], table)]
      BY <1>3, <3>1 DEF promised
    <3>3. Records(promised) = [i \in 1..Len(e) |-> e[i]]
      BY <3>2 DEF Records, Sample
    <3> QED
      BY <2>6, <3>3
  <2>8. PICK T : delivered \in Seq(T)
    BY <2>1 DEF Handed
  <2>9. DOMAIN delivered = 1..l /\ l \in Nat
    BY <2>5, <2>8, LenProperties
  <2>10. l <= Len(e) /\ \A i \in 1..l : delivered[i].record = e[i]
    BY <2>1, <2>5 DEF Handed
  <2>11. Records(delivered) = [i \in 1..l |-> e[i]]
    BY <2>9, <2>10 DEF Records
  <2>12. SubSeq(e, 1, l) = [i \in 1..l |-> e[i]]
    <3>1. SubSeq(e, 1, l) = [i \in 1..((l - 1) + 1) |-> e[(i + 1) - 1]]
      BY <2>6, <2>9, <2>10
    <3>2. (l - 1) + 1 = l /\ \A i \in 1..l : (i + 1) - 1 = i
      BY <2>9
    <3> QED
      BY <3>1, <3>2
  <2> QED
    BY <1>3, <2>2, <2>3, <2>5, <2>7, <2>9, <2>10, <2>11, <2>12
<1> QED
  BY <1>2, <1>3

\* When the windows are used up, so is the stream.
LEMMA PastTheLastBlock ==
    ASSUME NEW d \in DataGroup, NEW w, LaidOut(d, w), NEW win, NEW rest, NEW P,
           InHand(d, w, win, rest, P), ~(win.block <= Len(d.blocks))
    PROVE  /\ win.block - 1 = Len(d.blocks)
           /\ Ends(d)[win.block - 1] = Len(w)
           /\ P \in Nat /\ Len(rest) \in Nat /\ Len(w) \in Nat
           /\ P + Len(rest) = Len(w)
<1>1. IsPlace(d, win) /\ SliceOf(rest, w, P) /\ P + Len(rest) = Ends(d)[win.block - 1] + win.start
  BY DEF InHand, Begins
<1>2. Len(d.blocks) \in Nat
  BY BlocksAreBlocks
<1>3. win.block - 1 = Len(d.blocks) /\ win.start = 0
  BY <1>1, <1>2 DEF IsPlace
<1>4. P \in Nat /\ Len(rest) \in Nat /\ Len(w) \in Nat /\ w \in Seq(Byte)
  BY <1>1, LenProperties DEF SliceOf
<1>5. Len(w) = Ends(d)[Len(d.blocks)]
  BY DEF LaidOut
<1>6. Ends(d)[win.block - 1] = Len(w)
  BY <1>3, <1>5
<1> QED
  BY <1>1, <1>3, <1>4, <1>6

\* An iterator that is about to return None has handed out every record.
LEMMA EndHandsOutAll ==
    ASSUME CoverInv, status = "reading", remaining = 0 \/ ~HasWindow
    PROVE  Len(delivered) = Len(Returned)
<1>1. /\ SelfContained(dg) /\ IndexInv /\ SeedInv /\ TrailInv /\ phase = "open" /\ TargetOK
      /\ Handed(Returned, delivered, counts[target], remaining)
  BY DEF CoverInv, WindowsInv
<1>2. PICK w, c, k, e, o, size :
          /\ w = WholeStream /\ c = counts[target] /\ k = Len(delivered) /\ e = Len(Returned)
          /\ o = offsets[target] /\ size = RecordSize(dg, dg.groups[target])
  OBVIOUS
<1>3. /\ dg \in DataGroup /\ LaidOut(dg, w) /\ target \in DOMAIN dg.groups
      /\ c \in Nat /\ o \in Seq(Nat) /\ Len(o) \in Nat /\ e \in Nat /\ Len(w) \in Nat
      /\ Unsorted(dg) => IsIndexOf(dg, offsets, w)
      /\ Unsorted(dg) /\ dg.blocks # <<>> => c = Len(o)
      /\ Unsorted(dg) /\ dg.blocks = <<>> => o = <<>>
      /\ ~Unsorted(dg) => size > 0
      /\ Unsorted(dg) => e = Len(o)
      /\ ~Unsorted(dg) => e = Least(Len(w) \div size, c)
  BY <1>1, <1>2, OpenFacts
<1>4. k \in Nat /\ remaining \in Nat /\ k + remaining = c /\ k <= e
  <2>1. PICK S : delivered \in Seq(S)
    BY <1>1 DEF Handed
  <2>2. k \in Nat
    BY <1>2, <2>1, LenProperties
  <2> QED
    BY <1>1, <1>2, <2>2 DEF Handed
<1>5. size \in Nat /\ (~Unsorted(dg) => Len(w) \div size \in Nat /\ e <= c)
  <2>1. size \in Nat
    BY <1>2, <1>3, SizesAre
  <2>2. CASE ~Unsorted(dg)
    <3>1. Len(w) \div size \in Nat
      BY <1>3, <2>1, <2>2, Quotient
    <3>2. e <= c
      BY <1>3, <2>2, <3>1, LeastOfTwo
    <3> QED
      BY <2>1, <3>1, <3>2
  <2> QED
    BY <2>1, <2>2
<1>6. ASSUME remaining = 0
      PROVE  k = e
  <2>1. k = c
    BY <1>3, <1>4, <1>6
  <2>2. CASE ~Unsorted(dg)
    BY <1>3, <1>4, <1>5, <2>1, <2>2
  <2>3. CASE Unsorted(dg) /\ dg.blocks # <<>>
    BY <1>3, <2>1, <2>3
  <2>4. CASE Unsorted(dg) /\ dg.blocks = <<>>
    <3>1. Len(<<>>) = 0
      OBVIOUS
    <3>2. e = 0
      BY <1>3, <2>4, <3>1
    <3> QED
      BY <1>3, <1>4, <3>2
  <2> QED
    BY <2>2, <2>3, <2>4
<1>7. ASSUME ~HasWindow, Unsorted(dg)
      PROVE  k = e
  <2>1. OnTheTrail(dg, offsets, w, target, window, carry, k)
    BY <1>2, <1>7 DEF CoverInv, WindowsInv
  <2>2. PICK q \in Nat : /\ InHand(dg, w, window, carry, Ends(dg)[window.block - 1] + q)
                         /\ CountedTo(o, k, Ends(dg)[window.block - 1] + q)
    BY <1>2, <2>1 DEF OnTheTrail
  <2>3. PICK P : P = Ends(dg)[window.block - 1] + q
    OBVIOUS
  <2>4. /\ Ends(dg)[window.block - 1] = Len(w) /\ P \in Nat /\ Len(carry) \in Nat
        /\ P + Len(carry) = Len(w)
    BY <1>3, <1>7, <2>2, <2>3, PastTheLastBlock DEF HasWindow
  <2>5. P = Len(w)
    BY <1>3, <2>3, <2>4
  <2>6. CountedTo(o, k, P)
    BY <2>2, <2>3
  <2>7. \A i \in 1..Len(o) : i <= k
    <3> SUFFICES ASSUME NEW i \in 1..Len(o)
                 PROVE  i <= k
      OBVIOUS
    <3>1. dg.idSize \in {1, 2} /\ o[i] + dg.idSize <= Len(w) /\ o[i] \in Nat
      <4>1. target \in DOMAIN offsets
        BY <1>3, <1>7 DEF IsIndexOf
      <4>2. o[i] \in Nat
        BY <1>3, ElementOfSeq
      <4> QED
        BY <1>2, <1>3, <1>7, <4>1, <4>2 DEF IsIndexOf
    <3>2. o[i] < P
      BY <1>3, <2>5, <3>1
    <3> QED
      BY <2>6, <3>2 DEF CountedTo
  <2>8. ~(k < Len(o))
    <3>1. k < Len(o) => Len(o) \in 1..Len(o)
      BY <1>3, <1>4
    <3> QED
      BY <1>3, <1>4, <2>7, <3>1
  <2> QED
    BY <1>3, <1>4, <1>7, <2>8
<1>8. ASSUME ~HasWindow, ~Unsorted(dg)
      PROVE  k = e
  <2>1. InStride(dg, w, target, c, window, carry, k)
    BY <1>2, <1>8 DEF CoverInv, WindowsInv
  <2>2. PICK m \in Nat : InHand(dg, w, window, carry, m * size) /\ Len(carry) < size /\ k = Least(m, c)
    BY <1>2, <2>1 DEF InStride
  <2>3. PICK P : P = m * size
    OBVIOUS
  <2>4. P \in Nat /\ Len(carry) \in Nat /\ P + Len(carry) = Len(w)
    BY <1>3, <1>8, <2>2, <2>3, PastTheLastBlock DEF HasWindow
  <2>5. P <= Len(w) /\ Len(w) < P + size
    BY <1>3, <1>5, <2>2, <2>4
  <2>6. Len(w) \div size = m
    BY <1>3, <1>5, <1>8, <2>3, <2>5, QuotientIs
  <2> QED
    BY <1>3, <1>8, <2>2, <2>6
<1>9. k = e
  BY <1>6, <1>7, <1>8
<1> QED
  BY <1>2, <1>9

\* What an iterator has delivered of the promise, in one state.
Kept == /\ status = "closed" => Records(promised) = <<>> /\ Records(delivered) = <<>>
        /\ status # "closed" =>
              /\ Records(promised) = Returned
              /\ Records(delivered) = SubSeq(Returned, 1, Len(delivered))
              /\ Len(delivered) \in Nat /\ Len(delivered) <= Len(Returned)
              /\ Len(Returned) \in Nat
              /\ \E S : Returned \in Seq(S)

LEMMA IsKept == CoverInv => Kept
  BY PromisedIs DEF Kept

\* A longer piece of what is promised.
LEMMA MoreOfIt ==
    ASSUME NEW S, NEW e \in Seq(S), NEW k \in Nat, NEW m \in Nat, k <= m, m <= Len(e)
    PROVE  \/ k = m
           \/ \E n \in 1..(Len(e) - Len(SubSeq(e, 1, k))) :
                 SubSeq(e, 1, m) = SubSeq(e, 1, Len(SubSeq(e, 1, k)) + n)
<1>1. Len(e) \in Nat
  BY LenProperties
<1>2. Len(SubSeq(e, 1, k)) = k
  <2>1. \A i \in 1..k : e[i] \in S
    BY <1>1, ElementOfSeq
  <2> QED
    BY <1>1, <2>1, SubSeqProperties
<1>3. CASE k # m
  <2>1. m - k \in 1..(Len(e) - k) /\ k + (m - k) = m
    BY <1>1, <1>3
  <2> QED
    BY <1>2, <2>1
<1> QED
  BY <1>3

\* A window delivers the next records, or none.
LEMMA DeliverStep ==
    ASSUME Kept, Kept', status = "reading", status' = "reading", phase # "failed", phase' # "failed",
           Returned' = Returned, Len(delivered) <= Len(delivered')
    PROVE  RecordPromise!Deliver \/ UNCHANGED <<promiseStatus, Records(promised), Records(delivered)>>
<1>1. PICK e, k, m : e = Returned /\ k = Len(delivered) /\ m = Len(delivered')
  OBVIOUS
<1>2. PICK S : e \in Seq(S)
  BY <1>1 DEF Kept
<1>3. /\ Records(promised) = e /\ Records(promised)' = e
      /\ Records(delivered) = SubSeq(e, 1, k) /\ Records(delivered)' = SubSeq(e, 1, m)
      /\ k \in Nat /\ m \in Nat /\ k <= m /\ m <= Len(e)
  BY <1>1 DEF Kept
<1>4. promiseStatus = "reading" /\ promiseStatus' = "reading"
  BY DEF promiseStatus
<1>5. CASE k = m
  BY <1>3, <1>4, <1>5
<1>6. CASE k # m
  <2>1. PICK n \in 1..(Len(e) - Len(SubSeq(e, 1, k))) :
            SubSeq(e, 1, m) = SubSeq(e, 1, Len(SubSeq(e, 1, k)) + n)
    BY <1>2, <1>3, <1>6, MoreOfIt
  <2>2. \E x \in 1..(Len(Records(promised)) - Len(Records(delivered))) :
            Records(delivered)' = SubSeq(Records(promised), 1, Len(Records(delivered)) + x)
    BY <1>3, <2>1
  <2> QED
    BY <1>3, <1>4, <2>2 DEF RecordPromise!Deliver
<1> QED
  BY <1>5, <1>6

\* A step of the file and its iterator is a step of the promise, or none.
LEMMA PromiseStep ==
    CoverInv /\ CoverInv' /\ [Next]_vars => [RecordPromise!Next]_(RecordPromise!streamVars)
<1> SUFFICES ASSUME CoverInv, CoverInv', [Next]_vars
             PROVE  RecordPromise!Next \/ UNCHANGED <<promiseStatus, Records(promised), Records(delivered)>>
  BY DEF RecordPromise!streamVars
<1>1. Kept /\ Kept'
  BY IsKept, PTL
<1>2. CASE Index
  <2>1. status = "closed" /\ phase # "failed" /\ UNCHANGED chunkVars
    BY <1>2, IndexStep DEF Index
  <2>2. status' = "closed" /\ delivered' = delivered
    BY <2>1 DEF chunkVars
  <2>3. UNCHANGED <<Records(promised), Records(delivered)>>
    BY <1>1, <2>1, <2>2 DEF Kept
  <2>4. CASE phase' = "failed"
    <3>1. promiseStatus = "closed" /\ promiseStatus' = "failed"
      BY <2>1, <2>4 DEF promiseStatus
    <3> QED
      BY <2>3, <3>1 DEF RecordPromise!Next, RecordPromise!Fail
  <2>5. CASE phase' # "failed"
    <3>1. promiseStatus = "closed" /\ promiseStatus' = "closed"
      BY <2>1, <2>2, <2>5 DEF promiseStatus
    <3> QED
      BY <2>3, <3>1
  <2> QED
    BY <2>4, <2>5
<1>3. CASE OpenChunks
  <2>1. /\ phase = "open" /\ phase' = "open" /\ status = "closed" /\ status' = "reading"
        /\ delivered' = delivered
    BY <1>3 DEF OpenChunks, indexVars
  <2>2. promiseStatus = "closed" /\ promiseStatus' = "reading"
    BY <2>1 DEF promiseStatus
  <2>3. Records(delivered)' = Records(delivered)
    BY <2>1 DEF Records
  <2> QED
    BY <2>2, <2>3 DEF RecordPromise!Next, RecordPromise!Open
<1>4. CASE SortedWindow \/ UnsortedWindow
  <2>1. status = "reading" /\ UNCHANGED <<indexVars, status, target, vlsd>>
    BY <1>4 DEF SortedWindow, UnsortedWindow, Pulling
  <2>2. phase = "open" /\ phase' = "open" /\ Returned' = Returned
    BY <2>1, ReadingStays
  <2>3. Len(delivered) <= Len(delivered')
    BY <1>4, SortedWindowStep, UnsortedWindowStep
  <2>4. status' = "reading" /\ phase # "failed" /\ phase' # "failed"
    BY <2>1, <2>2
  <2> QED
    BY <1>1, <2>1, <2>2, <2>3, <2>4, DeliverStep DEF RecordPromise!Next
<1>5. CASE WindowFails \/ EndChunks
  <2>1. status = "reading" /\ UNCHANGED <<indexVars, target, vlsd, remaining, delivered>>
    BY <1>5 DEF WindowFails, EndChunks, Pulling
  <2>2. phase = "open" /\ phase' = "open" /\ Returned' = Returned
    BY <2>1, ReadingStays
  <2>3. promiseStatus = "reading" /\ promiseStatus' = status'
    BY <2>1, <2>2 DEF promiseStatus
  <2>4. status # "closed" /\ status' # "closed"
    BY <1>5, <2>1 DEF WindowFails, EndChunks
  <2>5. UNCHANGED <<Records(promised), Records(delivered)>>
    BY <1>1, <2>1, <2>2, <2>4 DEF Kept
  <2>6. CASE WindowFails
    <3>1. promiseStatus' = "failed"
      BY <2>3, <2>6 DEF WindowFails
    <3> QED
      BY <2>3, <2>5, <3>1 DEF RecordPromise!Next, RecordPromise!Fail
  <2>7. CASE EndChunks
    <3>1. promiseStatus' = "ended" /\ (remaining = 0 \/ ~HasWindow)
      BY <2>3, <2>7 DEF EndChunks
    <3>2. Len(delivered) = Len(Returned)
      BY <2>1, <3>1, EndHandsOutAll
    <3>3. Records(delivered) = Records(promised)
      <4>1. /\ Records(promised) = Returned /\ Records(delivered) = SubSeq(Returned, 1, Len(Returned))
            /\ Len(Returned) \in Nat /\ \E S : Returned \in Seq(S)
        BY <1>1, <2>4, <3>2 DEF Kept
      <4>2. PICK S, e : e = Returned /\ e \in Seq(S)
        BY <4>1
      <4>3. SubSeq(e, 1, Len(e)) = e
        BY <4>2, SubSeqFull
      <4> QED
        BY <4>1, <4>2, <4>3
    <3> QED
      BY <2>3, <2>5, <3>1, <3>3 DEF RecordPromise!Next, RecordPromise!End
  <2> QED
    BY <1>5, <2>6, <2>7
<1>6. CASE UNCHANGED vars
  <2>1. UNCHANGED <<phase, status, target, vlsd, dg, offsets, counts, delivered>>
    BY <1>6 DEF vars, indexVars, chunkVars
  <2>2. promiseStatus' = promiseStatus /\ Records(delivered)' = Records(delivered)
    BY <2>1 DEF promiseStatus, Records
  <2>3. Returned' = Returned
    BY <2>1, WholeStays DEF Returned
  <2>4. Records(promised)' = Records(promised)
    BY <1>1, <2>1, <2>3 DEF Kept
  <2> QED
    BY <2>2, <2>4
<1> QED
  BY <1>2, <1>3, <1>4, <1>5, <1>6 DEF Next, ReadNext

\* "The chunks together cover the same samples, in the same order, as signal()
\* returns in one piece" (SignalChunks): for every data group whose blocks have
\* no invalidation section of their own and whose interleaved records end in
\* the block they begin in, whatever the budget, the blocks, the IDs and the
\* record sizes, every window delivers the next records signal() returns, none
\* skipped, repeated or cut, and an iterator that ends has delivered them all.
THEOREM ChunksCover == Spec /\ SelfContained(dg) => CoversTheRecords
<1>1. ChunkInit /\ SelfContained(dg) => CoverInv
  BY CoverInit
<1>2. CoverInv /\ [Next]_vars => CoverInv'
  BY CoverStep
<1>3. ChunkInit => RecordPromise!Init
  <2> SUFFICES ASSUME ChunkInit
               PROVE  RecordPromise!Init
    OBVIOUS
  <2>1. status = "closed" /\ delivered = <<>> /\ phase # "failed"
    BY DEF ChunkInit, Init
  <2>2. promised = <<>> /\ promiseStatus = "closed"
    BY <2>1 DEF promised, promiseStatus
  <2>3. Records(<<>>) = <<>>
    BY DEF Records
  <2> QED
    BY <2>1, <2>2, <2>3 DEF RecordPromise!Init
<1>4. CoverInv /\ CoverInv' /\ [Next]_vars => [RecordPromise!Next]_(RecordPromise!streamVars)
  BY PromiseStep
<1> QED
  BY <1>1, <1>2, <1>3, <1>4, PTL DEF Spec, CoversTheRecords, RecordPromise!Spec

(***************************************************************************)
(* The variable-length payloads a window hands over.                       *)
(***************************************************************************)

\* The payload at o in the stream w, and that w holds all of it.
Cargo(w, o) ==
    SubSeq(w, o + dg.idSize + Prefix + 1, o + dg.idSize + Prefix + Field(w, o + dg.idSize, Prefix))

WholeCargo(w, o) ==
    /\ o + dg.idSize + Prefix <= Len(w)
    /\ o + dg.idSize + Prefix + Field(w, o + dg.idSize, Prefix) <= Len(w)

\* The group of the payloads, found by its record ID.
CarrierOK ==
    /\ vlsd \in GroupIds /\ vlsd # 0
    /\ dg.groups[vlsd].vlsd
    /\ GroupWithId(dg, dg.groups[vlsd].id) = vlsd

LEMMA CarrierIsNamed ==
    ASSUME CarrierOK, NEW b, NEW p
    PROVE  /\ IsPayload(b, p) <=> IsOf(b, p, vlsd)
           /\ IsOf(b, p, vlsd) => GroupAt(dg, b, p) = vlsd
<1>1. IsOf(b, p, vlsd) => GroupAt(dg, b, p) = vlsd
  BY DEF CarrierOK, IsOf, GroupAt
<1> QED
  BY <1>1 DEF CarrierOK, IsPayload

\* One step of the walk over a payload: what it takes is what the stream has there.
LEMMA PayloadTaken ==
    ASSUME CarrierOK, NEW b, NEW w, NEW n, NEW q, Hand(b, w, n, q), NEW p \in 0..Len(b),
           Takeable(b, p), IsPayload(b, p),
           NEW P, P = Ends(dg)[n - 1] + (q + p)
    PROVE  /\ PayloadAt(b, p) = Cargo(w, P)
           /\ WholeCargo(w, P)
<1>1. GroupAt(dg, b, p) = vlsd /\ dg.groups[vlsd].vlsd
  BY CarrierIsNamed DEF CarrierOK
<1>2. dg \in DataGroup /\ dg.idSize \in Nat
  BY DEF Hand, DataGroup
<1>3. PICK i, l, a : i = dg.idSize /\ l = LengthAt(dg, b, p) /\ a = Ends(dg)[n - 1]
  OBVIOUS
<1>4. q \in Nat /\ Len(b) \in Nat /\ p \in Nat /\ a \in Nat /\ SliceOf(b, w, a + q)
  <2>1. q \in Nat /\ Len(b) \in Nat /\ a \in Nat
    BY <1>3, HandNumbers
  <2> QED
    BY <1>3, <2>1 DEF Hand
<1>5. p + dg.idSize + Prefix <= Len(b)
  BY <1>1 DEF Takeable, Measurable
<1>6. After(dg, b, p) = p + i + Prefix + l /\ After(dg, b, p) <= Len(b)
  BY <1>1, <1>3 DEF After, Takeable
<1>7. l = LengthAt(dg, w, (a + q) + p) /\ l \in Nat
  BY <1>2, <1>3, <1>4, <1>5, SameLength
<1>8. (a + q) + p = P /\ P \in Nat
  BY <1>3, <1>4
<1>9. l = Field(w, P + i, Prefix)
  BY <1>3, <1>7, <1>8 DEF LengthAt
<1>10. PICK x, y : x = i + Prefix /\ y = (i + Prefix) + l
  OBVIOUS
<1>11. /\ x \in Nat /\ y \in Nat /\ x <= y
       /\ p + x = p + i + Prefix /\ p + y = p + i + Prefix + l
       /\ P + x = P + i + Prefix /\ P + y = P + i + Prefix + l
  <2>1. i \in Nat /\ l \in Nat /\ p \in Nat /\ P \in Nat /\ Prefix \in Nat
    BY <1>2, <1>3, <1>4, <1>7, <1>8, PrefixAssumption
  <2> QED
    BY ONLY <1>10, <2>1
<1>12. CutAlike(b, w, p, Ends(dg)[n - 1] + (q + p), x, y)
  <2>1. p + y <= Len(b)
    BY <1>6, <1>11
  <2> QED
    BY <1>11, <2>1, HandCut
<1>13. SubSeq(b, p + x + 1, p + y) = SubSeq(w, P + x + 1, P + y) /\ P + y <= Len(w)
  BY <1>12 DEF CutAlike
<1>14. SubSeq(b, p + i + Prefix + 1, p + i + Prefix + l)
          = SubSeq(w, P + i + Prefix + 1, P + i + Prefix + l)
  BY ONLY <1>11, <1>13
<1>15. P + i + Prefix <= Len(w)
  <2>1. Len(w) \in Nat
    BY <1>4, LenProperties DEF SliceOf
  <2>2. P + x <= P + y
    BY <1>8, <1>11
  <2>3. P + x <= Len(w)
    BY ONLY <1>8, <1>11, <1>13, <2>1, <2>2
  <2> QED
    BY <1>11, <2>3
<1>16. PayloadAt(b, p) = SubSeq(b, p + i + Prefix + 1, p + i + Prefix + l)
  BY <1>3, <1>6 DEF PayloadAt
<1>17. P + i + Prefix + l <= Len(w)
  BY <1>11, <1>13
<1>18. PayloadAt(b, p) = SubSeq(w, P + i + Prefix + 1, P + i + Prefix + l)
  BY <1>14, <1>16
<1> QED
  BY <1>3, <1>9, <1>15, <1>17, <1>18 DEF Cargo, WholeCargo

\* What one step counts of the payloads, and the one it takes.
LEMMA PayloadCounts ==
    ASSUME CarrierOK, NEW b, NEW w, NEW n, NEW q, Hand(b, w, n, q), NEW p \in 0..Len(b),
           OnTrail(dg, offsets, n, q + p), Takeable(b, p),
           NEW k, CountedTo(offsets[vlsd], k, Ends(dg)[n - 1] + (q + p))
    PROVE  /\ IsPayload(b, p) =>
                 /\ CountedTo(offsets[vlsd], k + 1, Ends(dg)[n - 1] + (q + After(dg, b, p)))
                 /\ PayloadAt(b, p) = Cargo(w, offsets[vlsd][k + 1])
                 /\ WholeCargo(w, offsets[vlsd][k + 1])
           /\ ~IsPayload(b, p) =>
                 CountedTo(offsets[vlsd], k, Ends(dg)[n - 1] + (q + After(dg, b, p)))
<1>1. PICK P, Q : P = Ends(dg)[n - 1] + (q + p) /\ Q = Ends(dg)[n - 1] + (q + After(dg, b, p))
  OBVIOUS
<1>2. vlsd \in DOMAIN dg.groups /\ GroupWithId(dg, dg.groups[vlsd].id) = vlsd
  BY DEF CarrierOK, GroupIds
<1>3. /\ IsOf(b, p, vlsd) => offsets[vlsd][k + 1] = P /\ CountedTo(offsets[vlsd], k + 1, Q)
      /\ ~IsOf(b, p, vlsd) => CountedTo(offsets[vlsd], k, Q)
  BY <1>1, <1>2, StepCountsOf
<1>4. IsPayload(b, p) <=> IsOf(b, p, vlsd)
  BY CarrierIsNamed
<1>5. IsPayload(b, p) => PayloadAt(b, p) = Cargo(w, P) /\ WholeCargo(w, P)
  BY <1>1, PayloadTaken
<1> QED
  BY <1>1, <1>3, <1>4, <1>5

\* What a walk over b has taken of the payloads when it stops, with the first k
\* of them behind where it began.
Ships(r, b, w, n, q, k) ==
    /\ OnTrail(dg, offsets, n, q + r.consumed)
    /\ ~Takeable(b, r.consumed)
    /\ CountedTo(offsets[vlsd], k + Len(r.payloads), Ends(dg)[n - 1] + (q + r.consumed))
    /\ \A i \in 1..Len(r.payloads) :
          r.payloads[i] = Cargo(w, offsets[vlsd][k + i]) /\ WholeCargo(w, offsets[vlsd][k + i])

ShipsFrom(p, f, b, w, n, q) ==
    \A k \in Nat :
        OnTrail(dg, offsets, n, q + p) /\ CountedTo(offsets[vlsd], k, Ends(dg)[n - 1] + (q + p)) =>
            Ships(f[p], b, w, n, q, k)

\* The walk that begins with a payload takes it and what is behind it.
LEMMA ShipsOneMore ==
    ASSUME NEW b, NEW w, NEW n, NEW q, NEW k \in Nat, NEW r, NEW rest, NEW x \in Seq(Byte),
           rest.payloads \in Seq(Seq(Byte)), r.payloads = <<x>> \o rest.payloads,
           r.consumed = rest.consumed, Ships(rest, b, w, n, q, k + 1),
           x = Cargo(w, offsets[vlsd][k + 1]), WholeCargo(w, offsets[vlsd][k + 1])
    PROVE  Ships(r, b, w, n, q, k)
<1>1. /\ Len(r.payloads) = 1 + Len(rest.payloads) /\ Len(rest.payloads) \in Nat
      /\ r.payloads[1] = x
      /\ \A i \in 2..(1 + Len(rest.payloads)) : r.payloads[i] = rest.payloads[i - 1]
  BY OneBefore
<1>2. (k + 1) + Len(rest.payloads) = k + Len(r.payloads)
  <2>1. PICK l, m : l = Len(rest.payloads) /\ m = Len(r.payloads)
    OBVIOUS
  <2>2. l \in Nat /\ m = 1 + l
    BY <1>1, <2>1
  <2>3. (k + 1) + l = k + m
    BY ONLY <2>2, k \in Nat
  <2> QED
    BY <2>1, <2>3
<1>3. ASSUME NEW i \in 1..Len(r.payloads)
      PROVE  /\ r.payloads[i] = Cargo(w, offsets[vlsd][k + i])
             /\ WholeCargo(w, offsets[vlsd][k + i])
  <2>1. CASE i = 1
    BY <1>1, <2>1
  <2>2. CASE i # 1
    <3>1. i \in 2..(1 + Len(rest.payloads)) /\ i - 1 \in 1..Len(rest.payloads) /\ (k + 1) + (i - 1) = k + i
      BY <1>1, <2>2
    <3>2. /\ rest.payloads[i - 1] = Cargo(w, offsets[vlsd][(k + 1) + (i - 1)])
          /\ WholeCargo(w, offsets[vlsd][(k + 1) + (i - 1)])
      BY <3>1 DEF Ships
    <3> QED
      BY <1>1, <3>1, <3>2
  <2> QED
    BY <2>1, <2>2
<1>4. /\ OnTrail(dg, offsets, n, q + rest.consumed)
      /\ ~Takeable(b, rest.consumed)
      /\ CountedTo(offsets[vlsd], (k + 1) + Len(rest.payloads), Ends(dg)[n - 1] + (q + rest.consumed))
  BY DEF Ships
<1> QED
  BY <1>2, <1>3, <1>4 DEF Ships

LEMMA WalkShips ==
    ASSUME CarrierOK, NEW b, NEW w, NEW n, NEW q, Hand(b, w, n, q), NEW f, WalksBy(f, b)
    PROVE  \A p \in 0..Len(b) : ShipsFrom(p, f, b, w, n, q)
<1> DEFINE o == offsets[vlsd]
           at == Ends(dg)[n - 1]
           T == {m \in Nat : \A p \in 0..Len(b) : p + m >= Len(b) => ShipsFrom(p, f, b, w, n, q)}
<1>1. Len(b) \in Nat /\ b \in Seq(Byte)
  BY HandNumbers
<1>2. ASSUME NEW p \in 0..Len(b), ~Takeable(b, p)
      PROVE  ShipsFrom(p, f, b, w, n, q)
  <2> SUFFICES ASSUME NEW k \in Nat, OnTrail(dg, offsets, n, q + p), CountedTo(o, k, at + (q + p))
               PROVE  Ships(f[p], b, w, n, q, k)
    BY DEF ShipsFrom
  <2>1. PICK r : r = f[p]
    OBVIOUS
  <2>2. r.payloads = <<>> /\ r.consumed = p
    BY <1>2, <2>1 DEF WalksBy
  <2>3. Len(r.payloads) = 0 /\ k + Len(r.payloads) = k /\ 1..Len(r.payloads) = {}
    BY <2>2
  <2>4. Ships(r, b, w, n, q, k)
    BY <1>2, <2>2, <2>3 DEF Ships
  <2> QED
    BY <2>1, <2>4
<1>3. ASSUME NEW p \in 0..Len(b), Takeable(b, p), ShipsFrom(After(dg, b, p), f, b, w, n, q)
      PROVE  ShipsFrom(p, f, b, w, n, q)
  <2> SUFFICES ASSUME NEW k \in Nat, OnTrail(dg, offsets, n, q + p), CountedTo(o, k, at + (q + p))
               PROVE  Ships(f[p], b, w, n, q, k)
    BY DEF ShipsFrom
  <2>1. PICK next : next = After(dg, b, p)
    OBVIOUS
  <2>2. PICK r, rest : r = f[p] /\ rest = f[next]
    OBVIOUS
  <2>3. /\ next \in 0..Len(b) /\ next > p
        /\ r.payloads = IF IsPayload(b, p) THEN <<PayloadAt(b, p)>> \o rest.payloads ELSE rest.payloads
        /\ r.consumed = rest.consumed
        /\ rest.payloads \in Seq(Seq(Byte))
    BY <1>3, <2>1, <2>2 DEF WalksBy
  <2>4. OnTrail(dg, offsets, n, q + next)
    BY <1>3, <2>1, StepOnTrail
  <2>5. /\ IsPayload(b, p) => /\ CountedTo(o, k + 1, at + (q + next))
                              /\ PayloadAt(b, p) = Cargo(w, o[k + 1])
                              /\ WholeCargo(w, o[k + 1])
        /\ ~IsPayload(b, p) => CountedTo(o, k, at + (q + next))
    BY <1>3, <2>1, PayloadCounts
  <2>6. \A j \in Nat : CountedTo(o, j, at + (q + next)) => Ships(rest, b, w, n, q, j)
    BY <1>3, <2>1, <2>2, <2>4 DEF ShipsFrom
  <2>7. CASE IsPayload(b, p)
    <3>1. Ships(rest, b, w, n, q, k + 1)
      BY <2>5, <2>6, <2>7
    <3>2. r.payloads = <<PayloadAt(b, p)>> \o rest.payloads /\ PayloadAt(b, p) \in Seq(Byte)
      <4>1. dg \in DataGroup /\ target \in GroupIds
        BY DEF Hand
      <4> QED
        BY <1>1, <1>3, <2>3, <2>7, <4>1, TakeableStep
    <3>3. Ships(r, b, w, n, q, k)
      BY <2>3, <2>5, <2>7, <3>1, <3>2, ShipsOneMore
    <3> QED
      BY <2>2, <3>3
  <2>8. CASE ~IsPayload(b, p)
    <3>1. Ships(rest, b, w, n, q, k)
      BY <2>5, <2>6, <2>8
    <3>2. r.payloads = rest.payloads /\ r.consumed = rest.consumed
      BY <2>3, <2>8
    <3>3. Ships(r, b, w, n, q, k)
      BY <3>1, <3>2 DEF Ships
    <3> QED
      BY <2>2, <3>3
  <2> QED
    BY <2>7, <2>8
<1>4. 0 \in T
  <2> SUFFICES ASSUME NEW p \in 0..Len(b), p + 0 >= Len(b)
               PROVE  ShipsFrom(p, f, b, w, n, q)
    OBVIOUS
  <2>1. ~Takeable(b, p)
    BY <1>1 DEF WalksBy
  <2> QED
    BY <1>2, <2>1
<1>5. ASSUME NEW m \in T
      PROVE  m + 1 \in T
  <2> SUFFICES ASSUME NEW p \in 0..Len(b), p + (m + 1) >= Len(b)
               PROVE  ShipsFrom(p, f, b, w, n, q)
    OBVIOUS
  <2>1. CASE Takeable(b, p)
    <3>1. After(dg, b, p) \in 0..Len(b) /\ After(dg, b, p) > p
      BY <2>1 DEF WalksBy
    <3>2. m \in Nat /\ After(dg, b, p) + m >= Len(b)
      BY <1>1, <3>1
    <3>3. ShipsFrom(After(dg, b, p), f, b, w, n, q)
      BY <3>1, <3>2
    <3> QED
      BY <1>3, <2>1, <3>3
  <2>2. CASE ~Takeable(b, p)
    BY <1>2, <2>2
  <2> QED
    BY <2>1, <2>2
<1> HIDE DEF T
<1>6. T = Nat
  <2>1. T \in SUBSET Nat
    BY DEF T
  <2> QED
    BY <2>1, <1>4, <1>5, NumberInduction
<1>7. \A p \in 0..Len(b) : p + Len(b) >= Len(b)
  BY <1>1
<1> QED
  BY <1>1, <1>6, <1>7 DEF T

\* The payloads a window takes are the next ones of the stream, each of them whole.
LEMMA PayloadWindow ==
    ASSUME dg \in DataGroup, Plain(dg),
           \A n \in 1..Len(dg.blocks) : EndsWithin(dg, dg.blocks[n].data),
           NEW w, LaidOut(dg, w), IsIndexOf(dg, offsets, w),
           target \in GroupIds, ~dg.groups[target].vlsd, offsets[target] # <<>>, CarrierOK,
           HasWindow, NEW k \in Nat,
           OnTheTrail(dg, offsets, w, vlsd, window, carry, k)
    PROVE  LET buffer == carry \o WindowBytes
               taken == Collect(buffer)
               rest == IF EndsBlock THEN <<>> ELSE Tailing(buffer, taken.consumed)
           IN  /\ taken.payloads \in Seq(Seq(Byte))
               /\ k + Len(taken.payloads) <= Len(offsets[vlsd])
               /\ \A i \in 1..Len(taken.payloads) :
                     /\ taken.payloads[i] = Cargo(w, offsets[vlsd][k + i])
                     /\ WholeCargo(w, offsets[vlsd][k + i])
               /\ OnTheTrail(dg, offsets, w, vlsd, NextWindow, rest, k + Len(taken.payloads))
<1>1. PICK n, buffer, taken : n = window.block /\ buffer = carry \o WindowBytes /\ taken = Collect(buffer)
  OBVIOUS
<1>2. PICK q \in Nat :
          /\ InHand(dg, w, window, carry, Ends(dg)[n - 1] + q)
          /\ CountedTo(offsets[vlsd], k, Ends(dg)[n - 1] + q)
          /\ n <= Len(dg.blocks) => OnTrail(dg, offsets, n, q)
  BY <1>1 DEF OnTheTrail
<1>3. /\ n \in 1..Len(dg.blocks) /\ Hand(buffer, w, n, q)
      /\ q + Len(buffer) = IF EndsBlock THEN Len(dg.blocks[n].data) ELSE window.start + WindowLength
  BY <1>1, <1>2, WindowInHand
<1>4. OnTrail(dg, offsets, n, q)
  BY <1>2, <1>3
<1>5. /\ Ships(taken, buffer, w, n, q, k)
      /\ taken.consumed \in 0..Len(buffer)
      /\ taken.payloads \in Seq(Seq(Byte))
  <2>1. buffer \in Seq(Byte) /\ Len(buffer) \in Nat
    BY <1>3, HandNumbers
  <2>2. PICK f : WalksBy(f, buffer) /\ taken = f[0]
    BY <1>1, <2>1, CollectWalks
  <2>3. 0 \in 0..Len(buffer) /\ q + 0 = q
    BY <2>1
  <2>4. ShipsFrom(0, f, buffer, w, n, q)
    BY <1>3, <2>2, <2>3, WalkShips
  <2>5. Ships(f[0], buffer, w, n, q, k)
    BY <1>2, <1>4, <2>3, <2>4 DEF ShipsFrom
  <2>6. f[0] \in [records : Seq(Seq(Byte)), payloads : Seq(Seq(Byte)), consumed : 0..Len(buffer)]
    BY <2>2, <2>3 DEF WalksBy
  <2> QED
    BY <2>2, <2>5, <2>6
<1>6. PICK m, c : m = k + Len(taken.payloads) /\ c = taken.consumed
  OBVIOUS
<1>7. /\ OnTrail(dg, offsets, n, q + c)
      /\ ~Takeable(buffer, c)
      /\ CountedTo(offsets[vlsd], m, Ends(dg)[n - 1] + (q + c))
      /\ \A i \in 1..Len(taken.payloads) :
            /\ taken.payloads[i] = Cargo(w, offsets[vlsd][k + i])
            /\ WholeCargo(w, offsets[vlsd][k + i])
  BY <1>5, <1>6 DEF Ships
<1>8. m <= Len(offsets[vlsd])
  BY <1>7 DEF CountedTo
<1>9. OnTheTrail(dg, offsets, w, vlsd, NextWindow, IF EndsBlock THEN <<>> ELSE Tailing(buffer, c), m)
  <2>1. c \in 0..Len(buffer) /\ vlsd \in DOMAIN offsets
    BY <1>5, <1>6 DEF CarrierOK, IsIndexOf, GroupIds
  <2> QED
    BY <1>1, <1>2, <1>3, <1>7, <2>1, TrailMovesOn
<1> QED
  BY <1>1, <1>5, <1>6, <1>7, <1>8, <1>9

(***************************************************************************)
(* Numbering payloads.                                                     *)
(***************************************************************************)

\* Behind(ps, first)[n] is where the payload after the first n is numbered.
Behind(ps, first) ==
    LET behind[n \in 0..Len(ps)] ==
            IF n = 0 THEN first ELSE behind[n - 1] + Prefix + Len(ps[n])
    IN  behind

LEMMA BehindAre ==
    ASSUME NEW ps \in Seq(Seq(Byte)), NEW first \in Nat
    PROVE  /\ Behind(ps, first) \in [0..Len(ps) -> Nat]
           /\ Behind(ps, first)[0] = first
           /\ \A n \in 1..Len(ps) :
                 Behind(ps, first)[n] = Behind(ps, first)[n - 1] + Prefix + Len(ps[n])
<1> DEFINE N == Len(ps)
           F == [n \in 1..N |-> [x \in Nat |-> x + Prefix + Len(ps[n])]]
<1>1. N \in Nat /\ Prefix \in Nat /\ \A n \in 1..N : Len(ps[n]) \in Nat
  <2>1. \A n \in 1..N : ps[n] \in Seq(Byte)
    BY ElementOfSeq
  <2> QED
    BY <2>1, LenProperties, PrefixAssumption
<1>2. F \in [1..N -> [Nat -> Nat]]
  <2>1. ASSUME NEW n \in 1..N
        PROVE  [x \in Nat |-> x + Prefix + Len(ps[n])] \in [Nat -> Nat]
    <3>1. PICK l : l = Len(ps[n])
      OBVIOUS
    <3>2. l \in Nat
      BY <1>1, <3>1
    <3>3. \A x \in Nat : x + Prefix + l \in Nat
      BY <1>1, <3>2
    <3> QED
      BY <3>1, <3>3
  <2> HIDE DEF N
  <2> QED
    BY <2>1
<1>3. PICK f : IsRecursion(f, N, Nat, first, F)
  <2> HIDE DEF F, N
  <2> QED
    BY <1>1, <1>2, Recursion
<1>4. f = [n \in 0..N |-> IF n = 0 THEN first ELSE f[n - 1] + Prefix + Len(ps[n])]
  <2>1. f \in [0..N -> Nat] /\ f = [n \in 0..N |-> IF n = 0 THEN first ELSE F[n][f[n - 1]]]
    BY <1>3 DEF IsRecursion
  <2>2. ASSUME NEW n \in 0..N, n # 0
        PROVE  F[n][f[n - 1]] = f[n - 1] + Prefix + Len(ps[n])
    <3>1. n \in 1..N /\ n - 1 \in 0..N
      BY <1>1, <2>2
    <3>2. f[n - 1] \in Nat
      BY <2>1, <3>1
    <3> QED
      BY <3>1, <3>2
  <2> HIDE DEF F, N
  <2>3. [n \in 0..N |-> IF n = 0 THEN first ELSE F[n][f[n - 1]]]
          = [n \in 0..N |-> IF n = 0 THEN first ELSE f[n - 1] + Prefix + Len(ps[n])]
    BY <2>2
  <2> QED
    BY <2>1, <2>3
<1> DEFINE E == Behind(ps, first)
<1>5. E = [n \in 0..N |-> IF n = 0 THEN first ELSE E[n - 1] + Prefix + Len(ps[n])]
  BY <1>4 DEF Behind
<1> HIDE DEF E, N, F
<1> DEFINE T == {n \in Nat : n <= N => E[n] \in Nat}
<1>6. 0 \in T
  BY <1>1, <1>5
<1>7. ASSUME NEW n \in T
      PROVE  n + 1 \in T
  <2> SUFFICES ASSUME n + 1 <= N
               PROVE  E[n + 1] \in Nat
    OBVIOUS
  <2>1. n \in Nat /\ n + 1 \in 0..N /\ n + 1 \in 1..N /\ n + 1 # 0 /\ (n + 1) - 1 = n /\ n <= N
    BY <1>1
  <2>2. E[n + 1] = E[n] + Prefix + Len(ps[n + 1])
    BY <1>5, <2>1
  <2> QED
    BY <1>1, <2>1, <2>2
<1> HIDE DEF T
<1>8. T = Nat
  <2>1. T \in SUBSET Nat
    BY DEF T
  <2> QED
    BY <2>1, <1>6, <1>7, NumberInduction
<1>9. \A n \in 0..N : E[n] \in Nat
  BY <1>1, <1>8 DEF T
<1>10. E \in [0..N -> Nat]
  BY <1>5, <1>9
<1>11. \A n \in 1..N : n \in 0..N /\ n # 0
  BY <1>1
<1>12. \A n \in 1..N : E[n] = E[n - 1] + Prefix + Len(ps[n])
  BY <1>5, <1>11
<1>13. E[0] = first
  BY <1>1, <1>5
<1> QED
  BY <1>10, <1>12, <1>13 DEF E, N

\* What a table holds: each payload where the one before it ends.
IsTable(t, ps, first) ==
    /\ DOMAIN t = 1..Len(ps) /\ Len(t) = Len(ps) /\ (t = <<>> <=> Len(ps) = 0)
    /\ \A n \in 1..Len(ps) : t[n].at \in Nat /\ t[n].bytes = ps[n] /\ Len(ps[n]) \in Nat
    /\ Len(ps) > 0 => t[1].at = first
    /\ \A n \in 1..Len(ps) :
          n + 1 <= Len(ps) => t[n + 1].at = t[n].at + Prefix + Len(t[n].bytes)

LEMMA NumberedIsTable ==
    ASSUME NEW ps \in Seq(Seq(Byte)), NEW first \in Nat
    PROVE  IsTable(Numbered(ps, first), ps, first)
<1>1. PICK b, N, t : b = Behind(ps, first) /\ N = Len(ps) /\ t = Numbered(ps, first)
  OBVIOUS
<1>2. t = [n \in 1..N |-> [at |-> b[n - 1], bytes |-> ps[n]]]
  BY <1>1 DEF Numbered, Behind
<1>3. N \in Nat /\ \A n \in 1..N : Len(ps[n]) \in Nat
  BY <1>1, LenProperties, ElementOfSeq
<1>4. /\ b \in [0..N -> Nat] /\ b[0] = first
      /\ \A n \in 1..N : b[n] = b[n - 1] + Prefix + Len(ps[n])
  BY <1>1, BehindAre
<1>5. \A n \in 1..N : t[n].at = b[n - 1] /\ t[n].bytes = ps[n]
  BY <1>2
<1>6. \A n \in 1..N : n - 1 \in 0..N
  BY <1>3
<1>7. \A n \in 1..N : t[n].at \in Nat
  BY <1>4, <1>5, <1>6
<1>8. Len(t) = N /\ DOMAIN t = 1..N /\ (t = <<>> <=> N = 0)
  <2> DEFINE M == {t[n] : n \in 1..N}
  <2>1. t \in [1..N -> M]
    BY <1>2
  <2> HIDE DEF M
  <2>2. t \in Seq(M) /\ Len(t) = N /\ DOMAIN t = 1..N
    BY <1>3, <2>1, LenProperties, SeqDef
  <2>3. t = <<>> <=> N = 0
    BY <2>2, EmptySeq
  <2> QED
    BY <2>2, <2>3
<1>9. N > 0 => t[1].at = first
  <2> SUFFICES ASSUME N > 0
               PROVE  t[1].at = first
    OBVIOUS
  <2>1. 1 \in 1..N /\ 1 - 1 = 0
    BY <1>3
  <2> QED
    BY <1>4, <1>5, <2>1
<1>10. ASSUME NEW n \in 1..N, n + 1 <= N
       PROVE  t[n + 1].at = t[n].at + Prefix + Len(t[n].bytes)
  <2>1. n + 1 \in 1..N /\ (n + 1) - 1 = n
    BY <1>3, <1>10
  <2> QED
    BY <1>4, <1>5, <2>1
<1> QED
  BY <1>1, <1>3, <1>5, <1>7, <1>8, <1>9, <1>10 DEF IsTable

\* Where the payload after the k-th of a table is numbered.
Reached(t, k) == IF k = 0 THEN 0 ELSE t[k].at + Prefix + Len(t[k].bytes)

\* Each payload is numbered after those before it.
LEMMA TableAscends ==
    ASSUME NEW t, NEW ps, NEW first, Len(ps) \in Nat, IsTable(t, ps, first)
    PROVE  \A i, j \in 1..Len(ps) : i < j => t[i].at < t[j].at
<1> DEFINE N == Len(ps)
           T == {m \in Nat : \A i \in 1..N : i + m + 1 <= N => t[i].at < t[i + m + 1].at}
<1>1. \A n \in 1..N : t[n].at \in Nat /\ Len(t[n].bytes) \in Nat
  BY DEF IsTable
<1>2. ASSUME NEW n \in 1..N, n + 1 <= N
      PROVE  t[n].at < t[n + 1].at
  <2>1. t[n + 1].at = t[n].at + Prefix + Len(t[n].bytes)
    BY <1>2 DEF IsTable
  <2>2. PICK a, l, c : a = t[n].at /\ l = Len(t[n].bytes) /\ c = t[n + 1].at
    OBVIOUS
  <2>3. a \in Nat /\ l \in Nat /\ c = a + Prefix + l
    BY <1>1, <1>2, <2>1, <2>2
  <2>4. a < c
    BY ONLY <2>3, PrefixAssumption
  <2> QED
    BY <2>2, <2>4
<1>3. N \in Nat
  OBVIOUS
<1> HIDE DEF N
<1>4. 0 \in T
  <2> SUFFICES ASSUME NEW i \in 1..N, i + 0 + 1 <= N
               PROVE  t[i].at < t[i + 0 + 1].at
    OBVIOUS
  <2>1. i + 0 + 1 = i + 1
    BY <1>3
  <2> QED
    BY <1>2, <2>1
<1>5. ASSUME NEW m \in T
      PROVE  m + 1 \in T
  <2> SUFFICES ASSUME NEW i \in 1..N, i + (m + 1) + 1 <= N
               PROVE  t[i].at < t[i + (m + 1) + 1].at
    OBVIOUS
  <2>1. PICK j : j = i + m + 1
    OBVIOUS
  <2>2. m \in Nat /\ j \in 1..N /\ j + 1 <= N /\ i + (m + 1) + 1 = j + 1 /\ j + 1 \in 1..N
    BY <1>3, <2>1
  <2>3. t[i].at < t[j].at
    BY <1>3, <2>1, <2>2
  <2>4. t[j].at < t[j + 1].at
    BY <1>2, <2>2
  <2>5. PICK a, b, c : a = t[i].at /\ b = t[j].at /\ c = t[j + 1].at
    OBVIOUS
  <2>6. a \in Nat /\ b \in Nat /\ c \in Nat
    BY <1>1, <2>2, <2>5
  <2>7. a < c
    BY <2>3, <2>4, <2>5, <2>6
  <2> QED
    BY <2>2, <2>5, <2>7
<1> HIDE DEF T
<1>6. T = Nat
  <2>1. T \in SUBSET Nat
    BY DEF T
  <2> QED
    BY <2>1, <1>4, <1>5, NumberInduction
<1>7. ASSUME NEW i \in 1..N, NEW j \in 1..N, i < j
      PROVE  t[i].at < t[j].at
  <2>1. PICK m : m = j - i - 1
    OBVIOUS
  <2>2. m \in Nat /\ i + m + 1 = j /\ j <= N
    BY <1>3, <1>7, <2>1
  <2>3. t[i].at < t[i + m + 1].at
    BY <1>6, <2>2 DEF T
  <2> QED
    BY <2>2, <2>3
<1> QED
  BY <1>7 DEF N

\* The n entries of t are those of the table all behind its first k.
PartOf(t, all, k, n) ==
    \A i \in 1..n : t[i].at = all[k + i].at /\ t[i].bytes = all[k + i].bytes

\* A table that numbers the payloads behind the first k as the table of all of
\* them does: the same numbers, and the same place where it ends.
LEMMA SameNumbers ==
    ASSUME NEW all, NEW es, Len(es) \in Nat, IsTable(all, es, 0),
           NEW t, NEW ps, Len(ps) \in Nat, NEW k \in Nat, IsTable(t, ps, Reached(all, k)),
           k + Len(ps) <= Len(es), \A i \in 1..Len(ps) : ps[i] = es[k + i]
    PROVE  PartOf(t, all, k, Len(ps))
<1> DEFINE N == Len(ps)
           M == Len(es)
           T == {i \in Nat : i + 1 <= N => t[i + 1].at = all[k + (i + 1)].at}
<1>1. N \in Nat /\ M \in Nat /\ k + N <= M
  OBVIOUS
<1>2. /\ \A n \in 1..N : t[n].bytes = ps[n]
      /\ N > 0 => t[1].at = Reached(all, k)
      /\ \A n \in 1..N : n + 1 <= N => t[n + 1].at = t[n].at + Prefix + Len(t[n].bytes)
  BY DEF IsTable
<1>3. /\ \A n \in 1..M : all[n].bytes = es[n]
      /\ M > 0 => all[1].at = 0
      /\ \A n \in 1..M : n + 1 <= M => all[n + 1].at = all[n].at + Prefix + Len(all[n].bytes)
  BY DEF IsTable
<1>4. \A i \in 1..N : ps[i] = es[k + i]
  OBVIOUS
<1> HIDE DEF N, M
<1>5. \A i \in 1..N : k + i \in 1..M
  BY <1>1
<1>6. \A i \in 1..N : t[i].bytes = all[k + i].bytes
  BY <1>2, <1>3, <1>4, <1>5
<1>7. 0 \in T
  <2> SUFFICES ASSUME 0 + 1 <= N
               PROVE  t[0 + 1].at = all[k + (0 + 1)].at
    OBVIOUS
  <2>1. 0 + 1 = 1 /\ N > 0 /\ M > 0 /\ k + 1 <= M
    BY <1>1
  <2>2. CASE k = 0
    <3>1. k + 1 = 1
      BY <2>2
    <3> QED
      BY <1>2, <1>3, <2>1, <2>2, <3>1 DEF Reached
  <2>3. CASE k # 0
    <3>1. k \in 1..M
      BY <1>1, <2>3
    <3>2. all[k + 1].at = all[k].at + Prefix + Len(all[k].bytes)
      BY <1>3, <2>1, <3>1
    <3> QED
      BY <1>2, <2>1, <2>3, <3>2 DEF Reached
  <2> QED
    BY <2>2, <2>3
<1>8. ASSUME NEW i \in T
      PROVE  i + 1 \in T
  <2> SUFFICES ASSUME (i + 1) + 1 <= N
               PROVE  t[(i + 1) + 1].at = all[k + ((i + 1) + 1)].at
    OBVIOUS
  <2>1. PICK j : j = i + 1
    OBVIOUS
  <2>2. j \in 1..N /\ j + 1 <= N /\ k + j \in 1..M /\ (k + j) + 1 <= M /\ k + (j + 1) = (k + j) + 1
    BY <1>1, <2>1
  <2>3. t[j].at = all[k + j].at
    BY <2>1, <2>2
  <2>4. t[j + 1].at = t[j].at + Prefix + Len(t[j].bytes)
    BY <1>2, <2>2
  <2>5. all[(k + j) + 1].at = all[k + j].at + Prefix + Len(all[k + j].bytes)
    BY <1>3, <2>2
  <2>6. t[j].bytes = all[k + j].bytes
    BY <1>6, <2>2
  <2>7. t[j + 1].at = all[(k + j) + 1].at
    BY ONLY <2>3, <2>4, <2>5, <2>6
  <2> QED
    BY <2>1, <2>2, <2>7
<1> HIDE DEF T
<1>9. T = Nat
  <2>1. T \in SUBSET Nat
    BY DEF T
  <2> QED
    BY <2>1, <1>7, <1>8, NumberInduction
<1>10. ASSUME NEW i \in 1..N
       PROVE  t[i].at = all[k + i].at
  <2>1. i - 1 \in Nat /\ (i - 1) + 1 = i /\ i <= N
    BY <1>1
  <2>2. (i - 1) + 1 <= N => t[(i - 1) + 1].at = all[k + ((i - 1) + 1)].at
    BY <1>9, <2>1 DEF T
  <2> QED
    BY <2>1, <2>2
<1> QED
  BY <1>6, <1>10 DEF N, PartOf

\* VlsdPayloads::next_base is where the next of all payloads is numbered.
LEMMA BaseMovesOn ==
    ASSUME NEW all, NEW es, Len(es) \in Nat, IsTable(all, es, 0),
           NEW t, NEW ps, Len(ps) \in Nat, NEW k \in Nat, IsTable(t, ps, Reached(all, k)),
           k + Len(ps) <= Len(es), \A i \in 1..Len(ps) : ps[i] = es[k + i],
           payloadBase = Reached(all, k)
    PROVE  BaseAfter(t) = Reached(all, k + Len(ps))
<1>1. /\ Len(t) = Len(ps) /\ (t = <<>> <=> Len(ps) = 0)
  BY DEF IsTable
<1>2. CASE Len(ps) = 0
  <2>1. BaseAfter(t) = payloadBase
    BY <1>1, <1>2 DEF BaseAfter
  <2>2. k + Len(ps) = k
    BY <1>2
  <2> QED
    BY <2>1, <2>2
<1>3. CASE Len(ps) # 0
  <2>1. PICK n : n = Len(ps)
    OBVIOUS
  <2>2. n \in 1..Len(ps) /\ k + n # 0
    BY <1>3, <2>1
  <2>3. t[n].at = all[k + n].at /\ t[n].bytes = all[k + n].bytes
    BY <2>2, SameNumbers DEF PartOf
  <2>4. BaseAfter(t) = t[n].at + Prefix + Len(t[n].bytes)
    BY <1>1, <1>3, <2>1 DEF BaseAfter
  <2> QED
    BY <2>1, <2>2, <2>3, <2>4 DEF Reached
<1> QED
  BY <1>2, <1>3

\* A table that is part of another finds the same payload, or none.
LEMMA ResolvesAlike ==
    ASSUME NEW all, NEW es, Len(es) \in Nat, IsTable(all, es, 0),
           NEW t, NEW ps, Len(ps) \in Nat, NEW k \in Nat, NEW first, IsTable(t, ps, first),
           k + Len(ps) <= Len(es),
           PartOf(t, all, k, Len(ps)),
           NEW x
    PROVE  Resolve(t, x) \in {Resolve(all, x), <<>>}
<1>1. DOMAIN t = 1..Len(ps) /\ DOMAIN all = 1..Len(es)
  BY DEF IsTable
<1>2. PICK here, there : /\ here = {n \in DOMAIN t : t[n].at = x}
                         /\ there = {n \in DOMAIN all : all[n].at = x}
  OBVIOUS
<1>3. CASE here = {}
  BY <1>2, <1>3 DEF Resolve
<1>4. CASE here # {}
  <2>1. PICK m : m = CHOOSE n \in here : TRUE
    OBVIOUS
  <2>2. m \in here
    BY <1>4, <2>1
  <2>3. Resolve(t, x) = t[m].bytes
    BY <1>2, <1>4, <2>1 DEF Resolve
  <2>4. m \in 1..Len(ps) /\ t[m].at = x
    BY <1>1, <1>2, <2>2
  <2>5. k + m \in 1..Len(es) /\ all[k + m].at = x /\ all[k + m].bytes = t[m].bytes
    BY <2>4 DEF PartOf
  <2>6. k + m \in there
    BY <1>1, <1>2, <2>5
  <2>7. PICK a : a = CHOOSE n \in there : TRUE
    OBVIOUS
  <2>8. a \in there /\ there # {}
    BY <2>6, <2>7
  <2>9. Resolve(all, x) = all[a].bytes
    BY <1>2, <2>7, <2>8 DEF Resolve
  <2>10. a \in 1..Len(es) /\ all[a].at = all[k + m].at
    BY <1>1, <1>2, <2>5, <2>8
  <2>11. a = k + m
    <3>1. \A i, j \in 1..Len(es) : i < j => all[i].at < all[j].at
      BY TableAscends
    <3>2. PICK b, v : b = k + m /\ v = all[a].at
      OBVIOUS
    <3>3. b \in 1..Len(es) /\ all[b].at = v /\ v \in Nat /\ a \in 1..Len(es)
      BY <2>5, <2>10, <3>2 DEF IsTable
    <3>4. ~(a < b) /\ ~(b < a)
      BY <3>1, <3>2, <3>3
    <3>5. a = b
      BY <3>3, <3>4
    <3> QED
      BY <3>2, <3>5
  <2> QED
    BY <2>3, <2>5, <2>9, <2>11
<1> QED
  BY <1>3, <1>4

\* What VlsdPayloads::from_records keeps of w: the payloads up to one that is
\* not whole.
AreFirstCargoes(es, w) ==
    /\ es \in Seq(Seq(Byte)) /\ Len(es) \in Nat
    /\ Len(es) <= Len(offsets[vlsd])
    /\ \A i \in 1..Len(es) : es[i] = Cargo(w, offsets[vlsd][i])
    /\ Len(es) < Len(offsets[vlsd]) => ~WholeCargo(w, offsets[vlsd][Len(es) + 1])

LEMMA CargoBytes ==
    ASSUME dg \in DataGroup, NEW w \in Seq(Byte), NEW o \in Nat, WholeCargo(w, o)
    PROVE  Cargo(w, o) \in Seq(Byte)
<1>1. PICK i, l, m : i = dg.idSize /\ l = Field(w, o + i, Prefix) /\ m = Len(w)
  OBVIOUS
<1>2. i \in Nat /\ m \in Nat
  BY <1>1, LenProperties DEF DataGroup
<1>3. o + i + Prefix <= m /\ o + i + Prefix + l <= m
  BY <1>1 DEF WholeCargo
<1>4. l \in Nat
  <2>1. SliceOf(w, w, 0)
    <3>1. \A j \in 1..Len(w) : 0 + j = j
      BY LenProperties
    <3>2. 0 + Len(w) <= Len(w)
      BY LenProperties
    <3> QED
      BY <3>1, <3>2 DEF SliceOf
  <2>2. LengthAt(dg, w, o) \in Nat
    BY <1>1, <1>3, <2>1, SameLength
  <2> QED
    BY <1>1, <2>2 DEF LengthAt
<1>5. PICK x, y : x = o + i + Prefix /\ y = o + i + Prefix + l
  OBVIOUS
<1>6. x \in Nat /\ y \in Nat /\ x <= y /\ y <= m
  <2>1. Prefix \in Nat
    BY PrefixAssumption
  <2> QED
    BY ONLY <1>2, <1>3, <1>4, <1>5, <2>1, o \in Nat
<1>7. SubSeq(w, x + 1, y) \in Seq(Byte)
  BY <1>1, <1>6, SubSeqIsSlice DEF SliceOf
<1> QED
  BY <1>1, <1>5, <1>7 DEF Cargo

\* The first places, up to one that is not in W.
LEMMA FirstOutside ==
    ASSUME NEW N \in Nat, NEW W
    PROVE  \E n \in 0..N : (\A i \in 1..n : i \in W) /\ (n < N => n + 1 \notin W)
<1> DEFINE S == {n \in 0..N : n = N \/ n + 1 \notin W}
<1>1. S \in SUBSET Nat /\ S # {}
  <2>1. N \in 0..N /\ \A n \in 0..N : n \in Nat
    OBVIOUS
  <2>2. N \in S
    BY <2>1
  <2> QED
    BY <2>1, <2>2
<1>2. PICK n \in S : \A m \in S : n <= m
  BY <1>1, LeastNumber
<1>3. ASSUME NEW i \in 1..n
      PROVE  i \in W
  <2>1. i - 1 \in 0..N /\ i - 1 < n /\ (i - 1) + 1 = i /\ i - 1 # N
    BY <1>2
  <2>2. i - 1 \notin S
    BY <1>2, <2>1
  <2> QED
    BY <2>1, <2>2
<1> QED
  BY <1>2, <1>3

LEMMA IndexedAre ==
    ASSUME dg \in DataGroup, NEW w \in Seq(Byte), offsets[vlsd] \in Seq(Nat)
    PROVE  AreFirstCargoes(IndexedPayloads(w), w)
<1> DEFINE o == offsets[vlsd]
           N == Len(o)
           W == {i \in 1..N : WholeCargo(w, o[i])}
           P(n) == (\A i \in 1..n : WholeCargo(w, o[i])) /\ (n < N => ~WholeCargo(w, o[n + 1]))
           c == CHOOSE n \in 0..N : P(n)
<1>1. N \in Nat /\ \A i \in 1..N : o[i] \in Nat
  BY LenProperties, ElementOfSeq
<1>2. PICK n \in 0..N : P(n)
  <2> HIDE DEF N, P
  <2>1. PICK n \in 0..N : (\A i \in 1..n : i \in W) /\ (n < N => n + 1 \notin W)
    <3> HIDE DEF W
    <3> QED
      BY <1>1, FirstOutside
  <2>2. n < N => n + 1 \in 1..N
    BY <1>1
  <2>3. P(n)
    BY <2>1, <2>2 DEF P
  <2> QED
    BY <2>3
<1>3. c \in 0..N /\ P(c)
  <2> HIDE DEF N, P
  <2> QED
    BY <1>2
<1>4. IndexedPayloads(w) = [i \in 1..c |-> Cargo(w, o[i])]
  BY DEF IndexedPayloads, WholeCargo, Cargo
<1> HIDE DEF c
<1>5. PICK e : e = IndexedPayloads(w)
  OBVIOUS
<1>6. \A i \in 1..c : e[i] = Cargo(w, o[i]) /\ e[i] \in Seq(Byte)
  <2>1. \A i \in 1..c : e[i] = Cargo(w, o[i])
    BY <1>4, <1>5
  <2>2. ASSUME NEW i \in 1..c
        PROVE  Cargo(w, o[i]) \in Seq(Byte)
    <3>1. i \in 1..N /\ WholeCargo(w, o[i])
      BY <1>1, <1>3
    <3> HIDE DEF o, N
    <3> QED
      BY <1>1, <3>1, CargoBytes
  <2> QED
    BY <2>1, <2>2
<1>7. e \in Seq(Seq(Byte)) /\ Len(e) = c
  <2>1. e \in [1..c -> Seq(Byte)]
    BY <1>4, <1>5, <1>6
  <2>2. c \in Nat
    BY <1>1, <1>3
  <2> QED
    BY <2>1, <2>2, LenProperties, SeqDef
<1>8. AreFirstCargoes(e, w)
  BY <1>1, <1>3, <1>6, <1>7 DEF AreFirstCargoes
<1> QED
  BY <1>5, <1>8

\* The whole payloads behind the first k are among those that are kept.
LEMMA KeptCargoes ==
    ASSUME NEW es, NEW w, AreFirstCargoes(es, w), Len(offsets[vlsd]) \in Nat,
           NEW k \in Nat, k <= Len(es),
           NEW n \in Nat, k + n <= Len(offsets[vlsd]),
           \A i \in 1..n : WholeCargo(w, offsets[vlsd][k + i])
    PROVE  k + n <= Len(es)
<1> SUFFICES ASSUME ~(k + n <= Len(es))
             PROVE  FALSE
  OBVIOUS
<1>1. PICK l, i : l = Len(es) /\ i = (l + 1) - k
  OBVIOUS
<1>2. l \in Nat /\ l < Len(offsets[vlsd]) /\ i \in 1..n /\ k + i = l + 1
  <2>1. l \in Nat
    BY <1>1 DEF AreFirstCargoes
  <2> QED
    BY <1>1, <2>1
<1>3. ~WholeCargo(w, offsets[vlsd][l + 1])
  BY <1>1, <1>2 DEF AreFirstCargoes
<1> QED
  BY <1>2, <1>3

\* What a window's samples are: the records it handed out, by its own table.
LEMMA HandsOutSamples ==
    ASSUME NEW S, delivered \in Seq(S), NEW records, Len(records) \in Nat, remaining \in Nat,
           NEW table, HandOut(records, table)
    PROVE  /\ Len(delivered') <= Len(delivered) + Len(records) /\ Len(delivered) \in Nat
           /\ \A i \in 1..Len(delivered') :
                 /\ i <= Len(delivered) => i \in 1..Len(delivered) /\ delivered'[i] = delivered[i]
                 /\ ~(i <= Len(delivered)) =>
                       delivered'[i] = Sample(records[i - Len(delivered)], table)
<1>1. PICK n : n = Least(Len(records), remaining)
  OBVIOUS
<1> DEFINE more == [i \in 1..n |-> Sample(records[i], table)]
           M == {Sample(records[i], table) : i \in 1..n}
           U == S \cup M
<1>2. delivered' = delivered \o more /\ n \in Nat /\ n <= Len(records)
  BY <1>1 DEF HandOut, Least
<1>3. more \in Seq(M) /\ Len(more) = n
  <2>1. more \in [1..n -> M]
    OBVIOUS
  <2> HIDE DEF M, more
  <2> QED
    BY <1>2, <2>1, LenProperties, SeqDef
<1>4. \A i \in 1..n : more[i] = Sample(records[i], table)
  OBVIOUS
<1> HIDE DEF more, M
<1>5. delivered \in Seq(U) /\ more \in Seq(U)
  <2>1. S \subseteq U /\ M \subseteq U
    OBVIOUS
  <2> HIDE DEF U
  <2> QED
    BY <1>3, <2>1, SeqMonotonic
<1> HIDE DEF U
<1>6. PICK k, both : k = Len(delivered) /\ both = delivered \o more
  OBVIOUS
<1>7. /\ k \in Nat /\ Len(both) = k + n
      /\ \A i \in 1..k + n : both[i] = IF i <= k THEN delivered[i] ELSE more[i - k]
  <2>1. k \in Nat
    BY <1>5, <1>6, LenProperties
  <2> QED
    BY <1>3, <1>5, <1>6, <2>1, ConcatProperties
<1>8. ASSUME NEW i \in 1..Len(both)
      PROVE  /\ i <= k => i \in 1..k /\ both[i] = delivered[i]
             /\ ~(i <= k) => both[i] = Sample(records[i - k], table)
  <2>1. i \in 1..k + n
    BY <1>7
  <2>2. ~(i <= k) => i - k \in 1..n
    BY <1>2, <1>7, <2>1
  <2>3. i <= k => i \in 1..k
    BY <1>7, <2>1
  <2> QED
    BY <1>4, <1>7, <2>1, <2>2, <2>3
<1>9. Len(both) <= k + Len(records)
  BY <1>2, <1>7
<1> QED
  BY <1>2, <1>6, <1>7, <1>8, <1>9

(***************************************************************************)
(* No sample has the payload of another.                                   *)
(***************************************************************************)

\* The variable-length payloads of the stream, and the table signal() makes of them.
AllPayloads == IndexedPayloads(WholeStream)
AllTable == IF vlsd = 0 THEN <<>> ELSE Numbered(AllPayloads, 0)

\* A payload group is the one that is found by its record ID.
PayloadsNamed(d) ==
    \A g \in DOMAIN d.groups : d.groups[g].vlsd => GroupWithId(d, d.groups[g].id) = g

\* Each sample has the value signal() gives it, or none.
ValuesOf(given, e, table) ==
    \A i \in 1..Len(given) : given[i].value \in {Sample(e[i], table).value, <<>>}

\* The payloads handed over by the windows so far: the first of the stream's.
NumberedTo(k) ==
    /\ OnTheTrail(dg, offsets, WholeStream, vlsd, window, carry, k)
    /\ k <= Len(AllPayloads)
    /\ payloadBase = Reached(AllTable, k)

PayloadsInv ==
    /\ status = "closed" => payloadBase = 0
    /\ status # "closed" => /\ vlsd # 0 => Unsorted(dg) /\ vlsd \in GroupIds /\ dg.groups[vlsd].vlsd
                            /\ ValuesOf(delivered, Returned, AllTable)
    /\ (status = "reading" /\ vlsd # 0) => \E k \in Nat : NumberedTo(k)

LEMMA PayloadsInit == ChunkInit => PayloadsInv
  BY DEF ChunkInit, PayloadsInv

LEMMA TableStays ==
    ASSUME dg' = dg, offsets' = offsets, vlsd' = vlsd
    PROVE  AllPayloads' = AllPayloads /\ AllTable' = AllTable
<1>1. WholeStream' = WholeStream
  BY WholeStays
<1>2. AllPayloads' = AllPayloads
  BY <1>1 DEF AllPayloads, IndexedPayloads
<1>3. PICK e : e = AllPayloads
  OBVIOUS
<1> QED
  BY <1>2 DEF AllTable, Numbered

\* Of a sample that is what another is but for the table, the value is the same or none.
LEMMA ValueAlike ==
    ASSUME NEW record, NEW table, NEW all,
           vlsd # 0 => \A x : Resolve(table, x) \in {Resolve(all, x), <<>>}
    PROVE  Sample(record, table).value \in {Sample(record, all).value, <<>>}
<1>1. CASE vlsd = 0
  BY <1>1 DEF Sample
<1>2. CASE vlsd # 0
  BY <1>2 DEF Sample
<1> QED
  BY <1>1, <1>2

\* What a window hands out has the values signal() gives it, when its table is
\* part of the one signal() makes.
LEMMA ValuesGoOn ==
    ASSUME NEW e, NEW cnt, NEW cnt2, Handed(e, delivered, cnt, remaining),
           Handed(e, delivered', cnt2, remaining'),
           NEW records, Len(records) \in Nat, NEW table, HandOut(records, table),
           NEW all, ValuesOf(delivered, e, all), vlsd' = vlsd,
           vlsd # 0 => \A x : Resolve(table, x) \in {Resolve(all, x), <<>>}
    PROVE  ValuesOf(delivered', e, all)
<1>1. PICK k : k = Len(delivered)
  OBVIOUS
<1>2. \A i \in 1..Len(delivered') :
          /\ i <= k => i \in 1..k /\ delivered'[i] = delivered[i]
          /\ ~(i <= k) => delivered'[i] = Sample(records[i - k], table)
  <2>1. PICK S : delivered \in Seq(S)
    BY DEF Handed
  <2>2. remaining \in Nat
    BY DEF Handed
  <2> QED
    BY <1>1, <2>1, <2>2, HandsOutSamples
<1> SUFFICES ASSUME NEW i \in 1..Len(delivered')
             PROVE  delivered'[i].value \in {Sample(e[i], all).value, <<>>}
  BY DEF ValuesOf
<1>3. CASE i <= k
  BY <1>1, <1>2, <1>3 DEF ValuesOf
<1>4. CASE ~(i <= k)
  <2>1. PICK r : r = records[i - k]
    OBVIOUS
  <2>2. delivered'[i] = Sample(r, table)
    BY <1>2, <1>4, <2>1
  <2>3. delivered'[i].record = e[i]
    BY DEF Handed
  <2>4. r = e[i]
    BY <2>2, <2>3 DEF Sample
  <2>5. Sample(e[i], table).value \in {Sample(e[i], all).value, <<>>}
    BY ValueAlike
  <2> QED
    BY <2>2, <2>4, <2>5
<1> QED
  BY <1>3, <1>4

\* Between two states of one reading of one channel.
SameReading ==
    /\ dg' = dg /\ offsets' = offsets /\ vlsd' = vlsd
    /\ Returned' = Returned /\ (Unsorted(dg)' <=> Unsorted(dg))

LEMMA ValuesStay ==
    ASSUME PayloadsInv, status # "closed", SameReading,
           ValuesOf(delivered', Returned, AllTable)
    PROVE  /\ (vlsd # 0 => Unsorted(dg) /\ vlsd \in GroupIds /\ dg.groups[vlsd].vlsd)'
           /\ ValuesOf(delivered, Returned, AllTable)'
<1>1. AllTable' = AllTable
  BY TableStays DEF SameReading
<1>2. PICK e, all : e = Returned /\ all = AllTable
  OBVIOUS
<1>3. \A i \in 1..Len(delivered') : delivered'[i].value \in {Sample(e[i], all).value, <<>>}
  BY <1>2 DEF ValuesOf
<1>4. vlsd' = vlsd /\ Returned' = e /\ AllTable' = all
  BY <1>1, <1>2 DEF SameReading
<1>5. \A i \in 1..Len(delivered') : delivered'[i].value \in {(Sample(Returned[i], AllTable).value)', <<>>}
  BY <1>3, <1>4 DEF Sample
<1>6. ValuesOf(delivered, Returned, AllTable)'
  BY <1>5 DEF ValuesOf
<1> QED
  BY <1>6 DEF PayloadsInv, SameReading, GroupIds

\* What an opened data group gives the readings of it.
LEMMA OpenedIs ==
    ASSUME CoverInv, phase = "open", Unsorted(dg)
    PROVE  /\ dg \in DataGroup /\ Plain(dg) /\ LaidOut(dg, WholeStream)
           /\ IsIndexOf(dg, offsets, WholeStream)
           /\ \A n \in 1..Len(dg.blocks) : EndsWithin(dg, dg.blocks[n].data)
           /\ DOMAIN offsets = GroupIds
           /\ \A g \in GroupIds : offsets[g] \in Seq(Nat) /\ Len(offsets[g]) \in Nat
<1>1. dg \in DataGroup /\ offsets \in [GroupIds -> Seq(Nat)]
  BY DEF CoverInv, IndexInv, TypeOK
<1>2. Plain(dg) /\ \A n \in 1..Len(dg.blocks) : EndsWithin(dg, dg.blocks[n].data)
  <2>1. DOMAIN dg.blocks = 1..Len(dg.blocks)
    BY <1>1, BlocksAreBlocks
  <2> QED
    BY <2>1 DEF CoverInv, SelfContained, Plain
<1>3. LaidOut(dg, WholeStream)
  BY <1>1, <1>2, WholeIsLaidOut
<1>4. IsIndexOf(dg, offsets, WholeStream)
  BY OpenIsIndexed DEF CoverInv
<1>5. \A g \in GroupIds : Len(offsets[g]) \in Nat
  BY <1>1, LenProperties
<1> QED
  BY <1>1, <1>2, <1>3, <1>4, <1>5

LEMMA PayloadsAre ==
    CoverInv /\ phase = "open" /\ Unsorted(dg) /\ vlsd \in GroupIds =>
        AreFirstCargoes(AllPayloads, WholeStream) /\ 0 <= Len(AllPayloads)
<1> SUFFICES ASSUME CoverInv, phase = "open", Unsorted(dg), vlsd \in GroupIds
             PROVE  AreFirstCargoes(AllPayloads, WholeStream) /\ 0 <= Len(AllPayloads)
  OBVIOUS
<1>1. PICK w : w = WholeStream
  OBVIOUS
<1>2. dg \in DataGroup /\ offsets[vlsd] \in Seq(Nat) /\ w \in Seq(Byte)
  BY <1>1, OpenedIs DEF LaidOut
<1>3. AreFirstCargoes(IndexedPayloads(w), w)
  BY <1>2, IndexedAre
<1>4. AreFirstCargoes(AllPayloads, WholeStream)
  BY <1>1, <1>3 DEF AllPayloads
<1>5. Len(AllPayloads) \in Nat
  BY <1>4 DEF AreFirstCargoes
<1> QED
  BY <1>4, <1>5

LEMMA PayloadsOpen ==
    ASSUME CoverInv, CoverInv', PayloadsInv, OpenChunks
    PROVE  PayloadsInv'
<1>1. /\ phase = "open" /\ status = "closed" /\ status' = "reading"
      /\ UNCHANGED <<indexVars, window, carry, payloadBase, delivered>>
      /\ vlsd' \in {0} \cup GroupIds
      /\ vlsd' # 0 => dg.groups[vlsd'].vlsd /\ Unsorted(dg)
  BY DEF OpenChunks
<1>2. /\ delivered' = <<>> /\ carry' = <<>> /\ window' = [block |-> 1, start |-> 0]
      /\ dg' = dg /\ offsets' = offsets /\ phase' = "open" /\ payloadBase' = 0
      /\ WholeStream' = WholeStream
  BY <1>1, WholeStays DEF CoverInv, WindowsInv, PayloadsInv, indexVars
<1>3. ValuesOf(delivered, Returned, AllTable)'
  <2>1. Len(<<>>) = 0 /\ 1..0 = {}
    OBVIOUS
  <2> QED
    BY <1>2, <2>1 DEF ValuesOf
<1>4. vlsd' # 0 => /\ Unsorted(dg)' /\ (vlsd \in GroupIds)' /\ dg'.groups[vlsd'].vlsd
                   /\ Unsorted(dg) /\ vlsd' \in GroupIds
  BY <1>1, <1>2 DEF GroupIds
<1>5. ASSUME vlsd' # 0
      PROVE  NumberedTo(0)'
  <2>1. PICK v, w, win : v = vlsd' /\ w = WholeStream /\ win = [block |-> 1, start |-> 0]
    OBVIOUS
  <2>2. OnTheTrail(dg, offsets, w, v, win, <<>>, 0)
    <3>1. /\ dg \in DataGroup /\ LaidOut(dg, w) /\ IsIndexOf(dg, offsets, w)
          /\ \A n \in 1..Len(dg.blocks) : EndsWithin(dg, dg.blocks[n].data)
          /\ v \in DOMAIN offsets
      BY <1>1, <1>4, <1>5, <2>1, OpenedIs
    <3> QED
      BY <2>1, <3>1, TrailStarts
  <2>3. OnTheTrail(dg, offsets, WholeStream, vlsd, window, carry, 0)'
    BY <1>2, <2>1, <2>2
  <2>4. (0 <= Len(AllPayloads))'
    <3>1. (CoverInv /\ phase = "open" /\ Unsorted(dg) /\ vlsd \in GroupIds)'
      BY <1>2, <1>4, <1>5
    <3>2. (CoverInv /\ phase = "open" /\ Unsorted(dg) /\ vlsd \in GroupIds =>
               AreFirstCargoes(AllPayloads, WholeStream) /\ 0 <= Len(AllPayloads))'
      BY PayloadsAre, PTL
    <3> QED
      BY <3>1, <3>2
  <2>5. (payloadBase = Reached(AllTable, 0))'
    BY <1>2 DEF Reached
  <2> QED
    BY <2>3, <2>4, <2>5 DEF NumberedTo
<1>6. (vlsd # 0 => \E k \in Nat : NumberedTo(k))'
  <2>1. 0 \in Nat
    OBVIOUS
  <2> QED
    BY <1>5, <2>1
<1> QED
  BY <1>1, <1>3, <1>4, <1>6 DEF PayloadsInv

\* The bytes a window is walked over are bytes.
LEMMA WindowIsBytes ==
    ASSUME CoverInv, status = "reading", HasWindow
    PROVE  carry \o WindowBytes \in Seq(Byte) /\ Len(carry \o WindowBytes) \in Nat
<1>1. PICK w, k, b : w = WholeStream /\ k = Len(delivered) /\ b = carry \o WindowBytes
  OBVIOUS
<1>2. phase = "open" /\ TargetOK
  BY DEF CoverInv, WindowsInv
<1>3. dg \in DataGroup /\ Plain(dg) /\ LaidOut(dg, w)
  BY <1>1, <1>2, OpenFacts DEF CoverInv
<1>4. \E P : InHand(dg, w, window, carry, P)
  <2>1. CASE Unsorted(dg)
    <3>1. OnTheTrail(dg, offsets, w, target, window, carry, k)
      BY <1>1, <2>1 DEF CoverInv, WindowsInv
    <3> QED
      BY <3>1 DEF OnTheTrail
  <2>2. CASE ~Unsorted(dg)
    <3>1. InStride(dg, w, target, counts[target], window, carry, k)
      BY <1>1, <2>2 DEF CoverInv, WindowsInv
    <3> QED
      BY <3>1 DEF InStride
  <2> QED
    BY <2>1, <2>2
<1>5. PICK P : InHand(dg, w, window, carry, P)
  BY <1>4
<1>6. SliceOf(b, w, P)
  BY <1>1, <1>3, <1>5, BufferIsSlice
<1>7. b \in Seq(Byte)
  BY <1>6 DEF SliceOf
<1> QED
  BY <1>1, <1>7, LenProperties

\* It takes a number of records from them.
LEMMA WindowRecords ==
    ASSUME CoverInv, status = "reading", HasWindow
    PROVE  /\ Len(Collect(carry \o WindowBytes).records) \in Nat
           /\ ~Unsorted(dg) => Len(carry \o WindowBytes) \div RecordSize(dg, dg.groups[target]) \in Nat
<1>1. PICK b : b = carry \o WindowBytes
  OBVIOUS
<1>2. b \in Seq(Byte) /\ Len(b) \in Nat
  BY <1>1, WindowIsBytes
<1>3. dg \in DataGroup /\ TargetOK
  BY DEF CoverInv, WindowsInv, IndexInv, TypeOK
<1>4. target \in GroupIds /\ target \in DOMAIN dg.groups
  BY <1>3 DEF TargetOK, GroupIds
<1>5. Len(Collect(b).records) \in Nat
  <2>1. PICK f : WalksBy(f, b) /\ Collect(b) = f[0]
    BY <1>2, <1>3, <1>4, CollectWalks
  <2>2. 0 \in 0..Len(b)
    BY <1>2
  <2>3. f[0].records \in Seq(Seq(Byte))
    BY <2>1, <2>2 DEF WalksBy
  <2> QED
    BY <2>1, <2>3, LenProperties
<1>6. ~Unsorted(dg) => Len(b) \div RecordSize(dg, dg.groups[target]) \in Nat
  <2> SUFFICES ASSUME ~Unsorted(dg)
               PROVE  Len(b) \div RecordSize(dg, dg.groups[target]) \in Nat
    OBVIOUS
  <2>1. RecordSize(dg, dg.groups[target]) \in Nat /\ RecordSize(dg, dg.groups[target]) > 0
    BY <1>3, <1>4, SizesAre DEF TargetOK
  <2> QED
    BY <1>2, <2>1, Quotient
<1> QED
  BY <1>1, <1>5, <1>6

\* In a sorted data group there are no payloads to number.
LEMMA PayloadsSorted ==
    ASSUME CoverInv, CoverInv', PayloadsInv, SortedWindow
    PROVE  PayloadsInv'
<1>1. /\ status = "reading" /\ ~Unsorted(dg)
      /\ UNCHANGED <<indexVars, status, target, vlsd, payloadBase>>
  BY DEF SortedWindow, Pulling
<1>2. /\ TargetOK' /\ dg' = dg /\ offsets' = offsets /\ vlsd' = vlsd
      /\ Returned' = Returned /\ (Unsorted(dg)' <=> Unsorted(dg))
      /\ Handed(Returned, delivered, counts[target], remaining)
  BY <1>1, ReadingStays
<1>3. vlsd = 0
  BY <1>1 DEF PayloadsInv
<1>4. ValuesOf(delivered', Returned, AllTable)
  <2>1. PICK buffer, size, whole :
            /\ buffer = carry \o WindowBytes /\ size = RecordSize(dg, dg.groups[target])
            /\ whole = Len(buffer) \div size
    OBVIOUS
  <2>2. PICK records : records = [i \in 1..whole |-> SubSeq(buffer, (i - 1) * size + dg.idSize + 1, i * size)]
    OBVIOUS
  <2>3. HandOut(records, <<>>)
    BY <2>1, <2>2 DEF SortedWindow
  <2>4. Len(records) \in Nat
    <3>1. whole \in Nat
      BY <1>1, <2>1, WindowRecords DEF SortedWindow, Pulling
    <3> DEFINE M == {records[i] : i \in 1..whole}
    <3>2. records \in [1..whole -> M]
      BY <2>2
    <3> HIDE DEF M
    <3> QED
      BY <3>1, <3>2, LenProperties, SeqDef
  <2>5. PICK e, all, cnt : e = Returned /\ all = AllTable /\ cnt = counts'[target']
    OBVIOUS
  <2>6. Handed(e, delivered', cnt, remaining')
    BY <1>1, <1>2, <2>5 DEF CoverInv, WindowsInv
  <2>7. ValuesOf(delivered, e, all)
    BY <1>1, <2>5 DEF PayloadsInv
  <2>8. ValuesOf(delivered', e, all)
    BY <1>2, <1>3, <2>3, <2>4, <2>5, <2>6, <2>7, ValuesGoOn
  <2> QED
    BY <2>5, <2>8
<1>5. /\ (vlsd # 0 => Unsorted(dg) /\ vlsd \in GroupIds /\ dg.groups[vlsd].vlsd)'
      /\ ValuesOf(delivered, Returned, AllTable)'
  BY <1>1, <1>2, <1>4, ValuesStay DEF SameReading
<1>6. status' = "reading" /\ vlsd' = 0
  BY <1>1, <1>2, <1>3
<1> QED
  BY <1>5, <1>6 DEF PayloadsInv

\* Where payloads are numbered, a window numbers its own as the whole stream does.
LEMMA WindowNumbers ==
    ASSUME CoverInv, PayloadsNamed(dg), PayloadsInv, status = "reading", HasWindow, vlsd # 0,
           remaining > 0,
           NEW taken, taken = Collect(carry \o WindowBytes),
           NEW rest, rest = (IF EndsBlock THEN <<>> ELSE Tailing(carry \o WindowBytes, taken.consumed)),
           NEW table, table = Numbered(taken.payloads, payloadBase)
    PROVE  /\ \A x : Resolve(table, x) \in {Resolve(AllTable, x), <<>>}
           /\ \E k \in Nat :
                 /\ OnTheTrail(dg, offsets, WholeStream, vlsd, NextWindow, rest, k)
                 /\ k <= Len(AllPayloads)
                 /\ BaseAfter(table) = Reached(AllTable, k)
<1>1. /\ phase = "open" /\ TargetOK /\ Unsorted(dg)
      /\ vlsd \in GroupIds /\ dg.groups[vlsd].vlsd
      /\ Handed(Returned, delivered, counts[target], remaining)
  BY DEF CoverInv, WindowsInv, PayloadsInv
<1>2. PICK w : w = WholeStream
  OBVIOUS
<1>3. /\ dg \in DataGroup /\ Plain(dg) /\ LaidOut(dg, w) /\ IsIndexOf(dg, offsets, w)
      /\ \A n \in 1..Len(dg.blocks) : EndsWithin(dg, dg.blocks[n].data)
      /\ Len(offsets[vlsd]) \in Nat
  BY <1>1, <1>2, OpenedIs
<1>4. CarrierOK
  BY <1>1 DEF CarrierOK, PayloadsNamed, GroupIds
<1>5. PICK k \in Nat : NumberedTo(k)
  BY DEF PayloadsInv
<1>6. /\ OnTheTrail(dg, offsets, w, vlsd, window, carry, k)
      /\ k <= Len(AllPayloads) /\ payloadBase = Reached(AllTable, k)
  BY <1>2, <1>5 DEF NumberedTo
<1>7. target \in GroupIds /\ ~dg.groups[target].vlsd /\ offsets[target] # <<>>
  <2>1. target \in GroupIds /\ ~dg.groups[target].vlsd
    BY <1>1 DEF TargetOK
  <2>2. dg.blocks # <<>>
    <3>1. IsPlace(dg, window)
      BY <1>6 DEF OnTheTrail, InHand
    <3>2. window.block \in 1..Len(dg.blocks)
      BY <1>3, <3>1, BlocksAreBlocks DEF IsPlace, HasWindow
    <3>3. Len(<<>>) = 0
      OBVIOUS
    <3> QED
      BY <3>2, <3>3
  <2>3. counts[target] = Len(offsets[target])
    BY <1>1, <2>2, OpenFacts DEF CoverInv
  <2>4. PICK S : delivered \in Seq(S)
    BY <1>1 DEF Handed
  <2>5. Len(delivered) \in Nat
    BY <2>4, LenProperties
  <2>6. Len(delivered) + remaining = Len(offsets[target]) /\ remaining \in Nat
    BY <1>1, <2>3 DEF Handed
  <2>7. Len(offsets[target]) # 0
    BY <2>5, <2>6
  <2>8. Len(<<>>) = 0
    OBVIOUS
  <2> QED
    BY <2>1, <2>7, <2>8
<1>8. /\ taken.payloads \in Seq(Seq(Byte))
      /\ k + Len(taken.payloads) <= Len(offsets[vlsd])
      /\ \A i \in 1..Len(taken.payloads) :
            /\ taken.payloads[i] = Cargo(w, offsets[vlsd][k + i])
            /\ WholeCargo(w, offsets[vlsd][k + i])
      /\ OnTheTrail(dg, offsets, w, vlsd, NextWindow, rest, k + Len(taken.payloads))
  BY <1>3, <1>4, <1>6, <1>7, PayloadWindow
<1>9. PICK es, all, ps : es = AllPayloads /\ all = AllTable /\ ps = taken.payloads
  OBVIOUS
<1>10. AreFirstCargoes(es, w)
  BY <1>1, <1>2, <1>9, PayloadsAre
<1>11. /\ es \in Seq(Seq(Byte)) /\ Len(es) \in Nat /\ ps \in Seq(Seq(Byte)) /\ Len(ps) \in Nat
       /\ k <= Len(es)
  BY <1>6, <1>8, <1>9, <1>10, LenProperties DEF AreFirstCargoes
<1>12. k + Len(ps) <= Len(es)
  <2>1. PICK n : n = Len(ps)
    OBVIOUS
  <2>2. /\ n \in Nat /\ k + n <= Len(offsets[vlsd])
        /\ \A i \in 1..n : WholeCargo(w, offsets[vlsd][k + i])
    BY <1>8, <1>9, <1>11, <2>1
  <2>3. k + n <= Len(es)
    BY <1>3, <1>10, <1>11, <2>2, KeptCargoes
  <2> QED
    BY <2>1, <2>3
<1>13. \A i \in 1..Len(ps) : ps[i] = es[k + i]
  <2> SUFFICES ASSUME NEW i \in 1..Len(ps)
               PROVE  ps[i] = es[k + i]
    OBVIOUS
  <2>1. k + i \in 1..Len(es)
    BY <1>11, <1>12
  <2>2. es[k + i] = Cargo(w, offsets[vlsd][k + i])
    BY <1>10, <2>1 DEF AreFirstCargoes
  <2> QED
    BY <1>8, <1>9, <2>2
<1>14. IsTable(all, es, 0)
  <2>1. IsTable(Numbered(es, 0), es, 0)
    <3>1. 0 \in Nat
      OBVIOUS
    <3> QED
      BY <1>11, <3>1, NumberedIsTable
  <2> QED
    BY <1>9, <2>1 DEF AllTable
<1>15. payloadBase = Reached(all, k) /\ payloadBase \in Nat
  <2>1. payloadBase = Reached(all, k)
    BY <1>6, <1>9
  <2>2. Reached(all, k) \in Nat
    <3>1. CASE k = 0
      BY <3>1 DEF Reached
    <3>2. CASE k # 0
      <4>1. k \in 1..Len(es)
        BY <1>11, <3>2
      <4>2. PICK a, l : a = all[k].at /\ l = Len(all[k].bytes)
        OBVIOUS
      <4>3. a \in Nat /\ l \in Nat
        BY <1>14, <4>1, <4>2 DEF IsTable
      <4>4. Reached(all, k) = a + Prefix + l
        BY <3>2, <4>2 DEF Reached
      <4> QED
        BY <4>3, <4>4, PrefixAssumption
    <3> QED
      BY <3>1, <3>2
  <2> QED
    BY <2>1, <2>2
<1>16. IsTable(table, ps, Reached(all, k))
  <2>1. IsTable(Numbered(ps, payloadBase), ps, payloadBase)
    BY <1>11, <1>15, NumberedIsTable
  <2> QED
    BY <1>9, <1>15, <2>1
<1>17. PartOf(table, all, k, Len(ps))
  BY <1>11, <1>12, <1>13, <1>14, <1>16, SameNumbers
<1>18. \A x : Resolve(table, x) \in {Resolve(all, x), <<>>}
  BY <1>11, <1>12, <1>14, <1>16, <1>17, ResolvesAlike
<1>19. BaseAfter(table) = Reached(all, k + Len(ps))
  BY <1>11, <1>12, <1>13, <1>14, <1>15, <1>16, BaseMovesOn
<1>20. k + Len(ps) \in Nat
  BY <1>11
<1> QED
  BY <1>2, <1>8, <1>9, <1>12, <1>18, <1>19, <1>20

LEMMA PayloadsUnsorted ==
    ASSUME CoverInv, CoverInv', PayloadsNamed(dg), PayloadsInv, UnsortedWindow
    PROVE  PayloadsInv'
<1>1. /\ status = "reading" /\ remaining > 0 /\ HasWindow /\ Unsorted(dg)
      /\ window' = NextWindow
      /\ UNCHANGED <<indexVars, status, target, vlsd>>
  BY DEF UnsortedWindow, Pulling
<1>2. /\ TargetOK /\ TargetOK' /\ dg' = dg /\ offsets' = offsets /\ vlsd' = vlsd
      /\ Returned' = Returned /\ (Unsorted(dg)' <=> Unsorted(dg))
      /\ WholeStream' = WholeStream
      /\ Handed(Returned, delivered, counts[target], remaining)
  BY <1>1, ReadingStays
<1>3. PICK buffer, taken : buffer = carry \o WindowBytes /\ taken = Collect(buffer)
  OBVIOUS
<1>4. PICK rest, table : /\ rest = IF EndsBlock THEN <<>> ELSE Tailing(buffer, taken.consumed)
                         /\ table = Numbered(taken.payloads, payloadBase)
  OBVIOUS
<1>5. carry' = rest /\ payloadBase' = BaseAfter(table) /\ HandOut(taken.records, table)
  BY <1>3, <1>4 DEF UnsortedWindow
<1>6. Len(taken.records) \in Nat
  BY <1>1, <1>3, WindowRecords
<1>7. vlsd # 0 =>
          /\ \A x : Resolve(table, x) \in {Resolve(AllTable, x), <<>>}
          /\ \E k \in Nat :
                /\ OnTheTrail(dg, offsets, WholeStream, vlsd, NextWindow, rest, k)
                /\ k <= Len(AllPayloads)
                /\ BaseAfter(table) = Reached(AllTable, k)
  BY <1>1, <1>3, <1>4, WindowNumbers
<1>8. ValuesOf(delivered', Returned, AllTable)
  <2>1. PICK e, all, cnt : e = Returned /\ all = AllTable /\ cnt = counts'[target']
    OBVIOUS
  <2>2. Handed(e, delivered', cnt, remaining')
    BY <1>1, <1>2, <2>1 DEF CoverInv, WindowsInv
  <2>3. ValuesOf(delivered, e, all)
    BY <1>1, <2>1 DEF PayloadsInv
  <2>4. vlsd # 0 => \A x : Resolve(table, x) \in {Resolve(all, x), <<>>}
    BY <1>7, <2>1
  <2>5. ValuesOf(delivered', e, all)
    BY <1>2, <1>5, <1>6, <2>1, <2>2, <2>3, <2>4, ValuesGoOn
  <2> QED
    BY <2>1, <2>5
<1>9. /\ (vlsd # 0 => Unsorted(dg) /\ vlsd \in GroupIds /\ dg.groups[vlsd].vlsd)'
      /\ ValuesOf(delivered, Returned, AllTable)'
  BY <1>1, <1>2, <1>8, ValuesStay DEF SameReading
<1>10. ASSUME vlsd' # 0
       PROVE  (\E k \in Nat : NumberedTo(k))'
  <2>1. PICK k \in Nat :
            /\ OnTheTrail(dg, offsets, WholeStream, vlsd, NextWindow, rest, k)
            /\ k <= Len(AllPayloads)
            /\ BaseAfter(table) = Reached(AllTable, k)
    BY <1>2, <1>7, <1>10
  <2>2. AllPayloads' = AllPayloads /\ AllTable' = AllTable
    BY <1>2, TableStays
  <2>3. OnTheTrail(dg, offsets, WholeStream, vlsd, window, carry, k)'
    BY <1>1, <1>2, <1>5, <2>1
  <2>4. payloadBase' = Reached(AllTable, k)' /\ k <= Len(AllPayloads)'
    BY <1>5, <2>1, <2>2
  <2>5. NumberedTo(k)'
    BY <2>3, <2>4 DEF NumberedTo
  <2> QED
    BY <2>5
<1>11. status' = "reading"
  BY <1>1
<1> QED
  BY <1>9, <1>10, <1>11 DEF PayloadsInv

\* Where neither the window nor what was handed out changes, nor what is read.
LEMMA PayloadsRest ==
    ASSUME PayloadsInv, SameReading, status # "closed",
           status' \in {"reading", "failed", "ended"},
           status' = "reading" => status = "reading" /\ UNCHANGED <<window, carry>>,
           UNCHANGED <<payloadBase, delivered>>
    PROVE  PayloadsInv'
<1>1. ValuesOf(delivered', Returned, AllTable)
  BY DEF PayloadsInv
<1>2. /\ (vlsd # 0 => Unsorted(dg) /\ vlsd \in GroupIds /\ dg.groups[vlsd].vlsd)'
      /\ ValuesOf(delivered, Returned, AllTable)'
  BY <1>1, ValuesStay
<1>3. ASSUME status' = "reading", vlsd' # 0
      PROVE  (\E k \in Nat : NumberedTo(k))'
  <2>1. status = "reading" /\ vlsd # 0 /\ window' = window /\ carry' = carry
    BY <1>3 DEF SameReading
  <2>2. PICK k \in Nat : NumberedTo(k)
    BY <2>1 DEF PayloadsInv
  <2>3. dg' = dg /\ offsets' = offsets /\ vlsd' = vlsd /\ WholeStream' = WholeStream
    BY WholeStays DEF SameReading
  <2>4. AllPayloads' = AllPayloads /\ AllTable' = AllTable
    BY <2>3, TableStays
  <2>5. NumberedTo(k)'
    BY <2>1, <2>2, <2>3, <2>4 DEF NumberedTo
  <2> QED
    BY <2>5
<1> QED
  BY <1>2, <1>3 DEF PayloadsInv

LEMMA PayloadsStep ==
    CoverInv /\ CoverInv' /\ PayloadsNamed(dg) /\ PayloadsInv /\ [Next]_vars
        => PayloadsInv' /\ PayloadsNamed(dg)'
<1> SUFFICES ASSUME CoverInv, CoverInv', PayloadsNamed(dg), PayloadsInv, [Next]_vars
             PROVE  PayloadsInv' /\ PayloadsNamed(dg)'
  OBVIOUS
<1>1. dg' = dg
  <2>1. [IndexNext]_indexVars
    BY DEF Next, Index, OpenChunks, ReadNext, SortedWindow, UnsortedWindow, WindowFails, EndChunks, vars
  <2> QED
    BY <2>1 DEF indexVars, IndexNext, ListBlock, EndOfChain, NoBlocks, SizeSorted, StartWalk, ReadBlock,
                ReadBlockFails, IndexRecord, EndBlock, FinishWalk
<1>2. PayloadsNamed(dg)'
  BY <1>1 DEF PayloadsNamed
<1>3. ASSUME status = "reading", UNCHANGED <<indexVars, target, vlsd>>
      PROVE  SameReading
  BY <1>3, ReadingStays DEF SameReading
<1>4. CASE Index
  <2>1. status = "closed" /\ UNCHANGED chunkVars
    BY <1>4, IndexStep DEF Index
  <2>2. status' = "closed" /\ payloadBase' = 0
    BY <2>1 DEF chunkVars, PayloadsInv
  <2> QED
    BY <1>2, <2>2 DEF PayloadsInv
<1>5. CASE OpenChunks
  BY <1>2, <1>5, PayloadsOpen
<1>6. CASE SortedWindow
  BY <1>2, <1>6, PayloadsSorted
<1>7. CASE UnsortedWindow
  BY <1>2, <1>7, PayloadsUnsorted
<1>8. CASE WindowFails
  <2>1. /\ status = "reading" /\ status' = "failed"
        /\ UNCHANGED <<indexVars, target, vlsd, payloadBase, delivered>>
    BY <1>8 DEF WindowFails, Pulling
  <2> QED
    BY <1>2, <1>3, <2>1, PayloadsRest
<1>9. CASE EndChunks
  <2>1. /\ status = "reading" /\ status' = "ended"
        /\ UNCHANGED <<indexVars, target, vlsd, payloadBase, delivered>>
    BY <1>9 DEF EndChunks
  <2> QED
    BY <1>2, <1>3, <2>1, PayloadsRest
<1>10. CASE UNCHANGED vars
  <2>1. /\ dg' = dg /\ offsets' = offsets /\ counts' = counts /\ target' = target /\ vlsd' = vlsd
        /\ UNCHANGED <<status, window, carry, payloadBase, delivered>>
    BY <1>10 DEF vars, indexVars, chunkVars
  <2>2. SameReading
    BY <2>1, WholeStays DEF SameReading, Returned
  <2>3. CASE status = "closed"
    <3>1. status' = "closed" /\ payloadBase' = 0
      BY <2>1, <2>3 DEF PayloadsInv
    <3> QED
      BY <1>2, <3>1 DEF PayloadsInv
  <2>4. CASE status # "closed"
    <3>1. status \in {"reading", "failed", "ended"}
      BY <2>4 DEF CoverInv, WindowsInv
    <3> QED
      BY <1>2, <2>1, <2>2, <2>4, <3>1, PayloadsRest
  <2> QED
    BY <2>3, <2>4
<1> QED
  BY <1>4, <1>5, <1>6, <1>7, <1>8, <1>9, <1>10 DEF Next, ReadNext

LEMMA PayloadsAreOwn == CoverInv /\ PayloadsInv => NeverAnothersPayload
<1> SUFFICES ASSUME CoverInv, PayloadsInv
             PROVE  NeverAnothersPayload
  OBVIOUS
<1>1. CASE status = "closed"
  <2>1. delivered = <<>> /\ DOMAIN <<>> = {}
    BY <1>1, EmptySeq, LenProperties DEF CoverInv, WindowsInv
  <2> QED
    BY <2>1 DEF NeverAnothersPayload
<1>2. CASE status # "closed"
  <2>1. /\ phase = "open" /\ TargetOK
        /\ Handed(Returned, delivered, counts[target], remaining)
        /\ ValuesOf(delivered, Returned, AllTable)
    BY <1>2 DEF CoverInv, WindowsInv, PayloadsInv
  <2>2. PICK e, all : e = Returned /\ all = AllTable
    OBVIOUS
  <2>3. EagerRecords(target) = e
    <3>1. Plain(dg)
      BY <2>1, OpenFacts DEF CoverInv
    <3> QED
      BY <2>1, <2>2, <3>1, EagerIs DEF CoverInv, Returned
  <2>4. EagerSamples = [i \in 1..Len(e) |-> Sample(e[i], all)]
    BY <2>2, <2>3 DEF EagerSamples, AllTable, AllPayloads
  <2>5. PICK S : delivered \in Seq(S)
    BY <2>1 DEF Handed
  <2>6. DOMAIN delivered = 1..Len(delivered) /\ Len(delivered) \in Nat
    BY <2>5, LenProperties
  <2>7. Len(delivered) <= Len(e) /\ Len(e) \in Nat
    <3>1. Len(Returned) \in Nat
      BY <2>1, OpenFacts DEF CoverInv
    <3> QED
      BY <2>1, <2>2, <3>1 DEF Handed
  <2>8. ASSUME NEW i \in DOMAIN delivered
        PROVE  delivered[i].value \in {EagerSamples[i].value, <<>>}
    <3>1. i \in 1..Len(delivered) /\ i \in 1..Len(e)
      BY <2>6, <2>7
    <3>2. EagerSamples[i] = Sample(e[i], all)
      BY <2>4, <3>1
    <3>3. delivered[i].value \in {Sample(e[i], all).value, <<>>}
      BY <2>1, <2>2, <3>1 DEF ValuesOf
    <3> QED
      BY <3>2, <3>3
  <2> QED
    BY <2>8 DEF NeverAnothersPayload
<1> QED
  BY <1>1, <1>2

\* Theorem 2: a sample handed out has the value signal() gives it or an empty
\* one, never the payload of another: each window numbers the payloads it meets
\* as the whole stream does.
THEOREM PayloadsAreNeverAnothers ==
    Spec /\ SelfContained(dg) /\ PayloadsNamed(dg) => []NeverAnothersPayload
<1>1. ChunkInit /\ SelfContained(dg) => CoverInv
  BY CoverInit
<1>2. CoverInv /\ [Next]_vars => CoverInv'
  BY CoverStep
<1>3. ChunkInit => PayloadsInv
  BY PayloadsInit
<1>4. CoverInv /\ CoverInv' /\ PayloadsNamed(dg) /\ PayloadsInv /\ [Next]_vars
         => PayloadsInv' /\ PayloadsNamed(dg)'
  BY PayloadsStep
<1>5. CoverInv /\ PayloadsInv => NeverAnothersPayload
  BY PayloadsAreOwn
<1> QED
  BY <1>1, <1>2, <1>3, <1>4, <1>5, PTL DEF Spec
=============================================================================

--------------------------- MODULE BlockMapProofs ---------------------------
(***************************************************************************)
(* Proofs about BlockMap, for every file, whatever its links are: a walk   *)
(* that ends has met exactly the blocks that can be reached from the       *)
(* header, each told with blocks that refer to it, and its gaps are exactly*)
(* the bytes of the file that none of them covers.                         *)
(*                                                                         *)
(* The walk keeps a queue of links.  What makes it complete is that every  *)
(* link of a block found waits in the queue or has been told of at its     *)
(* target (WalkInv), so when the queue is empty the blocks found are closed*)
(* under links.  What can be reached is the least such set: it is a fixed  *)
(* point of Closure, which as many steps as there are blocks arrive at.    *)
(* The gaps are a sweep over the offsets in order; they are followed by an *)
(* invariant of the sweep (SweptIs).                                       *)
(***************************************************************************)
EXTENDS BlockMap, InductionFacts, SequenceTheorems, FiniteSetTheorems, TLAPS

(***************************************************************************)
(* The blocks of a file and what they lead to.                             *)
(***************************************************************************)

\* The links of a block are offsets, and it ends behind its own start.
LEMMA BlocksLink ==
    ASSUME file \in Files, NEW o, IsBlock(o)
    PROVE  /\ o \in Nat /\ o # 0
           /\ Links(o) \in Seq(Nat)
           /\ Down(o) \in Nat /\ Next1(o) \in Nat
           /\ End(o) \in Nat /\ o < End(o)
<1>1. o \in DOMAIN file /\ o \in Nat /\ o # 0 /\ file[o] \in BlockType
  BY BlockGraphAssumption DEF IsBlock
<1>2. /\ file[o].next \in Nat /\ file[o].down \in Nat /\ file[o].size \in Nat
      /\ file[o].more \in Seq(Nat) /\ file[o].inval \in Seq(Nat)
  BY <1>1 DEF BlockType
<1>3. <<file[o].next, file[o].down>> \in Seq(Nat)
  BY <1>2
<1>4. <<file[o].next, file[o].down>> \o file[o].more \in Seq(Nat)
  BY <1>2, <1>3, ConcatProperties
<1>5. Links(o) \in Seq(Nat)
  BY <1>2, <1>4, ConcatProperties DEF Links
<1>6. End(o) \in Nat /\ o < End(o)
  BY <1>1, <1>2 DEF End
<1> QED
  BY <1>1, <1>2, <1>5, <1>6 DEF Down, Next1, IsBlock

\* The members of a sequence are what stands at its places.
LEMMA MembersOfSeq ==
    ASSUME NEW T, NEW s \in Seq(T)
    PROVE  /\ DOMAIN s = 1..Len(s) /\ Len(s) \in Nat
           /\ ToSet(s) \in SUBSET T
           /\ \A x : x \in ToSet(s) <=> \E i \in 1..Len(s) : s[i] = x
<1>1. DOMAIN s = 1..Len(s) /\ Len(s) \in Nat /\ \A i \in 1..Len(s) : s[i] \in T
  BY LenProperties, ElementOfSeq
<1> QED
  BY <1>1 DEF ToSet

\* Reachable is as many steps as there are blocks.
LEMMA ReachableIsReach ==
    ASSUME file \in Files
    PROVE  \E reach : /\ IsReach(reach, {Header}, [o \in Nat |-> LinkedFrom(o)], Cardinality(DOMAIN file))
                      /\ Reachable = {o \in reach[Cardinality(DOMAIN file)] : IsBlock(o)}
<1> DEFINE N == Cardinality(DOMAIN file)
           next == [o \in Nat |-> LinkedFrom(o)]
           Body(g) == [n \in 0..N |-> IF n = 0 THEN {Header}
                                      ELSE g[n - 1] \cup UNION {next[o] : o \in g[n - 1]}]
           R == CHOOSE g : g = Body(g)
<1>1. N \in Nat /\ {Header} \in SUBSET Nat
  BY FS_CardinalityType, BlockGraphAssumption
<1>2. \A o \in Nat : LinkedFrom(o) \in SUBSET Nat
  BY BlocksLink, MembersOfSeq DEF LinkedFrom
<1>3. next \in [Nat -> SUBSET Nat]
  BY <1>2
<1>4. PICK f : IsReach(f, {Header}, next, N)
  <2> HIDE DEF next, N
  <2>1. PICK from \in SUBSET Nat : from = {Header}
    BY <1>1
  <2>2. \E f : IsReach(f, from, next, N)
    BY <1>1, <1>3, ReachExists
  <2> QED
    BY <2>1, <2>2
<1>5. f = Body(f)
  BY <1>4 DEF IsReach
<1>6. R = Body(R)
  BY <1>5
<1>7. Reachable = {o \in R[N] : IsBlock(o)}
  BY DEF Reachable, Closure
<1> HIDE DEF R
<1>8. IsReach(R, {Header}, next, N)
  BY <1>6 DEF IsReach
<1> QED
  BY <1>7, <1>8

\* Reachable is the least set of blocks with the header's and, with a block, those
\* that it links to.
LEMMA ReachableIs ==
    ASSUME file \in Files
    PROVE  /\ Reachable \subseteq DOMAIN file
           /\ IsBlock(Header) => Header \in Reachable
           /\ \A o \in Reachable : \A s \in ToSet(Links(o)) : IsBlock(s) => s \in Reachable
           /\ \A All : /\ IsBlock(Header) => Header \in All
                       /\ \A o \in All : IsBlock(o) =>
                             \A s \in ToSet(Links(o)) : IsBlock(s) => s \in All
                       => Reachable \subseteq All
<1> DEFINE B == DOMAIN file
           next == [o \in Nat |-> LinkedFrom(o)]
<1>1. PICK reach : /\ IsReach(reach, {Header}, next, Cardinality(B))
                   /\ Reachable = {o \in reach[Cardinality(B)] : IsBlock(o)}
  BY ReachableIsReach
<1>2. B \in SUBSET Nat /\ IsFiniteSet(B) /\ Cardinality(B) \in Nat
  BY BlockGraphAssumption, FS_CardinalityType
<1>3. \A o \in Nat : LinkedFrom(o) \in SUBSET Nat
  BY BlocksLink, MembersOfSeq DEF LinkedFrom
<1>4. /\ next \in [Nat -> SUBSET Nat]
      /\ \A o \in Nat \ B : next[o] = {}
      /\ \A o \in B : next[o] = ToSet(Links(o))
      /\ {Header} \in SUBSET Nat
  BY <1>2, <1>3, BlockGraphAssumption DEF LinkedFrom, IsBlock
<1>0. Cardinality(B) \in 0..Cardinality(B)
  BY <1>2
<1> HIDE DEF next
<1>5. \A o \in reach[Cardinality(B)] \cap B : next[o] \subseteq reach[Cardinality(B)]
  <2>1. \A o \in Nat \ B : next[o] \cap B = {}
    BY <1>4
  <2> HIDE DEF B
  <2> QED
    BY <1>1, <1>2, <1>4, <2>1, ReachIsClosed
<1>6. {Header} \subseteq reach[Cardinality(B)]
  <2>1. PICK from \in SUBSET Nat : from = {Header}
    BY <1>4
  <2> HIDE DEF B
  <2>2. IsReach(reach, from, next, Cardinality(B))
    BY <1>1, <2>1
  <2>3. \A n \in 0..Cardinality(B) : reach[n] \in SUBSET Nat /\ from \subseteq reach[n]
    BY <1>2, <1>4, <2>2, ReachGrows
  <2> QED
    BY <1>0, <2>1, <2>3
<1>7. ASSUME NEW All,
             IsBlock(Header) => Header \in All,
             \A o \in All : IsBlock(o) => \A s \in ToSet(Links(o)) : IsBlock(s) => s \in All
      PROVE  Reachable \subseteq All
  <2> DEFINE Wide == {o \in Nat : ~IsBlock(o) \/ o \in All}
  <2>1. {Header} \subseteq Wide
    BY <1>7, <1>4
  <2>2. ASSUME NEW o \in Wide \cap Nat
        PROVE  next[o] \subseteq Wide
    <3>1. CASE o \in B
      <4>1. next[o] = ToSet(Links(o)) /\ o \in All
        BY <1>4, <3>1 DEF IsBlock
      <4>2. \A s \in ToSet(Links(o)) : s \in Nat /\ (IsBlock(s) => s \in All)
        BY <1>7, <3>1, <4>1, BlocksLink, MembersOfSeq DEF IsBlock
      <4> QED
        BY <4>1, <4>2
    <3>2. CASE o \notin B
      BY <1>4, <3>2
    <3> QED
      BY <3>1, <3>2
  <2> HIDE DEF Wide
  <2>3. reach[Cardinality(B)] \subseteq Wide
    <3> HIDE DEF B
    <3>1. \A n \in 0..Cardinality(B) : reach[n] \subseteq Wide
      BY <1>1, <1>2, <1>4, <2>1, <2>2, ReachIsLeast
    <3> QED
      BY <3>1, <1>0
  <2> QED
    BY <2>3, <1>1 DEF Wide
<1>8. \A o \in Reachable : \A s \in ToSet(Links(o)) : IsBlock(s) => s \in Reachable
  BY <1>1, <1>4, <1>5 DEF IsBlock
<1> QED
  BY <1>1, <1>6, <1>7, <1>8 DEF IsBlock

\* What can be reached depends on the file alone.
LEMMA ReachableKept == UNCHANGED file => Reachable' = Reachable
BY DEF Reachable, Closure, LinkedFrom, IsBlock, Links

(***************************************************************************)
(* The queue of links.                                                     *)
(***************************************************************************)

Link == [to : Nat, from : Nat]

\* A link from b to s is still to be followed.
Waits(q, s, b) == \E i \in 1..Len(q) : q[i].to = s /\ q[i].from = b

\* A link put at the end of the queue waits, and nothing else begins to.
LEMMA WaitsInAppend ==
    ASSUME NEW q \in Seq(Link), NEW l \in Link
    PROVE  /\ Append(q, l) \in Seq(Link)
           /\ \A s, b : Waits(Append(q, l), s, b) <=> Waits(q, s, b) \/ (l.to = s /\ l.from = b)
<1>1. /\ Len(q) \in Nat
      /\ Append(q, l) \in Seq(Link)
      /\ Len(Append(q, l)) = Len(q) + 1
      /\ \A i \in 1..Len(q) : Append(q, l)[i] = q[i]
      /\ Append(q, l)[Len(q) + 1] = l
  BY AppendProperties, LenProperties
<1>2. \A i \in 1..(Len(q) + 1) : i \in 1..Len(q) \/ i = Len(q) + 1
  BY <1>1
<1>3. Len(q) + 1 \in 1..(Len(q) + 1) /\ \A i \in 1..Len(q) : i \in 1..(Len(q) + 1)
  BY <1>1
<1> QED
  BY <1>1, <1>2, <1>3 DEF Waits

\* In two queues end to end waits what waits in either.
LEMMA WaitsInConcat ==
    ASSUME NEW q \in Seq(Link), NEW r \in Seq(Link)
    PROVE  /\ q \o r \in Seq(Link)
           /\ \A s, b : Waits(q \o r, s, b) <=> Waits(q, s, b) \/ Waits(r, s, b)
<1>1. /\ Len(q) \in Nat /\ Len(r) \in Nat
      /\ q \o r \in Seq(Link)
      /\ Len(q \o r) = Len(q) + Len(r)
      /\ \A i \in 1..(Len(q) + Len(r)) : (q \o r)[i] = IF i <= Len(q) THEN q[i] ELSE r[i - Len(q)]
  BY ConcatProperties, LenProperties
<1>2. ASSUME NEW s, NEW b, Waits(q \o r, s, b)
      PROVE  Waits(q, s, b) \/ Waits(r, s, b)
  <2>1. PICK i \in 1..(Len(q) + Len(r)) : (q \o r)[i].to = s /\ (q \o r)[i].from = b
    BY <1>1, <1>2 DEF Waits
  <2>2. CASE i <= Len(q)
    <3>1. i \in 1..Len(q) /\ (q \o r)[i] = q[i]
      BY <1>1, <2>2
    <3> QED
      BY <3>1, <2>1 DEF Waits
  <2>3. CASE ~(i <= Len(q))
    <3>1. i - Len(q) \in 1..Len(r) /\ (q \o r)[i] = r[i - Len(q)]
      BY <1>1, <2>3
    <3> QED
      BY <3>1, <2>1 DEF Waits
  <2> QED
    BY <2>2, <2>3
<1>3. ASSUME NEW s, NEW b, Waits(q, s, b)
      PROVE  Waits(q \o r, s, b)
  <2>1. PICK i \in 1..Len(q) : q[i].to = s /\ q[i].from = b
    BY <1>3 DEF Waits
  <2>2. i \in 1..(Len(q) + Len(r)) /\ (q \o r)[i] = q[i]
    BY <1>1
  <2> QED
    BY <1>1, <2>1, <2>2 DEF Waits
<1>4. ASSUME NEW s, NEW b, Waits(r, s, b)
      PROVE  Waits(q \o r, s, b)
  <2>1. PICK i \in 1..Len(r) : r[i].to = s /\ r[i].from = b
    BY <1>4 DEF Waits
  <2>2. i + Len(q) \in 1..(Len(q) + Len(r)) /\ ~(i + Len(q) <= Len(q)) /\ (i + Len(q)) - Len(q) = i
    BY <1>1
  <2>3. (q \o r)[i + Len(q)] = r[i]
    BY <1>1, <2>2
  <2> QED
    BY <1>1, <2>1, <2>2, <2>3 DEF Waits
<1> QED
  BY <1>1, <1>2, <1>3, <1>4

\* Taking the first link leaves the others waiting.
LEMMA WaitsInTail ==
    ASSUME NEW q \in Seq(Link), q # <<>>
    PROVE  /\ Head(q) \in Link /\ Head(q).to \in Nat /\ Head(q).from \in Nat
           /\ Tail(q) \in Seq(Link)
           /\ \A s, b : Waits(q, s, b) <=> Waits(Tail(q), s, b) \/ (Head(q).to = s /\ Head(q).from = b)
<1>1. /\ Len(q) \in Nat /\ Len(q) # 0
      /\ Head(q) \in Link /\ Head(q) = q[1]
      /\ Tail(q) \in Seq(Link)
      /\ Len(Tail(q)) = Len(q) - 1
      /\ \A i \in 1..Len(Tail(q)) : Tail(q)[i] = q[i + 1]
  BY HeadTailProperties, LenProperties, EmptySeq
<1>2. ASSUME NEW s, NEW b, Waits(q, s, b)
      PROVE  Waits(Tail(q), s, b) \/ (Head(q).to = s /\ Head(q).from = b)
  <2>1. PICK i \in 1..Len(q) : q[i].to = s /\ q[i].from = b
    BY <1>2 DEF Waits
  <2>2. CASE i = 1
    BY <1>1, <2>1, <2>2
  <2>3. CASE i # 1
    <3>1. i - 1 \in 1..Len(Tail(q)) /\ (i - 1) + 1 = i
      BY <1>1, <2>3
    <3>2. Tail(q)[i - 1] = q[i]
      BY <1>1, <3>1
    <3> QED
      BY <2>1, <3>1, <3>2 DEF Waits
  <2> QED
    BY <2>2, <2>3
<1>3. ASSUME NEW s, NEW b, Waits(Tail(q), s, b)
      PROVE  Waits(q, s, b)
  <2>1. PICK i \in 1..Len(Tail(q)) : Tail(q)[i].to = s /\ Tail(q)[i].from = b
    BY <1>3 DEF Waits
  <2>2. i + 1 \in 1..Len(q) /\ Tail(q)[i] = q[i + 1]
    BY <1>1
  <2> QED
    BY <2>1, <2>2 DEF Waits
<1>4. ASSUME NEW s, NEW b, Head(q).to = s /\ Head(q).from = b
      PROVE  Waits(q, s, b)
  <2>1. 1 \in 1..Len(q)
    BY <1>1
  <2> QED
    BY <1>1, <1>4, <2>1 DEF Waits
<1> QED
  BY <1>1, <1>2, <1>3, <1>4 DEF Link

\* The links of a block are queued but for one to nothing and one to itself.
LEMMA ToFollowIs ==
    ASSUME file \in Files, NEW o, IsBlock(o)
    PROVE  /\ ToFollow(o) \in Seq(Link)
           /\ \A s, b : Waits(ToFollow(o), s, b) <=> b = o /\ s \in ToSet(Links(o)) \ {0, o}
<1> DEFINE links == Links(o)
           N == Len(links)
           F == [n \in 1..N |-> [q \in Seq(Link) |->
                   IF links[n] \in {0, o} THEN q ELSE Append(q, [to |-> links[n], from |-> o])]]
           Body(g) == [n \in 0..N |->
                   IF n = 0 THEN <<>>
                   ELSE IF links[n] \in {0, o} THEN g[n - 1]
                   ELSE Append(g[n - 1], [to |-> links[n], from |-> o])]
<1>1. /\ N \in Nat /\ o \in Nat
      /\ \A n \in 1..N : [to |-> links[n], from |-> o] \in Link
      /\ \A s : s \in ToSet(links) <=> \E n \in 1..N : links[n] = s
  BY BlocksLink, MembersOfSeq, ElementOfSeq DEF Link
<1>2. F \in [1..N -> [Seq(Link) -> Seq(Link)]]
  <2> HIDE DEF links, N
  <2>1. \A n \in 1..N : \A q \in Seq(Link) : Append(q, [to |-> links[n], from |-> o]) \in Seq(Link)
    BY <1>1, WaitsInAppend
  <2> QED
    BY <2>1
<1>3. PICK f : IsRecursion(f, N, Seq(Link), <<>>, F)
  <2> HIDE DEF F, N
  <2>1. <<>> \in Seq(Link)
    BY EmptySeq
  <2> QED
    BY <1>1, <1>2, <2>1, Recursion
<1>4. f = Body(f)
  <2>1. f \in [0..N -> Seq(Link)] /\ f = [n \in 0..N |-> IF n = 0 THEN <<>> ELSE F[n][f[n - 1]]]
    BY <1>3 DEF IsRecursion
  <2>2. ASSUME NEW n \in 0..N, n # 0
        PROVE  F[n][f[n - 1]] = IF links[n] \in {0, o} THEN f[n - 1]
                                ELSE Append(f[n - 1], [to |-> links[n], from |-> o])
    <3> HIDE DEF N, links
    <3>1. n \in 1..N /\ n - 1 \in 0..N
      BY <1>1, <2>2
    <3>2. f[n - 1] \in Seq(Link)
      BY <2>1, <3>1
    <3> QED
      BY <3>1, <3>2
  <2> HIDE DEF F, N, links
  <2> QED
    BY <2>1, <2>2
<1> DEFINE R == CHOOSE g : g = Body(g)
<1>5. R = Body(R) /\ ToFollow(o) = R[N]
  BY <1>4 DEF ToFollow
<1> HIDE DEF R, F, links
<1> DEFINE S == {n \in 0..N : /\ R[n] \in Seq(Link)
                              /\ \A s, b : Waits(R[n], s, b)
                                    <=> b = o /\ \E i \in 1..n : links[i] = s /\ links[i] \notin {0, o}}
<1> HIDE DEF N
<1>6. 0 \in S
  <2>1. 0 \in 0..N
    BY <1>1
  <2>2. R[0] = <<>>
    BY <1>5, <2>1
  <2>3. <<>> \in Seq(Link) /\ Len(<<>>) = 0
    BY EmptySeq
  <2>4. \A s, b : ~Waits(<<>>, s, b)
    <3>1. 1..Len(<<>>) = {}
      BY <2>3
    <3> QED
      BY <3>1 DEF Waits
  <2>5. \A s, b : Waits(R[0], s, b)
            <=> b = o /\ \E i \in 1..0 : links[i] = s /\ links[i] \notin {0, o}
    <3>1. \A i \in 1..0 : FALSE
      OBVIOUS
    <3> QED
      BY <3>1, <2>2, <2>4
  <2>6. R[0] \in Seq(Link)
    BY <2>2, <2>3
  <2> QED
    BY <2>1, <2>5, <2>6
<1>7. ASSUME NEW n \in 1..N, n - 1 \in S
      PROVE  n \in S
  <2>1. n \in 0..N /\ n # 0 /\ n - 1 \in 0..N
    BY <1>1
  <2>2. /\ R[n - 1] \in Seq(Link)
        /\ \A s, b : Waits(R[n - 1], s, b)
              <=> b = o /\ \E i \in 1..(n - 1) : links[i] = s /\ links[i] \notin {0, o}
    BY <1>7
  <2>3. \A i \in 1..n : i \in 1..(n - 1) \/ i = n
    BY <1>1
  <2>4. n \in 1..n /\ \A i \in 1..(n - 1) : i \in 1..n
    BY <1>1
  <2>5. CASE links[n] \in {0, o}
    <3>1. R[n] = R[n - 1]
      BY <1>5, <2>1, <2>5
    <3>2. \A s : (\E i \in 1..n : links[i] = s /\ links[i] \notin {0, o})
                   <=> \E i \in 1..(n - 1) : links[i] = s /\ links[i] \notin {0, o}
      BY <2>3, <2>4, <2>5
    <3> QED
      BY <2>1, <2>2, <3>1, <3>2
  <2>6. CASE links[n] \notin {0, o}
    <3>1. R[n] = Append(R[n - 1], [to |-> links[n], from |-> o])
      BY <1>5, <2>1, <2>6
    <3>2. /\ R[n] \in Seq(Link)
          /\ \A s, b : Waits(R[n], s, b) <=> Waits(R[n - 1], s, b) \/ (links[n] = s /\ o = b)
      BY <1>1, <2>2, <3>1, WaitsInAppend
    <3>3. \A s : (\E i \in 1..n : links[i] = s /\ links[i] \notin {0, o})
                   <=> \/ \E i \in 1..(n - 1) : links[i] = s /\ links[i] \notin {0, o}
                       \/ links[n] = s
      BY <2>3, <2>4, <2>6
    <3> QED
      BY <2>1, <2>2, <3>2, <3>3
  <2> QED
    BY <2>5, <2>6
<1> HIDE DEF S
<1>8. \A n \in 0..N : n \in S
  BY <1>1, <1>6, <1>7, UpToInduction
<1>9. N \in S
  BY <1>1, <1>8
<1> QED
  BY <1>1, <1>5, <1>9 DEF S, links

(***************************************************************************)
(* Who refers to a block.                                                  *)
(***************************************************************************)

\* A new referrer at the end of the list keeps it free of repetitions.
LEMMA AppendNew ==
    ASSUME NEW r \in Seq(Nat), IsInjective(r), NEW b \in Nat, b \notin ToSet(r)
    PROVE  /\ Append(r, b) \in Seq(Nat)
           /\ IsInjective(Append(r, b))
           /\ ToSet(Append(r, b)) = ToSet(r) \cup {b}
<1> DEFINE a == Append(r, b)
<1>1. /\ Len(r) \in Nat /\ DOMAIN r = 1..Len(r)
      /\ a \in Seq(Nat)
      /\ Len(a) = Len(r) + 1
      /\ \A i \in 1..Len(r) : a[i] = r[i]
      /\ a[Len(r) + 1] = b
  BY AppendProperties, LenProperties
<1>2. DOMAIN a = 1..(Len(r) + 1)
  BY <1>1, LenProperties
<1> HIDE DEF a
<1>3. \A i \in 1..(Len(r) + 1) : i \in 1..Len(r) \/ i = Len(r) + 1
  BY <1>1
<1>4. Len(r) + 1 \in 1..(Len(r) + 1) /\ \A i \in 1..Len(r) : i \in 1..(Len(r) + 1)
  BY <1>1
<1>5. \A i \in 1..Len(r) : r[i] # b
  BY <1>1 DEF ToSet
<1>6. IsInjective(a)
  BY <1>1, <1>2, <1>3, <1>5 DEF IsInjective
<1>7. ToSet(a) = ToSet(r) \cup {b}
  BY <1>1, <1>2, <1>3, <1>4 DEF ToSet
<1> QED
  BY <1>1, <1>6, <1>7 DEF a

\* One referrer is a list without repetitions.
LEMMA OneReferrer ==
    ASSUME NEW b \in Nat
    PROVE  <<b>> \in Seq(Nat) /\ IsInjective(<<b>>) /\ ToSet(<<b>>) = {b}
<1>1. <<b>> \in Seq(Nat) /\ Len(<<b>>) = 1 /\ <<b>>[1] = b
  OBVIOUS
<1>2. DOMAIN <<b>> = {1}
  BY <1>1, LenProperties
<1> QED
  BY <1>1, <1>2 DEF IsInjective, ToSet

\* So is none.
LEMMA NoReferrer == <<>> \in Seq(Nat) /\ IsInjective(<<>>) /\ ToSet(<<>>) = {}
<1>1. <<>> \in Seq(Nat) /\ Len(<<>>) = 0
  BY EmptySeq
<1>2. DOMAIN <<>> = {}
  BY <1>1, LenProperties
<1> QED
  BY <1>1, <1>2 DEF IsInjective, ToSet

(***************************************************************************)
(* The walk.  What is found can be reached and is referred to by blocks    *)
(* found; a link of a block found to another block waits to be followed or *)
(* has made its target known.                                              *)
(***************************************************************************)

\* What is known of the block at o.
Known(o) ==
    /\ found[o] \in Seq(Nat)
    /\ IsInjective(found[o])
    /\ ToSet(found[o]) \subseteq Refers(o)

\* The walk meets the link from b to s.
Follows(s, b) ==
    \/ s = Header /\ b = 0
    \/ b \in DOMAIN found \ {0} /\ s \in ToSet(Links(b)) \ {0, b}

\* The link from b to s has been told of.
Told(s, b) == s \in DOMAIN found /\ b \in ToSet(found[s])

WalkInv ==
    /\ file \in Files
    /\ queue \in Seq(Link)
    /\ 0 \in DOMAIN found
    /\ DOMAIN found \subseteq {0} \cup Reachable
    /\ \A o \in DOMAIN found \ {0} : Known(o)
    /\ \A s, b : Waits(queue, s, b) => Follows(s, b)
    /\ IsBlock(Header) => Header \in DOMAIN found \/ Waits(queue, Header, 0)
    /\ \A b \in DOMAIN found \ {0} : \A s \in ToSet(Links(b)) \ {0, b} :
          IsBlock(s) => Waits(queue, s, b) \/ Told(s, b)
    /\ scan = "done" => queue = <<>>

\* The walk begins with the invariant: the header is all that waits.
LEMMA WalkInvInit == file \in Files /\ MapInit => WalkInv
<1> SUFFICES ASSUME file \in Files, MapInit
             PROVE  WalkInv
  OBVIOUS
<1>1. found = [o \in {0} |-> <<>>] /\ queue = <<[to |-> Header, from |-> 0]>> /\ scan = "walking"
  BY DEF MapInit
<1>2. DOMAIN found = {0}
  BY <1>1
<1>3. [to |-> Header, from |-> 0] \in Link
  BY BlockGraphAssumption DEF Link
<1>4. queue \in Seq(Link) /\ Len(queue) = 1 /\ queue[1] = [to |-> Header, from |-> 0]
  BY <1>1, <1>3
<1>5. \A s, b : Waits(queue, s, b) <=> s = Header /\ b = 0
  <2>1. 1..Len(queue) = {1}
    BY <1>4
  <2> QED
    BY <1>4, <2>1 DEF Waits
<1> QED
  BY <1>1, <1>2, <1>4, <1>5 DEF WalkInv, Follows

\* Where the walk goes on from is known of its targets what was, or more.
LEMMA WalkInvStep == WalkInv /\ MapStep => WalkInv'
<1> SUFFICES ASSUME WalkInv, MapStep
             PROVE  WalkInv'
  OBVIOUS
<1>1. /\ file \in Files /\ file' = file
      /\ queue \in Seq(Link) /\ queue # <<>> /\ scan = "walking"
      /\ 0 \in DOMAIN found
      /\ DOMAIN found \subseteq {0} \cup Reachable
      /\ \A o \in DOMAIN found \ {0} : Known(o)
      /\ \A s, b : Waits(queue, s, b) => Follows(s, b)
      /\ IsBlock(Header) => Header \in DOMAIN found \/ Waits(queue, Header, 0)
      /\ \A b \in DOMAIN found \ {0} : \A s \in ToSet(Links(b)) \ {0, b} :
            IsBlock(s) => Waits(queue, s, b) \/ Told(s, b)
  BY DEF WalkInv, MapStep
<1>0. PICK link \in Link : link = Head(queue)
  BY <1>1, WaitsInTail
<1> DEFINE to == link.to
           from == link.from
<1>2. /\ to \in Nat /\ from \in Nat
      /\ Tail(queue) \in Seq(Link)
      /\ \A s, b : Waits(queue, s, b) <=> Waits(Tail(queue), s, b) \/ (to = s /\ from = b)
  BY <1>0, <1>1, WaitsInTail DEF Link
<1>3. Follows(to, from)
  BY <1>1, <1>2
<1>4. to # 0 /\ Header # 0 /\ DOMAIN found \ {0} \subseteq DOMAIN file
  BY <1>1, <1>3, BlockGraphAssumption, ReachableIs DEF Follows
<1>5. from # 0 => from \in DOMAIN found /\ from # to /\ to \in ToSet(Links(from))
  BY <1>3 DEF Follows
<1>6. Reachable' = Reachable /\ \A o : (IsBlock(o)' <=> IsBlock(o)) /\ Links(o)' = Links(o)
  BY <1>1, ReachableKept DEF IsBlock, Links
<1>7. CASE MetAgain(link)
  <2>1. /\ found' = [found EXCEPT ![to] = Referrers(link)] /\ to \in DOMAIN found
        /\ queue' = Tail(queue) /\ scan' = scan
    BY <1>7 DEF MetAgain
  <2>2. DOMAIN found' = DOMAIN found
    BY <2>1
  <2>3. \A o : Refers(o)' = Refers(o)
    BY <2>2, <1>6 DEF Refers
  <2>4. Known(to)
    BY <1>1, <1>4, <1>7
  <2>5. /\ Referrers(link) \in Seq(Nat) /\ IsInjective(Referrers(link))
        /\ ToSet(Referrers(link)) \subseteq Refers(to)
        /\ ToSet(found[to]) \subseteq ToSet(Referrers(link))
        /\ from # 0 => from \in ToSet(Referrers(link))
    <3>1. CASE from = 0
      BY <3>1, <2>4 DEF Referrers, Known
    <3>2. CASE from # 0 /\ Contains(found[to], from)
      <4>1. from \in ToSet(found[to])
        BY <3>2, <2>4, MembersOfSeq DEF Contains, Known
      <4> QED
        BY <3>2, <4>1, <2>4 DEF Referrers, Known
    <3>3. CASE from # 0 /\ ~Contains(found[to], from)
      <4>1. from \notin ToSet(found[to])
        BY <3>3, <2>4, MembersOfSeq DEF Contains, Known
      <4>2. from \in Refers(to)
        BY <3>3, <1>5 DEF Refers
      <4>3. Referrers(link) = Append(found[to], from)
        BY <3>3 DEF Referrers
      <4>4. /\ Append(found[to], from) \in Seq(Nat) /\ IsInjective(Append(found[to], from))
            /\ ToSet(Append(found[to], from)) = ToSet(found[to]) \cup {from}
        BY <4>1, <2>4, <1>2, AppendNew DEF Known
      <4> QED
        BY <4>2, <4>3, <4>4, <2>4 DEF Known
    <3> QED
      BY <3>1, <3>2, <3>3
  <2>6. found'[to] = Referrers(link) /\ \A o \in DOMAIN found \ {to} : found'[o] = found[o]
    BY <2>1, <1>7
  <2>7. \A o \in DOMAIN found' \ {0} : Known(o)'
    <3> TAKE o \in DOMAIN found' \ {0}
    <3>1. CASE o = to
      BY <3>1, <2>3, <2>5, <2>6 DEF Known
    <3>2. CASE o # to
      BY <3>2, <1>1, <2>2, <2>3, <2>6 DEF Known
    <3> QED
      BY <3>1, <3>2
  <2>8. \A s, b : Told(s, b) => Told(s, b)'
    <3> SUFFICES ASSUME NEW s, NEW b, Told(s, b)
                 PROVE  Told(s, b)'
      OBVIOUS
    <3>1. CASE s = to
      BY <3>1, <2>2, <2>5, <2>6 DEF Told
    <3>2. CASE s # to
      BY <3>2, <2>2, <2>6 DEF Told
    <3> QED
      BY <3>1, <3>2
  <2>9. from # 0 => Told(to, from)'
    BY <2>1, <2>2, <2>5, <2>6 DEF Told
  <2>10. \A s, b : Waits(queue', s, b) => Follows(s, b)'
    BY <1>1, <1>2, <1>6, <2>1, <2>2 DEF Follows
  <2>11. \A s, b : (Waits(queue, s, b))' <=> Waits(queue', s, b)
    BY DEF Waits
  <2>12. IsBlock(Header)' => Header \in DOMAIN found' \/ Waits(queue', Header, 0)
    BY <1>1, <1>2, <1>6, <2>1, <2>2
  <2>13. \A b \in DOMAIN found' \ {0} : \A s \in ToSet(Links(b)') \ {0, b} :
            IsBlock(s)' => Waits(queue', s, b) \/ Told(s, b)'
    BY <1>1, <1>2, <1>6, <2>1, <2>2, <2>8, <2>9
  <2> QED
    BY <1>1, <1>2, <1>6, <2>1, <2>2, <2>7, <2>10, <2>11, <2>12, <2>13 DEF WalkInv
<1>8. CASE TooMany(link)
  <2>1. found' = found /\ queue' = queue /\ scan' = "stopped"
    BY <1>8 DEF TooMany
  <2>2. \A o : Refers(o)' = Refers(o)
    BY <2>1, <1>6 DEF Refers
  <2>3. \A o \in DOMAIN found' \ {0} : Known(o)'
    BY <1>1, <2>1, <2>2 DEF Known
  <2>4. \A s, b : (Waits(queue, s, b))' <=> Waits(queue, s, b)
    BY <2>1 DEF Waits
  <2>5. \A s, b : Follows(s, b)' <=> Follows(s, b)
    BY <2>1, <1>6 DEF Follows
  <2>6. \A s, b : Told(s, b)' <=> Told(s, b)
    BY <2>1 DEF Told
  <2> QED
    BY <1>1, <1>6, <1>8, <2>1, <2>3, <2>4, <2>5, <2>6 DEF WalkInv
<1>9. CASE Visit(link) /\ ~IsBlock(to)
  <2>1. found' = found /\ queue' = Tail(queue) /\ scan' = scan
    BY <1>9 DEF Visit
  <2>2. \A o : Refers(o)' = Refers(o)
    BY <2>1, <1>6 DEF Refers
  <2>3. \A o \in DOMAIN found' \ {0} : Known(o)'
    BY <1>1, <2>1, <2>2 DEF Known
  <2>4. \A s, b : (Waits(queue, s, b))' <=> Waits(queue', s, b)
    BY DEF Waits
  <2>5. \A s, b : Follows(s, b)' <=> Follows(s, b)
    BY <2>1, <1>6 DEF Follows
  <2>6. \A s, b : Told(s, b)' <=> Told(s, b)
    BY <2>1 DEF Told
  <2>7. \A s, b : Waits(queue, s, b) /\ IsBlock(s) => Waits(queue', s, b)
    BY <1>2, <1>9, <2>1
  <2>8. \A s, b : Waits(queue', s, b) => Waits(queue, s, b)
    BY <1>2, <2>1
  <2> QED
    BY <1>1, <1>2, <1>6, <2>1, <2>3, <2>4, <2>5, <2>6, <2>7, <2>8 DEF WalkInv
<1>10. CASE Visit(link) /\ IsBlock(to)
  <2>1. /\ found' = [o \in DOMAIN found \cup {to} |-> IF o = to THEN Met(link) ELSE found[o]]
        /\ queue' = Tail(queue) \o ToFollow(to) /\ scan' = scan
        /\ to \notin DOMAIN found
    BY <1>10 DEF Visit
  <2>2. /\ DOMAIN found' = DOMAIN found \cup {to}
        /\ found'[to] = Met(link)
        /\ \A o \in DOMAIN found : found'[o] = found[o]
    BY <2>1, <1>10
  <2>3. /\ ToFollow(to) \in Seq(Link)
        /\ \A s, b : Waits(ToFollow(to), s, b) <=> b = to /\ s \in ToSet(Links(to)) \ {0, to}
    BY <1>1, <1>10, ToFollowIs
  <2>4. /\ queue' \in Seq(Link)
        /\ \A s, b : Waits(queue', s, b)
              <=> Waits(Tail(queue), s, b) \/ (b = to /\ s \in ToSet(Links(to)) \ {0, to})
    BY <1>2, <2>1, <2>3, WaitsInConcat
  <2>5. to \in Reachable
    <3>1. CASE from = 0
      BY <1>1, <1>3, <1>10, <3>1, ReachableIs DEF Follows
    <3>2. CASE from # 0
      BY <1>1, <1>5, <1>10, <3>2, ReachableIs
    <3> QED
      BY <3>1, <3>2
  <2>6. \A o : Refers(o) \subseteq Refers(o)'
    BY <2>2, <1>6 DEF Refers
  <2>7. Known(to)'
    <3>1. CASE from = 0
      BY <3>1, <2>2, NoReferrer DEF Met, Known
    <3>2. CASE from # 0
      <4>1. from \in Refers(to)
        BY <3>2, <1>5 DEF Refers
      <4> QED
        BY <3>2, <4>1, <1>2, <2>2, <2>6, OneReferrer DEF Met, Known
    <3> QED
      BY <3>1, <3>2
  <2>8. \A o \in DOMAIN found' \ {0} : Known(o)'
    <3> TAKE o \in DOMAIN found' \ {0}
    <3>1. CASE o = to
      BY <3>1, <2>7
    <3>2. CASE o # to
      <4>1. Known(o) /\ found'[o] = found[o]
        BY <3>2, <1>1, <2>2
      <4> QED
        BY <4>1, <2>6 DEF Known
    <3> QED
      BY <3>1, <3>2
  <2>9. \A s, b : (Waits(queue, s, b))' <=> Waits(queue', s, b)
    BY DEF Waits
  <2>10. \A s, b : Follows(s, b) => Follows(s, b)'
    BY <2>2, <1>6 DEF Follows
  <2>11. \A s, b : Waits(queue', s, b) => Follows(s, b)'
    <3>1. \A s \in ToSet(Links(to)) \ {0, to} : Follows(s, to)'
      BY <2>2, <1>4, <1>6 DEF Follows
    <3> QED
      BY <3>1, <2>4, <2>10, <1>1, <1>2
  <2>12. \A s, b : Told(s, b) => Told(s, b)'
    BY <2>2 DEF Told
  <2>13. from # 0 => Told(to, from)'
    BY <2>2, <1>2, OneReferrer DEF Told, Met
  <2>14. \A b \in DOMAIN found' \ {0} : \A s \in ToSet(Links(b)') \ {0, b} :
            IsBlock(s)' => Waits(queue', s, b) \/ Told(s, b)'
    <3> TAKE b \in DOMAIN found' \ {0}
    <3> TAKE s \in ToSet(Links(b)') \ {0, b}
    <3> HAVE IsBlock(s)'
    <3>1. CASE b = to
      BY <3>1, <1>6, <2>4
    <3>2. CASE b # to
      <4>1. Waits(queue, s, b) \/ Told(s, b)
        BY <3>2, <1>1, <1>6, <2>2
      <4> QED
        BY <4>1, <1>2, <2>4, <2>12, <2>13
    <3> QED
      BY <3>1, <3>2
  <2>15. IsBlock(Header)' => Header \in DOMAIN found' \/ Waits(queue', Header, 0)
    BY <1>1, <1>2, <1>6, <2>2, <2>4
  <2> QED
    BY <1>1, <1>6, <2>1, <2>2, <2>4, <2>5, <2>8, <2>9, <2>11, <2>14, <2>15 DEF WalkInv
<1>11. MetAgain(link) \/ TooMany(link) \/ Visit(link)
  BY <1>0 DEF MapStep
<1> QED
  BY <1>7, <1>8, <1>9, <1>10, <1>11

\* Every step of the map, and every stutter, keeps the invariant.
LEMMA WalkInvNext == WalkInv /\ [MapNext]_<<file, mapVars>> => WalkInv'
<1> SUFFICES ASSUME WalkInv, [MapNext]_<<file, mapVars>>
             PROVE  WalkInv'
  OBVIOUS
<1>1. CASE MapStep
  BY <1>1, WalkInvStep
<1>2. CASE MapEnds \/ UNCHANGED <<file, mapVars>>
  <2>1. /\ file' = file /\ found' = found /\ queue' = queue
        /\ scan' = "done" => queue = <<>>
    BY <1>2 DEF MapEnds, mapVars, WalkInv
  <2>2. Reachable' = Reachable /\ \A o : (IsBlock(o)' <=> IsBlock(o)) /\ Links(o)' = Links(o)
    BY <2>1, ReachableKept DEF IsBlock, Links
  <2>3. \A o : Refers(o)' = Refers(o)
    BY <2>1, <2>2 DEF Refers
  <2>4. \A o : Known(o)' <=> Known(o)
    BY <2>1, <2>3 DEF Known
  <2>5. \A s, b : (Waits(queue, s, b))' <=> Waits(queue, s, b)
    BY <2>1 DEF Waits
  <2>6. \A s, b : Follows(s, b)' <=> Follows(s, b)
    BY <2>1, <2>2 DEF Follows
  <2>7. \A s, b : Told(s, b)' <=> Told(s, b)
    BY <2>1 DEF Told
  <2> QED
    BY <2>1, <2>2, <2>4, <2>5, <2>6, <2>7 DEF WalkInv
<1> QED
  BY <1>1, <1>2 DEF MapNext

(***************************************************************************)
(* The gaps.  Blocks are swept by address; what lies behind the cursor is  *)
(* covered by a block swept or in a gap, and no gap reaches the blocks yet *)
(* to come.                                                                *)
(***************************************************************************)

Gap == [at : Nat, size : Nat]
SweepState == [cursor : Nat, gaps : Seq(Gap)]

\* A gap behind the gaps so far adds its own bytes to theirs.
LEMMA GapAppended ==
    ASSUME NEW gaps \in Seq(Gap), NEW x \in Nat, NEW y \in Nat, x < y
    PROVE  /\ Append(gaps, [at |-> x, size |-> y - x]) \in Seq(Gap)
           /\ \A byte \in Nat : InGap(byte, Append(gaps, [at |-> x, size |-> y - x]))
                                   <=> InGap(byte, gaps) \/ (x <= byte /\ byte < y)
<1> DEFINE new == [at |-> x, size |-> y - x]
           a == Append(gaps, new)
<1>0. new \in Gap /\ new.at = x /\ new.at + new.size - 1 = y - 1
  BY DEF Gap
<1> HIDE DEF new
<1>1. /\ Len(gaps) \in Nat /\ DOMAIN gaps = 1..Len(gaps)
      /\ a \in Seq(Gap)
      /\ Len(a) = Len(gaps) + 1
      /\ \A i \in 1..Len(gaps) : a[i] = gaps[i]
      /\ a[Len(gaps) + 1] = new
  BY <1>0, AppendProperties, LenProperties
<1>2. DOMAIN a = 1..(Len(gaps) + 1)
  BY <1>1, LenProperties
<1> HIDE DEF a
<1>3. \A i \in 1..(Len(gaps) + 1) : i \in 1..Len(gaps) \/ i = Len(gaps) + 1
  BY <1>1
<1>4. Len(gaps) + 1 \in 1..(Len(gaps) + 1) /\ \A i \in 1..Len(gaps) : i \in 1..(Len(gaps) + 1)
  BY <1>1
<1>5. \A byte \in Nat : byte \in new.at..new.at + new.size - 1 <=> x <= byte /\ byte < y
  BY <1>0
<1>6. \A byte \in Nat : InGap(byte, a) <=> InGap(byte, gaps) \/ (byte \in new.at..new.at + new.size - 1)
  BY <1>1, <1>2, <1>3, <1>4 DEF InGap
<1> QED
  BY <1>1, <1>5, <1>6 DEF a, new

\* The ends of blocks found are offsets.
LEMMA EndsOfBlocks ==
    ASSUME file \in Files, DOMAIN found \subseteq {0} \cup Reachable
    PROVE  \A o \in DOMAIN found : o \in Nat /\ EndOf(o) \in Nat /\ o < EndOf(o)
<1> TAKE o \in DOMAIN found
<1>1. CASE o = 0
  BY <1>1 DEF EndOf
<1>2. CASE o # 0
  <2>1. IsBlock(o)
    BY <1>2, ReachableIs DEF IsBlock
  <2> QED
    BY <1>2, <2>1, BlocksLink DEF EndOf
<1> QED
  BY <1>1, <1>2

\* A block before n covers the byte.
CoveredBefore(byte, n) == \E o \in DOMAIN found : o < n /\ byte \in o..EndOf(o) - 1

SweptTo(s, n) ==
    /\ s \in SweepState
    /\ \A o \in DOMAIN found : o < n => EndOf(o) <= s.cursor
    /\ \A byte \in Nat : InGap(byte, s.gaps) => byte < n
    /\ \A byte \in Nat : InGap(byte, s.gaps) <=> byte < s.cursor /\ ~CoveredBefore(byte, n)

\* Past offsets where no block is found the sweep has the gaps it had.
LEMMA SweepStays ==
    ASSUME file \in Files, DOMAIN found \subseteq {0} \cup Reachable,
           NEW s \in SweepState, NEW o \in DOMAIN found
    PROVE  Sweep(s, o) \in SweepState
<1>1. o \in Nat /\ EndOf(o) \in Nat
  BY EndsOfBlocks
<1>2. s.cursor \in Nat /\ s.gaps \in Seq(Gap)
  BY DEF SweepState
<1>3. o > s.cursor => Append(s.gaps, [at |-> s.cursor, size |-> o - s.cursor]) \in Seq(Gap)
  BY <1>1, <1>2, GapAppended
<1>4. Cursor(s.cursor, o) \in Nat
  BY <1>1, <1>2 DEF Cursor
<1>5. (IF o > s.cursor THEN Append(s.gaps, [at |-> s.cursor, size |-> o - s.cursor]) ELSE s.gaps) \in Seq(Gap)
  BY <1>2, <1>3
<1> QED
  BY <1>4, <1>5 DEF Sweep, SweepState

\* At a block the sweep closes the gap before it, if there is one.
LEMMA SweepGoesOn ==
    ASSUME file \in Files, DOMAIN found \subseteq {0} \cup Reachable,
           NEW s, NEW n \in Nat, SweptTo(s, n), n \in DOMAIN found
    PROVE  SweptTo(Sweep(s, n), n + 1)
<1> DEFINE t == Sweep(s, n)
<1>1. /\ s \in SweepState
      /\ \A o \in DOMAIN found : o < n => EndOf(o) <= s.cursor
      /\ \A byte \in Nat : InGap(byte, s.gaps) => byte < n
      /\ \A byte \in Nat : InGap(byte, s.gaps) <=> byte < s.cursor /\ ~CoveredBefore(byte, n)
  BY DEF SweptTo
<1>2. PICK c \in Nat : c = s.cursor
  BY <1>1 DEF SweepState
<1>3. s.gaps \in Seq(Gap)
  BY <1>1 DEF SweepState
<1>4. PICK e \in Nat : e = EndOf(n) /\ n < e
  BY EndsOfBlocks
<1>5. \A o \in DOMAIN found : o \in Nat /\ EndOf(o) \in Nat
  BY EndsOfBlocks
<1>6. t \in SweepState
  BY <1>1, SweepStays
<1>7. PICK d \in Nat : d = t.cursor
  BY <1>6 DEF SweepState
<1>8. d = IF e > c THEN e ELSE c
  BY <1>2, <1>4, <1>7 DEF Sweep, Cursor
<1>9. /\ n > c => t.gaps = Append(s.gaps, [at |-> c, size |-> n - c])
      /\ ~(n > c) => t.gaps = s.gaps
  BY <1>2 DEF Sweep
<1> HIDE DEF t
<1>10. \A byte \in Nat : InGap(byte, t.gaps) <=> InGap(byte, s.gaps) \/ (n > c /\ c <= byte /\ byte < n)
  <2>1. CASE n > c
    <3>1. t.gaps = Append(s.gaps, [at |-> c, size |-> n - c])
      BY <1>9, <2>1
    <3> DEFINE a == Append(s.gaps, [at |-> c, size |-> n - c])
    <3>2. \A byte \in Nat : InGap(byte, a) <=> InGap(byte, s.gaps) \/ (c <= byte /\ byte < n)
      BY <1>3, <2>1, GapAppended
    <3> HIDE DEF a
    <3>3. t.gaps = a
      BY <3>1 DEF a
    <3> QED
      BY <3>2, <3>3, <2>1
  <2>2. CASE ~(n > c)
    BY <1>9, <2>2
  <2> QED
    BY <2>1, <2>2
<1>11. ASSUME NEW byte \in Nat
       PROVE  CoveredBefore(byte, n + 1) <=> CoveredBefore(byte, n) \/ (n <= byte /\ byte < e)
  <2>1. \A o \in DOMAIN found : o < n + 1 <=> o < n \/ o = n
    BY <1>5
  <2>2. byte \in n..EndOf(n) - 1 <=> n <= byte /\ byte < e
    BY <1>4
  <2> QED
    BY <2>1, <2>2 DEF CoveredBefore
<1>12. ASSUME NEW o \in DOMAIN found, o < n + 1
       PROVE  EndOf(o) <= d
  <2>1. o < n \/ o = n
    BY <1>5, <1>12
  <2> QED
    BY <2>1, <1>1, <1>2, <1>4, <1>5, <1>8
<1>13. ASSUME NEW byte \in Nat, byte >= c
       PROVE  ~CoveredBefore(byte, n)
  <2>1. \A o \in DOMAIN found : o < n => ~(byte \in o..EndOf(o) - 1)
    BY <1>1, <1>2, <1>5, <1>13
  <2> QED
    BY <2>1 DEF CoveredBefore
<1>14. ASSUME NEW byte \in Nat
       PROVE  /\ InGap(byte, t.gaps) => byte < n + 1
              /\ InGap(byte, t.gaps) <=> byte < d /\ ~CoveredBefore(byte, n + 1)
  <2>1. /\ InGap(byte, s.gaps) => byte < n
        /\ InGap(byte, s.gaps) <=> byte < c /\ ~CoveredBefore(byte, n)
        /\ InGap(byte, t.gaps) <=> InGap(byte, s.gaps) \/ (n > c /\ c <= byte /\ byte < n)
        /\ CoveredBefore(byte, n + 1) <=> CoveredBefore(byte, n) \/ (n <= byte /\ byte < e)
        /\ byte >= c => ~CoveredBefore(byte, n)
    BY <1>1, <1>2, <1>10, <1>11, <1>13
  <2> QED
    BY ONLY <2>1, <1>8, <1>4, n \in Nat, c \in Nat, d \in Nat, byte \in Nat
<1>15. SweptTo(t, n + 1)
  BY <1>6, <1>7, <1>12, <1>14 DEF SweptTo
<1> QED
  BY <1>15 DEF t

\* Anywhere else it goes by.
LEMMA SweepGoesBy ==
    ASSUME file \in Files, DOMAIN found \subseteq {0} \cup Reachable,
           NEW s, NEW n \in Nat, SweptTo(s, n), n \notin DOMAIN found
    PROVE  SweptTo(s, n + 1)
<1>1. \A o \in DOMAIN found : o < n + 1 <=> o < n
  BY EndsOfBlocks
<1>2. \A byte : CoveredBefore(byte, n + 1) <=> CoveredBefore(byte, n)
  BY <1>1 DEF CoveredBefore
<1>3. \A byte \in Nat : byte < n => byte < n + 1
  OBVIOUS
<1> QED
  BY <1>1, <1>2, <1>3 DEF SweptTo

\* The sweep up to n has the uncovered offsets below the last block before n.
LEMMA SweptIs ==
    ASSUME file \in Files, DOMAIN found \subseteq {0} \cup Reachable
    PROVE  SweptTo(Swept[FileSize], FileSize)
<1> DEFINE N == FileSize
           start == [cursor |-> 0, gaps |-> <<>>]
           F == [n \in 1..N |-> [s \in SweepState |->
                    IF n - 1 \in DOMAIN found THEN Sweep(s, n - 1) ELSE s]]
           Body(g) == [n \in 0..N |->
                    IF n = 0 THEN start
                    ELSE IF n - 1 \in DOMAIN found THEN Sweep(g[n - 1], n - 1) ELSE g[n - 1]]
<1>1. N \in Nat
  BY BlockGraphAssumption
<1>2. start \in SweepState
  <2>1. <<>> \in Seq(Gap)
    BY EmptySeq
  <2> QED
    BY <2>1 DEF SweepState
<1>3. F \in [1..N -> [SweepState -> SweepState]]
  BY SweepStays
<1>4. PICK f : IsRecursion(f, N, SweepState, start, F)
  <2> HIDE DEF F, N, start
  <2> QED
    BY <1>1, <1>2, <1>3, Recursion
<1>5. f = Body(f)
  <2>1. f \in [0..N -> SweepState] /\ f = [n \in 0..N |-> IF n = 0 THEN start ELSE F[n][f[n - 1]]]
    BY <1>4 DEF IsRecursion
  <2>2. ASSUME NEW n \in 0..N, n # 0
        PROVE  F[n][f[n - 1]] = IF n - 1 \in DOMAIN found THEN Sweep(f[n - 1], n - 1) ELSE f[n - 1]
    <3> HIDE DEF N, start
    <3>1. n \in 1..N /\ n - 1 \in 0..N
      BY <1>1, <2>2
    <3>2. f[n - 1] \in SweepState
      BY <2>1, <3>1
    <3> QED
      BY <3>1, <3>2
  <2> HIDE DEF F, N, start
  <2> QED
    BY <2>1, <2>2
<1>6. Swept = Body(Swept)
  BY <1>5 DEF Swept
<1> HIDE DEF F
<1> DEFINE S == {n \in 0..N : SweptTo(Swept[n], n)}
<1>7. 0 \in S
  <2>1. 0 \in 0..N
    BY <1>1
  <2>2. Swept[0] = start
    <3> HIDE DEF start
    <3> QED
      BY <1>6, <2>1
  <2>3. \A byte : ~InGap(byte, <<>>)
    <3>1. DOMAIN <<>> = {}
      BY EmptySeq
    <3> QED
      BY <3>1 DEF InGap
  <2>4. \A o \in DOMAIN found : ~(o < 0)
    BY EndsOfBlocks
  <2>5. SweptTo(start, 0)
    BY <1>2, <2>3, <2>4 DEF SweptTo
  <2> HIDE DEF start
  <2> QED
    BY <2>1, <2>2, <2>5
<1>8. ASSUME NEW n \in 1..N, n - 1 \in S
      PROVE  n \in S
  <2> HIDE DEF start, N
  <2>1. n \in 0..N /\ n # 0 /\ n - 1 \in Nat /\ (n - 1) + 1 = n
    BY <1>1
  <2>2. Swept[n] = IF n - 1 \in DOMAIN found THEN Sweep(Swept[n - 1], n - 1) ELSE Swept[n - 1]
    BY <1>6, <2>1
  <2>3. SweptTo(Swept[n - 1], n - 1)
    BY <1>8
  <2>4. SweptTo(Swept[n], (n - 1) + 1)
    <3>1. CASE n - 1 \in DOMAIN found
      BY <3>1, <2>1, <2>2, <2>3, SweepGoesOn
    <3>2. CASE n - 1 \notin DOMAIN found
      BY <3>2, <2>1, <2>2, <2>3, SweepGoesBy
    <3> QED
      BY <3>1, <3>2
  <2> QED
    BY <2>1, <2>4
<1> HIDE DEF S
<1>9. \A n \in 0..N : n \in S
  <2> HIDE DEF N
  <2> QED
    BY <1>1, <1>7, <1>8, UpToInduction
<1>10. N \in S
  BY <1>1, <1>9
<1> QED
  BY <1>10 DEF S

\* The gaps are exactly the bytes of the file no block found covers.
LEMMA GapsAreUncovered ==
    ASSUME file \in Files, DOMAIN found \subseteq {0} \cup Reachable
    PROVE  \A byte \in 0..FileSize - 1 : InGap(byte, Gaps) <=> ~Covered(byte)
<1> DEFINE s == Swept[FileSize]
<1>1. /\ s \in SweepState
      /\ \A o \in DOMAIN found : o < FileSize => EndOf(o) <= s.cursor
      /\ \A byte \in Nat : InGap(byte, s.gaps) <=> byte < s.cursor /\ ~CoveredBefore(byte, FileSize)
  BY SweptIs DEF SweptTo
<1>2. FileSize \in Nat
  BY BlockGraphAssumption
<1>3. /\ s.cursor < FileSize => Gaps = Append(s.gaps, [at |-> s.cursor, size |-> FileSize - s.cursor])
      /\ ~(s.cursor < FileSize) => Gaps = s.gaps
  BY DEF Gaps
<1> HIDE DEF s
<1>4. PICK c \in Nat : c = s.cursor
  BY <1>1 DEF SweepState
<1>5. s.gaps \in Seq(Gap)
  BY <1>1 DEF SweepState
<1>6. \A byte \in Nat : InGap(byte, Gaps)
          <=> InGap(byte, s.gaps) \/ (c < FileSize /\ c <= byte /\ byte < FileSize)
  <2>1. CASE c < FileSize
    <3> DEFINE a == Append(s.gaps, [at |-> c, size |-> FileSize - c])
    <3>1. Gaps = a
      BY <1>3, <1>4, <2>1
    <3>2. \A byte \in Nat : InGap(byte, a) <=> InGap(byte, s.gaps) \/ (c <= byte /\ byte < FileSize)
      BY <1>2, <1>5, <2>1, GapAppended
    <3> HIDE DEF a
    <3> QED
      BY <3>1, <3>2, <2>1
  <2>2. CASE ~(c < FileSize)
    BY <1>3, <1>4, <2>2
  <2> QED
    BY <2>1, <2>2
<1>7. \A o \in DOMAIN found : o \in Nat /\ EndOf(o) \in Nat
  BY EndsOfBlocks
<1> TAKE byte \in 0..FileSize - 1
<1>8. byte \in Nat /\ byte < FileSize
  BY <1>2
<1>9. Covered(byte) <=> CoveredBefore(byte, FileSize)
  <2>1. \A o \in DOMAIN found : byte \in o..EndOf(o) - 1 => o < FileSize
    BY <1>2, <1>7, <1>8
  <2> QED
    BY <2>1 DEF Covered, CoveredBefore
<1>10. byte >= c => ~CoveredBefore(byte, FileSize)
  <2>1. ASSUME byte >= c
        PROVE  \A o \in DOMAIN found : o < FileSize => ~(byte \in o..EndOf(o) - 1)
    BY <1>1, <1>4, <1>7, <1>8, <2>1
  <2> QED
    BY <2>1 DEF CoveredBefore
<1>11. InGap(byte, s.gaps) <=> byte < c /\ ~CoveredBefore(byte, FileSize)
  BY <1>1, <1>4, <1>8
<1>12. InGap(byte, Gaps) <=> InGap(byte, s.gaps) \/ (c < FileSize /\ c <= byte /\ byte < FileSize)
  BY <1>6, <1>8
<1> QED
  BY ONLY <1>2, <1>8, <1>9, <1>10, <1>11, <1>12, c \in Nat

(***************************************************************************)
(* The block map.                                                          *)
(***************************************************************************)

\* A finished walk that keeps the invariant has made the map of the graph.
LEMMA MapInvIsTheGraph == WalkInv => MapIsTheGraph
<1> SUFFICES ASSUME WalkInv
             PROVE  MapIsTheGraph
  OBVIOUS
<1>1. /\ file \in Files
      /\ DOMAIN found \subseteq {0} \cup Reachable
      /\ 0 \in DOMAIN found
      /\ \A o \in DOMAIN found \ {0} : Known(o)
  BY DEF WalkInv
<1>2. ASSUME scan = "done"
      PROVE  /\ DOMAIN found = {0} \cup Reachable
             /\ \A o \in DOMAIN found \ {0} : ToSet(found[o]) = Refers(o) /\ IsInjective(found[o])
  <2>1. \A s, b : ~Waits(queue, s, b)
    <3>1. queue = <<>>
      BY <1>2 DEF WalkInv
    <3>2. \A i \in 1..Len(queue) : FALSE
      BY <3>1, EmptySeq
    <3> QED
      BY <3>2 DEF Waits
  <2>2. \A b \in DOMAIN found \ {0} : \A s \in ToSet(Links(b)) \ {0, b} : IsBlock(s) => Told(s, b)
    BY <2>1 DEF WalkInv
  <2>3. IsBlock(Header) => Header \in DOMAIN found
    BY <2>1 DEF WalkInv
  <2>4. ~IsBlock(0) /\ Header # 0
    BY <1>1, BlockGraphAssumption DEF IsBlock
  <2> DEFINE All == DOMAIN found \ {0}
  <2>5. ASSUME NEW o \in All, IsBlock(o), NEW s \in ToSet(Links(o)), IsBlock(s)
        PROVE  s \in All
    BY <2>2, <2>4, <2>5 DEF Told
  <2>6. Reachable \subseteq All
    <3>1. IsBlock(Header) => Header \in All
      BY <2>3, <2>4
    <3> HIDE DEF All
    <3> QED
      BY <1>1, <2>5, <3>1, ReachableIs
  <2>7. DOMAIN found = {0} \cup Reachable
    BY <1>1, <2>6
  <2>8. ASSUME NEW o \in DOMAIN found \ {0}
        PROVE  ToSet(found[o]) = Refers(o) /\ IsInjective(found[o])
    <3>1. Known(o) /\ IsBlock(o)
      BY <1>1, ReachableIs DEF IsBlock
    <3>2. \A b \in Refers(o) : Told(o, b)
      BY <2>2, <3>1, <2>8 DEF Refers
    <3> QED
      BY <3>1, <3>2 DEF Known, Told
  <2> QED
    BY <2>7, <2>8
<1>3. \A byte \in 0..FileSize - 1 : InGap(byte, Gaps) <=> ~Covered(byte)
  BY <1>1, GapsAreUncovered
<1> QED
  BY <1>1, <1>2, <1>3 DEF MapIsTheGraph

\* The map of a scan is the graph the links of the file make from the header, with
\* every referrer of every block, and its gaps the bytes no block of it covers.
THEOREM MapOfEveryFile == MapSpec => []MapIsTheGraph
<1>1. file \in Files /\ MapInit => WalkInv
  BY WalkInvInit
<1>2. WalkInv /\ [MapNext]_<<file, mapVars>> => WalkInv'
  BY WalkInvNext
<1>3. WalkInv => MapIsTheGraph
  BY MapInvIsTheGraph
<1> QED
  BY <1>1, <1>2, <1>3, PTL DEF MapSpec
=============================================================================

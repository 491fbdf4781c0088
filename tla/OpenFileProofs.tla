--------------------------- MODULE OpenFileProofs ---------------------------
(***************************************************************************)
(* Proofs about OpenFile, for every file it may be given: any range of     *)
(* bytes read through the index of a data group's blocks is that slice of  *)
(* the blocks one behind the other, blocks of no bytes among them; the     *)
(* channels of an opened file are the paths of its tree; no file is opened *)
(* with a cycle and none refused for one that has none.                    *)
(*                                                                         *)
(* The index is built by following the chain of lists; all that is needed  *)
(* of it is that its entries have a size (IndexInv).  The reading goes from*)
(* block to block: the search for a block finds the last one that starts at*)
(* or before an offset (BlockIsFound), the part it takes of it is a part of*)
(* the whole (PartIs), and the parts meet (ReadingIs).                     *)
(*                                                                         *)
(* The channels and the cycles are one induction over the walks in progress*)
(* (InvOf).  A walk has come along its chain (OnChain), an inner one is    *)
(* beneath a block that the outer ones have passed (Stacked), and every    *)
(* path of the tree is taken up already or ahead of some walk (AllCovered):*)
(* when no walk is left every path has been taken up, and every chain that *)
(* leads on from one has been followed to its end.                         *)
(***************************************************************************)
EXTENDS OpenFile, InductionFacts, SequenceTheorems, FiniteSetTheorems, TLAPS

(***************************************************************************)
(* The index of the data blocks.                                           *)
(***************************************************************************)

\* An entry of a block, with its invalidation block if it has one.
Entered == {e \in [at : Nat, size : Nat, inval : Nat] : e.inval = 0 \/ IsBlock(e.inval)}

IndexInv == file \in Files /\ index \in Seq(Entered)

\* The sizes and links of a block are numbers.
LEMMA ABlock ==
    ASSUME file \in Files, NEW o, IsBlock(o)
    PROVE  o \in Nat /\ o # 0 /\ o < FileSize /\ FileSize \in Nat /\ file[o] \in BlockType
BY BlockGraphAssumption DEF IsBlock

\* What is entered for a data block is an entry.
LEMMA EntryIsEntered ==
    ASSUME file \in Files, NEW o, IsBlock(o), NEW i \in Nat, i = 0 \/ IsBlock(i)
    PROVE  Entry(o, i) \in Entered
BY ABlock DEF Entry, Entered, BlockType

\* The entries of a chain of lists and blocks are entries.
LEMMA EntriesAre ==
    ASSUME file \in Files, NEW links \in Seq(Nat), NEW inval,
           \A i \in 1..Len(links) : links[i] # 0 =>
               IsBlock(links[i]) /\ inval[i] \in Nat /\ (inval[i] = 0 \/ IsBlock(inval[i]))
    PROVE  Entries(links, inval) \in Seq(Entered)
<1> DEFINE N == Len(links)
           F == [n \in 1..N |-> [q \in Seq(Entered) |->
                   IF links[n] = 0 THEN q ELSE Append(q, Entry(links[n], inval[n]))]]
           Body(g) == [n \in 0..N |->
                   IF n = 0 THEN <<>>
                   ELSE IF links[n] = 0 THEN g[n - 1]
                   ELSE Append(g[n - 1], Entry(links[n], inval[n]))]
<1>1. N \in Nat
  BY LenProperties
<1>2. \A n \in 1..N : \A q \in Seq(Entered) :
          (IF links[n] = 0 THEN q ELSE Append(q, Entry(links[n], inval[n]))) \in Seq(Entered)
  BY EntryIsEntered, AppendProperties
<1>3. F \in [1..N -> [Seq(Entered) -> Seq(Entered)]]
  <2> HIDE DEF N
  <2> QED
    BY <1>2
<1>4. <<>> \in Seq(Entered)
  BY EmptySeq
<1>5. PICK f : IsRecursion(f, N, Seq(Entered), <<>>, F)
  <2> HIDE DEF F, N
  <2> QED
    BY <1>1, <1>3, <1>4, Recursion
<1>6. f = Body(f)
  <2>1. f \in [0..N -> Seq(Entered)] /\ f = [n \in 0..N |-> IF n = 0 THEN <<>> ELSE F[n][f[n - 1]]]
    BY <1>5 DEF IsRecursion
  <2>2. ASSUME NEW n \in 0..N, n # 0
        PROVE  F[n][f[n - 1]] = IF links[n] = 0 THEN f[n - 1]
                                ELSE Append(f[n - 1], Entry(links[n], inval[n]))
    <3> HIDE DEF N
    <3>1. n \in 1..N /\ n - 1 \in 0..N
      BY <1>1, <2>2
    <3>2. f[n - 1] \in Seq(Entered)
      BY <2>1, <3>1
    <3> QED
      BY <3>1, <3>2
  <2> HIDE DEF F, N
  <2> QED
    BY <2>1, <2>2
<1> DEFINE R == CHOOSE g : g = Body(g)
<1>7. R = Body(R) /\ Entries(links, inval) = R[N]
  BY <1>6 DEF Entries
<1> HIDE DEF R, F
<1> DEFINE S == {n \in 0..N : R[n] \in Seq(Entered)}
<1>8. 0 \in S
  <2> HIDE DEF N
  <2>1. 0 \in 0..N
    BY <1>1
  <2> QED
    BY <1>4, <1>7, <2>1
<1>9. ASSUME NEW n \in 1..N, n - 1 \in S
      PROVE  n \in S
  <2>1. n \in 0..N /\ n # 0
    BY <1>1
  <2>2. R[n] = IF links[n] = 0 THEN R[n - 1] ELSE Append(R[n - 1], Entry(links[n], inval[n]))
    <3> HIDE DEF N
    <3> QED
      BY <1>7, <2>1
  <2> QED
    BY <1>2, <1>9, <2>1, <2>2
<1> HIDE DEF S, N
<1>10. \A n \in 0..N : n \in S
  BY <1>1, <1>8, <1>9, UpToInduction
<1> QED
  BY <1>1, <1>7, <1>10 DEF S

\* Only a block has a kind.
LEMMA KindsAreOfBlocks ==
    ASSUME NEW o, Kind(o) # "none"
    PROVE  IsBlock(o)
BY DEF Kind

\* The index of a file not yet opened has no entries.
LEMMA IndexInvInit == file \in Files /\ OpenInit => IndexInv
BY EmptySeq DEF OpenInit, IndexInv

\* Every action leaves the index alone, empties it, or adds entries of blocks.
LEMMA IndexInvNext == IndexInv /\ [OpenNext]_<<file, openVars>> => IndexInv'
<1> SUFFICES ASSUME IndexInv, [OpenNext]_<<file, openVars>>
             PROVE  IndexInv'
  OBVIOUS
<1>0. file \in Files /\ index \in Seq(Entered) /\ <<>> \in Seq(Entered)
  BY EmptySeq DEF IndexInv
<1> SUFFICES file' = file /\ index' \in Seq(Entered)
  <2>1. file' = file => Entered' = Entered
    BY DEF Entered, IsBlock
  <2> QED
    BY <1>0, <2>1 DEF IndexInv
<1>1. CASE UNCHANGED <<file, openVars>>
  BY <1>0, <1>1 DEF openVars
<1>2. CASE OpenHeader
  BY <1>0, <1>2 DEF OpenHeader, Fail
<1>3. CASE WalkEnds
  BY <1>0, <1>3 DEF WalkEnds
<1>4. CASE DataGroup
  BY <1>0, <1>4 DEF DataGroup, Step, Fail
<1>5. CASE ChannelGroup
  BY <1>0, <1>5 DEF ChannelGroup, Step, Fail
<1>6. CASE FlatList
  BY <1>0, <1>6 DEF FlatList, Step, Fail
<1>7. CASE TopChannel
  BY <1>0, <1>7 DEF TopChannel, Step, Fail
<1>8. CASE StructMember
  BY <1>0, <1>8 DEF StructMember, Step, Fail
<1>9. CASE Composition
  BY <1>0, <1>9 DEF Composition, Fail
<1>10. CASE Conversion
  BY <1>0, <1>10 DEF Conversion, Step, Fail
<1>11. CASE HierarchyNode
  BY <1>0, <1>11 DEF HierarchyNode, Step, Fail
<1>12. CASE DataBlock
  <2>1. file' = file
    BY <1>12 DEF DataBlock, Fail
  <2>2. CASE Kind(Top.at) \in DataKinds
    <3>1. IsBlock(Top.at)
      BY <2>2, KindsAreOfBlocks DEF DataKinds
    <3>2. Entry(Top.at, 0) \in Entered
      BY <1>0, <3>1, EntryIsEntered
    <3>3. FileSize - Top.at - 1 \in Nat
      BY <1>0, <3>1, ABlock
    <3>4. [Entry(Top.at, 0) EXCEPT !.size = FileSize - Top.at - 1] \in Entered
      BY <3>2, <3>3 DEF Entered
    <3>5. \E e \in Entered : index' = <<e>>
      BY <1>12, <2>2, <3>2, <3>4 DEF DataBlock
    <3>6. \A e \in Entered : <<e>> \in Seq(Entered)
      OBVIOUS
    <3> QED
      BY <2>1, <3>5, <3>6
  <2>3. CASE Kind(Top.at) \notin DataKinds
    BY <1>0, <1>12, <2>1, <2>3 DEF DataBlock, Fail
  <2> QED
    BY <2>2, <2>3
<1>13. CASE DataList
  <2>1. CASE index' = index
    BY <1>0, <1>13, <2>1 DEF DataList, Step, Fail
  <2>2. CASE index' # index
    <3>1. /\ Kind(Top.at) \in {"DL"}
          /\ \A i \in DOMAIN block.more : block.more[i] # 0 => Kind(block.more[i]) \in DataKinds
          /\ index' = index \o Entries(block.more, [i \in DOMAIN block.more |-> 0])
          /\ file' = file
      BY <1>13, <2>2 DEF DataList, Step, Fail
    <3>2. block.more \in Seq(Nat)
      BY <1>0, <3>1, KindsAreOfBlocks, ABlock DEF block, BlockType
    <3>3. DOMAIN block.more = 1..Len(block.more)
      BY <3>2, LenProperties
    <3>4. \A i \in DOMAIN block.more : block.more[i] # 0 => IsBlock(block.more[i])
      BY <3>1, KindsAreOfBlocks DEF DataKinds
    <3>5. PICK links \in Seq(Nat) : links = block.more
      BY <3>2
    <3>6. Entries(links, [i \in DOMAIN links |-> 0]) \in Seq(Entered)
      BY <1>0, <3>3, <3>4, <3>5, EntriesAre
    <3> QED
      BY <1>0, <3>1, <3>5, <3>6, ConcatProperties
  <2> QED
    BY <2>1, <2>2
<1>14. CASE ListData
  <2>1. CASE index' = index
    BY <1>0, <1>14, <2>1 DEF ListData, Step, Fail
  <2>2. CASE index' # index
    <3> DEFINE given == [i \in DOMAIN block.more |-> IF i \in DOMAIN block.inval THEN block.inval[i] ELSE 0]
    <3>1. /\ Kind(Top.at) \in {"LD"}
          /\ \A i \in DOMAIN block.more : block.more[i] # 0 => Kind(block.more[i]) \in DataKinds \ {"DI"}
          /\ \A i \in DOMAIN block.inval : block.more[i] # 0 /\ block.inval[i] # 0 =>
                Kind(block.inval[i]) \in InvalidationKinds
          /\ index' = index \o Entries(block.more, given)
          /\ file' = file
      BY <1>14, <2>2 DEF ListData, Step, Fail
    <3>2. block.more \in Seq(Nat) /\ block.inval \in Seq(Nat)
      BY <1>0, <3>1, KindsAreOfBlocks, ABlock DEF block, BlockType
    <3>3. PICK links \in Seq(Nat), inval \in Seq(Nat) : links = block.more /\ inval = block.inval
      BY <3>2
    <3>4. PICK g : g = [i \in DOMAIN links |-> IF i \in DOMAIN inval THEN inval[i] ELSE 0]
      OBVIOUS
    <3>5. DOMAIN links = 1..Len(links) /\ \A i \in DOMAIN inval : inval[i] \in Nat
      BY LenProperties, ElementOfSeq
    <3>6. \A i \in 1..Len(links) : links[i] # 0 =>
               IsBlock(links[i]) /\ g[i] \in Nat /\ (g[i] = 0 \/ IsBlock(g[i]))
      BY <3>1, <3>3, <3>4, <3>5, KindsAreOfBlocks DEF DataKinds, InvalidationKinds
    <3>7. Entries(links, g) \in Seq(Entered)
      BY <1>0, <3>6, EntriesAre
    <3> QED
      BY <1>0, <3>1, <3>3, <3>4, <3>7, ConcatProperties
  <2> QED
    BY <2>1, <2>2
<1> QED
  BY <1>1, <1>2, <1>3, <1>4, <1>5, <1>6, <1>7, <1>8, <1>9, <1>10, <1>11, <1>12, <1>13, <1>14
     DEF OpenNext

(***************************************************************************)
(* Where the blocks' bytes begin, and all of them one after the other.     *)
(***************************************************************************)

Byte == Nat \X Nat
Whole == FlattenSeq([i \in DOMAIN index |-> Content(index[i])])

\* The sizes of the entries are numbers.
LEMMA SizesAre ==
    ASSUME IndexInv
    PROVE  /\ Len(index) \in Nat /\ DOMAIN index = 1..Len(index)
           /\ \A i \in 1..Len(index) : Size(index[i]) \in Nat /\ index[i].at \in Nat
<1>1. file \in Files /\ Len(index) \in Nat /\ DOMAIN index = 1..Len(index)
  BY LenProperties DEF IndexInv
<1>2. \A i \in 1..Len(index) : index[i] \in Entered
  BY <1>1, ElementOfSeq DEF IndexInv
<1>3. \A e \in Entered : e.at \in Nat /\ Size(e) \in Nat
  <2> TAKE e \in Entered
  <2>1. e.at \in Nat /\ e.size \in Nat
    BY DEF Entered
  <2>2. CASE e.inval = 0
    BY <2>1, <2>2 DEF Size
  <2>3. CASE e.inval # 0
    <3>1. IsBlock(e.inval)
      BY <2>3 DEF Entered
    <3>2. file[e.inval].size \in Nat
      BY <1>1, <3>1, ABlock DEF BlockType
    <3> QED
      BY <2>1, <2>3, <3>2 DEF Size
  <2> QED
    BY <2>1, <2>2, <2>3
<1> QED
  BY <1>1, <1>2, <1>3

\* Each block starts where the one before it ends.
LEMMA StartsAre ==
    ASSUME IndexInv
    PROVE  /\ Starts[0] = 0
           /\ \A n \in 0..Len(index) : Starts[n] \in Nat
           /\ \A n \in 1..Len(index) : Starts[n] = Starts[n - 1] + Size(index[n])
<1> DEFINE N == Len(index)
           F == [n \in 1..N |-> [x \in Nat |-> x + Size(index[n])]]
           Body(g) == [n \in 0..N |-> IF n = 0 THEN 0 ELSE g[n - 1] + Size(index[n])]
<1>1. N \in Nat /\ \A n \in 1..N : Size(index[n]) \in Nat
  BY SizesAre
<1>2. F \in [1..N -> [Nat -> Nat]]
  BY <1>1
<1>3. PICK f : IsRecursion(f, N, Nat, 0, F)
  <2> HIDE DEF F, N
  <2> QED
    BY <1>1, <1>2, Recursion
<1>4. f = Body(f)
  <2>1. f \in [0..N -> Nat] /\ f = [n \in 0..N |-> IF n = 0 THEN 0 ELSE F[n][f[n - 1]]]
    BY <1>3 DEF IsRecursion
  <2>2. ASSUME NEW n \in 0..N, n # 0
        PROVE  F[n][f[n - 1]] = f[n - 1] + Size(index[n])
    <3> HIDE DEF N
    <3>1. n \in 1..N /\ n - 1 \in 0..N
      BY <1>1, <2>2
    <3>2. f[n - 1] \in Nat
      BY <2>1, <3>1
    <3> QED
      BY <3>1, <3>2
  <2> HIDE DEF F, N
  <2> QED
    BY <2>1, <2>2
<1>5. Starts = Body(Starts)
  BY <1>4 DEF Starts
<1> HIDE DEF F, N
<1> DEFINE S == {n \in 0..N : Starts[n] \in Nat}
<1>6. 0 \in 0..N /\ Starts[0] = 0
  <2>1. 0 \in 0..N
    BY <1>1
  <2> QED
    BY <1>5, <2>1
<1>7. ASSUME NEW n \in 1..N
      PROVE  n \in 0..N /\ Starts[n] = Starts[n - 1] + Size(index[n])
  <2>1. n \in 0..N /\ n # 0
    BY <1>1
  <2> QED
    BY <1>5, <2>1
<1>8. 0 \in S
  BY <1>6
<1>9. ASSUME NEW n \in 1..N, n - 1 \in S
      PROVE  n \in S
  BY <1>1, <1>7, <1>9
<1> HIDE DEF S
<1>10. \A n \in 0..N : n \in S
  BY <1>1, <1>8, <1>9, UpToInduction
<1> QED
  BY <1>6, <1>7, <1>10 DEF S, N

\* Later blocks begin no earlier.
LEMMA StartsGrow ==
    ASSUME IndexInv, NEW m \in 0..Len(index), NEW n \in 0..Len(index), m <= n
    PROVE  Starts[m] <= Starts[n]
<1> DEFINE N == Len(index)
           S == {k \in 0..N : m <= k => Starts[m] <= Starts[k]}
<1>1. /\ N \in Nat
      /\ \A k \in 0..N : Starts[k] \in Nat
      /\ \A k \in 1..N : Starts[k] = Starts[k - 1] + Size(index[k]) /\ Size(index[k]) \in Nat
  BY StartsAre, SizesAre
<1> HIDE DEF N
<1>2. m \in 0..N /\ n \in 0..N
  BY DEF N
<1>3. 0 \in S
  <2>1. 0 \in 0..N /\ (m <= 0 => m = 0)
    BY <1>1, <1>2
  <2>2. Starts[0] <= Starts[0]
    BY <1>1, <2>1
  <2> QED
    BY <2>1, <2>2
<1>4. ASSUME NEW k \in 1..N, k - 1 \in S
      PROVE  k \in S
  <2>1. k \in 0..N /\ k - 1 \in 0..N /\ (m <= k => m <= k - 1 \/ m = k)
    BY <1>1, <1>2
  <2>2. CASE m <= k - 1
    <3>1. Starts[m] <= Starts[k - 1]
      BY <1>4, <2>2
    <3> QED
      BY <1>1, <1>2, <2>1, <3>1
  <2>3. CASE m = k
    <3>1. Starts[k] <= Starts[k]
      BY <1>1, <2>1
    <3> QED
      BY <2>1, <2>3, <3>1
  <2> QED
    BY <2>1, <2>2, <2>3
<1> HIDE DEF S
<1>5. \A k \in 0..N : k \in S
  BY <1>1, <1>3, <1>4, UpToInduction
<1> QED
  BY <1>2, <1>5 DEF S

\* The content of a block is as long as its entry says.
LEMMA ContentIs ==
    ASSUME IndexInv, NEW i \in 1..Len(index)
    PROVE  /\ Content(index[i]) \in Seq(Byte)
           /\ Len(Content(index[i])) = Size(index[i])
           /\ \A j \in 1..Size(index[i]) : Content(index[i])[j] = <<index[i].at, j>>
<1>1. Size(index[i]) \in Nat /\ index[i].at \in Nat
  BY SizesAre
<1>2. \A j \in 1..Size(index[i]) : <<index[i].at, j>> \in Byte
  BY <1>1 DEF Byte
<1>3. PICK n \in Nat : n = Size(index[i])
  BY <1>1
<1>4. Content(index[i]) = [j \in 1..n |-> <<index[i].at, j>>]
  BY <1>3 DEF Content
<1>5. [j \in 1..n |-> <<index[i].at, j>>] \in Seq(Byte)
  BY <1>2, <1>3
<1>6. Len(Content(index[i])) = n
  BY <1>4
<1> QED
  BY <1>3, <1>4, <1>5, <1>6

\* The first n blocks' bytes.
BytesOf(b, n) ==
    /\ b \in Seq(Byte)
    /\ Len(b) = Starts[n]
    /\ \A i \in 1..n : \A j \in 1..Size(index[i]) : b[Starts[i - 1] + j] = <<index[i].at, j>>

\* A block put behind the blocks before it goes on where they end.
LEMMA BytesGoOn ==
    ASSUME IndexInv, NEW n \in 1..Len(index), NEW b, BytesOf(b, n - 1)
    PROVE  BytesOf(b \o Content(index[n]), n)
<1> DEFINE c == Content(index[n])
<1>1. /\ Len(index) \in Nat /\ n \in 0..Len(index) /\ n - 1 \in 0..Len(index)
      /\ Size(index[n]) \in Nat
      /\ Starts[n] \in Nat /\ Starts[n - 1] \in Nat
      /\ Starts[n] = Starts[n - 1] + Size(index[n])
  BY SizesAre, StartsAre
<1>2. /\ c \in Seq(Byte) /\ Len(c) = Size(index[n])
      /\ \A j \in 1..Size(index[n]) : c[j] = <<index[n].at, j>>
  BY ContentIs
<1> HIDE DEF c
<1>3. b \in Seq(Byte) /\ Len(b) = Starts[n - 1]
  BY DEF BytesOf
<1>4. /\ b \o c \in Seq(Byte)
      /\ Len(b \o c) = Len(b) + Len(c)
      /\ \A k \in 1..(Len(b) + Len(c)) : (b \o c)[k] = IF k <= Len(b) THEN b[k] ELSE c[k - Len(b)]
  BY <1>2, <1>3, ConcatProperties
<1>5. ASSUME NEW i \in 1..n, NEW j \in 1..Size(index[i])
      PROVE  (b \o c)[Starts[i - 1] + j] = <<index[i].at, j>>
  <2>1. CASE i = n
    <3>1. /\ Starts[n - 1] + j \in 1..(Len(b) + Len(c)) /\ ~(Starts[n - 1] + j <= Len(b))
          /\ (Starts[n - 1] + j) - Len(b) = j
      BY <1>1, <1>2, <1>3, <2>1
    <3> QED
      BY <1>2, <1>4, <2>1, <3>1
  <2>2. CASE i # n
    <3>1. i \in 1..(n - 1) /\ i \in 1..Len(index) /\ i \in 0..Len(index) /\ i - 1 \in 0..Len(index) /\ i <= n - 1
      BY <1>1, <2>2
    <3>2. /\ Starts[i] \in Nat /\ Starts[i - 1] \in Nat /\ Size(index[i]) \in Nat
          /\ Starts[i] = Starts[i - 1] + Size(index[i])
      BY <3>1, SizesAre, StartsAre
    <3>3. Starts[i] <= Starts[n - 1]
      BY <1>1, <3>1, StartsGrow
    <3>4. Starts[i - 1] + j \in 1..(Len(b) + Len(c)) /\ Starts[i - 1] + j <= Len(b)
      <4>1. PICK p \in Nat : p = Starts[i - 1]
        BY <3>2
      <4>2. PICK z \in Nat : z = Size(index[i])
        BY <3>2
      <4>3. j \in Nat /\ 1 <= j /\ j <= z
        BY <4>2
      <4>4. PICK x \in Nat : x = Len(b) /\ p + z <= x
        BY <1>1, <1>3, <3>2, <3>3, <4>1, <4>2
      <4>5. PICK y \in Nat : y = Len(c)
        BY <1>1, <1>2
      <4>6. p + j \in 1..(x + y) /\ p + j <= x
        BY <4>3, <4>4
      <4> QED
        BY <4>1, <4>4, <4>5, <4>6
    <3>5. b[Starts[i - 1] + j] = <<index[i].at, j>>
      BY <3>1 DEF BytesOf
    <3> QED
      BY <1>4, <3>4, <3>5
  <2> QED
    BY <2>1, <2>2
<1>6. Len(b \o c) = Starts[n]
  BY <1>1, <1>2, <1>3, <1>4
<1> QED
  BY <1>4, <1>5, <1>6 DEF BytesOf, c

\* The whole is the content of the blocks, one behind the other.
LEMMA WholeIs == IndexInv => BytesOf(Whole, Len(index))
<1> SUFFICES ASSUME IndexInv
             PROVE  BytesOf(Whole, Len(index))
  OBVIOUS
<1> DEFINE N == Len(index)
<1>1. PICK parts : parts = [i \in DOMAIN index |-> Content(index[i])]
  OBVIOUS
<1>2. N \in Nat /\ DOMAIN index = 1..N
  BY SizesAre
<1>3. \A i \in 1..N : Content(index[i]) \in Seq(Byte)
  BY ContentIs
<1>4. /\ parts \in Seq(Seq(Byte)) /\ Len(parts) = N
      /\ \A i \in 1..N : parts[i] = Content(index[i]) /\ parts[i] \in Seq(Byte)
  <2> HIDE DEF N
  <2>1. parts = [i \in 1..N |-> Content(index[i])]
    BY <1>1, <1>2
  <2> QED
    BY <1>2, <1>3, <2>1
<1>5. Whole = FlattenSeq(parts)
  BY <1>1 DEF Whole
<1>6. CASE N = 0
  <2>1. Whole = parts
    BY <1>4, <1>5, <1>6 DEF FlattenSeq
  <2>2. parts = <<>>
    BY <1>4, <1>6, EmptySeq
  <2>3. <<>> \in Seq(Byte) /\ Len(<<>>) = 0
    BY EmptySeq
  <2>4. Starts[0] = 0
    BY StartsAre
  <2>5. \A i \in 1..0 : FALSE
    OBVIOUS
  <2> QED
    BY <1>6, <2>1, <2>2, <2>3, <2>4, <2>5 DEF BytesOf
<1>7. CASE N # 0
  <2> DEFINE F == [n \in 1..(N - 1) |-> [s \in Seq(Byte) |-> s \o parts[n + 1]]]
             Body(g) == [i \in 1..N |-> IF i = 1 THEN parts[i] ELSE g[i - 1] \o parts[i]]
  <2>0. N - 1 \in Nat /\ 1 \in 1..N
    BY <1>2, <1>7
  <2>1. F \in [1..(N - 1) -> [Seq(Byte) -> Seq(Byte)]]
    <3> HIDE DEF N
    <3>1. \A n \in 1..(N - 1) : n + 1 \in 1..N
      BY <1>2
    <3>2. \A n \in 1..(N - 1) : \A s \in Seq(Byte) : s \o parts[n + 1] \in Seq(Byte)
      BY <3>1, <1>4, ConcatProperties
    <3> QED
      BY <3>2
  <2>2. PICK g : IsRecursion(g, N - 1, Seq(Byte), parts[1], F)
    <3> HIDE DEF F, N
    <3> QED
      BY <1>4, <2>0, <2>1, Recursion
  <2> DEFINE f == [i \in 1..N |-> g[i - 1]]
  <2>3. f = Body(f)
    <3>1. /\ g \in [0..(N - 1) -> Seq(Byte)]
          /\ g = [n \in 0..(N - 1) |-> IF n = 0 THEN parts[1] ELSE F[n][g[n - 1]]]
      BY <2>2 DEF IsRecursion
    <3>2. ASSUME NEW i \in 1..N
          PROVE  g[i - 1] = IF i = 1 THEN parts[i] ELSE f[i - 1] \o parts[i]
      <4>1. CASE i = 1
        <5>1. i - 1 = 0 /\ 0 \in 0..(N - 1)
          BY <4>1, <2>0
        <5>2. g[0] = parts[1]
          <6> HIDE DEF F, N
          <6> QED
            BY <3>1, <5>1
        <5> QED
          BY <4>1, <5>1, <5>2
      <4>2. CASE i # 1
        <5> HIDE DEF N
        <5>1. /\ i - 1 \in 0..(N - 1) /\ i - 1 # 0 /\ i - 1 \in 1..(N - 1) /\ i - 1 \in 1..N
              /\ (i - 1) - 1 \in 0..(N - 1) /\ (i - 1) + 1 = i
          BY <4>2, <1>2
        <5>2. g[i - 1] = F[i - 1][g[(i - 1) - 1]]
          <6> HIDE DEF F
          <6> QED
            BY <3>1, <5>1
        <5>3. g[(i - 1) - 1] \in Seq(Byte)
          BY <3>1, <5>1
        <5>4. F[i - 1][g[(i - 1) - 1]] = g[(i - 1) - 1] \o parts[i]
          BY <5>1, <5>3
        <5>5. f[i - 1] = g[(i - 1) - 1]
          BY <5>1
        <5> HIDE DEF F, f
        <5> QED
          BY <4>2, <5>2, <5>4, <5>5
      <4> QED
        BY <4>1, <4>2
    <3> QED
      BY <3>2
  <2> DEFINE R == CHOOSE h : h = Body(h)
  <2>4. R = Body(R)
    BY <2>3
  <2>5. Whole = R[N]
    BY <1>4, <1>5, <1>7 DEF FlattenSeq
  <2> HIDE DEF R, F, N
  <2> DEFINE S == {n \in 0..N : n # 0 => BytesOf(R[n], n)}
  <2>6. 0 \in S
    BY <1>2
  <2>7. ASSUME NEW n \in 1..N, n - 1 \in S
        PROVE  n \in S
    <3>1. n \in 0..N /\ n # 0 /\ n - 1 \in 0..N
      BY <1>2
    <3>2. CASE n = 1
      <4>1. R[1] = Content(index[1])
        BY <1>4, <2>4, <2>0
      <4>2. /\ <<>> \in Seq(Byte) /\ Len(<<>>) = 0 /\ Starts[0] = 0
            /\ \A i \in 1..0 : FALSE
        BY EmptySeq, StartsAre
      <4>3. BytesOf(<<>>, 1 - 1)
        BY <4>2 DEF BytesOf
      <4>4. BytesOf(<<>> \o Content(index[1]), 1)
        BY <2>0, <4>3, BytesGoOn DEF N
      <4>5. <<>> \o Content(index[1]) = Content(index[1])
        BY <1>3, <2>0, ConcatEmptySeq
      <4> QED
        BY <3>1, <3>2, <4>1, <4>4, <4>5
    <3>3. CASE n # 1
      <4>1. R[n] = R[n - 1] \o Content(index[n])
        BY <1>4, <2>4, <3>3
      <4>2. BytesOf(R[n - 1], n - 1)
        BY <2>7, <3>1, <3>3
      <4>3. BytesOf(R[n - 1] \o Content(index[n]), n)
        BY <4>2, BytesGoOn DEF N
      <4> QED
        BY <3>1, <4>1, <4>3
    <3> QED
      BY <3>2, <3>3
  <2> HIDE DEF S
  <2>8. \A n \in 0..N : n \in S
    BY <1>2, <2>6, <2>7, UpToInduction
  <2>9. N \in 0..N
    BY <1>2
  <2> QED
    BY <1>7, <2>5, <2>8, <2>9 DEF S, N
<1> QED
  BY <1>6, <1>7

(***************************************************************************)
(* Reading a range.                                                        *)
(***************************************************************************)

\* A block that some byte of the whole is in: the last that begins no later.
LEMMA BlockIsFound ==
    ASSUME IndexInv, NEW at \in Nat, at < TotalSize
    PROVE  /\ BlockForOffset(at) \in 1..Len(index)
           /\ Starts[BlockForOffset(at) - 1] <= at
           /\ at < Starts[BlockForOffset(at)]
<1> DEFINE N == Len(index)
           Begun == {i \in 1..N : Starts[i - 1] <= at}
           Back == {m \in Nat : N - m \in Begun}
<1>1. /\ N \in Nat /\ DOMAIN index = 1..N
      /\ Starts[0] = 0 /\ \A n \in 0..N : Starts[n] \in Nat
      /\ TotalSize = Starts[N]
  BY SizesAre, StartsAre DEF TotalSize
<1> HIDE DEF N
<1>2. N # 0
  BY <1>1
<1>3. 1 \in Begun
  BY <1>1, <1>2
<1>4. N - 1 \in Back
  <2>1. N - 1 \in Nat /\ N - (N - 1) = 1
    BY <1>1, <1>2
  <2> QED
    BY <1>3, <2>1
<1>5. PICK m \in Back : \A k \in Back : m <= k
  <2>1. Back \in SUBSET Nat /\ Back # {}
    BY <1>4
  <2> HIDE DEF Back
  <2> QED
    BY <2>1, LeastNumber
<1>6. PICK i \in 1..N : i = N - m /\ Starts[i - 1] <= at /\ m \in Nat
  BY <1>5
<1>7. ASSUME NEW j \in 1..N, Starts[j - 1] <= at
      PROVE  j <= i
  <2>1. N - j \in Nat /\ N - (N - j) = j
    BY <1>1
  <2>2. N - j \in Back
    BY <1>7, <2>1
  <2>3. m <= N - j
    BY <1>5, <2>2
  <2> QED
    BY <1>1, <1>6, <2>1, <2>3
<1> HIDE DEF Begun, Back
<1> DEFINE b == BlockForOffset(at)
<1>8. /\ b \in DOMAIN index
      /\ StartOf(b) <= at
      /\ \A j \in DOMAIN index : StartOf(j) <= at => j <= b
  <2>1. i \in DOMAIN index /\ StartOf(i) <= at /\ \A j \in DOMAIN index : StartOf(j) <= at => j <= i
    BY <1>1, <1>6, <1>7 DEF StartOf
  <2> QED
    BY <2>1 DEF BlockForOffset
<1> HIDE DEF b
<1>9. b \in 1..N /\ b \in 0..N /\ Starts[b - 1] <= at /\ \A j \in 1..N : Starts[j - 1] <= at => j <= b
  BY <1>1, <1>8 DEF StartOf
<1>10. at < Starts[b]
  <2>1. CASE b = N
    BY <1>1, <2>1
  <2>2. CASE b # N
    <3>1. b + 1 \in 1..N /\ (b + 1) - 1 = b /\ ~(b + 1 <= b)
      BY <1>1, <1>9, <2>2
    <3>2. ~(Starts[b] <= at)
      BY <1>9, <3>1
    <3> QED
      BY <1>1, <1>9, <3>2
  <2> QED
    BY <2>1, <2>2
<1> QED
  BY <1>9, <1>10 DEF b, N

\* A part of a sequence of bytes.
LEMMA PartOf ==
    ASSUME NEW s \in Seq(Byte), NEW x \in Nat, NEW n \in Nat, x + n <= Len(s)
    PROVE  /\ SubSeq(s, x + 1, x + n) \in Seq(Byte)
           /\ Len(SubSeq(s, x + 1, x + n)) = n
           /\ \A j \in 1..n : SubSeq(s, x + 1, x + n)[j] = s[x + j]
<1>1. Len(s) \in Nat /\ \A j \in (x + 1)..(x + n) : s[j] \in Byte
  BY LenProperties, ElementOfSeq
<1>2. /\ SubSeq(s, x + 1, x + n) \in Seq(Byte)
      /\ Len(SubSeq(s, x + 1, x + n)) = IF x + 1 <= x + n THEN x + n - (x + 1) + 1 ELSE 0
      /\ \A j \in 1..(x + n - (x + 1) + 1) : SubSeq(s, x + 1, x + n)[j] = s[(x + 1) + j - 1]
  BY <1>1, SubSeqProperties
<1>3. Len(SubSeq(s, x + 1, x + n)) = n
  BY <1>2
<1>4. \A j \in 1..n : SubSeq(s, x + 1, x + n)[j] = s[x + j]
  BY <1>2
<1> QED
  BY <1>2, <1>3, <1>4

\* How far a step of the reading goes.
Here(at, end) == Less(Size(index[BlockForOffset(at)]) - (at - StartOf(BlockForOffset(at))), end - at)
Part(at, end) ==
    LET local == at - StartOf(BlockForOffset(at))
    IN  SubSeq(Content(index[BlockForOffset(at)]), local + 1, local + Here(at, end))

\* The part of one block a range takes is those bytes of the whole.
LEMMA PartIs ==
    ASSUME IndexInv, NEW at \in Nat, NEW end \in Nat, at < end, end <= TotalSize
    PROVE  /\ Here(at, end) \in Nat /\ Here(at, end) # 0 /\ at + Here(at, end) <= end
           /\ Part(at, end) = SubSeq(Whole, at + 1, at + Here(at, end))
           /\ Part(at, end) \in Seq(Byte)
<1> DEFINE i == BlockForOffset(at)
<1>0. TotalSize \in Nat /\ Len(index) \in Nat
  BY StartsAre, SizesAre DEF TotalSize
<1>1. i \in 1..Len(index) /\ i - 1 \in 0..Len(index) /\ i \in 0..Len(index)
      /\ Starts[i - 1] <= at /\ at < Starts[i]
  <2>1. at < TotalSize
    BY <1>0
  <2>2. BlockForOffset(at) \in 1..Len(index) /\ Starts[BlockForOffset(at) - 1] <= at
        /\ at < Starts[BlockForOffset(at)]
    BY <2>1, BlockIsFound
  <2> QED
    BY <1>0, <2>2
<1> HIDE DEF i
<1>2. PICK p \in Nat : p = Starts[i - 1] /\ p <= at
  BY <1>1, StartsAre
<1>3. PICK z \in Nat : z = Size(index[i]) /\ Starts[i] = p + z
  BY <1>1, <1>2, SizesAre, StartsAre
<1>4. PICK local \in Nat : local = at - p /\ local < z /\ at = p + local
  <2>1. at < p + z
    BY <1>1, <1>3
  <2> QED
    BY ONLY <2>1, <1>2, p \in Nat, z \in Nat, at \in Nat
<1>5. PICK here \in Nat : here = Less(z - local, end - at)
  BY <1>3, <1>4 DEF Less
<1>6. here # 0 /\ local + here <= z /\ at + here <= end
  BY <1>4, <1>5 DEF Less
<1>7. Here(at, end) = here /\ Part(at, end) = SubSeq(Content(index[i]), local + 1, local + here)
  <2>1. StartOf(i) = p
    BY <1>2 DEF StartOf
  <2>2. Here(at, end) = here
    BY <1>3, <1>4, <1>5, <2>1 DEF Here, i
  <2> QED
    BY <1>4, <2>1, <2>2 DEF Part, i
<1>8. PICK c \in Seq(Byte) : c = Content(index[i])
  BY <1>1, ContentIs
<1>9. Len(c) = z /\ \A j \in 1..z : c[j] = <<index[i].at, j>>
  BY <1>1, <1>3, <1>8, ContentIs
<1>10. PICK w \in Seq(Byte) : w = Whole
  BY WholeIs DEF BytesOf
<1>11. Len(w) = TotalSize /\ \A j \in 1..z : w[p + j] = <<index[i].at, j>>
  BY <1>1, <1>2, <1>3, <1>10, WholeIs DEF BytesOf, TotalSize
<1> DEFINE a == SubSeq(c, local + 1, local + here)
           b == SubSeq(w, at + 1, at + here)
<1>12. /\ a \in Seq(Byte) /\ Len(a) = here
       /\ \A j \in 1..here : a[j] = c[local + j]
  BY <1>6, <1>9, PartOf
<1>13. /\ b \in Seq(Byte) /\ Len(b) = here
       /\ \A j \in 1..here : b[j] = w[at + j]
  <2>1. at + here <= Len(w)
    BY <1>0, <1>6, <1>11
  <2> QED
    BY <2>1, PartOf
<1> HIDE DEF a, b
<1>14. \A j \in 1..here : a[j] = b[j]
  <2> TAKE j \in 1..here
  <2>1. local + j \in 1..z /\ p + (local + j) = at + j
    BY <1>4, <1>6
  <2> QED
    BY <1>9, <1>11, <1>12, <1>13, <2>1
<1>15. a = b
  BY <1>12, <1>13, <1>14, SeqEqual
<1> QED
  BY <1>6, <1>7, <1>8, <1>10, <1>12, <1>15 DEF a, b

\* An empty range is nothing.
LEMMA NothingOf ==
    ASSUME NEW w \in Seq(Byte), NEW x \in Nat, NEW y \in Nat, y <= x
    PROVE  SubSeq(w, x + 1, y) = <<>>
<1>1. ~(x + 1 <= y)
  OBVIOUS
<1>2. SubSeq(w, x + 1, y) \in Seq(Byte) /\ Len(SubSeq(w, x + 1, y)) = 0
  <2>1. \A j \in (x + 1)..y : FALSE
    BY <1>1
  <2> QED
    BY <1>1, <2>1, SubSeqProperties
<1> QED
  BY <1>2, EmptySeq

\* Two parts that meet are one.
LEMMA PartsJoin ==
    ASSUME NEW w \in Seq(Byte), NEW x \in Nat, NEW y \in Nat, NEW z \in Nat,
           x <= y, y <= z, z <= Len(w)
    PROVE  SubSeq(w, x + 1, y) \o SubSeq(w, y + 1, z) = SubSeq(w, x + 1, z)
<1>1. Len(w) \in Nat
  BY LenProperties
<1>2. x + 1 \in 1..Len(w) + 1 /\ y \in (x + 1) - 1..Len(w) /\ z \in y..Len(w)
  BY <1>1
<1> QED
  BY <1>2, ConcatAdjacentSubSeq

\* What a read from at returns, by what one from further on does.
ReadStep(g, at, end) ==
    IF at >= end THEN <<>>
    ELSE IF Here(at, end) = 0 THEN <<>> ELSE Part(at, end) \o g[at + Here(at, end)]

IsReading(g, end) == g = [at \in 0..TotalSize |-> ReadStep(g, at, end)]

\* The reading, as a function of where it has got to, is defined.
LEMMA ReadingExists ==
    ASSUME IndexInv, NEW end \in Nat, end <= TotalSize
    PROVE  \E g : IsReading(g, end)
<1> DEFINE N == TotalSize
           Go == {at \in 0..N : at < end}
           next == [at \in Go |-> at + Here(at, end)]
           stop == [at \in 0..N |-> <<>>]
           F == [at \in Go |-> [s \in Seq(Byte) |-> Part(at, end) \o s]]
<1>1. N \in Nat
  BY StartsAre, SizesAre DEF TotalSize
<1>2. ASSUME NEW at \in Go
      PROVE  /\ at \in Nat /\ at < end
             /\ Here(at, end) \in Nat /\ Here(at, end) # 0
             /\ at + Here(at, end) \in 0..N /\ at + Here(at, end) > at
             /\ Part(at, end) \in Seq(Byte)
  <2>1. at \in Nat /\ at < end
    BY <1>1
  <2>2. Here(at, end) \in Nat /\ Here(at, end) # 0 /\ at + Here(at, end) <= end
        /\ Part(at, end) \in Seq(Byte)
    BY <2>1, PartIs
  <2> QED
    BY <1>1, <2>1, <2>2
<1>3. Go \in SUBSET (0..N)
  OBVIOUS
<1>4. next \in [Go -> 0..N] /\ \A at \in Go : next[at] > at
  <2> HIDE DEF Go, N
  <2> QED
    BY <1>2
<1>5. stop \in [0..N -> Seq(Byte)]
  BY EmptySeq
<1>6. F \in [Go -> [Seq(Byte) -> Seq(Byte)]]
  <2> HIDE DEF Go
  <2>1. \A at \in Go : \A s \in Seq(Byte) : Part(at, end) \o s \in Seq(Byte)
    BY <1>2, ConcatProperties
  <2> QED
    BY <2>1
<1>7. PICK f : IsUpward(f, N, Seq(Byte), Go, next, stop, F)
  <2> HIDE DEF N, Go, next, stop, F
  <2> QED
    BY <1>1, <1>3, <1>4, <1>5, <1>6, RecursionUpward
<1>8. /\ f \in [0..N -> Seq(Byte)]
      /\ f = [at \in 0..N |-> IF at \in Go THEN F[at][f[next[at]]] ELSE stop[at]]
  BY <1>7 DEF IsUpward
<1>9. ASSUME NEW at \in 0..N
      PROVE  (IF at \in Go THEN F[at][f[next[at]]] ELSE stop[at]) = ReadStep(f, at, end)
  <2>1. CASE at \in Go
    <3>1. f[at + Here(at, end)] \in Seq(Byte)
      BY <1>2, <1>8, <2>1
    <3>2. F[at][f[at + Here(at, end)]] = Part(at, end) \o f[at + Here(at, end)]
      BY <2>1, <3>1
    <3>3. ~(at >= end)
      BY <1>2, <2>1
    <3> QED
      BY <1>2, <2>1, <3>2, <3>3 DEF ReadStep
  <2>2. CASE at \notin Go
    <3>1. at >= end
      BY <1>1, <2>2
    <3> QED
      BY <2>2, <3>1 DEF ReadStep
  <2> QED
    BY <2>1, <2>2
<1> HIDE DEF Go, next, stop, F, N
<1>10. f = [at \in 0..N |-> ReadStep(f, at, end)]
  BY <1>8, <1>9
<1> QED
  BY <1>10 DEF IsReading, N

\* From any offset on, the reading gives the rest of the range.
LEMMA ReadingIs ==
    ASSUME IndexInv, NEW end \in Nat, end <= TotalSize, NEW g, IsReading(g, end)
    PROVE  \A at \in 0..end : g[at] = SubSeq(Whole, at + 1, end)
<1> DEFINE S == {d \in 0..end : \A at \in 0..end : end - at <= d => g[at] = SubSeq(Whole, at + 1, end)}
<1>1. TotalSize \in Nat /\ Whole \in Seq(Byte) /\ Len(Whole) = TotalSize
  BY StartsAre, SizesAre, WholeIs DEF TotalSize, BytesOf
<1>2. \A at \in 0..end : g[at] = ReadStep(g, at, end)
  <2>1. \A at \in 0..end : at \in 0..TotalSize
    BY <1>1
  <2> QED
    BY <2>1 DEF IsReading
<1>3. g[end] = SubSeq(Whole, end + 1, end)
  <2>1. end \in 0..end /\ end >= end /\ end <= end
    OBVIOUS
  <2>2. g[end] = <<>>
    BY <1>2, <2>1 DEF ReadStep
  <2> QED
    BY <1>1, <2>1, <2>2, NothingOf
<1>4. 0 \in S
  <2>1. 0 \in 0..end /\ \A at \in 0..end : end - at <= 0 => at = end
    OBVIOUS
  <2>2. \A at \in 0..end : end - at <= 0 => g[at] = SubSeq(Whole, at + 1, end)
    BY <1>3, <2>1
  <2> QED
    BY <2>1, <2>2
<1>5. ASSUME NEW d \in 1..end, d - 1 \in S
      PROVE  d \in S
  <2>1. ASSUME NEW at \in 0..end, end - at <= d
        PROVE  g[at] = SubSeq(Whole, at + 1, end)
    <3>1. CASE at = end
      BY <1>3, <3>1
    <3>2. CASE at # end
      <4>1. at \in Nat /\ at < end /\ ~(at >= end)
        BY <3>2
      <4>2. /\ Here(at, end) \in Nat /\ Here(at, end) # 0 /\ at + Here(at, end) <= end
            /\ Part(at, end) = SubSeq(Whole, at + 1, at + Here(at, end))
        BY <4>1, PartIs
      <4>3. PICK h \in Nat : h = Here(at, end) /\ h # 0 /\ at + h <= end
        BY <4>2
      <4>4. g[at] = Part(at, end) \o g[at + h]
        BY <1>2, <4>1, <4>3 DEF ReadStep
      <4>5. at + h \in 0..end /\ end - (at + h) <= d - 1
        BY <2>1, <4>1, <4>3
      <4>6. g[at + h] = SubSeq(Whole, at + h + 1, end)
        BY <1>5, <4>5
      <4>7. SubSeq(Whole, at + 1, at + h) \o SubSeq(Whole, (at + h) + 1, end) = SubSeq(Whole, at + 1, end)
        <5>1. PICK w \in Seq(Byte) : w = Whole /\ end <= Len(w)
          BY <1>1
        <5>2. PICK y \in Nat : y = at + h /\ at <= y /\ y <= end
          BY <4>1, <4>3
        <5>3. SubSeq(w, at + 1, y) \o SubSeq(w, y + 1, end) = SubSeq(w, at + 1, end)
          BY <4>1, <5>1, <5>2, PartsJoin
        <5> QED
          BY <5>1, <5>2, <5>3
      <4> QED
        BY <4>2, <4>3, <4>4, <4>6, <4>7
    <3> QED
      BY <3>1, <3>2
  <2> QED
    BY <2>1
<1> HIDE DEF S
<1>6. \A d \in 0..end : d \in S
  BY <1>4, <1>5, UpToInduction
<1> TAKE at \in 0..end
<1>7. end \in S /\ end - at <= end
  BY <1>6
<1> QED
  BY <1>7 DEF S

\* Every range that lies in the data is read as that slice of the whole.
LEMMA RangesAre ==
    ASSUME IndexInv, NEW start \in Nat, NEW len \in Nat
    PROVE  ReadRange(start, len) = SubSeq(Whole, start + 1, Less(start + len, Len(Whole)))
<1>1. TotalSize \in Nat /\ Whole \in Seq(Byte) /\ Len(Whole) = TotalSize
  BY StartsAre, SizesAre, WholeIs DEF TotalSize, BytesOf
<1>2. PICK end \in Nat : end = Less(start + len, TotalSize) /\ end <= TotalSize
  BY <1>1 DEF Less
<1>3. CASE len = 0 \/ start >= TotalSize
  <2>1. end <= start
    BY <1>1, <1>2, <1>3 DEF Less
  <2>2. ReadRange(start, len) = <<>>
    BY <1>3 DEF ReadRange
  <2> QED
    BY <1>1, <1>2, <2>1, <2>2, NothingOf
<1>4. CASE ~(len = 0 \/ start >= TotalSize)
  <2> DEFINE Body(g) == [at \in 0..TotalSize |->
                  IF at >= Less(start + len, TotalSize) THEN <<>>
                  ELSE LET i == BlockForOffset(at)
                           local == at - StartOf(i)
                           here == Less(Size(index[i]) - local, Less(start + len, TotalSize) - at)
                       IN  IF here = 0 THEN <<>>
                           ELSE SubSeq(Content(index[i]), local + 1, local + here) \o g[at + here]]
             R == CHOOSE g : g = Body(g)
  <2>1. ReadRange(start, len) = R[start]
    BY <1>4 DEF ReadRange
  <2>2. ASSUME NEW g
        PROVE  g = Body(g) <=> IsReading(g, end)
    <3>1. Body(g) = [at \in 0..TotalSize |-> ReadStep(g, at, end)]
      BY <1>2 DEF ReadStep, Here, Part
    <3> QED
      BY <3>1 DEF IsReading
  <2>3. \E g : IsReading(g, end)
    BY <1>2, ReadingExists
  <2> HIDE DEF Body
  <2>4. IsReading(R, end)
    BY <2>2, <2>3
  <2> HIDE DEF R
  <2>5. start \in 0..end
    BY <1>1, <1>2, <1>4 DEF Less
  <2>6. R[start] = SubSeq(Whole, start + 1, end)
    BY <1>2, <2>4, <2>5, ReadingIs
  <2> QED
    BY <1>1, <1>2, <2>1, <2>6
<1> QED
  BY <1>3, <1>4

\* What the invariant says of the index is enough for the ranges.
LEMMA IndexInvGivesRanges == IndexInv => RangeIsTheSlice
<1> SUFFICES ASSUME IndexInv, NEW start \in 0..TotalSize + 1, NEW len \in 0..TotalSize + 1
             PROVE  ReadRange(start, len) = SubSeq(Whole, start + 1, Less(start + len, Len(Whole)))
  BY DEF RangeIsTheSlice, Whole
<1>1. TotalSize \in Nat
  BY StartsAre, SizesAre DEF TotalSize
<1>2. start \in Nat /\ len \in Nat
  BY <1>1
<1> QED
  BY <1>2, RangesAre

\* Whatever blocks a file lists its records in, a range of them is read as that
\* slice of the blocks' bytes.
THEOREM RangesOfEveryFile == OpenSpec => []RangeIsTheSlice
<1>1. file \in Files /\ OpenInit => IndexInv
  BY IndexInvInit
<1>2. IndexInv /\ [OpenNext]_<<file, openVars>> => IndexInv'
  BY IndexInvNext
<1>3. IndexInv => RangeIsTheSlice
  BY IndexInvGivesRanges
<1> QED
  BY <1>1, <1>2, <1>3, PTL DEF OpenSpec
(***************************************************************************)
(* Chains.                                                                 *)
(***************************************************************************)

\* Links are offsets.
LEMMA LinksAre ==
    ASSUME file \in Files
    PROVE  \A o : Next1(o) \in Nat /\ Down(o) \in Nat
BY ABlock DEF Next1, Down, BlockType

\* A chain is as many links as there are blocks.
LEMMA ChainIsReach ==
    ASSUME file \in Files, NEW h \in Nat
    PROVE  \E reach : /\ IsReach(reach, {h}, [x \in Nat |-> {Next1(x)}], Cardinality(DOMAIN file))
                      /\ Chain(h) = reach[Cardinality(DOMAIN file)] \ {0}
<1> DEFINE N == Cardinality(DOMAIN file)
           next == [x \in Nat |-> {Next1(x)}]
           Body(g) == [n \in 0..N |-> IF n = 0 THEN {h}
                                      ELSE g[n - 1] \cup UNION {next[x] : x \in g[n - 1]}]
           R == CHOOSE g : g = Body(g)
<1>1. N \in Nat
  BY FS_CardinalityType, BlockGraphAssumption
<1>2. next \in [Nat -> SUBSET Nat]
  BY LinksAre
<1>3. PICK f : IsReach(f, {h}, next, N)
  <2> HIDE DEF next, N
  <2>1. PICK from \in SUBSET Nat : from = {h}
    OBVIOUS
  <2>2. \E f : IsReach(f, from, next, N)
    BY <1>1, <1>2, ReachExists
  <2> QED
    BY <2>1, <2>2
<1>4. f = Body(f)
  BY <1>3 DEF IsReach
<1>5. R = Body(R)
  BY <1>4
<1>6. Chain(h) = R[N] \ {0}
  BY DEF Chain, Closure
<1> HIDE DEF R
<1>7. IsReach(R, {h}, next, N)
  BY <1>5 DEF IsReach
<1> QED
  BY <1>6, <1>7

\* A chain is the least set with its first offset and, with an offset, the next.
LEMMA ChainIs ==
    ASSUME file \in Files, NEW h \in Nat
    PROVE  /\ Chain(h) \subseteq Nat \ {0}
           /\ h # 0 => h \in Chain(h)
           /\ \A x \in Chain(h) : Next1(x) # 0 => Next1(x) \in Chain(h)
           /\ \A All : /\ h # 0 => h \in All
                       /\ \A x \in All : Next1(x) # 0 => Next1(x) \in All
                       => Chain(h) \subseteq All
<1> DEFINE B == DOMAIN file
           next == [x \in Nat |-> {Next1(x)}]
<1>1. PICK reach : /\ IsReach(reach, {h}, next, Cardinality(B))
                   /\ Chain(h) = reach[Cardinality(B)] \ {0}
  BY ChainIsReach
<1>2. B \in SUBSET Nat /\ IsFiniteSet(B) /\ Cardinality(B) \in Nat /\ 0 \notin B
  BY BlockGraphAssumption, FS_CardinalityType
<1>3. \A x \in Nat : next[x] = {Next1(x)}
  OBVIOUS
<1>4. next \in [Nat -> SUBSET Nat]
  BY LinksAre
<1>5. \A x \in Nat \ B : Next1(x) = 0 /\ next[x] \cap B = {}
  BY <1>2, <1>3 DEF Next1, IsBlock
<1>6. Cardinality(B) \in 0..Cardinality(B)
  BY <1>2
<1> HIDE DEF next, B
<1>7. PICK from \in SUBSET Nat : from = {h}
  OBVIOUS
<1>8. IsReach(reach, from, next, Cardinality(B))
  BY <1>1, <1>7
<1>9. \A x \in reach[Cardinality(B)] \cap B : next[x] \subseteq reach[Cardinality(B)]
  BY <1>2, <1>4, <1>5, <1>8, ReachIsClosed
<1>10. reach[Cardinality(B)] \in SUBSET Nat /\ h \in reach[Cardinality(B)]
  <2>1. \A n \in 0..Cardinality(B) : reach[n] \in SUBSET Nat /\ from \subseteq reach[n]
    BY <1>2, <1>4, <1>8, ReachGrows
  <2> QED
    BY <2>1, <1>6, <1>7
<1>11. ASSUME NEW x \in Chain(h), Next1(x) # 0
       PROVE  Next1(x) \in Chain(h)
  <2>1. x \in B
    BY <1>1, <1>5, <1>10, <1>11
  <2> QED
    BY <1>1, <1>3, <1>9, <1>10, <1>11, <2>1
<1>12. ASSUME NEW All, h # 0 => h \in All, \A x \in All : Next1(x) # 0 => Next1(x) \in All
       PROVE  Chain(h) \subseteq All
  <2> DEFINE Wide == All \cup {0}
  <2>1. from \subseteq Wide
    BY <1>7, <1>12
  <2>2. Next1(0) = 0
    BY <1>2 DEF Next1, IsBlock, B
  <2>3. \A x \in Wide \cap Nat : next[x] \subseteq Wide
    BY <1>3, <1>12, <2>2
  <2> HIDE DEF Wide
  <2>4. \A n \in 0..Cardinality(B) : reach[n] \subseteq Wide
    BY <1>2, <1>4, <1>8, <2>1, <2>3, ReachIsLeast
  <2> QED
    BY <1>1, <1>6, <2>4 DEF Wide
<1> QED
  BY <1>1, <1>10, <1>11, <1>12

\* It is its first offset and the chain from the next one on.
LEMMA ChainBegins ==
    ASSUME file \in Files, NEW h \in Nat
    PROVE  /\ h = 0 => Chain(h) = {}
           /\ h # 0 => Chain(h) = {h} \cup Chain(Next1(h))
           /\ ~IsBlock(h) => Chain(Next1(h)) = {}
<1>1. Next1(h) \in Nat /\ 0 \in Nat
  BY LinksAre
<1>2. Chain(0) = {}
  <2>1. Chain(0) \subseteq {}
    BY <1>1, ChainIs
  <2> QED
    BY <2>1
<1>3. ASSUME h # 0
      PROVE  Chain(h) \subseteq {h} \cup Chain(Next1(h))
  <2>1. /\ Next1(h) # 0 => Next1(h) \in Chain(Next1(h))
        /\ \A x \in Chain(Next1(h)) : Next1(x) # 0 => Next1(x) \in Chain(Next1(h))
    BY <1>1, ChainIs
  <2>2. PICK All : All = {h} \cup Chain(Next1(h))
    OBVIOUS
  <2>3. h \in All /\ \A x \in All : Next1(x) # 0 => Next1(x) \in All
    BY <2>1, <2>2
  <2>4. Chain(h) \subseteq All
    BY <2>3, ChainIs
  <2> QED
    BY <2>2, <2>4
<1>4. ASSUME h # 0
      PROVE  {h} \cup Chain(Next1(h)) \subseteq Chain(h)
  <2>1. h \in Chain(h) /\ \A x \in Chain(h) : Next1(x) # 0 => Next1(x) \in Chain(h)
    BY <1>4, ChainIs
  <2>2. PICK All : All = Chain(h)
    OBVIOUS
  <2>3. Next1(h) # 0 => Next1(h) \in All
    BY <2>1, <2>2
  <2>4. Chain(Next1(h)) \subseteq All
    BY <1>1, <2>1, <2>2, <2>3, ChainIs
  <2> QED
    BY <2>1, <2>2, <2>4
<1> QED
  BY <1>2, <1>3, <1>4 DEF Next1

\* Where a chain has got to, it goes on from there.
LEMMA ChainGoesOn ==
    ASSUME file \in Files, NEW h \in Nat, NEW x \in Chain(h)
    PROVE  Chain(x) \subseteq Chain(h) /\ Chain(Next1(x)) \subseteq Chain(h)
<1>1. /\ x \in Nat /\ x # 0 /\ Next1(x) \in Nat
      /\ \A y \in Chain(h) : Next1(y) # 0 => Next1(y) \in Chain(h)
  BY ChainIs, LinksAre
<1>2. PICK All : All = Chain(h)
  OBVIOUS
<1>3. Chain(x) \subseteq All
  BY <1>1, <1>2, ChainIs
<1> QED
  BY <1>1, <1>2, <1>3, ChainBegins

\* A chain that returns to a block.
Cyclic(h) == \E x \in Chain(h) : x \in Chain(Next1(x))

\* Following a chain from h has come to at, through the blocks seen: each of them
\* leads to at, what is left of the chain begins there, and so does the rest of
\* every circle that one of them lies on.
OnChain(at, seen, h) ==
    /\ at # 0 => at \in Chain(h)
    /\ \A x \in seen : x \in Chain(h) /\ (at # 0 => at \in Chain(Next1(x)))
    /\ Chain(h) \subseteq seen \cup Chain(at)
    /\ \A x \in seen : x \in Chain(Next1(x)) => x \in Chain(at)

\* A walk along a chain that has not begun.
LEMMA ChainStarts ==
    ASSUME file \in Files, NEW h \in Nat
    PROVE  OnChain(h, {}, h)
BY ChainIs DEF OnChain

\* It goes on from a block it has not seen to the next.
LEMMA ChainAdvances ==
    ASSUME file \in Files, NEW h \in Nat, NEW a \in Nat, a # 0, NEW seen, a \notin seen,
           OnChain(a, seen, h)
    PROVE  OnChain(Next1(a), seen \cup {a}, h)
<1>1. Next1(a) \in Nat /\ \A x : Next1(x) \in Nat
  BY LinksAre
<1>2. Chain(a) = {a} \cup Chain(Next1(a))
  BY ChainBegins
<1>3. a \in Chain(h) /\ (Next1(a) # 0 => Next1(a) \in Chain(h))
  BY ChainIs DEF OnChain
<1>4. ASSUME NEW x \in seen, Next1(a) # 0
      PROVE  Next1(a) \in Chain(Next1(x))
  <2>1. a \in Chain(Next1(x))
    BY <1>4 DEF OnChain
  <2> QED
    BY <1>1, <1>4, <2>1, ChainIs
<1>5. Next1(a) # 0 => Next1(a) \in Chain(Next1(a))
  BY <1>1, ChainIs
<1>6. \A x \in seen : x # a /\ (x \in Chain(Next1(x)) => x \in Chain(Next1(a)))
  BY <1>2 DEF OnChain
<1> QED
  BY <1>2, <1>3, <1>4, <1>5, <1>6 DEF OnChain

\* A chain followed to its end does not return to a block.
LEMMA ChainEnds ==
    ASSUME file \in Files, NEW h \in Nat, NEW seen, OnChain(0, seen, h)
    PROVE  ~Cyclic(h)
<1>1. Chain(0) = {}
  BY ChainBegins
<1> QED
  BY <1>1 DEF OnChain, Cyclic

\* One that comes to a block it has seen does.
LEMMA ChainReturns ==
    ASSUME file \in Files, NEW h \in Nat, NEW a \in Nat, a # 0, NEW seen, a \in seen,
           OnChain(a, seen, h)
    PROVE  Cyclic(h)
BY DEF OnChain, Cyclic

(***************************************************************************)
(* The tree of a file: paths of links to groups, channels and members.     *)
(***************************************************************************)

Root == file[Header].down
Deepest == MaxCompositionDepth + 3

\* The k-th block of a path is in the chain beneath the one before it.
Beneath(q, k) ==
    /\ k = 1 => q[k] \in Chain(Root)
    /\ k \in {2, 3} => q[k] \in Chain(Down(q[k - 1]))
    /\ k > 3 => q[k] \in Structs(q[k - 1])

Tree(q) ==
    /\ q \in Seq(Nat)
    /\ Len(q) \in 1..Deepest
    /\ \A k \in 1..Len(q) : Beneath(q, k)

\* Where the chain begins whose blocks go on from a path.
HeadOf(p) == IF p = <<>> THEN Root ELSE Down(p[Len(p)])

\* A block of that chain may go on from the path.
GoesOn(p, x) == x \in Chain(HeadOf(p)) /\ (Len(p) >= 3 => Kind(HeadOf(p)) = "CN")

\* q is longer than p and begins with it, or begins with it.
Begins(q, p) == Len(p) <= Len(q) /\ \A k \in 1..Len(p) : q[k] = p[k]
Extends(q, p) == Len(p) < Len(q) /\ \A k \in 1..Len(p) : q[k] = p[k]

\* A path and a block.
LEMMA GrownPath ==
    ASSUME NEW p \in Seq(Nat), NEW x \in Nat
    PROVE  /\ p \o <<x>> \in Seq(Nat)
           /\ Len(p) \in Nat
           /\ Len(p \o <<x>>) = Len(p) + 1
           /\ \A k \in 1..Len(p) : (p \o <<x>>)[k] = p[k]
           /\ (p \o <<x>>)[Len(p) + 1] = x
<1>1. <<x>> \in Seq(Nat) /\ Len(<<x>>) = 1 /\ <<x>>[1] = x
  OBVIOUS
<1>2. Len(p) \in Nat
  BY LenProperties
<1>3. /\ p \o <<x>> \in Seq(Nat)
      /\ Len(p \o <<x>>) = Len(p) + Len(<<x>>)
      /\ \A k \in 1..Len(p) + Len(<<x>>) :
            (p \o <<x>>)[k] = IF k <= Len(p) THEN p[k] ELSE <<x>>[k - Len(p)]
  BY <1>1, ConcatProperties
<1>4. /\ \A k \in 1..Len(p) : k \in 1..Len(p) + 1 /\ k <= Len(p)
      /\ Len(p) + 1 \in 1..Len(p) + 1 /\ ~(Len(p) + 1 <= Len(p)) /\ (Len(p) + 1) - Len(p) = 1
  BY <1>2
<1> QED
  BY <1>1, <1>2, <1>3, <1>4

\* What beneath a path's end goes on from it.
LEMMA TreeGrows ==
    ASSUME file \in Files, NEW p \in Seq(Nat), p = <<>> \/ Tree(p), Len(p) < Deepest,
           NEW x \in Nat, GoesOn(p, x)
    PROVE  Tree(p \o <<x>>)
<1> DEFINE q == p \o <<x>>
<1>1. /\ q \in Seq(Nat) /\ Len(p) \in Nat /\ Len(q) = Len(p) + 1
      /\ \A k \in 1..Len(p) : q[k] = p[k]
      /\ q[Len(p) + 1] = x
  BY GrownPath
<1> HIDE DEF q
<1>2. Deepest \in Nat
  BY OpenFileAssumption DEF Deepest
<1>3. Len(q) \in 1..Deepest
  BY <1>1, <1>2
<1>4. ASSUME NEW k \in 1..Len(p)
      PROVE  Beneath(q, k)
  <2>1. Tree(p)
    BY <1>1, <1>4, EmptySeq
  <2>2. Beneath(p, k)
    BY <2>1 DEF Tree
  <2>3. q[k] = p[k] /\ (k # 1 => q[k - 1] = p[k - 1])
    <3>1. k # 1 => k - 1 \in 1..Len(p)
      BY <1>1
    <3> QED
      BY <1>1, <3>1
  <2>4. k \in Nat /\ k >= 1
    OBVIOUS
  <2>5. (k = 1 => q[k] \in Chain(Root)) /\ (k \in {2, 3} => q[k] \in Chain(Down(q[k - 1])))
          /\ (k > 3 => q[k] \in Structs(q[k - 1]))
    BY <2>2, <2>3, <2>4 DEF Beneath
  <2> QED
    BY <2>5 DEF Beneath
<1>5. Beneath(q, Len(p) + 1)
  <2>1. CASE p = <<>>
    <3>1. Len(p) = 0 /\ x \in Chain(Root)
      BY <2>1, EmptySeq DEF GoesOn, HeadOf
    <3>2. q[1] = x
      BY <1>1, <3>1
    <3> QED
      BY <3>1, <3>2 DEF Beneath
  <2>2. CASE p # <<>>
    <3>1. Len(p) >= 1 /\ q[Len(p)] = p[Len(p)] /\ (Len(p) + 1) - 1 = Len(p)
      BY <1>1, <2>2, EmptySeq
    <3>2. x \in Chain(Down(p[Len(p)])) /\ (Len(p) >= 3 => Kind(Down(p[Len(p)])) = "CN")
      BY <2>2 DEF GoesOn, HeadOf
    <3>3. PICK n \in Nat : n = Len(p)
      BY <1>1
    <3>4. /\ n + 1 \in {2, 3} => q[n + 1] \in Chain(Down(q[(n + 1) - 1]))
          /\ n + 1 > 3 => q[n + 1] \in Structs(q[(n + 1) - 1])
          /\ n + 1 # 1
      BY <1>1, <3>1, <3>2, <3>3 DEF Structs
    <3> QED
      BY <3>3, <3>4 DEF Beneath
  <2> QED
    BY <2>1, <2>2
<1>6. \A k \in 1..Len(q) : k \in 1..Len(p) \/ k = Len(p) + 1
  BY <1>1
<1> QED
  BY <1>1, <1>3, <1>4, <1>5, <1>6 DEF Tree, q

\* What goes on from a path of the tree is beneath its end.
LEMMA TreeGoesOn ==
    ASSUME file \in Files, NEW q, Tree(q), NEW p \in Seq(Nat), Extends(q, p)
    PROVE  GoesOn(p, q[Len(p) + 1]) /\ Len(p) < Deepest
<1>1. /\ q \in Seq(Nat) /\ Len(q) \in Nat /\ Len(p) \in Nat /\ Len(q) <= Deepest
      /\ Len(p) + 1 \in 1..Len(q) /\ Deepest \in Nat
  BY LenProperties, OpenFileAssumption DEF Tree, Extends, Deepest
<1>2. PICK n \in Nat : n = Len(p)
  BY <1>1
<1>3. Beneath(q, n + 1)
  BY <1>1, <1>2 DEF Tree
<1>4. CASE n = 0
  <2>1. p = <<>>
    BY <1>2, <1>4, EmptySeq
  <2>2. q[n + 1] \in Chain(Root)
    BY <1>3, <1>4 DEF Beneath
  <2> QED
    BY <1>1, <1>2, <1>4, <2>1, <2>2 DEF GoesOn, HeadOf
<1>5. CASE n # 0
  <2>1. p # <<>> /\ q[n] = p[n] /\ (n + 1) - 1 = n
    BY <1>2, <1>5, EmptySeq DEF Extends
  <2>2. /\ n + 1 \in {2, 3} => q[n + 1] \in Chain(Down(p[n]))
        /\ n + 1 > 3 => q[n + 1] \in Structs(p[n])
    BY <1>3, <2>1 DEF Beneath
  <2>3. n + 1 \in {2, 3} \/ n + 1 > 3
    BY <1>5
  <2>4. q[n + 1] \in Chain(Down(p[n])) /\ (n >= 3 => Kind(Down(p[n])) = "CN")
    BY <2>2, <2>3 DEF Structs
  <2> QED
    BY <1>1, <1>2, <2>1, <2>4 DEF GoesOn, HeadOf
<1> QED
  BY <1>4, <1>5

\* A path is its last block behind the path to it.
LEMMA PathSplits ==
    ASSUME NEW q \in Seq(Nat), NEW n \in Nat, Len(q) = n + 1
    PROVE  \E p \in Seq(Nat) : /\ Len(p) = n
                               /\ \A k \in 1..n : p[k] = q[k]
                               /\ q[n + 1] \in Nat
                               /\ q = p \o <<q[n + 1]>>
<1>1. \A k \in 1..(n + 1) : q[k] \in Nat
  BY ElementOfSeq
<1>2. PICK p : p = [k \in 1..n |-> q[k]]
  OBVIOUS
<1>3. p \in Seq(Nat) /\ Len(p) = n
  <2>1. \A k \in 1..n : k \in 1..(n + 1)
    OBVIOUS
  <2>2. \A k \in 1..n : q[k] \in Nat
    BY <1>1, <2>1
  <2>3. p \in [1..n -> Nat]
    BY <1>2, <2>2
  <2> QED
    BY <2>3, IsASeq, LenProperties
<1>4. q[n + 1] \in Nat
  BY <1>1
<1>5. /\ p \o <<q[n + 1]>> \in Seq(Nat)
      /\ Len(p \o <<q[n + 1]>>) = n + 1
      /\ \A k \in 1..n : (p \o <<q[n + 1]>>)[k] = p[k]
      /\ (p \o <<q[n + 1]>>)[n + 1] = q[n + 1]
  BY <1>3, <1>4, GrownPath
<1>6. \A k \in 1..(n + 1) : k \in 1..n \/ k = n + 1
  OBVIOUS
<1>7. \A k \in 1..(n + 1) : (p \o <<q[n + 1]>>)[k] = q[k]
  BY <1>2, <1>5, <1>6
<1>8. q = p \o <<q[n + 1]>>
  BY <1>5, <1>7, SeqEqual
<1> QED
  BY <1>2, <1>3, <1>4, <1>8

Level(n) == {q \in Seq(Nat) : Tree(q) /\ Len(q) = n + 3}

\* The groups of a file are the paths of two blocks, without links to nothing.
LEMMA GroupsAre ==
    ASSUME file \in Files, Root \in Nat, NEW g \in Groups
    PROVE  /\ Tree(<<g[1], g[2]>>) /\ Len(<<g[1], g[2]>>) = 2
           /\ g = <<g[1], g[2]>> /\ g[1] \in Nat /\ g[2] \in Nat /\ IsBlock(g[2])
<1>1. /\ g = <<g[1], g[2]>> /\ g[1] \in Chain(Root) /\ g[2] \in DOMAIN file
      /\ g[2] \in Chain(Down(g[1]))
  BY DEF Groups, Root
<1>2. g[1] \in Nat /\ g[2] \in Nat
  BY <1>1, ChainIs, BlockGraphAssumption
<1>3. PICK q : q = <<g[1], g[2]>>
  OBVIOUS
<1>4. q \in Seq(Nat) /\ Len(q) = 2 /\ q[1] = g[1] /\ q[2] = g[2]
  BY <1>2, <1>3
<1>5. \A k \in 1..2 : k = 1 \/ k = 2
  OBVIOUS
<1>6. Beneath(q, 1) /\ Beneath(q, 2)
  BY <1>1, <1>4 DEF Beneath
<1>7. 2 \in 1..Deepest
  BY OpenFileAssumption DEF Deepest
<1> QED
  BY <1>1, <1>2, <1>3, <1>4, <1>5, <1>6, <1>7 DEF Tree, IsBlock

Tops == UNION {{g \o <<cn>> : cn \in Chain(Down(g[2]))} : g \in Groups}
Grown(s) == UNION {{p \o <<cn>> : cn \in Structs(Last(p))} : p \in s}

Put(p, x) == p \o <<x>>

\* The channels of the groups, one by one.
LEMMA TopsHave ==
    \A q : q \in Tops <=> \E g \in Groups : \E cn \in Chain(Down(g[2])) : q = Put(g, cn)
<1> DEFINE Of(g) == {Put(g, cn) : cn \in Chain(Down(g[2]))}
<1>1. \A g, q : q \in Of(g) <=> \E cn \in Chain(Down(g[2])) : q = Put(g, cn)
  OBVIOUS
<1>2. Tops = UNION {Of(g) : g \in Groups}
  BY DEF Tops, Put
<1> HIDE DEF Of
<1>3. \A q : q \in Tops <=> \E g \in Groups : q \in Of(g)
  BY <1>2
<1> TAKE q
<1>4. ASSUME q \in Tops
      PROVE  \E g \in Groups : \E cn \in Chain(Down(g[2])) : q = Put(g, cn)
  <2>1. PICK g \in Groups : q \in Of(g)
    BY <1>3, <1>4
  <2> QED
    BY <1>1, <2>1
<1>5. ASSUME NEW g \in Groups, NEW cn \in Chain(Down(g[2])), q = Put(g, cn)
      PROVE  q \in Tops
  <2>1. q \in Of(g)
    BY <1>1, <1>5
  <2> QED
    BY <1>3, <2>1
<1> QED
  BY <1>4, <1>5

\* The members of channels, one by one.
LEMMA GrownHas ==
    ASSUME NEW s
    PROVE  \A q : q \in Grown(s) <=> \E p \in s : \E cn \in Structs(Last(p)) : q = Put(p, cn)
<1> DEFINE Of(p) == {Put(p, cn) : cn \in Structs(Last(p))}
<1>1. \A p, q : q \in Of(p) <=> \E cn \in Structs(Last(p)) : q = Put(p, cn)
  OBVIOUS
<1>2. Grown(s) = UNION {Of(p) : p \in s}
  BY DEF Grown, Put
<1> HIDE DEF Of
<1>3. \A q : q \in Grown(s) <=> \E p \in s : q \in Of(p)
  BY <1>2
<1> TAKE q
<1>4. ASSUME q \in Grown(s)
      PROVE  \E p \in s : \E cn \in Structs(Last(p)) : q = Put(p, cn)
  <2>1. PICK p \in s : q \in Of(p)
    BY <1>3, <1>4
  <2> QED
    BY <1>1, <2>1
<1>5. ASSUME NEW p \in s, NEW cn \in Structs(Last(p)), q = Put(p, cn)
      PROVE  q \in Grown(s)
  <2>1. q \in Of(p)
    BY <1>1, <1>5
  <2> QED
    BY <1>3, <2>1
<1> QED
  BY <1>4, <1>5

\* The channels of the groups are the paths of three.
LEMMA TopsAre ==
    ASSUME file \in Files, Root \in Nat
    PROVE  Tops = Level(0)
<1>0. 3 \in 1..Deepest /\ 2 \in 1..Deepest /\ Deepest \in Nat /\ 2 < Deepest
  BY OpenFileAssumption DEF Deepest
<1>1. ASSUME NEW g \in Groups, NEW cn \in Chain(Down(g[2]))
      PROVE  Put(g, cn) \in Level(0)
  <2>1. /\ Tree(<<g[1], g[2]>>) /\ Len(<<g[1], g[2]>>) = 2
        /\ g = <<g[1], g[2]>> /\ g[1] \in Nat /\ g[2] \in Nat
    BY GroupsAre
  <2>2. PICK p : p = <<g[1], g[2]>>
    OBVIOUS
  <2>3. p = g /\ Tree(p) /\ Len(p) = 2 /\ p[2] = g[2]
    <3>1. p = g
      BY <2>1, <2>2
    <3>2. Tree(p) /\ Len(p) = 2
      BY <2>1, <2>2
    <3> QED
      BY <3>1, <3>2
  <2>9. p \in Seq(Nat) /\ p # <<>> /\ Len(p) < Deepest
    <3>1. p \in Seq(Nat)
      BY <2>3 DEF Tree
    <3>2. p # <<>>
      BY <2>3, EmptySeq
    <3> QED
      BY <1>0, <2>3, <3>1, <3>2
  <2>4. cn \in Nat
    BY LinksAre, ChainIs
  <2>5. GoesOn(p, cn)
    BY <2>3, <2>9 DEF GoesOn, HeadOf
  <2>6. Tree(p \o <<cn>>)
    BY <2>3, <2>4, <2>5, <2>9, TreeGrows
  <2>7. Len(p \o <<cn>>) = 0 + 3
    <3>1. Len(p \o <<cn>>) = Len(p) + 1
      BY <2>4, <2>9, GrownPath
    <3> QED
      BY <2>3, <3>1
  <2> QED
    BY <2>3, <2>6, <2>7 DEF Level, Tree, Put
<1>2. ASSUME NEW q \in Level(0)
      PROVE  q \in Tops
  <2>1. q \in Seq(Nat) /\ Tree(q) /\ Len(q) = 2 + 1
    BY DEF Level
  <2>2. PICK p \in Seq(Nat) : /\ Len(p) = 2 /\ \A k \in 1..2 : p[k] = q[k]
                              /\ q[2 + 1] \in Nat /\ q = p \o <<q[2 + 1]>>
    BY <2>1, PathSplits
  <2>3. p[1] = q[1] /\ p[2] = q[2] /\ p = <<q[1], q[2]>>
    BY <2>2
  <2>4. Beneath(q, 1) /\ Beneath(q, 2) /\ Beneath(q, 3)
    BY <2>1 DEF Tree
  <2>5. q[1] \in Chain(Root) /\ q[2] \in Chain(Down(q[1])) /\ q[3] \in Chain(Down(q[2]))
    BY <2>4 DEF Beneath
  <2>6. q[2] \in DOMAIN file
    <3>1. Down(q[2]) # 0
      BY <2>5, LinksAre, ChainBegins
    <3> QED
      BY <3>1 DEF Down, IsBlock
  <2>7. p \in Groups
    BY <2>3, <2>5, <2>6 DEF Groups, Root
  <2>8. q = p \o <<q[3]>> /\ q[3] \in Chain(Down(p[2]))
    BY <2>2, <2>3, <2>5
  <2>10. q = Put(p, q[3])
    BY <2>8 DEF Put
  <2> QED
    BY <2>7, <2>8, <2>10, TopsHave
<1>3. ASSUME NEW q \in Tops
      PROVE  q \in Level(0)
  <2>1. PICK g \in Groups : \E cn \in Chain(Down(g[2])) : q = Put(g, cn)
    BY TopsHave
  <2>2. PICK cn \in Chain(Down(g[2])) : q = Put(g, cn)
    BY <2>1
  <2> QED
    BY <1>1, <2>2
<1> QED
  BY <1>2, <1>3

\* The members of channels are the paths of one more.
LEMMA GrownAre ==
    ASSUME file \in Files, Root \in Nat, NEW n \in 1..MaxCompositionDepth
    PROVE  Grown(Level(n - 1)) = Level(n)
<1>0. MaxCompositionDepth \in Nat /\ n \in Nat /\ Deepest \in Nat /\ n + 2 < Deepest /\ n - 1 \in Nat
  BY OpenFileAssumption DEF Deepest
<1>1. ASSUME NEW p \in Level(n - 1), NEW cn \in Structs(Last(p))
      PROVE  Put(p, cn) \in Level(n)
  <2>1. p \in Seq(Nat) /\ Tree(p) /\ Len(p) = n + 2 /\ p # <<>>
    BY <1>0, EmptySeq DEF Level
  <2>2. cn \in Chain(Down(p[Len(p)])) /\ Kind(Down(p[Len(p)])) = "CN"
    BY DEF Structs, Last
  <2>3. cn \in Nat /\ GoesOn(p, cn)
    BY <2>1, <2>2, LinksAre, ChainIs DEF GoesOn, HeadOf
  <2>4. Tree(p \o <<cn>>)
    BY <1>0, <2>1, <2>3, TreeGrows
  <2>5. Len(p \o <<cn>>) = n + 3
    BY <1>0, <2>1, <2>3, GrownPath
  <2> QED
    BY <2>4, <2>5 DEF Level, Tree, Put
<1>2. ASSUME NEW q \in Level(n)
      PROVE  q \in Grown(Level(n - 1))
  <2>1. q \in Seq(Nat) /\ Tree(q) /\ Len(q) = (n + 2) + 1 /\ n + 2 \in Nat
    BY <1>0 DEF Level
  <2>2. PICK p \in Seq(Nat) : /\ Len(p) = n + 2 /\ \A k \in 1..(n + 2) : p[k] = q[k]
                              /\ q[(n + 2) + 1] \in Nat /\ q = p \o <<q[(n + 2) + 1]>>
    BY <2>1, PathSplits
  <2>3. Extends(q, p) /\ (n + 2) + 1 = n + 3
    BY <1>0, <2>1, <2>2 DEF Extends
  <2>4. GoesOn(p, q[n + 3])
    BY <2>1, <2>2, <2>3, TreeGoesOn
  <2>5. p # <<>> /\ Len(p) >= 3
    BY <1>0, <2>2, EmptySeq
  <2>6. q[n + 3] \in Structs(Last(p))
    BY <2>4, <2>5 DEF GoesOn, HeadOf, Structs, Last
  <2>7. Tree(p)
    <3>1. \A k \in 1..(n + 2) : k \in 1..((n + 2) + 1) /\ (k # 1 => k - 1 \in 1..(n + 2))
      BY <1>0
    <3>2. \A k \in 1..(n + 2) : Beneath(q, k)
      BY <2>1, <3>1 DEF Tree
    <3>3. ASSUME NEW k \in 1..(n + 2)
          PROVE  Beneath(p, k)
      <4>1. p[k] = q[k] /\ (k # 1 => p[k - 1] = q[k - 1]) /\ Beneath(q, k) /\ k \in Nat
        BY <2>2, <3>1, <3>2
      <4>2. k \in {2, 3} \/ k > 3 => k # 1
        BY <4>1
      <4> QED
        BY <4>1, <4>2 DEF Beneath
    <3>4. n + 2 \in 1..Deepest
      BY <1>0
    <3> QED
      BY <2>2, <3>3, <3>4 DEF Tree
  <2>8. p \in Level(n - 1)
    BY <1>0, <2>2, <2>7 DEF Level
  <2>9. q = Put(p, q[n + 3])
    BY <2>2, <2>3 DEF Put
  <2> QED
    BY <2>6, <2>8, <2>9, GrownHas
<1>3. ASSUME NEW q \in Grown(Level(n - 1))
      PROVE  q \in Level(n)
  <2>3. PICK s : s = Level(n - 1)
    OBVIOUS
  <2>4. q \in Grown(s)
    BY <1>3, <2>3
  <2>1. PICK p \in s : \E cn \in Structs(Last(p)) : q = Put(p, cn)
    BY <2>4, GrownHas
  <2>2. PICK cn \in Structs(Last(p)) : q = Put(p, cn)
    BY <2>1
  <2> QED
    BY <1>1, <2>2, <2>3
<1> QED
  BY <1>2, <1>3

\* Paths gives the paths of the tree by their lengths.
LEMMA PathsAre ==
    ASSUME file \in Files, Root \in Nat
    PROVE  \A n \in 0..MaxCompositionDepth : Paths[n] = Level(n)
<1> DEFINE N == MaxCompositionDepth
           Body(g) == [n \in 0..N |-> IF n = 0 THEN Tops ELSE Grown(g[n - 1])]
           L == [n \in 0..N |-> Level(n)]
           R == CHOOSE g : g = Body(g)
<1>1. N \in Nat
  BY OpenFileAssumption
<1>2. L = Body(L)
  <2>1. ASSUME NEW n \in 0..N, n # 0
        PROVE  Grown(L[n - 1]) = Level(n)
    <3>1. n - 1 \in 0..N /\ n \in 1..N
      BY <1>1, <2>1
    <3>2. L[n - 1] = Level(n - 1)
      BY <3>1
    <3>3. Grown(Level(n - 1)) = Level(n)
      BY <3>1, GrownAre
    <3> QED
      BY <3>2, <3>3
  <2>2. 0 \in 0..N => Level(0) = Tops
    BY TopsAre
  <2> HIDE DEF N
  <2>3. \A n \in 0..N : Level(n) = IF n = 0 THEN Tops ELSE Grown(L[n - 1])
    BY <2>1, <2>2
  <2> QED
    BY <2>3
<1>3. R = Body(R)
  <2> HIDE DEF L, N
  <2> QED
    BY <1>2
<1>4. Paths = R
  BY DEF Paths, Tops, Grown
<1> HIDE DEF R, L
<1> DEFINE S == {n \in 0..N : R[n] = Level(n)}
<1>5. 0 \in S
  <2> HIDE DEF N
  <2>1. 0 \in 0..N
    BY <1>1
  <2> QED
    BY <1>3, <2>1, TopsAre
<1>6. ASSUME NEW n \in 1..N, n - 1 \in S
      PROVE  n \in S
  <2>1. n \in 0..N /\ n # 0
    BY <1>1
  <2>2. R[n] = Grown(R[n - 1])
    <3> HIDE DEF N
    <3> QED
      BY <1>3, <2>1
  <2>3. Grown(Level(n - 1)) = Level(n)
    BY GrownAre
  <2> QED
    BY <1>6, <2>1, <2>2, <2>3
<1> HIDE DEF S, N
<1>7. \A n \in 0..N : n \in S
  BY <1>1, <1>5, <1>6, UpToInduction
<1> QED
  BY <1>4, <1>7 DEF S, N

(***************************************************************************)
(* What holds while a file is opened: of the walks in progress s, of the   *)
(* paths of the channels so far c, and of the hierarchy so far n.          *)
(***************************************************************************)

On(w, s) == \E i \in 1..Len(s) : s[i] = w
PathsOf(list) == [i \in DOMAIN list |-> list[i].path]

\* The walks that go down the tree, and the other ones that follow a chain.
TreeWalks == {"DG", "CG", "CN", "struct", "composition"}
SideWalks == {"SR", "AT", "EV", "FH", "CH", "DL", "LD"}

Walks == TreeWalks \cup SideWalks \cup {"data", "CC"}
WalkType == [walk : Walks, at : Nat, seen : SUBSET Nat, level : Nat, path : Seq(Nat)]

\* The first links of the chains that an open follows, the hierarchy's among them.
AllHeads(n) == Heads \cup {file[Header].more[3]} \cup {Down(n[i].at) : i \in DOMAIN n}

\* A walk has come along the chain it follows.
TreeWalkOK(w) ==
    /\ w.path = <<>> \/ Tree(w.path)
    /\ w.walk = "DG" => Len(w.path) = 0
    /\ w.walk = "CG" => Len(w.path) = 1
    /\ w.walk = "CN" => Len(w.path) = 2
    /\ w.walk \in {"struct", "composition"} => Len(w.path) = w.level + 3
    /\ OnChain(w.at, w.seen, HeadOf(w.path))
    /\ w.walk = "composition" => w.at = HeadOf(w.path) /\ w.seen = {}
    /\ w.walk = "struct" => Kind(HeadOf(w.path)) = "CN" /\ w.level < MaxCompositionDepth

WalkOK(w, n) ==
    /\ w.walk \in TreeWalks => TreeWalkOK(w)
    /\ w.walk \in SideWalks => \E h \in AllHeads(n) \cap Nat : OnChain(w.at, w.seen, h)
    /\ w.walk \in {"data", "CC"} => w.seen = {}
    /\ w.walk = "data" =>
          Tree(w.path) /\ Len(w.path) = 1 /\ Kind(w.path[1]) = "DG" /\ w.at = file[w.path[1]].more[1]

\* Of two walks down the tree the inner one is beneath a block that the outer one
\* has passed.
Passed(p, w) == Extends(p, w.path) /\ p[Len(w.path) + 1] \in w.seen
Under(v, w) == (v.walk \in TreeWalks /\ w.walk \in TreeWalks) => Passed(v.path, w)
Stacked(s) == \A i, j \in 1..Len(s) : i < j => Under(s[i], s[j])

\* The channels beneath a walk are beneath blocks that it has passed, and the last
\* channel is beneath every walk that has one above it.
Once(w, c) == w.walk \in TreeWalks => \A i \in 1..Len(c) : Extends(c[i], w.path) => Passed(c[i], w)
Current(w, c) ==
    (w.walk \in TreeWalks /\ Len(w.path) >= 3) => Len(c) > 0 /\ Begins(c[Len(c)], w.path)

\* The channels are paths of the tree, each once, a member after what it is of.
Listed(c) ==
    /\ \A i \in 1..Len(c) : Tree(c[i]) /\ Len(c[i]) >= 3
    /\ \A i, j \in 1..Len(c) : c[i] = c[j] => i = j
    /\ \A i \in 2..Len(c) : Len(c[i]) > 3 => IsPrefix(Front(c[i]), c[i - 1])

\* A chain that begins at h is being followed, or has been to its end.
Follows(v, h) ==
    /\ h \in Nat
    /\ \/ v.walk \in {"DG", "CG", "CN", "struct"} \cup (SideWalks \ {"CH"}) /\ OnChain(v.at, v.seen, h)
       \/ v.walk = "composition" /\ h = v.at /\ Kind(h) = "CN"
       \/ v.walk = "data" /\ h = ListHead(v.path[1])
Handled(h, s) == ~Cyclic(h) \/ \E v : On(v, s) /\ Follows(v, h)

\* A composition that is refused for its depth.
Deep(v) == v.walk = "composition" /\ v.at # 0 /\ v.level >= MaxCompositionDepth
DeepOn(s) == \E v : On(v, s) /\ Deep(v)

\* The path q is ahead of a walk down the tree.
Ahead(v, q) ==
    v.walk \in TreeWalks /\ Extends(q, v.path) /\ q[Len(v.path) + 1] \in Chain(v.at)

\* What the end of q holds has been taken up.
Followed(q, s, c) ==
    /\ Len(q) = 1 => Handled(Down(q[1]), s) /\ Handled(ListHead(q[1]), s)
    /\ (Len(q) = 2 /\ IsBlock(q[2])) => Handled(Down(q[2]), s) /\ Handled(file[q[2]].more[1], s)
    /\ Len(q) >= 3 => On(q, c)
    /\ (Len(q) >= 3 /\ Len(q) < Deepest /\ Structs(q[Len(q)]) # {}) => Handled(Down(q[Len(q)]), s)
    /\ Len(q) = Deepest => Down(q[Len(q)]) = 0 \/ DeepOn(s)

HeaderHandled(s) ==
    \A h \in {Root, file[Header].more[1], file[Header].more[2], file[Header].more[4]} : Handled(h, s)

AllCovered(s, c) == \A q : Tree(q) => Followed(q, s, c) \/ \E v : On(v, s) /\ Ahead(v, q)

InvOf(o, s, c, n) ==
    /\ s \in Seq(WalkType) /\ c \in Seq(Seq(Nat)) /\ n \in Seq([at : Nat, level : Nat])
    /\ o # "opening" => s = <<>>
    /\ o \in {"opening", "opened", "cyclic"} => Kind(Header) = "HD"
    /\ o = "closed" => c = <<>> /\ n = <<>>
    /\ \A w : On(w, s) => WalkOK(w, n) /\ Once(w, c) /\ Current(w, c)
    /\ Stacked(s)
    /\ Listed(c)
    /\ o \in {"opening", "opened"} => HeaderHandled(s) /\ AllCovered(s, c)
    /\ o = "cyclic" => NestsTooDeep \/ \E h \in AllHeads(n) : Cyclic(h)

\* The header's links, and those of the blocks that groups and channels are.
LEMMA HeaderIs ==
    ASSUME file \in Files, Kind(Header) = "HD"
    PROVE  /\ file[Header] \in BlockType /\ Root \in Nat
           /\ file[Header].more[1] \in Nat /\ file[Header].more[2] \in Nat
           /\ file[Header].more[3] \in Nat /\ file[Header].more[4] \in Nat
<1>1. IsBlock(Header) /\ file[Header].kind = "HD"
  BY DEF Kind
<1>2. file[Header] \in BlockType /\ Len(file[Header].more) >= 4
  BY <1>1, ABlock, OpenFileAssumption DEF IsBlock
<1>3. file[Header].down \in Nat /\ file[Header].more \in Seq(Nat)
  BY <1>2 DEF BlockType
<1>4. PICK m \in Seq(Nat) : m = file[Header].more
  BY <1>3
<1>5. Len(m) \in Nat /\ Len(m) >= 4
  BY <1>2, <1>4, LenProperties
<1>6. 1 \in 1..Len(m) /\ 2 \in 1..Len(m) /\ 3 \in 1..Len(m) /\ 4 \in 1..Len(m)
  BY <1>5
<1>7. m[1] \in Nat /\ m[2] \in Nat /\ m[3] \in Nat /\ m[4] \in Nat
  BY <1>6, ElementOfSeq
<1> QED
  BY <1>2, <1>3, <1>4, <1>7 DEF Root

\* A group or a channel has a first link.
LEMMA FirstLinkIs ==
    ASSUME file \in Files, NEW o, Kind(o) \in {"DG", "CG", "CN"}
    PROVE  file[o].more[1] \in Nat
<1>1. IsBlock(o) /\ file[o].kind \in {"DG", "CG", "CN"}
  BY KindsAreOfBlocks DEF Kind
<1>2. file[o] \in BlockType /\ Len(file[o].more) >= 1
  BY <1>1, ABlock, OpenFileAssumption DEF IsBlock
<1>3. PICK m \in Seq(Nat) : m = file[o].more
  BY <1>2 DEF BlockType
<1>4. 1 \in 1..Len(m)
  BY <1>2, <1>3, LenProperties
<1> QED
  BY <1>3, <1>4, ElementOfSeq

\* A list of data is at an offset, or nowhere.
LEMMA ListHeadIs ==
    ASSUME file \in Files, NEW o, file[o].more[1] \in Nat
    PROVE  ListHead(o) \in Nat
BY LinksAre DEF ListHead

\* A path of the tree of two blocks that are there is a group.
LEMMA GroupsHave ==
    ASSUME file \in Files, Root \in Nat, NEW q, Tree(q), Len(q) = 2, IsBlock(q[2])
    PROVE  q \in Groups
<1>1. q \in Seq(Nat) /\ Beneath(q, 1) /\ Beneath(q, 2)
  BY DEF Tree
<1>2. q[1] \in Chain(Root) /\ q[2] \in Chain(Down(q[1])) /\ q[2] \in DOMAIN file
  BY <1>1 DEF Beneath, IsBlock
<1>3. q = <<q[1], q[2]>>
  BY <1>1
<1> QED
  BY <1>2, <1>3 DEF Groups, Root

\* The heads that the groups give, and those that the members of channels give.
LEMMA GroupHeadsAre ==
    \A h : h \in GroupHeads <=> \E g \in Groups : h = Down(g[2]) \/ h = file[g[2]].more[1]
<1> DEFINE Of(g) == {Down(g[2]), file[g[2]].more[1]}
<1>1. \A h, g : h \in Of(g) <=> h = Down(g[2]) \/ h = file[g[2]].more[1]
  OBVIOUS
<1>2. GroupHeads = UNION {Of(g) : g \in Groups}
  BY DEF GroupHeads
<1> HIDE DEF Of
<1>3. \A h : h \in GroupHeads <=> \E g \in Groups : h \in Of(g)
  BY <1>2
<1> QED
  BY <1>1, <1>3

\* The chains of the members of channels, one by one.
LEMMA MemberHeadsAre ==
    \A h : h \in MemberHeads <=>
        \E n \in 0..MaxCompositionDepth - 1 :
           \E p \in Paths[n] : Structs(Last(p)) # {} /\ h = Down(Last(p))
<1>1. \A h, n : h \in MembersOf(n) <=>
           \E p \in Paths[n] : Structs(Last(p)) # {} /\ h = Down(Last(p))
  BY DEF MembersOf
<1>2. \A h : h \in MemberHeads <=> \E n \in 0..MaxCompositionDepth - 1 : h \in MembersOf(n)
  BY DEF MemberHeads
<1> QED
  BY <1>1, <1>2

\* The first links of the chains an open follows, by the paths that lead to them.
LEMMA HeadsHave ==
    ASSUME file \in Files, Root \in Nat
    PROVE  /\ {Root, file[Header].more[1], file[Header].more[2], file[Header].more[4]} \subseteq Heads
           /\ \A q : Tree(q) /\ Len(q) = 1 => Down(q[1]) \in Heads /\ ListHead(q[1]) \in Heads
           /\ \A q : Tree(q) /\ Len(q) = 2 /\ IsBlock(q[2]) =>
                 Down(q[2]) \in Heads /\ file[q[2]].more[1] \in Heads
           /\ \A q : (Tree(q) /\ Len(q) >= 3 /\ Len(q) < Deepest /\ Structs(q[Len(q)]) # {}) =>
                 Down(q[Len(q)]) \in Heads
<1>1. ASSUME NEW q, Tree(q), Len(q) = 1
      PROVE  Down(q[1]) \in Heads /\ ListHead(q[1]) \in Heads
  <2>1. Beneath(q, 1)
    BY <1>1 DEF Tree
  <2>2. q[1] \in Chain(Root)
    BY <2>1 DEF Beneath
  <2> QED
    BY <2>2, Zenon DEF Heads, Root
<1>2. ASSUME NEW q, Tree(q), Len(q) = 2, IsBlock(q[2])
      PROVE  Down(q[2]) \in Heads /\ file[q[2]].more[1] \in Heads
  <2>1. q \in Groups
    BY <1>2, GroupsHave
  <2>2. Down(q[2]) \in GroupHeads /\ file[q[2]].more[1] \in GroupHeads
    BY <2>1, GroupHeadsAre
  <2> QED
    BY <2>2, Zenon DEF Heads, Root
<1>3. ASSUME NEW q, Tree(q), Len(q) >= 3, Len(q) < Deepest, Structs(q[Len(q)]) # {}
      PROVE  Down(q[Len(q)]) \in Heads
  <2>1. q \in Seq(Nat) /\ Len(q) \in Nat /\ MaxCompositionDepth \in Nat
    BY <1>3, LenProperties, OpenFileAssumption DEF Tree
  <2>2. PICK n \in Nat : n = Len(q) - 3
    BY <1>3, <2>1
  <2>3. n \in 0..MaxCompositionDepth - 1 /\ n \in 0..MaxCompositionDepth /\ Len(q) = n + 3
    BY <1>3, <2>1, <2>2 DEF Deepest
  <2>4. q \in Paths[n]
    <3>1. q \in Level(n)
      BY <1>3, <2>1, <2>3 DEF Level
    <3> QED
      BY <2>3, <3>1, PathsAre
  <2>5. Down(q[Len(q)]) \in MemberHeads
    BY <1>3, <2>3, <2>4, MemberHeadsAre DEF Last
  <2> QED
    BY <2>5, Zenon DEF Heads, Root
<1> QED
  BY <1>1, <1>2, <1>3, Zenon DEF Heads, Root

\* No other chain is among the first links.
LEMMA HeadsAre ==
    ASSUME file \in Files, Root \in Nat, NEW h \in Heads
    PROVE  \/ h \in {Root, file[Header].more[1], file[Header].more[2], file[Header].more[4]}
           \/ \E q : Tree(q) /\ Len(q) = 1 /\ h \in {Down(q[1]), ListHead(q[1])}
           \/ \E q : Tree(q) /\ Len(q) = 2 /\ IsBlock(q[2]) /\ h \in {Down(q[2]), file[q[2]].more[1]}
           \/ \E q : /\ Tree(q) /\ Len(q) >= 3 /\ Len(q) < Deepest /\ Structs(q[Len(q)]) # {}
                     /\ h = Down(q[Len(q)])
<1>1. CASE \E dg \in Chain(Root) : h \in {Down(dg), ListHead(dg)}
  <2>1. PICK dg \in Chain(Root) : h \in {Down(dg), ListHead(dg)}
    BY <1>1
  <2>2. dg \in Nat
    BY ChainIs
  <2>3. PICK q : q = <<dg>>
    OBVIOUS
  <2>4. q \in Seq(Nat) /\ Len(q) = 1 /\ q[1] = dg
    BY <2>2, <2>3
  <2>5. Beneath(q, 1) /\ 1 \in 1..Deepest
    BY <2>4, OpenFileAssumption DEF Beneath, Deepest
  <2>6. \A k \in 1..1 : k = 1
    OBVIOUS
  <2>7. Tree(q)
    BY <2>4, <2>5, <2>6 DEF Tree
  <2> QED
    BY <2>1, <2>4, <2>7
<1>2. CASE h \in GroupHeads
  <2>1. PICK g \in Groups : h = Down(g[2]) \/ h = file[g[2]].more[1]
    BY <1>2, GroupHeadsAre
  <2>2. Tree(<<g[1], g[2]>>) /\ Len(<<g[1], g[2]>>) = 2 /\ IsBlock(g[2])
    BY GroupsAre
  <2>3. PICK q : q = <<g[1], g[2]>>
    OBVIOUS
  <2>4. Tree(q) /\ Len(q) = 2 /\ q[2] = g[2]
    BY <2>2, <2>3
  <2> QED
    BY <2>1, <2>2, <2>4
<1>3. CASE h \in MemberHeads
  <2>1. PICK n \in 0..MaxCompositionDepth - 1 :
           \E p \in Paths[n] : Structs(Last(p)) # {} /\ h = Down(Last(p))
    BY <1>3, MemberHeadsAre
  <2>2. PICK p \in Paths[n] : Structs(Last(p)) # {} /\ h = Down(Last(p))
    BY <2>1
  <2>3. n \in 0..MaxCompositionDepth /\ n \in Nat /\ n + 3 >= 3 /\ n + 3 < Deepest
    BY <2>1, OpenFileAssumption DEF Deepest
  <2>4. p \in Level(n)
    BY <2>3, PathsAre
  <2>5. Tree(p) /\ Len(p) = n + 3
    BY <2>4 DEF Level
  <2> QED
    BY <2>2, <2>3, <2>5 DEF Last
<1> QED
  BY <1>1, <1>2, <1>3, Zenon DEF Heads, Root

\* Compositions nest too deep where a channel of the deepest has one.
LEMMA TooDeepIs ==
    ASSUME file \in Files, Root \in Nat
    PROVE  NestsTooDeep <=> \E q : Tree(q) /\ Len(q) = Deepest /\ Down(q[Len(q)]) # 0
<1>1. MaxCompositionDepth \in 0..MaxCompositionDepth /\ MaxCompositionDepth \in Nat
  BY OpenFileAssumption
<1>2. Paths[MaxCompositionDepth] = Level(MaxCompositionDepth)
  BY <1>1, PathsAre
<1>3. \A q : q \in Level(MaxCompositionDepth) <=> Tree(q) /\ Len(q) = Deepest
  BY DEF Level, Deepest, Tree
<1> QED
  BY <1>2, <1>3 DEF NestsTooDeep, Last

(***************************************************************************)
(* Sequences by what is on them.                                           *)
(***************************************************************************)

\* What is on two sequences, one behind the other.
LEMMA OnBoth ==
    ASSUME NEW S, NEW a \in Seq(S), NEW b \in Seq(S)
    PROVE  a \o b \in Seq(S) /\ \A w : On(w, a \o b) <=> On(w, a) \/ On(w, b)
<1>1. PICK s : s = a \o b
  OBVIOUS
<1>2. /\ s \in Seq(S) /\ Len(s) = Len(a) + Len(b) /\ Len(a) \in Nat /\ Len(b) \in Nat
      /\ \A i \in 1..Len(a) + Len(b) : s[i] = IF i <= Len(a) THEN a[i] ELSE b[i - Len(a)]
  BY <1>1, ConcatProperties, LenProperties
<1>3. ASSUME NEW i \in 1..Len(a)
      PROVE  i \in 1..Len(s) /\ s[i] = a[i]
  BY <1>2
<1>4. ASSUME NEW i \in 1..Len(b)
      PROVE  i + Len(a) \in 1..Len(s) /\ s[i + Len(a)] = b[i]
  <2>1. /\ i + Len(a) \in 1..Len(a) + Len(b) /\ ~(i + Len(a) <= Len(a))
        /\ (i + Len(a)) - Len(a) = i
    BY <1>2
  <2> QED
    BY <1>2, <2>1
<1>5. ASSUME NEW i \in 1..Len(s)
      PROVE  (i \in 1..Len(a) /\ s[i] = a[i]) \/ (i - Len(a) \in 1..Len(b) /\ s[i] = b[i - Len(a)])
  <2>1. i <= Len(a) => i \in 1..Len(a)
    BY <1>2
  <2>2. ~(i <= Len(a)) => i - Len(a) \in 1..Len(b)
    BY <1>2
  <2> QED
    BY <1>2, <2>1, <2>2
<1> QED
  BY <1>1, <1>2, <1>3, <1>4, <1>5 DEF On

\* What is on a sequence is its first or behind it.
LEMMA OnTail ==
    ASSUME NEW S, NEW s \in Seq(S), s # <<>>
    PROVE  /\ Tail(s) \in Seq(S) /\ s[1] \in S /\ Len(Tail(s)) = Len(s) - 1 /\ Len(s) \in Nat \ {0}
           /\ \A i \in 1..Len(s) - 1 : Tail(s)[i] = s[i + 1]
           /\ \A w : On(w, s) <=> w = s[1] \/ On(w, Tail(s))
<1>1. PICK t : t = Tail(s)
  OBVIOUS
<1>2. Len(s) \in Nat \ {0}
  BY LenProperties, EmptySeq
<1>3. t \in Seq(S) /\ Len(t) = Len(s) - 1 /\ (\A i \in 1..Len(s) - 1 : t[i] = s[i + 1]) /\ s[1] \in S
  <2>1. t \in Seq(S) /\ Len(t) = Len(s) - 1 /\ \A i \in 1..Len(t) : t[i] = s[i + 1]
    BY <1>1, HeadTailProperties
  <2>2. 1 \in 1..Len(s)
    BY <1>2
  <2> QED
    BY <2>1, <2>2, ElementOfSeq
<1>4. ASSUME NEW i \in 1..Len(s)
      PROVE  i = 1 \/ (i - 1 \in 1..Len(t) /\ t[i - 1] = s[i])
  <2>1. i # 1 => i - 1 \in 1..Len(s) - 1 /\ (i - 1) + 1 = i
    BY <1>2
  <2> QED
    BY <1>3, <2>1
<1>5. ASSUME NEW i \in 1..Len(t)
      PROVE  i + 1 \in 1..Len(s) /\ t[i] = s[i + 1]
  BY <1>2, <1>3
<1>6. 1 \in 1..Len(s)
  BY <1>2
<1> QED
  BY <1>1, <1>2, <1>3, <1>4, <1>5, <1>6 DEF On

\* What is on a sequence of none, one or two.
LEMMA OnFew ==
    /\ \A w : ~On(w, <<>>)
    /\ \A x, w : On(w, <<x>>) <=> w = x
    /\ \A x, y, w : On(w, <<x, y>>) <=> w = x \/ w = y
<1>1. ASSUME NEW x, NEW w
      PROVE  On(w, <<x>>) <=> w = x
  <2>1. PICK s : s = <<x>>
    OBVIOUS
  <2>2. Len(s) = 1 /\ s[1] = x /\ \A i \in 1..1 : i = 1
    BY <2>1
  <2>3. 1 \in 1..1
    OBVIOUS
  <2>4. On(w, s) <=> w = x
    BY <2>2, <2>3 DEF On
  <2> QED
    BY <2>1, <2>4
<1>2. ASSUME NEW x, NEW y, NEW w
      PROVE  On(w, <<x, y>>) <=> w = x \/ w = y
  <2>1. PICK s : s = <<x, y>>
    OBVIOUS
  <2>2. Len(s) = 2 /\ s[1] = x /\ s[2] = y /\ \A i \in 1..2 : i = 1 \/ i = 2
    BY <2>1
  <2>3. 1 \in 1..2 /\ 2 \in 1..2
    OBVIOUS
  <2>4. On(w, s) <=> w = x \/ w = y
    BY <2>2, <2>3 DEF On
  <2> QED
    BY <2>1, <2>4
<1>3. \A w : ~On(w, <<>>)
  <2>1. Len(<<>>) = 0 /\ 1..0 = {}
    OBVIOUS
  <2> QED
    BY <2>1 DEF On
<1> QED
  BY <1>1, <1>2, <1>3

\* A sequence and one more.
LEMMA OnLonger ==
    ASSUME NEW S, NEW c \in Seq(S), NEW x \in S
    PROVE  /\ Append(c, x) \in Seq(S) /\ Len(Append(c, x)) = Len(c) + 1 /\ Len(c) \in Nat
           /\ \A i \in 1..Len(c) : Append(c, x)[i] = c[i]
           /\ Append(c, x)[Len(c) + 1] = x
           /\ \A w : On(w, Append(c, x)) <=> On(w, c) \/ w = x
<1>1. PICK d : d = Append(c, x)
  OBVIOUS
<1>2. /\ d \in Seq(S) /\ Len(d) = Len(c) + 1 /\ Len(c) \in Nat
      /\ (\A i \in 1..Len(c) : d[i] = c[i]) /\ d[Len(c) + 1] = x
  BY <1>1, AppendProperties, LenProperties
<1>3. /\ \A i \in 1..Len(c) + 1 : i \in 1..Len(c) \/ i = Len(c) + 1
      /\ \A i \in 1..Len(c) : i \in 1..Len(c) + 1
      /\ Len(c) + 1 \in 1..Len(c) + 1
  BY <1>2
<1> QED
  BY <1>1, <1>2, <1>3 DEF On

\* Walks above a stack of walks.
LEMMA StackedAbove ==
    ASSUME NEW S, NEW a \in Seq(S), NEW b \in Seq(S), Stacked(a), Stacked(b),
           \A v, w : On(v, a) /\ On(w, b) => Under(v, w)
    PROVE  Stacked(a \o b)
<1>1. PICK s : s = a \o b
  OBVIOUS
<1>2. /\ Len(s) = Len(a) + Len(b) /\ Len(a) \in Nat /\ Len(b) \in Nat
      /\ \A i \in 1..Len(a) + Len(b) : s[i] = IF i <= Len(a) THEN a[i] ELSE b[i - Len(a)]
  BY <1>1, ConcatProperties, LenProperties
<1>3. ASSUME NEW i \in 1..Len(s), NEW j \in 1..Len(s), i < j
      PROVE  Under(s[i], s[j])
  <2>1. CASE j <= Len(a)
    <3>1. i \in 1..Len(a) /\ j \in 1..Len(a) /\ i <= Len(a)
      BY <1>2, <1>3, <2>1
    <3>2. Under(a[i], a[j])
      BY <1>3, <3>1 DEF Stacked
    <3> QED
      BY <1>2, <2>1, <3>1, <3>2
  <2>2. CASE ~(j <= Len(a)) /\ i <= Len(a)
    <3>1. i \in 1..Len(a) /\ j - Len(a) \in 1..Len(b)
      BY <1>2, <1>3, <2>2
    <3>2. s[i] = a[i] /\ s[j] = b[j - Len(a)]
      BY <1>2, <2>2
    <3>3. On(a[i], a) /\ On(b[j - Len(a)], b)
      BY <3>1 DEF On
    <3> QED
      BY <3>2, <3>3
  <2>3. CASE ~(j <= Len(a)) /\ ~(i <= Len(a))
    <3>1. i - Len(a) \in 1..Len(b) /\ j - Len(a) \in 1..Len(b) /\ i - Len(a) < j - Len(a)
      BY <1>2, <1>3, <2>3
    <3>2. s[i] = b[i - Len(a)] /\ s[j] = b[j - Len(a)]
      BY <1>2, <2>3
    <3> QED
      BY <3>1, <3>2 DEF Stacked
  <2> QED
    BY <2>1, <2>2, <2>3
<1> QED
  BY <1>1, <1>3 DEF Stacked

\* The walks below the innermost one.
LEMMA StackedBelow ==
    ASSUME NEW S, NEW s \in Seq(S), s # <<>>, Stacked(s)
    PROVE  Stacked(Tail(s)) /\ \A w : On(w, Tail(s)) => Under(s[1], w)
<1>1. PICK t : t = Tail(s)
  OBVIOUS
<1>2. /\ Len(t) = Len(s) - 1 /\ Len(s) \in Nat \ {0}
      /\ \A i \in 1..Len(s) - 1 : t[i] = s[i + 1]
  BY <1>1, OnTail
<1>3. \A i \in 1..Len(t) : i + 1 \in 1..Len(s) /\ t[i] = s[i + 1] /\ 1 < i + 1
  BY <1>2
<1>4. 1 \in 1..Len(s)
  BY <1>2
<1>5. \A i, j \in 1..Len(t) : i < j => i + 1 < j + 1
  BY <1>2
<1>6. Stacked(t)
  BY <1>3, <1>5 DEF Stacked
<1>7. \A w : On(w, t) => Under(s[1], w)
  BY <1>3, <1>4 DEF Stacked, On
<1> QED
  BY <1>1, <1>6, <1>7

\* One walk, and two of which one is none down the tree.
LEMMA StackedFew ==
    /\ Stacked(<<>>)
    /\ \A x : Stacked(<<x>>)
    /\ \A x, y : Under(x, y) => Stacked(<<x, y>>)
<1>1. Stacked(<<>>)
  <2>1. Len(<<>>) = 0 /\ 1..0 = {}
    OBVIOUS
  <2> QED
    BY <2>1 DEF Stacked
<1>2. ASSUME NEW x
      PROVE  Stacked(<<x>>)
  <2>1. PICK s : s = <<x>>
    OBVIOUS
  <2>2. Len(s) = 1 /\ \A i, j \in 1..1 : ~(i < j)
    BY <2>1
  <2> QED
    BY <2>1, <2>2 DEF Stacked
<1>3. ASSUME NEW x, NEW y, Under(x, y)
      PROVE  Stacked(<<x, y>>)
  <2>1. PICK s : s = <<x, y>>
    OBVIOUS
  <2>2. Len(s) = 2 /\ s[1] = x /\ s[2] = y /\ \A i, j \in 1..2 : i < j => i = 1 /\ j = 2
    BY <2>1
  <2>3. Stacked(s)
    BY <1>3, <2>2 DEF Stacked
  <2> QED
    BY <2>1, <2>3
<1> QED
  BY <1>1, <1>2, <1>3

\* What begins with a path is past what the path is past.
LEMMA PassedOn ==
    ASSUME NEW p \in Seq(Nat), NEW q \in Seq(Nat), NEW w \in WalkType, Passed(p, w), Begins(q, p)
    PROVE  Passed(q, w)
<1>1. w.path \in Seq(Nat)
  BY DEF WalkType
<1>2. PICK r \in Seq(Nat) : r = w.path
  BY <1>1
<1>3. Len(p) \in Nat /\ Len(q) \in Nat /\ Len(r) \in Nat
  BY LenProperties
<1>4. /\ Len(r) < Len(p) /\ (\A k \in 1..Len(r) : p[k] = r[k]) /\ p[Len(r) + 1] \in w.seen
      /\ Len(p) <= Len(q) /\ \A k \in 1..Len(p) : q[k] = p[k]
  BY <1>2 DEF Passed, Extends, Begins
<1>5. Len(r) < Len(q) /\ Len(r) + 1 \in 1..Len(p) /\ \A k \in 1..Len(r) : k \in 1..Len(p)
  BY <1>3, <1>4
<1>6. (\A k \in 1..Len(r) : q[k] = r[k]) /\ q[Len(r) + 1] \in w.seen
  BY <1>4, <1>5
<1> QED
  BY <1>2, <1>5, <1>6 DEF Passed, Extends

\* A chain that was being followed is, or has been to its end, and what was taken
\* up is still.
LEMMA FollowedOn ==
    ASSUME NEW s, NEW t, NEW c, NEW d,
           \A h : Handled(h, s) => Handled(h, t), DeepOn(s) => DeepOn(t), \A p : On(p, c) => On(p, d),
           NEW q, Followed(q, s, c)
    PROVE  Followed(q, t, d)
BY DEF Followed

\* The innermost walk gives way to others.
LEMMA Moves ==
    ASSUME file \in Files,
           NEW s, NEW c, NEW n, InvOf("opening", s, c, n), s # <<>>,
           NEW new \in Seq(WalkType), NEW o2, NEW c2, NEW n2,
           n2 \in Seq([at : Nat, level : Nat]), AllHeads(n) \subseteq AllHeads(n2),
           c2 \in Seq(Seq(Nat)), Listed(c2), \A p : On(p, c) => On(p, c2),
           \A w : On(w, Tail(s)) => Once(w, c2) /\ Current(w, c2),
           \A v : On(v, new) => WalkOK(v, n2) /\ Once(v, c2) /\ Current(v, c2),
           Stacked(new),
           \A v : (On(v, new) /\ v.walk \in TreeWalks) =>
               s[1].walk \in TreeWalks /\ Begins(v.path, s[1].path),
           \A h : Follows(s[1], h) => ~Cyclic(h) \/ \E v : On(v, new) /\ Follows(v, h),
           ~Deep(s[1]),
           \A q : (Tree(q) /\ Ahead(s[1], q)) =>
               Followed(q, new \o Tail(s), c2) \/ \E v : On(v, new) /\ Ahead(v, q),
           o2 = "opening" \/ (o2 = "opened" /\ new \o Tail(s) = <<>>)
    PROVE  InvOf(o2, new \o Tail(s), c2, n2)
<1>1. /\ s \in Seq(WalkType) /\ Stacked(s)
      /\ \A w : On(w, s) => WalkOK(w, n) /\ Once(w, c) /\ Current(w, c)
      /\ Kind(Header) = "HD" /\ HeaderHandled(s) /\ AllCovered(s, c)
  BY DEF InvOf
<1>2. PICK t : t = Tail(s)
  OBVIOUS
<1>3. PICK s2 : s2 = new \o t
  OBVIOUS
<1>4. t \in Seq(WalkType) /\ s[1] \in WalkType /\ \A w : On(w, s) <=> w = s[1] \/ On(w, t)
  BY <1>1, <1>2, OnTail
<1>5. s2 \in Seq(WalkType) /\ \A w : On(w, s2) <=> On(w, new) \/ On(w, t)
  BY <1>3, <1>4, OnBoth
<1>6. Stacked(t) /\ \A w : On(w, t) => Under(s[1], w)
  BY <1>1, <1>2, StackedBelow
<1>7. \A v : On(v, new) => v \in WalkType
  BY ElementOfSeq DEF On
<1>8. \A v : On(v, t) => v \in WalkType
  BY <1>4, ElementOfSeq DEF On
<1>9. ASSUME NEW v, NEW w, On(v, new), On(w, t)
      PROVE  Under(v, w)
  <2>1. SUFFICES ASSUME v.walk \in TreeWalks, w.walk \in TreeWalks
                 PROVE  Passed(v.path, w)
    BY DEF Under
  <2>2. s[1].walk \in TreeWalks /\ Begins(v.path, s[1].path)
    BY <1>9, <2>1
  <2>3. Passed(s[1].path, w)
    BY <1>6, <1>9, <2>1, <2>2 DEF Under
  <2>4. v \in WalkType /\ w \in WalkType /\ s[1] \in WalkType
    BY <1>4, <1>7, <1>8, <1>9
  <2>5. v.path \in Seq(Nat) /\ s[1].path \in Seq(Nat)
    BY <2>4 DEF WalkType
  <2> QED
    BY <2>2, <2>3, <2>4, <2>5, PassedOn
<1>10. Stacked(s2)
  BY <1>3, <1>4, <1>6, <1>9, StackedAbove
<1>11. ASSUME NEW w, On(w, t)
       PROVE  WalkOK(w, n2)
  <2>1. WalkOK(w, n)
    BY <1>1, <1>4, <1>11
  <2> QED
    BY <2>1 DEF WalkOK
<1>12. \A w : On(w, s2) => WalkOK(w, n2) /\ Once(w, c2) /\ Current(w, c2)
  BY <1>2, <1>5, <1>11
<1>13. ASSUME NEW h, Handled(h, s)
       PROVE  Handled(h, s2)
  <2>1. SUFFICES ASSUME NEW v, On(v, s), Follows(v, h), Cyclic(h)
                 PROVE  \E w : On(w, s2) /\ Follows(w, h)
    BY <1>13 DEF Handled
  <2>2. CASE v = s[1]
    BY <1>5, <2>1, <2>2
  <2>3. CASE On(v, t)
    BY <1>5, <2>1, <2>3
  <2> QED
    BY <1>4, <2>1, <2>2, <2>3
<1>14. DeepOn(s) => DeepOn(s2)
  BY <1>4, <1>5 DEF DeepOn
<1>15. HeaderHandled(s2)
  BY <1>1, <1>13 DEF HeaderHandled
<1>16. ASSUME NEW q, Tree(q)
       PROVE  Followed(q, s2, c2) \/ \E v : On(v, s2) /\ Ahead(v, q)
  <2>1. CASE Followed(q, s, c)
    <3>1. Followed(q, s2, c2)
      BY <1>13, <1>14, <2>1, FollowedOn
    <3> QED
      BY <3>1
  <2>2. CASE \E v : On(v, s) /\ Ahead(v, q)
    <3>1. PICK v : On(v, s) /\ Ahead(v, q)
      BY <2>2
    <3>2. CASE v = s[1]
      BY <1>2, <1>3, <1>5, <1>16, <3>1, <3>2
    <3>3. CASE On(v, t)
      BY <1>5, <3>1, <3>3
    <3> QED
      BY <1>4, <3>1, <3>2, <3>3
  <2> QED
    BY <1>1, <1>16, <2>1, <2>2 DEF AllCovered
<1>17. AllCovered(s2, c2)
  BY <1>16 DEF AllCovered
<1>18. InvOf(o2, s2, c2, n2)
  BY <1>1, <1>2, <1>3, <1>5, <1>10, <1>12, <1>15, <1>17 DEF InvOf
<1> QED
  BY <1>2, <1>3, <1>18

(***************************************************************************)
(* A walk goes on to its next block.                                       *)
(***************************************************************************)

Done(w) == [w EXCEPT !.at = Next1(@), !.seen = @ \cup {w.at}]

\* The block it was at is seen, and the rest of its chain is ahead.
LEMMA DoneIs ==
    ASSUME file \in Files, NEW w \in WalkType, w.at # 0, w.at \notin w.seen
    PROVE  /\ Done(w) \in WalkType /\ Done(w).walk = w.walk /\ Done(w).path = w.path
           /\ Done(w).level = w.level
           /\ Done(w).at = Next1(w.at) /\ Done(w).seen = w.seen \cup {w.at}
           /\ \A h \in Nat : OnChain(w.at, w.seen, h) => OnChain(Done(w).at, Done(w).seen, h)
           /\ \A x : x \in Chain(w.at) <=> x = w.at \/ x \in Chain(Done(w).at)
<1>1. w.at \in Nat /\ Next1(w.at) \in Nat
  BY LinksAre DEF WalkType
<1>2. /\ Done(w) \in WalkType /\ Done(w).walk = w.walk /\ Done(w).path = w.path
      /\ Done(w).level = w.level
      /\ Done(w).at = Next1(w.at) /\ Done(w).seen = w.seen \cup {w.at}
  BY <1>1 DEF Done, WalkType
<1>3. \A h \in Nat : OnChain(w.at, w.seen, h) => OnChain(Next1(w.at), w.seen \cup {w.at}, h)
  BY <1>1, ChainAdvances
<1>4. Chain(w.at) = {w.at} \cup Chain(Next1(w.at))
  BY <1>1, ChainBegins
<1> QED
  BY <1>2, <1>3, <1>4

\* It still keeps to what it is to keep to.
LEMMA DoneOK ==
    ASSUME file \in Files, Root \in Nat, NEW n, NEW c, NEW w \in WalkType, w.at # 0, w.at \notin w.seen,
           w.walk \in {"DG", "CG", "CN", "struct"} \cup SideWalks,
           WalkOK(w, n), Once(w, c), Current(w, c)
    PROVE  WalkOK(Done(w), n) /\ Once(Done(w), c) /\ Current(Done(w), c)
<1>1. /\ Done(w).walk = w.walk /\ Done(w).path = w.path /\ Done(w).level = w.level
      /\ Done(w).at = Next1(w.at) /\ Done(w).seen = w.seen \cup {w.at}
      /\ \A h \in Nat : OnChain(w.at, w.seen, h) => OnChain(Done(w).at, Done(w).seen, h)
  BY DoneIs
<1>2. HeadOf(w.path) \in Nat
  BY LinksAre DEF HeadOf
<1>3. w.walk \in TreeWalks => TreeWalkOK(Done(w))
  <2>1. w.walk # "composition"
    BY DEF SideWalks
  <2>2. SUFFICES ASSUME TreeWalkOK(w)
                 PROVE  TreeWalkOK(Done(w))
    BY DEF WalkOK
  <2>3. OnChain(Done(w).at, Done(w).seen, HeadOf(w.path))
    BY <1>1, <1>2, <2>2 DEF TreeWalkOK
  <2> HIDE DEF Done
  <2> QED
    BY <1>1, <2>1, <2>2, <2>3 DEF TreeWalkOK
<1>4. w.walk \in SideWalks => \E h \in AllHeads(n) \cap Nat : OnChain(Done(w).at, Done(w).seen, h)
  BY <1>1 DEF WalkOK
<1>5. w.walk \notin {"data", "CC"}
  BY DEF SideWalks
<1>6. WalkOK(Done(w), n)
  BY <1>1, <1>3, <1>4, <1>5 DEF WalkOK
<1>7. Once(Done(w), c)
  BY <1>1 DEF Once, Passed
<1>8. Current(Done(w), c)
  BY <1>1 DEF Current
<1> QED
  BY <1>6, <1>7, <1>8

\* The path of a walk and the block it is at.
Grow(w) == Put(w.path, w.at)

\* It begins with the path of the walk.
LEMMA GrowIs ==
    ASSUME NEW w \in WalkType
    PROVE  /\ w.path \in Seq(Nat) /\ w.at \in Nat /\ Len(w.path) \in Nat
           /\ Grow(w) \in Seq(Nat) /\ Len(Grow(w)) = Len(w.path) + 1
           /\ \A k \in 1..Len(w.path) : Grow(w)[k] = w.path[k]
           /\ Grow(w)[Len(w.path) + 1] = w.at
           /\ Begins(Grow(w), w.path) /\ Extends(Grow(w), w.path) /\ Begins(w.path, w.path)
           /\ Grow(w) # <<>> /\ HeadOf(Grow(w)) = Down(w.at)
<1>1. PICK p \in Seq(Nat), a \in Nat : p = w.path /\ a = w.at
  BY DEF WalkType
<1>2. /\ p \o <<a>> \in Seq(Nat) /\ Len(p) \in Nat /\ Len(p \o <<a>>) = Len(p) + 1
      /\ \A k \in 1..Len(p) : (p \o <<a>>)[k] = p[k]
      /\ (p \o <<a>>)[Len(p) + 1] = a
  BY GrownPath
<1>3. PICK q : q = p \o <<a>>
  OBVIOUS
<1>4. Grow(w) = q
  BY <1>1, <1>3 DEF Grow, Put
<1>5. /\ q \in Seq(Nat) /\ Len(p) \in Nat /\ Len(q) = Len(p) + 1
      /\ (\A k \in 1..Len(p) : q[k] = p[k]) /\ q[Len(p) + 1] = a
  BY <1>2, <1>3
<1>6. Begins(q, p) /\ Extends(q, p) /\ Begins(p, p)
  BY <1>5 DEF Begins, Extends
<1>7. q # <<>> /\ HeadOf(q) = Down(a)
  <2>1. q # <<>>
    BY <1>5, EmptySeq
  <2> QED
    BY <1>5, <2>1 DEF HeadOf
<1> QED
  BY <1>1, <1>4, <1>5, <1>6, <1>7

\* It is in the tree, and its chain begins beneath it.
LEMMA GrowIsInTree ==
    ASSUME file \in Files, Root \in Nat, NEW n, NEW w \in WalkType, w.at # 0,
           w.walk \in {"DG", "CG", "CN", "struct"}, WalkOK(w, n)
    PROVE  Tree(Grow(w)) /\ Len(w.path) < Deepest
<1>1. /\ w.path \in Seq(Nat) /\ w.at \in Nat /\ Len(w.path) \in Nat
  BY GrowIs
<1>2. TreeWalkOK(w)
  BY DEF WalkOK, TreeWalks
<1>3. Len(w.path) < Deepest /\ (Len(w.path) >= 3 => w.walk = "struct")
  <2>1. MaxCompositionDepth \in Nat /\ w.level \in Nat
    BY OpenFileAssumption DEF WalkType
  <2>2. /\ w.walk = "DG" => Len(w.path) = 0
        /\ w.walk = "CG" => Len(w.path) = 1
        /\ w.walk = "CN" => Len(w.path) = 2
        /\ w.walk = "struct" => Len(w.path) = w.level + 3 /\ w.level < MaxCompositionDepth
    BY <1>2 DEF TreeWalkOK
  <2>3. PICK l, m : l = w.level /\ m = Len(w.path)
    OBVIOUS
  <2>4. m \in {0, 1, 2} \/ (w.walk = "struct" /\ m = l + 3 /\ l < MaxCompositionDepth)
    BY <2>2, <2>3
  <2>6. l \in Nat /\ MaxCompositionDepth \in Nat
    BY <2>1, <2>3
  <2>5. m < MaxCompositionDepth + 3 /\ (m >= 3 => w.walk = "struct")
    <3>1. CASE m \in {0, 1, 2}
      <4>1. m < 3 /\ ~(m >= 3) /\ m < MaxCompositionDepth + 3
        BY <2>6, <3>1
      <4> QED
        BY <4>1
    <3>2. CASE w.walk = "struct" /\ m = l + 3 /\ l < MaxCompositionDepth
      <4>1. m < MaxCompositionDepth + 3
        BY <2>6, <3>2
      <4> QED
        BY <3>2, <4>1
    <3> QED
      BY <2>4, <3>1, <3>2
  <2> QED
    BY <2>3, <2>5 DEF Deepest
<1>4. GoesOn(w.path, w.at)
  BY <1>2, <1>3 DEF TreeWalkOK, GoesOn, OnChain
<1>5. Tree(w.path \o <<w.at>>)
  BY <1>1, <1>2, <1>3, <1>4, TreeGrows DEF TreeWalkOK
<1> QED
  BY <1>3, <1>5 DEF Grow, Put

\* No channel is there beneath a block that has not been passed.
LEMMA NoneYet ==
    ASSUME NEW c, NEW w \in WalkType, w.walk \in TreeWalks, w.at \notin w.seen, Once(w, c),
           NEW i \in 1..Len(c)
    PROVE  ~Begins(c[i], Grow(w))
<1>1. SUFFICES ASSUME Begins(c[i], Grow(w))
               PROVE  FALSE
  OBVIOUS
<1>2. PICK q, p, k : q = c[i] /\ p = w.path /\ k = Len(p)
  OBVIOUS
<1>3. /\ k \in Nat /\ Len(Grow(w)) = k + 1
      /\ \A j \in 1..k : Grow(w)[j] = p[j]
      /\ Grow(w)[k + 1] = w.at
  BY <1>2, GrowIs
<1>4. PICK g : g = Grow(w)
  OBVIOUS
<1>5. Len(g) = k + 1 /\ (\A j \in 1..k : g[j] = p[j]) /\ g[k + 1] = w.at
  BY <1>3, <1>4
<1>6. k + 1 <= Len(q) /\ \A j \in 1..(k + 1) : q[j] = g[j]
  BY <1>1, <1>2, <1>4, <1>5 DEF Begins
<1>7. k + 1 \in 1..(k + 1) /\ \A j \in 1..k : j \in 1..(k + 1)
  BY <1>3
<1>8. (\A j \in 1..k : q[j] = p[j]) /\ q[k + 1] = w.at
  BY <1>5, <1>6, <1>7
<1>9. k < Len(q) \/ ~(Len(q) \in Int)
  BY <1>3, <1>6
<1> QED
  BY <1>2, <1>3, <1>6, <1>8, <1>9 DEF Once, Passed, Extends

\* A channel is added beneath the walks that its path has passed.
LEMMA OneMore ==
    ASSUME NEW w \in WalkType, NEW c \in Seq(Seq(Nat)), NEW p \in Seq(Nat),
           Once(w, c), w.walk \in TreeWalks => Passed(p, w)
    PROVE  Once(w, Append(c, p)) /\ Current(w, Append(c, p))
<1>1. PICK d : d = Append(c, p)
  OBVIOUS
<1>2. /\ Len(d) = Len(c) + 1 /\ Len(c) \in Nat
      /\ (\A i \in 1..Len(c) : d[i] = c[i]) /\ d[Len(c) + 1] = p
  BY <1>1, OnLonger
<1>3. \A i \in 1..Len(c) + 1 : i \in 1..Len(c) \/ i = Len(c) + 1
  BY <1>2
<1>4. Once(w, d)
  BY <1>2, <1>3 DEF Once
<1>5. Len(p) \in Nat /\ w.path \in Seq(Nat) /\ Len(w.path) \in Nat
  BY LenProperties DEF WalkType
<1>6. ASSUME w.walk \in TreeWalks
      PROVE  Begins(p, w.path) /\ Len(d) > 0
  <2>1. Extends(p, w.path)
    BY <1>6 DEF Passed
  <2>2. Len(w.path) <= Len(p)
    BY <1>5, <2>1 DEF Extends
  <2> QED
    BY <1>2, <2>1, <2>2 DEF Extends, Begins
<1>7. Current(w, d)
  BY <1>2, <1>6 DEF Current
<1> QED
  BY <1>1, <1>4, <1>7

\* The innermost walk.
LEMMA TopIs ==
    ASSUME file \in Files, NEW s, NEW c, NEW n, InvOf("opening", s, c, n), s # <<>>
    PROVE  /\ s \in Seq(WalkType) /\ s[1] \in WalkType
           /\ WalkOK(s[1], n) /\ Once(s[1], c) /\ Current(s[1], c)
           /\ Tail(s) \in Seq(WalkType)
           /\ \A w : On(w, Tail(s)) => w \in WalkType /\ Once(w, c) /\ Current(w, c) /\ Under(s[1], w)
           /\ Root \in Nat /\ Kind(Header) = "HD"
           /\ c \in Seq(Seq(Nat)) /\ n \in Seq([at : Nat, level : Nat]) /\ Listed(c)
<1>1. /\ s \in Seq(WalkType) /\ Stacked(s)
      /\ \A w : On(w, s) => WalkOK(w, n) /\ Once(w, c) /\ Current(w, c)
      /\ Kind(Header) = "HD" /\ c \in Seq(Seq(Nat)) /\ n \in Seq([at : Nat, level : Nat]) /\ Listed(c)
  BY DEF InvOf
<1>2. PICK t : t = Tail(s)
  OBVIOUS
<1>3. t \in Seq(WalkType) /\ s[1] \in WalkType /\ \A w : On(w, s) <=> w = s[1] \/ On(w, t)
  BY <1>1, <1>2, OnTail
<1>4. \A w : On(w, t) => Under(s[1], w)
  BY <1>1, <1>2, StackedBelow
<1>5. \A w : On(w, t) => w \in WalkType
  BY <1>3, ElementOfSeq DEF On
<1>6. Root \in Nat
  BY <1>1, HeaderIs
<1> QED
  BY <1>1, <1>2, <1>3, <1>4, <1>5, <1>6

\* The path of a new channel has passed every walk down the tree.
LEMMA GrowPasses ==
    ASSUME file \in Files, NEW s, NEW c, NEW n, InvOf("opening", s, c, n), s # <<>>,
           s[1].walk \in TreeWalks, s[1].at # 0, s[1].at \notin s[1].seen
    PROVE  /\ \A w : (On(w, Tail(s)) /\ w.walk \in TreeWalks) => Passed(Grow(s[1]), w)
           /\ Passed(Grow(s[1]), Done(s[1]))
<1>1. PICK T : T = s[1]
  OBVIOUS
<1>2. T \in WalkType /\ \A w : On(w, Tail(s)) => w \in WalkType /\ Under(T, w)
  BY <1>1, TopIs
<1>3. /\ T.path \in Seq(Nat) /\ Grow(T) \in Seq(Nat) /\ Begins(Grow(T), T.path)
      /\ Extends(Grow(T), T.path) /\ Grow(T)[Len(T.path) + 1] = T.at
  BY <1>2, GrowIs
<1>4. ASSUME NEW w, On(w, Tail(s)), w.walk \in TreeWalks
      PROVE  Passed(Grow(T), w)
  <2>1. Passed(T.path, w) /\ w \in WalkType
    BY <1>1, <1>2, <1>4 DEF Under
  <2> QED
    BY <1>3, <2>1, PassedOn
<1>5. Passed(Grow(T), Done(T))
  <2>1. Done(T).path = T.path /\ Done(T).seen = T.seen \cup {T.at}
    BY <1>1, <1>2, DoneIs
  <2> QED
    BY <1>3, <2>1 DEF Passed
<1> QED
  BY <1>1, <1>4, <1>5

\* A channel is built, of the group or of the composition that is being walked.
LEMMA ChannelListed ==
    ASSUME file \in Files, NEW s, NEW c, NEW n, InvOf("opening", s, c, n), s # <<>>,
           s[1].walk \in {"CN", "struct"}, s[1].at # 0, s[1].at \notin s[1].seen,
           NEW d, d = Append(c, Grow(s[1]))
    PROVE  /\ d \in Seq(Seq(Nat)) /\ Listed(d)
           /\ \A p : On(p, d) <=> On(p, c) \/ p = Grow(s[1])
           /\ Len(d) > 0 /\ d[Len(d)] = Grow(s[1])
           /\ \A w : On(w, Tail(s)) => Once(w, d) /\ Current(w, d)
           /\ Once(Done(s[1]), d) /\ Current(Done(s[1]), d)
<1>1. PICK T, p : T = s[1] /\ p = Grow(T)
  OBVIOUS
<1>2. /\ T \in WalkType /\ WalkOK(T, n) /\ Once(T, c) /\ Current(T, c) /\ Root \in Nat
      /\ \A w : On(w, Tail(s)) => w \in WalkType /\ Once(w, c) /\ Current(w, c)
      /\ c \in Seq(Seq(Nat)) /\ Listed(c)
  BY <1>1, TopIs
<1>3. T.walk \in TreeWalks /\ T.walk \in {"DG", "CG", "CN", "struct"}
        /\ T.walk \in {"DG", "CG", "CN", "struct"} \cup SideWalks
  BY <1>1 DEF TreeWalks
<1>4. /\ T.path \in Seq(Nat) /\ Len(T.path) \in Nat /\ p \in Seq(Nat) /\ Len(p) = Len(T.path) + 1
      /\ (\A k \in 1..Len(T.path) : p[k] = T.path[k]) /\ Begins(p, T.path)
  BY <1>1, <1>2, GrowIs
<1>5. Tree(p)
  BY <1>1, <1>2, <1>3, GrowIsInTree
<1>6. /\ d \in Seq(Seq(Nat)) /\ Len(d) = Len(c) + 1 /\ Len(c) \in Nat
      /\ (\A i \in 1..Len(c) : d[i] = c[i]) /\ d[Len(c) + 1] = p
      /\ \A q : On(q, d) <=> On(q, c) \/ q = p
  BY <1>1, <1>2, <1>4, OnLonger
<1>7. \A i \in 1..Len(d) : i \in 1..Len(c) \/ i = Len(c) + 1
  BY <1>6
<1>8. Len(p) >= 3 /\ (T.walk = "CN" => Len(p) = 3)
  <2>1. /\ T.walk = "CN" => Len(T.path) = 2
        /\ T.walk = "struct" => Len(T.path) = T.level + 3
    BY <1>2, <1>3 DEF WalkOK, TreeWalkOK
  <2>2. PICK l \in Nat : l = T.level
    BY <1>2 DEF WalkType
  <2>5. PICK m \in Nat : m = Len(T.path) /\ Len(p) = m + 1
    BY <1>4
  <2>3. CASE T.walk = "CN"
    <3>1. m = 2
      BY <2>1, <2>3, <2>5
    <3>2. Len(p) = 3
      BY <2>5, <3>1
    <3> QED
      BY <3>2
  <2>4. CASE T.walk = "struct"
    <3>1. m = l + 3
      BY <2>1, <2>2, <2>4, <2>5
    <3>2. Len(p) >= 3
      BY <2>2, <2>5, <3>1
    <3> QED
      BY <2>4, <3>2
  <2> QED
    BY <1>1, <2>3, <2>4
<1>9. \A i \in 1..Len(c) : c[i] # p
  <2>1. Begins(p, p)
    BY <1>4 DEF Begins
  <2>2. T.at \notin T.seen
    BY <1>1
  <2>3. \A i \in 1..Len(c) : ~Begins(c[i], p)
    BY <1>1, <1>2, <1>3, <2>2, NoneYet
  <2> QED
    BY <2>1, <2>3
<1>10. \A i, j \in 1..Len(d) : d[i] = d[j] => i = j
  <2>1. \A i, j \in 1..Len(c) : c[i] = c[j] => i = j
    BY <1>2 DEF Listed
  <2>2. ASSUME NEW i \in 1..Len(d), NEW j \in 1..Len(d), d[i] = d[j]
        PROVE  i = j
    <3>1. CASE i \in 1..Len(c) /\ j \in 1..Len(c)
      <4>1. c[i] = c[j]
        BY <1>6, <2>2, <3>1
      <4> QED
        BY <2>1, <3>1, <4>1
    <3>2. CASE i \in 1..Len(c) /\ j = Len(c) + 1
      BY <1>6, <1>9, <2>2, <3>2
    <3>3. CASE i = Len(c) + 1 /\ j \in 1..Len(c)
      BY <1>6, <1>9, <2>2, <3>3
    <3> QED
      BY <1>7, <3>1, <3>2, <3>3
  <2> QED
    BY <2>2
<1>11. ASSUME NEW i \in 2..Len(d), Len(d[i]) > 3
       PROVE  IsPrefix(Front(d[i]), d[i - 1])
  <2>1. CASE i \in 2..Len(c)
    <3>1. i \in 1..Len(c) /\ i - 1 \in 1..Len(c)
      BY <1>6, <2>1
    <3>2. d[i] = c[i] /\ d[i - 1] = c[i - 1]
      BY <1>6, <3>1
    <3> QED
      BY <1>2, <1>11, <2>1, <3>2 DEF Listed
  <2>2. CASE i = Len(c) + 1
    <3>1. d[i] = p /\ i - 1 = Len(c) /\ Len(c) \in 1..Len(c) /\ d[i - 1] = c[Len(c)]
      BY <1>6, <1>11, <2>2
    <3>2. Len(T.path) >= 3
      BY <1>4, <1>11, <3>1
    <3>3. Begins(c[Len(c)], T.path)
      BY <1>2, <1>3, <3>2 DEF Current
    <3>4. PICK q, r : q = c[Len(c)] /\ r = T.path
      OBVIOUS
    <3>5. q \in Seq(Nat) /\ r \in Seq(Nat)
      BY <1>2, <1>4, <3>1, <3>4, ElementOfSeq
    <3>6. /\ Len(r) \in Nat /\ Len(r) >= 1 /\ Len(r) <= Len(q) /\ Len(q) \in Nat
          /\ (\A k \in 1..Len(r) : q[k] = r[k])
          /\ Len(p) = Len(r) + 1 /\ (\A k \in 1..Len(r) : p[k] = r[k])
      <4>1. Len(r) \in Nat /\ Len(q) \in Nat
        BY <3>5, LenProperties
      <4>2. Len(r) <= Len(q) /\ \A k \in 1..Len(r) : q[k] = r[k]
        BY <3>3, <3>4 DEF Begins
      <4>3. Len(p) = Len(r) + 1 /\ \A k \in 1..Len(r) : p[k] = r[k]
        BY <1>4, <3>4
      <4>4. Len(r) >= 3
        BY <3>2, <3>4
      <4>5. Len(r) >= 1
        BY <4>1, <4>4
      <4> QED
        BY <4>1, <4>2, <4>3, <4>5
    <3>7. Front(p) = r
      <4>1. Len(p) - 1 = Len(r) /\ 1 \in 1..Len(p) + 1 /\ Len(r) \in 0..Len(p)
        BY <3>6
      <4>2. /\ SubSeq(p, 1, Len(r)) \in Seq(Nat) /\ Len(SubSeq(p, 1, Len(r))) = Len(r)
            /\ \A k \in 1..Len(r) : SubSeq(p, 1, Len(r))[k] = p[k]
        <5>1. \A k \in 1..Len(r) : k \in 1..Len(p)
          BY <3>6
        <5>2. \A k \in 1..Len(r) : p[k] \in Nat
          BY <1>4, <5>1, ElementOfSeq
        <5> QED
          BY <1>4, <3>6, <5>2, SubSeqProperties
      <4>3. SubSeq(p, 1, Len(r)) = r
        BY <3>5, <3>6, <4>2, SeqEqual
      <4> QED
        BY <4>1, <4>3 DEF Front
    <3>8. SubSeq(q, 1, Len(r)) = r /\ SubSeq(r, 1, Len(r)) = r
      <4>1. \A k \in 1..Len(r) : k \in 1..Len(q)
        BY <3>6
      <4>2. /\ SubSeq(q, 1, Len(r)) \in Seq(Nat) /\ Len(SubSeq(q, 1, Len(r))) = Len(r)
            /\ \A k \in 1..Len(r) : SubSeq(q, 1, Len(r))[k] = q[k]
        BY <3>5, <3>6, SubSeqProperties
      <4>3. /\ SubSeq(r, 1, Len(r)) \in Seq(Nat) /\ Len(SubSeq(r, 1, Len(r))) = Len(r)
            /\ \A k \in 1..Len(r) : SubSeq(r, 1, Len(r))[k] = r[k]
        BY <3>5, <3>6, SubSeqProperties
      <4> QED
        BY <3>5, <3>6, <4>2, <4>3, SeqEqual
    <3>9. IsPrefix(r, q)
      BY <3>6, <3>8 DEF IsPrefix
    <3> QED
      BY <3>1, <3>4, <3>7, <3>9
  <2>3. i \in 2..Len(c) \/ i = Len(c) + 1
    BY <1>6
  <2> QED
    BY <2>1, <2>2, <2>3
<1>12. Listed(d)
  <2>1. \A i \in 1..Len(d) : Tree(d[i]) /\ Len(d[i]) >= 3
    BY <1>2, <1>5, <1>6, <1>7, <1>8 DEF Listed
  <2> QED
    BY <1>10, <1>11, <2>1 DEF Listed
<1>13. /\ \A w : (On(w, Tail(s)) /\ w.walk \in TreeWalks) => Passed(p, w)
       /\ Passed(p, Done(T))
  BY <1>1, <1>3, GrowPasses
<1>14. \A w : On(w, Tail(s)) => Once(w, d) /\ Current(w, d)
  BY <1>1, <1>2, <1>4, <1>13, OneMore
<1>15. Done(T) \in WalkType /\ Once(Done(T), c)
  BY <1>1, <1>2, <1>3, DoneIs, DoneOK
<1>16. Once(Done(T), d) /\ Current(Done(T), d)
  BY <1>1, <1>2, <1>4, <1>13, <1>15, OneMore
<1>17. Len(d) > 0 /\ d[Len(d)] = p
  BY <1>6
<1> QED
  BY <1>1, <1>6, <1>12, <1>14, <1>16, <1>17

\* What is ahead of a walk is ahead of it at its next block, or the block it is at,
\* or beneath that.
LEMMA AheadGoesOn ==
    ASSUME file \in Files, Root \in Nat, NEW w \in WalkType, w.walk \in TreeWalks,
           w.at # 0, w.at \notin w.seen, NEW q, Tree(q), Ahead(w, q)
    PROVE  \/ Ahead(Done(w), q)
           \/ q = Grow(w)
           \/ Extends(q, Grow(w)) /\ q[Len(Grow(w)) + 1] \in Chain(Down(w.at))
<1>1. /\ Done(w).walk = w.walk /\ Done(w).path = w.path
      /\ \A x : x \in Chain(w.at) <=> x = w.at \/ x \in Chain(Done(w).at)
  BY DoneIs
<1>2. PICK p, g, k : p = w.path /\ g = Grow(w) /\ k = Len(p)
  OBVIOUS
<1>3. /\ g \in Seq(Nat) /\ k \in Nat /\ Len(g) = k + 1 /\ (\A j \in 1..k : g[j] = p[j])
      /\ g[k + 1] = w.at /\ HeadOf(g) = Down(w.at)
  BY <1>2, GrowIs
<1>4. q \in Seq(Nat) /\ Len(q) \in Nat
  BY LenProperties DEF Tree
<1>5. k < Len(q) /\ (\A j \in 1..k : q[j] = p[j]) /\ q[k + 1] \in Chain(w.at)
  BY <1>2 DEF Ahead, Extends
<1>6. CASE q[k + 1] \in Chain(Done(w).at)
  BY <1>1, <1>2, <1>6 DEF Ahead
<1>7. CASE q[k + 1] = w.at
  <2>1. \A j \in 1..(k + 1) : j \in 1..k \/ j = k + 1
    BY <1>3
  <2>2. \A j \in 1..(k + 1) : q[j] = g[j]
    BY <1>3, <1>5, <1>7, <2>1
  <2>3. CASE Len(q) = k + 1
    <3>1. q = g
      BY <1>3, <1>4, <2>2, <2>3, SeqEqual
    <3> QED
      BY <1>2, <3>1
  <2>4. CASE Len(q) # k + 1
    <3>1. Len(g) < Len(q)
      BY <1>3, <1>4, <1>5, <2>4
    <3>2. Extends(q, g)
      BY <1>3, <2>2, <3>1 DEF Extends
    <3>3. GoesOn(g, q[Len(g) + 1])
      BY <1>3, <3>2, TreeGoesOn
    <3> QED
      BY <1>2, <1>3, <3>2, <3>3 DEF GoesOn
  <2> QED
    BY <2>3, <2>4
<1> QED
  BY <1>1, <1>2, <1>5, <1>6, <1>7 DEF Ahead

\* How far down the tree the walks of a block's links are.
OneDown(w, d) ==
    \/ w.walk = "DG" /\ d.walk = "CG"
    \/ w.walk = "CG" /\ d.walk = "CN"
    \/ w.walk = "CN" /\ d.walk = "composition" /\ d.level = 0
    \/ w.walk = "struct" /\ d.walk = "composition" /\ d.level = w.level + 1

\* The walk that a block of the tree holds keeps to its chain.
LEMMA HeldOK ==
    ASSUME file \in Files, Root \in Nat, NEW n, NEW w \in WalkType, w.at # 0,
           w.walk \in {"DG", "CG", "CN", "struct"}, WalkOK(w, n),
           NEW d \in WalkType, OneDown(w, d),
           d.path = Grow(w), d.at = Down(w.at), d.seen = {}
    PROVE  /\ WalkOK(d, n) /\ d.walk \in {"CG", "CN", "composition"}
           /\ d.walk = "composition" => d.level + 3 = Len(d.path)
<1>1. /\ w.path \in Seq(Nat) /\ Len(w.path) \in Nat /\ Len(Grow(w)) = Len(w.path) + 1
      /\ Grow(w) # <<>> /\ HeadOf(Grow(w)) = Down(w.at)
  BY GrowIs
<1>2. Tree(Grow(w))
  BY GrowIsInTree
<1>3. TreeWalkOK(w)
  BY DEF WalkOK, TreeWalks
<1>4. PICK k \in Nat, l \in Nat : k = Len(w.path) /\ l = w.level
  BY <1>1 DEF WalkType
<1>5. Len(d.path) = k + 1
  BY <1>1, <1>4
<1>6. /\ w.walk = "DG" => k = 0
      /\ w.walk = "CG" => k = 1
      /\ w.walk = "CN" => k = 2
      /\ w.walk = "struct" => k = l + 3
  BY <1>3, <1>4 DEF TreeWalkOK
<1>7. /\ d.walk \in {"CG", "CN", "composition"}
      /\ d.walk = "CG" => Len(d.path) = 1
      /\ d.walk = "CN" => Len(d.path) = 2
      /\ d.walk = "composition" => Len(d.path) = d.level + 3
  <2>1. CASE w.walk = "DG" /\ d.walk = "CG"
    <3>1. Len(d.path) = 1
      BY <1>5, <1>6, <2>1
    <3> QED
      BY <2>1, <3>1
  <2>2. CASE w.walk = "CG" /\ d.walk = "CN"
    <3>1. k = 1
      BY <1>6, <2>2
    <3>2. Len(d.path) = 2
      BY <1>5, <3>1
    <3> QED
      BY <2>2, <3>2
  <2>3. CASE w.walk = "CN" /\ d.walk = "composition" /\ d.level = 0
    <3>1. k = 2
      BY <1>6, <2>3
    <3>2. Len(d.path) = 3 /\ d.level + 3 = 3
      BY <1>5, <2>3, <3>1
    <3> QED
      BY <2>3, <3>2
  <2>4. CASE w.walk = "struct" /\ d.walk = "composition" /\ d.level = w.level + 1
    <3>1. k = l + 3 /\ d.level = l + 1
      BY <1>4, <1>6, <2>4
    <3>2. Len(d.path) = d.level + 3
      BY <1>5, <3>1
    <3> QED
      BY <2>4, <3>2
  <2> QED
    BY <2>1, <2>2, <2>3, <2>4 DEF OneDown
<1>8. Down(w.at) \in Nat
  BY LinksAre
<1>9. OnChain(d.at, d.seen, HeadOf(d.path))
  BY <1>1, <1>8, ChainStarts
<1>10. TreeWalkOK(d)
  BY <1>1, <1>2, <1>7, <1>9 DEF TreeWalkOK, HeadOf
<1> QED
  BY <1>7, <1>10 DEF WalkOK, SideWalks

\* A block of the tree is gone into: the walks of its links, and the rest of its chain.
LEMMA TreeMoves ==
    ASSUME file \in Files, NEW s, NEW c, NEW n, InvOf("opening", s, c, n), s # <<>>,
           s[1].walk \in {"DG", "CG", "CN", "struct"}, s[1].at # 0, s[1].at \notin s[1].seen,
           NEW d \in WalkType, NEW x \in WalkType, NEW held,
           held = <<d, x>> \/ held = <<x, d>>,
           OneDown(s[1], d), d.path = Grow(s[1]), d.at = Down(s[1].at), d.seen = {},
           x.walk \notin TreeWalks, WalkOK(x, n),
           NEW c2, c2 = IF s[1].walk \in {"DG", "CG"} THEN c ELSE Append(c, Grow(s[1])),
           \A t : (On(d, t) /\ On(x, t)) => Followed(Grow(s[1]), t, c2)
    PROVE  InvOf("opening", (held \o <<Done(s[1])>>) \o Tail(s), c2, n)
<1>1. PICK T, p, w : T = s[1] /\ p = Grow(T) /\ w = Done(T)
  OBVIOUS
<1>2. /\ T \in WalkType /\ WalkOK(T, n) /\ Once(T, c) /\ Current(T, c) /\ Root \in Nat
      /\ \A v : On(v, Tail(s)) => v \in WalkType /\ Once(v, c) /\ Current(v, c)
      /\ c \in Seq(Seq(Nat)) /\ n \in Seq([at : Nat, level : Nat]) /\ Listed(c) /\ Kind(Header) = "HD"
  BY <1>1, TopIs
<1>3. T.walk \in TreeWalks /\ T.walk \in {"DG", "CG", "CN", "struct"} \cup SideWalks
  BY <1>1 DEF TreeWalks
<1>4. /\ w \in WalkType /\ w.walk = T.walk /\ w.path = T.path /\ w.at = Next1(T.at)
      /\ \A h \in Nat : OnChain(T.at, T.seen, h) => OnChain(w.at, w.seen, h)
  BY <1>1, <1>2, DoneIs
<1>5. /\ p \in Seq(Nat) /\ T.path \in Seq(Nat) /\ Len(T.path) \in Nat /\ Len(p) = Len(T.path) + 1
      /\ Begins(p, T.path) /\ Begins(T.path, T.path)
  BY <1>1, <1>2, GrowIs
<1>6. WalkOK(d, n) /\ d.walk \in {"CG", "CN", "composition"} /\ d.walk \in TreeWalks
  <2>1. WalkOK(d, n) /\ d.walk \in {"CG", "CN", "composition"}
    BY <1>1, <1>2, HeldOK
  <2> QED
    BY <2>1 DEF TreeWalks
<1>7. held \in Seq(WalkType) /\ <<w>> \in Seq(WalkType)
  BY <1>4
<1>8. \A v : On(v, held) <=> v = d \/ v = x
  BY OnFew
<1>9. PICK new : new = held \o <<w>>
  OBVIOUS
<1>10. new \in Seq(WalkType) /\ \A v : On(v, new) <=> v = d \/ v = x \/ v = w
  <2>1. new \in Seq(WalkType) /\ \A v : On(v, new) <=> On(v, held) \/ On(v, <<w>>)
    BY <1>7, <1>9, OnBoth
  <2> QED
    BY <1>8, <2>1, OnFew
<1>11. Stacked(new)
  <2>1. Under(d, x) /\ Under(x, d) /\ Under(x, w)
    BY DEF Under
  <2>2. Under(d, w)
    <3>1. Passed(p, w)
      BY <1>1, <1>3, GrowPasses
    <3> QED
      BY <1>1, <3>1 DEF Under
  <2>3. Stacked(held) /\ Stacked(<<w>>)
    BY <2>1, StackedFew
  <2>4. \A v, u : On(v, held) /\ On(u, <<w>>) => Under(v, u)
    BY <1>8, <2>1, <2>2, OnFew
  <2> QED
    BY <1>7, <1>9, <2>3, <2>4, StackedAbove
<1>12. WalkOK(w, n) /\ Once(w, c) /\ Current(w, c)
  BY <1>1, <1>2, <1>3, DoneOK
<1>13. \A q \in Seq(Nat) : Extends(q, p) => Begins(q, p)
  <2>1. \A q \in Seq(Nat) : Len(q) \in Nat
    BY LenProperties
  <2>2. ASSUME NEW q \in Seq(Nat), Extends(q, p)
        PROVE  Len(p) <= Len(q)
    BY <1>5, <2>1, <2>2, LenProperties DEF Extends
  <2> QED
    BY <2>2 DEF Extends, Begins
<1>14. Once(d, c)
  <2>1. \A i \in 1..Len(c) : ~Begins(c[i], p)
    BY <1>1, <1>2, <1>3, NoneYet
  <2>2. \A i \in 1..Len(c) : c[i] \in Seq(Nat)
    BY <1>2, ElementOfSeq
  <2> QED
    BY <1>1, <1>13, <2>1, <2>2 DEF Once
<1>15. /\ c2 \in Seq(Seq(Nat)) /\ Listed(c2) /\ \A q : On(q, c) => On(q, c2)
       /\ \A v : On(v, Tail(s)) => Once(v, c2) /\ Current(v, c2)
       /\ Once(w, c2) /\ Current(w, c2) /\ Once(d, c2) /\ Current(d, c2)
  <2>1. CASE T.walk \in {"DG", "CG"}
    <3>1. c2 = c
      BY <1>1, <2>1
    <3>2. Current(d, c)
      <4>1. PICK k : k = Len(T.path)
        OBVIOUS
      <4>2. k \in {0, 1} /\ Len(p) = k + 1
        BY <1>2, <1>3, <1>5, <2>1, <4>1 DEF WalkOK, TreeWalkOK
      <4>3. ~(Len(p) >= 3)
        BY <4>2
      <4> QED
        BY <1>1, <4>3 DEF Current
    <3> QED
      BY <1>2, <1>12, <1>14, <3>1, <3>2
  <2>2. CASE T.walk \notin {"DG", "CG"}
    <3>1. c2 = Append(c, p) /\ T.walk \in {"CN", "struct"}
      BY <1>1, <2>2
    <3>2. /\ c2 \in Seq(Seq(Nat)) /\ Listed(c2)
          /\ \A q : On(q, c2) <=> On(q, c) \/ q = p
          /\ Len(c2) > 0 /\ c2[Len(c2)] = p
          /\ \A v : On(v, Tail(s)) => Once(v, c2) /\ Current(v, c2)
          /\ Once(w, c2) /\ Current(w, c2)
      BY <1>1, <3>1, ChannelListed
    <3>3. Begins(p, p) /\ ~Extends(p, p)
      BY <1>5, LenProperties DEF Begins, Extends
    <3>4. Current(d, c2)
      BY <1>1, <3>2, <3>3 DEF Current
    <3>5. /\ Len(c2) = Len(c) + 1 /\ Len(c) \in Nat
          /\ (\A i \in 1..Len(c) : c2[i] = c[i]) /\ c2[Len(c) + 1] = p
      BY <1>2, <1>5, <3>1, OnLonger
    <3>6. \A i \in 1..Len(c2) : i \in 1..Len(c) \/ i = Len(c) + 1
      BY <3>5
    <3>7. Once(d, c2)
      BY <1>1, <1>14, <3>3, <3>5, <3>6 DEF Once
    <3> QED
      BY <3>2, <3>4, <3>7
  <2> QED
    BY <2>1, <2>2
<1>16. ASSUME NEW v, On(v, new)
       PROVE  WalkOK(v, n) /\ Once(v, c2) /\ Current(v, c2)
  <2>1. Once(x, c2) /\ Current(x, c2)
    BY DEF Once, Current
  <2> QED
    BY <1>6, <1>10, <1>12, <1>15, <1>16, <2>1
<1>17. ASSUME NEW v, On(v, new), v.walk \in TreeWalks
       PROVE  Begins(v.path, T.path)
  BY <1>1, <1>4, <1>5, <1>10, <1>17
<1>18. ASSUME NEW h, Follows(T, h)
       PROVE  \E v : On(v, new) /\ Follows(v, h)
  <2>1. T.walk \notin {"composition", "data"}
    BY <1>1
  <2>2. h \in Nat /\ OnChain(T.at, T.seen, h)
    BY <1>18, <2>1 DEF Follows
  <2>3. Follows(w, h)
    BY <1>1, <1>4, <2>2 DEF Follows
  <2> QED
    BY <1>10, <2>3
<1>19. ~Deep(T)
  BY <1>1 DEF Deep
<1>20. ASSUME NEW q, Tree(q), Ahead(T, q)
       PROVE  Followed(q, new \o Tail(s), c2) \/ \E v : On(v, new) /\ Ahead(v, q)
  <2>1. \/ Ahead(w, q)
        \/ q = p
        \/ Extends(q, p) /\ q[Len(p) + 1] \in Chain(Down(T.at))
    BY <1>1, <1>2, <1>3, <1>20, AheadGoesOn
  <2>2. CASE Ahead(w, q)
    BY <1>10, <2>2
  <2>3. CASE q = p
    <3>1. PICK t : t = new \o Tail(s)
      OBVIOUS
    <3>2. Tail(s) \in Seq(WalkType)
      BY TopIs
    <3>3. \A v : On(v, t) <=> On(v, new) \/ On(v, Tail(s))
      BY <1>10, <3>1, <3>2, OnBoth
    <3>4. On(d, t) /\ On(x, t)
      BY <1>10, <3>3
    <3>5. Followed(p, t, c2)
      BY <1>1, <3>4
    <3> QED
      BY <2>3, <3>1, <3>5
  <2>4. CASE Extends(q, p) /\ q[Len(p) + 1] \in Chain(Down(T.at))
    <3>1. Ahead(d, q)
      BY <1>1, <1>6, <2>4 DEF Ahead
    <3> QED
      BY <1>10, <3>1
  <2> QED
    BY <2>1, <2>2, <2>3, <2>4
<1>21. InvOf("opening", new \o Tail(s), c2, n)
  BY <1>1, <1>2, <1>3, <1>10, <1>11, <1>15, <1>16, <1>17, <1>18, <1>19, <1>20, Moves
<1> QED
  BY <1>1, <1>9, <1>21

(***************************************************************************)
(* The other walks.                                                        *)
(***************************************************************************)

\* A walk that has nothing of the tree ahead gives way to walks that do not go down it.
LEMMA SideMoves ==
    ASSUME file \in Files, NEW s, NEW c, NEW n, InvOf("opening", s, c, n), s # <<>>,
           NEW new \in Seq(WalkType), NEW o2, NEW n2,
           n2 \in Seq([at : Nat, level : Nat]), AllHeads(n) \subseteq AllHeads(n2),
           \A v : On(v, new) => v.walk \notin TreeWalks /\ WalkOK(v, n2),
           \A h : Follows(s[1], h) => ~Cyclic(h) \/ \E v : On(v, new) /\ Follows(v, h),
           ~Deep(s[1]),
           \A q : Tree(q) => ~Ahead(s[1], q),
           o2 = "opening" \/ (o2 = "opened" /\ new \o Tail(s) = <<>>)
    PROVE  InvOf(o2, new \o Tail(s), c, n2)
<1>1. /\ c \in Seq(Seq(Nat)) /\ Listed(c)
      /\ \A w : On(w, Tail(s)) => Once(w, c) /\ Current(w, c)
      /\ Kind(Header) = "HD"
  BY TopIs
<1>2. \A v : On(v, new) => WalkOK(v, n2) /\ Once(v, c) /\ Current(v, c)
  BY DEF Once, Current
<1>3. Stacked(new)
  <2>1. \A i \in 1..Len(new) : new[i].walk \notin TreeWalks
    BY DEF On
  <2> QED
    BY <2>1 DEF Stacked, Under
<1> QED
  BY <1>1, <1>2, <1>3, Moves

\* A list goes on to its next block.
LEMMA ListMoves ==
    ASSUME file \in Files, NEW s, NEW c, NEW n, InvOf("opening", s, c, n), s # <<>>,
           s[1].walk \in SideWalks, s[1].at # 0, s[1].at \notin s[1].seen,
           NEW held \in Seq(WalkType), NEW n2,
           n2 \in Seq([at : Nat, level : Nat]), AllHeads(n) \subseteq AllHeads(n2),
           \A v : On(v, held) => v.walk \notin TreeWalks /\ WalkOK(v, n2)
    PROVE  InvOf("opening", (held \o <<Done(s[1])>>) \o Tail(s), c, n2)
<1>1. PICK T, w : T = s[1] /\ w = Done(T)
  OBVIOUS
<1>2. T \in WalkType /\ WalkOK(T, n) /\ Once(T, c) /\ Current(T, c) /\ Root \in Nat
  BY <1>1, TopIs
<1>3. T.walk \notin TreeWalks /\ T.walk # "data" /\ T.walk # "composition"
  BY <1>1 DEF TreeWalks, SideWalks
<1>4. /\ w \in WalkType /\ w.walk = T.walk /\ w.path = T.path
      /\ \A h \in Nat : OnChain(T.at, T.seen, h) => OnChain(w.at, w.seen, h)
  BY <1>1, <1>2, DoneIs
<1>5. WalkOK(w, n)
  BY <1>1, <1>2, DoneOK
<1>6. WalkOK(w, n2)
  BY <1>3, <1>4, <1>5 DEF WalkOK
<1>7. PICK new : new = held \o <<w>>
  OBVIOUS
<1>8. new \in Seq(WalkType) /\ \A v : On(v, new) <=> On(v, held) \/ v = w
  <2>1. <<w>> \in Seq(WalkType)
    BY <1>4
  <2> QED
    BY <1>7, <2>1, OnBoth, OnFew
<1>9. \A v : On(v, new) => v.walk \notin TreeWalks /\ WalkOK(v, n2)
  BY <1>3, <1>4, <1>6, <1>8
<1>10. ASSUME NEW h, Follows(T, h)
       PROVE  \E v : On(v, new) /\ Follows(v, h)
  <2>1. Follows(w, h)
    BY <1>3, <1>4, <1>10 DEF Follows
  <2> QED
    BY <1>8, <2>1
<1>11. ~Deep(T) /\ \A q : ~Ahead(T, q)
  BY <1>3 DEF Deep, Ahead
<1>12. InvOf("opening", new \o Tail(s), c, n2)
  BY <1>1, <1>8, <1>9, <1>10, <1>11, SideMoves
<1> QED
  BY <1>1, <1>7, <1>12

\* A chain is at its end.
LEMMA ChainMoves ==
    ASSUME file \in Files, NEW s, NEW c, NEW n, InvOf("opening", s, c, n), s # <<>>, s[1].at = 0,
           NEW o2, o2 = IF Len(s) = 1 THEN "opened" ELSE "opening"
    PROVE  InvOf(o2, Tail(s), c, n)
<1>1. PICK T : T = s[1]
  OBVIOUS
<1>2. /\ s \in Seq(WalkType) /\ T \in WalkType /\ WalkOK(T, n) /\ Tail(s) \in Seq(WalkType)
      /\ n \in Seq([at : Nat, level : Nat])
  BY <1>1, TopIs
<1>3. Chain(0) = {} /\ Kind(0) = "none" /\ ~Cyclic(0)
  <2>1. Chain(0) = {}
    BY ChainBegins
  <2>2. ~IsBlock(0)
    BY BlockGraphAssumption DEF IsBlock
  <2> QED
    BY <2>1, <2>2 DEF Kind, Cyclic
<1>4. ASSUME NEW h, Follows(T, h)
      PROVE  ~Cyclic(h)
  <2>1. CASE OnChain(T.at, T.seen, h)
    BY <1>1, <1>4, <2>1, ChainEnds DEF Follows
  <2>2. CASE T.walk = "composition"
    BY <1>1, <1>3, <1>4, <2>2 DEF Follows, SideWalks
  <2>3. CASE T.walk = "data"
    <3>1. h = ListHead(T.path[1])
      BY <1>4, <2>3 DEF Follows, SideWalks
    <3>2. file[T.path[1]].more[1] = 0
      BY <1>1, <1>2, <2>3 DEF WalkOK
    <3>3. h = 0
      BY <1>3, <3>1, <3>2 DEF ListHead
    <3> QED
      BY <1>3, <3>3
  <2> QED
    BY <1>4, <2>1, <2>2, <2>3 DEF Follows
<1>5. ~Deep(T) /\ \A q : ~Ahead(T, q)
  BY <1>1, <1>3 DEF Deep, Ahead
<1>6. <<>> \in Seq(WalkType) /\ \A v : ~On(v, <<>>)
  BY OnFew
<1>7. <<>> \o Tail(s) = Tail(s)
  BY <1>2, ConcatEmptySeq
<1>8. o2 = "opening" \/ (o2 = "opened" /\ Tail(s) = <<>>)
  <2>1. CASE Len(s) = 1
    <3>1. Len(Tail(s)) = 0
      BY <1>2, <2>1, OnTail
    <3> QED
      BY <1>2, <2>1, <3>1, EmptySeq
  <2> QED
    BY <2>1
<1> QED
  BY <1>1, <1>2, <1>4, <1>5, <1>6, <1>7, <1>8, SideMoves

\* A composition that is no channel has no members.
LEMMA ArrayMoves ==
    ASSUME file \in Files, NEW s, NEW c, NEW n, InvOf("opening", s, c, n), s # <<>>,
           s[1].walk = "composition", s[1].level < MaxCompositionDepth, Kind(s[1].at) # "CN"
    PROVE  InvOf("opening", <<>> \o Tail(s), c, n)
<1>1. PICK T : T = s[1]
  OBVIOUS
<1>2. T \in WalkType /\ WalkOK(T, n) /\ n \in Seq([at : Nat, level : Nat])
  BY <1>1, TopIs
<1>3. TreeWalkOK(T)
  BY <1>1, <1>2 DEF WalkOK, TreeWalks
<1>4. T.path \in Seq(Nat) /\ T.level \in Nat /\ Len(T.path) = T.level + 3 /\ T.at = HeadOf(T.path)
  BY <1>1, <1>2, <1>3 DEF TreeWalkOK, WalkType
<1>5. Len(T.path) >= 3
  BY <1>4
<1>6. ASSUME NEW q, Tree(q), Ahead(T, q)
      PROVE  FALSE
  <2>1. GoesOn(T.path, q[Len(T.path) + 1])
    BY <1>4, <1>6, TreeGoesOn DEF Ahead
  <2> QED
    BY <1>1, <1>4, <1>5, <2>1 DEF GoesOn
<1>7. \A h : ~Follows(T, h)
  BY <1>1 DEF Follows, SideWalks
<1>8. ~Deep(T)
  <2>1. ~(T.level >= MaxCompositionDepth)
    BY <1>1, <1>4, OpenFileAssumption
  <2> QED
    BY <2>1 DEF Deep
<1>9. <<>> \in Seq(WalkType) /\ \A v : ~On(v, <<>>)
  BY OnFew
<1> QED
  BY <1>1, <1>2, <1>6, <1>7, <1>8, <1>9, SideMoves

\* The members of a composition are a chain of its own.
LEMMA StructMoves ==
    ASSUME file \in Files, NEW s, NEW c, NEW n, InvOf("opening", s, c, n), s # <<>>,
           s[1].walk = "composition", s[1].level < MaxCompositionDepth, Kind(s[1].at) = "CN"
    PROVE  InvOf("opening", <<[s[1] EXCEPT !.walk = "struct"]>> \o Tail(s), c, n)
<1>0. PICK T, w : T = s[1] /\ w = [T EXCEPT !.walk = "struct"]
  OBVIOUS
<1>1. T = s[1] /\ T.walk = "composition" /\ T.level < MaxCompositionDepth /\ Kind(T.at) = "CN"
  BY <1>0
<1>2. /\ T \in WalkType /\ WalkOK(T, n) /\ Once(T, c) /\ Current(T, c)
      /\ c \in Seq(Seq(Nat)) /\ n \in Seq([at : Nat, level : Nat]) /\ Listed(c)
      /\ \A v : On(v, Tail(s)) => Once(v, c) /\ Current(v, c)
  BY <1>1, TopIs
<1>3. /\ w \in WalkType /\ w.walk = "struct" /\ w.at = T.at /\ w.seen = T.seen
      /\ w.level = T.level /\ w.path = T.path
  <2>1. T = [walk |-> T.walk, at |-> T.at, seen |-> T.seen, level |-> T.level, path |-> T.path]
          /\ T.at \in Nat /\ T.seen \in SUBSET Nat /\ T.level \in Nat /\ T.path \in Seq(Nat)
    BY <1>2 DEF WalkType
  <2>2. w = [walk |-> "struct", at |-> T.at, seen |-> T.seen, level |-> T.level, path |-> T.path]
    BY <1>0, <2>1
  <2>3. /\ w.walk = "struct" /\ w.at = T.at /\ w.seen = T.seen
        /\ w.level = T.level /\ w.path = T.path
    BY <2>2
  <2>4. "struct" \in Walks
    BY DEF Walks, TreeWalks
  <2>5. w \in WalkType
    BY <2>1, <2>2, <2>4 DEF WalkType
  <2> QED
    BY <2>3, <2>5
<1>15. PICK new : new = <<w>>
  OBVIOUS
<1>4. T.walk \in TreeWalks /\ w.walk \in TreeWalks /\ w.walk \notin SideWalks
        /\ w.walk \notin {"data", "CC"}
  BY <1>1, <1>3 DEF TreeWalks, SideWalks
<1>5. TreeWalkOK(T)
  BY <1>2, <1>4 DEF WalkOK
<1>6. TreeWalkOK(w)
  BY <1>1, <1>3, <1>5 DEF TreeWalkOK
<1>7. WalkOK(w, n)
  BY <1>3, <1>4, <1>6 DEF WalkOK
<1>8. Once(w, c) /\ Current(w, c)
  BY <1>2, <1>3, <1>4 DEF Once, Current, Passed
<1>9. new \in Seq(WalkType) /\ Stacked(new) /\ \A v : On(v, new) <=> v = w
  BY <1>15, <1>3, OnFew, StackedFew
<1>10. Begins(w.path, T.path)
  BY <1>2, <1>3, LenProperties DEF Begins, WalkType
<1>11. ASSUME NEW h, Follows(T, h)
       PROVE  Follows(w, h)
  <2>1. h \in Nat /\ h = T.at
    BY <1>1, <1>11 DEF Follows, SideWalks
  <2>2. T.seen = {}
    BY <1>1, <1>5 DEF TreeWalkOK
  <2>3. OnChain(w.at, w.seen, h)
    BY <1>3, <2>1, <2>2, ChainStarts
  <2> QED
    BY <1>3, <2>1, <2>3 DEF Follows
<1>12. ~Deep(T)
  <2>1. T.level \in Nat /\ MaxCompositionDepth \in Nat
    BY <1>2, OpenFileAssumption DEF WalkType
  <2>2. ~(T.level >= MaxCompositionDepth)
    BY <1>1, <2>1
  <2> QED
    BY <2>2 DEF Deep
<1>13. \A q : Ahead(T, q) => Ahead(w, q)
  BY <1>3, <1>4 DEF Ahead
<1>14. InvOf("opening", new \o Tail(s), c, n)
  <2>1. \A v : On(v, new) => WalkOK(v, n) /\ Once(v, c) /\ Current(v, c)
    BY <1>7, <1>8, <1>9
  <2>2. \A v : (On(v, new) /\ v.walk \in TreeWalks) => T.walk \in TreeWalks /\ Begins(v.path, T.path)
    BY <1>4, <1>9, <1>10
  <2>3. \A h : Follows(T, h) => \E v : On(v, new) /\ Follows(v, h)
    BY <1>9, <1>11
  <2>4. \A q : Ahead(T, q) => \E v : On(v, new) /\ Ahead(v, q)
    BY <1>9, <1>13
  <2> QED
    BY <1>1, <1>2, <1>9, <1>12, <2>1, <2>2, <2>3, <2>4, Moves
<1> QED
  BY <1>0, <1>15, <1>14

(***************************************************************************)
(* An open that fails.                                                     *)
(***************************************************************************)

\* What holds of an open that has failed for another reason than a cycle, or for one.
LEMMA Fails ==
    ASSUME file \in Files, NEW s, NEW c, NEW n, NEW o, InvOf(o, s, c, n), NEW o2,
           o2 \notin {"opening", "opened", "closed"},
           o2 = "cyclic" => Kind(Header) = "HD" /\ (NestsTooDeep \/ \E h \in AllHeads(n) : Cyclic(h))
    PROVE  InvOf(o2, <<>>, c, n)
<1>1. <<>> \in Seq(WalkType) /\ Stacked(<<>>) /\ \A w : ~On(w, <<>>)
  BY OnFew, StackedFew
<1>2. c \in Seq(Seq(Nat)) /\ n \in Seq([at : Nat, level : Nat]) /\ Listed(c)
  BY DEF InvOf
<1> QED
  BY <1>1, <1>2 DEF InvOf

\* A chain that a walk finds to return is one that an open follows.
LEMMA SeenFails ==
    ASSUME file \in Files, NEW s, NEW c, NEW n, InvOf("opening", s, c, n), s # <<>>,
           s[1].at # 0, s[1].at \in s[1].seen
    PROVE  InvOf("cyclic", <<>>, c, n)
<1>1. PICK T : T = s[1]
  OBVIOUS
<1>2. T \in WalkType /\ WalkOK(T, n) /\ Root \in Nat /\ Kind(Header) = "HD"
  BY <1>1, TopIs
<1>3. T.at \in Nat /\ T.at # 0 /\ T.at \in T.seen /\ T.path \in Seq(Nat) /\ T.walk \in Walks
        /\ T.level \in Nat
  BY <1>1, <1>2 DEF WalkType
<1>4. \E h \in AllHeads(n) : Cyclic(h)
  <2>1. CASE T.walk \in SideWalks
    BY <1>2, <1>3, <2>1, ChainReturns DEF WalkOK
  <2>2. CASE T.walk \in TreeWalks
    <3>1. PICK p, h : p = T.path /\ h = HeadOf(p)
      OBVIOUS
    <3>2. TreeWalkOK(T)
      BY <1>2, <2>2 DEF WalkOK
    <3>3. /\ p \in Seq(Nat) /\ (p = <<>> \/ Tree(p)) /\ OnChain(T.at, T.seen, h)
          /\ h \in Nat
      BY <1>2, <1>3, <3>1, <3>2, LinksAre DEF TreeWalkOK, HeadOf
    <3>4. Cyclic(h) /\ T.at \in Chain(h)
      BY <1>3, <3>3, ChainReturns DEF OnChain
    <3>5. h # 0
      BY <3>4, ChainBegins
    <3>6. T.walk # "composition"
      BY <1>3, <3>2 DEF TreeWalkOK
    <3>7. CASE T.walk = "DG"
      <4>1. h = Root
        BY <3>1, <3>2, <3>3, <3>7, EmptySeq DEF TreeWalkOK, HeadOf
      <4> QED
        BY <1>2, <3>4, <4>1, HeadsHave DEF AllHeads
    <3>8. CASE T.walk = "CG"
      <4>1. Len(p) = 1
        BY <3>1, <3>2, <3>8 DEF TreeWalkOK
      <4>5. Len(<<>>) # Len(p)
        BY <4>1
      <4>2. p # <<>>
        BY <4>5
      <4>3. Tree(p) /\ h = Down(p[1])
        BY <3>1, <3>3, <4>1, <4>2 DEF HeadOf
      <4> QED
        BY <1>2, <3>4, <4>1, <4>3, HeadsHave DEF AllHeads
    <3>9. CASE T.walk = "CN"
      <4>1. Len(p) = 2
        BY <3>1, <3>2, <3>9 DEF TreeWalkOK
      <4>5. Len(<<>>) # Len(p)
        BY <4>1
      <4>2. p # <<>>
        BY <4>5
      <4>3. Tree(p) /\ h = Down(p[2])
        BY <3>1, <3>3, <4>1, <4>2 DEF HeadOf
      <4>4. IsBlock(p[2])
        BY <3>5, <4>3 DEF Down
      <4> QED
        BY <1>2, <3>4, <4>1, <4>3, <4>4, HeadsHave DEF AllHeads
    <3>10. CASE T.walk = "struct"
      <4>1. PICK l \in Nat : l = T.level /\ l < MaxCompositionDepth
        BY <1>3, <3>2, <3>10 DEF TreeWalkOK
      <4>2. Len(p) = l + 3 /\ Kind(h) = "CN"
        BY <3>1, <3>2, <3>10, <4>1 DEF TreeWalkOK
      <4>3. Len(p) >= 3 /\ Len(p) < Deepest
        BY <4>1, <4>2, OpenFileAssumption DEF Deepest
      <4>4. p # <<>>
        BY <4>3, EmptySeq
      <4>5. Tree(p) /\ h = Down(p[Len(p)])
        BY <3>1, <3>3, <4>4 DEF HeadOf
      <4>6. Structs(p[Len(p)]) # {}
        BY <3>4, <4>2, <4>5 DEF Structs
      <4>7. h \in Heads
        BY <1>2, <4>3, <4>5, <4>6, HeadsHave
      <4> QED
        BY <3>4, <4>7 DEF AllHeads
    <3> QED
      BY <2>2, <3>6, <3>7, <3>8, <3>9, <3>10 DEF TreeWalks
  <2>3. T.walk \notin {"data", "CC"}
    BY <1>2, <1>3 DEF WalkOK
  <2> QED
    BY <1>3, <2>1, <2>2, <2>3 DEF Walks
<1> QED
  BY <1>2, <1>4, Fails

\* A composition refused for its depth is that of a channel of the deepest.
LEMMA DepthFails ==
    ASSUME file \in Files, NEW s, NEW c, NEW n, InvOf("opening", s, c, n), s # <<>>,
           s[1].at # 0, s[1].walk = "composition", s[1].level >= MaxCompositionDepth
    PROVE  InvOf("cyclic", <<>>, c, n)
<1>1. PICK T : T = s[1]
  OBVIOUS
<1>2. T \in WalkType /\ WalkOK(T, n) /\ Root \in Nat /\ Kind(Header) = "HD"
  BY <1>1, TopIs
<1>3. TreeWalkOK(T)
  BY <1>1, <1>2 DEF WalkOK, TreeWalks
<1>4. PICK p \in Seq(Nat), l \in Nat : p = T.path /\ l = T.level
  BY <1>2 DEF WalkType
<1>5. Len(p) = l + 3 /\ l >= MaxCompositionDepth /\ T.at = HeadOf(p) /\ T.at # 0
  BY <1>1, <1>3, <1>4 DEF TreeWalkOK
<1>6. p # <<>>
  BY <1>4, <1>5, EmptySeq
<1>7. Tree(p) /\ Len(p) <= Deepest
  BY <1>3, <1>4, <1>6 DEF TreeWalkOK, Tree
<1>8. Len(p) = Deepest
  BY <1>4, <1>5, <1>7, OpenFileAssumption DEF Deepest
<1>9. NestsTooDeep
  BY <1>2, <1>5, <1>6, <1>7, <1>8, TooDeepIs DEF HeadOf
<1> QED
  BY <1>2, <1>9, Fails

(***************************************************************************)
(* The walks an action begins.                                             *)
(***************************************************************************)

\* A walk that begins has seen nothing.
LEMMA WalkIs ==
    ASSUME NEW walk \in Walks, NEW at \in Nat, NEW level \in Nat, NEW path \in Seq(Nat)
    PROVE  /\ Walk(walk, at, level, path) \in WalkType
           /\ Walk(walk, at, level, path).walk = walk /\ Walk(walk, at, level, path).at = at
           /\ Walk(walk, at, level, path).seen = {} /\ Walk(walk, at, level, path).level = level
           /\ Walk(walk, at, level, path).path = path
BY DEF Walk, WalkType

\* A list begins where one of the chains does that an open follows.
LEMMA SideStarts ==
    ASSUME file \in Files, NEW n, NEW w \in WalkType, w.walk \in SideWalks, w.seen = {},
           w.at \in AllHeads(n)
    PROVE  /\ WalkOK(w, n) /\ w.walk \notin TreeWalks
           /\ w.walk # "CH" => Follows(w, w.at)
<1>1. w.at \in Nat /\ w.walk \notin TreeWalks /\ w.walk \notin {"data", "CC"}
  BY DEF WalkType, SideWalks, TreeWalks
<1>2. OnChain(w.at, w.seen, w.at)
  BY <1>1, ChainStarts
<1>3. w.at \in AllHeads(n) \cap Nat
  BY <1>1
<1> QED
  BY <1>1, <1>2, <1>3 DEF WalkOK, Follows

\* The conversions a conversion refers to.
ConversionWalks == {w \in WalkType : w.walk = "CC" /\ w.seen = {}}

\* They are walks of conversions that begin, whatever the links of the block.
LEMMA ReferredAre ==
    ASSUME file \in Files, IsBlock(Top.at), Top.level \in Nat
    PROVE  Referred \in Seq(ConversionWalks)
<1> DEFINE Deeper(o) == Walk("CC", o, Nested(Top.level), <<>>)
<1>0. PICK links \in Seq(Nat) : links = block.more
  BY ABlock DEF block, BlockType
<1> DEFINE N == Len(links)
           F == [n \in 1..N |-> [q \in Seq(ConversionWalks) |->
                   IF Kind(links[n]) # "CC" THEN q ELSE Append(q, Deeper(links[n]))]]
           Body(g) == [n \in 0..N |->
                   IF n = 0 THEN <<>>
                   ELSE IF Kind(links[n]) # "CC" THEN g[n - 1]
                   ELSE Append(g[n - 1], Deeper(links[n]))]
<1>1. N \in Nat
  BY LenProperties
<1>10. \A n \in 1..N : Deeper(links[n]) \in ConversionWalks
  <2> TAKE n \in 1..N
  <2>1. links[n] \in Nat /\ Nested(Top.level) \in Nat
    BY <1>0, ElementOfSeq DEF Nested
  <2>2. "CC" \in Walks /\ <<>> \in Seq(Nat)
    BY EmptySeq DEF Walks
  <2>3. PICK w : w = Walk("CC", links[n], Nested(Top.level), <<>>)
    OBVIOUS
  <2>4. w \in WalkType
    BY <2>1, <2>2, <2>3, WalkIs
  <2>5. w.walk = "CC" /\ w.seen = {}
    BY <2>3 DEF Walk
  <2> QED
    BY <2>3, <2>4, <2>5 DEF ConversionWalks
<1> HIDE DEF Deeper
<1>2. \A n \in 1..N : \A q \in Seq(ConversionWalks) :
          (IF Kind(links[n]) # "CC" THEN q ELSE Append(q, Deeper(links[n]))) \in Seq(ConversionWalks)
  BY <1>10, AppendProperties
<1>3. F \in [1..N -> [Seq(ConversionWalks) -> Seq(ConversionWalks)]]
  <2> HIDE DEF N
  <2> QED
    BY <1>2
<1>4. <<>> \in Seq(ConversionWalks)
  BY EmptySeq
<1>5. PICK f : IsRecursion(f, N, Seq(ConversionWalks), <<>>, F)
  <2> HIDE DEF F, N
  <2> QED
    BY <1>1, <1>3, <1>4, Recursion
<1>6. f = Body(f)
  <2>1. f \in [0..N -> Seq(ConversionWalks)]
          /\ f = [n \in 0..N |-> IF n = 0 THEN <<>> ELSE F[n][f[n - 1]]]
    BY <1>5 DEF IsRecursion
  <2>2. ASSUME NEW n \in 0..N, n # 0
        PROVE  F[n][f[n - 1]] = IF Kind(links[n]) # "CC" THEN f[n - 1]
                                ELSE Append(f[n - 1], Deeper(links[n]))
    <3> HIDE DEF N
    <3>1. n \in 1..N /\ n - 1 \in 0..N
      BY <1>1, <2>2
    <3>2. f[n - 1] \in Seq(ConversionWalks)
      BY <2>1, <3>1
    <3> QED
      BY <3>1, <3>2
  <2> HIDE DEF F, N
  <2> QED
    BY <2>1, <2>2
<1> DEFINE R == CHOOSE g : g = Body(g)
<1>7. R = Body(R) /\ Referred = R[N]
  BY <1>0, <1>6 DEF Referred, Deeper
<1> HIDE DEF R, F
<1> DEFINE S == {n \in 0..N : R[n] \in Seq(ConversionWalks)}
<1>8. 0 \in S
  <2> HIDE DEF N
  <2>1. 0 \in 0..N
    BY <1>1
  <2> QED
    BY <1>4, <1>7, <2>1
<1>9. ASSUME NEW n \in 1..N, n - 1 \in S
      PROVE  n \in S
  <2>1. n \in 0..N /\ n # 0
    BY <1>1
  <2>2. R[n] = IF Kind(links[n]) # "CC" THEN R[n - 1] ELSE Append(R[n - 1], Deeper(links[n]))
    <3> HIDE DEF N
    <3> QED
      BY <1>7, <2>1
  <2> QED
    BY <1>2, <1>9, <2>1, <2>2
<1> HIDE DEF S, N
<1>11. \A n \in 0..N : n \in S
  BY <1>1, <1>8, <1>9, UpToInduction
<1> QED
  BY <1>1, <1>7, <1>11 DEF S

\* A conversion gives way to those it refers to.
LEMMA ConversionMoves ==
    ASSUME file \in Files, NEW s, NEW c, NEW n, InvOf("opening", s, c, n), s # <<>>,
           s[1].walk = "CC", NEW new \in Seq(ConversionWalks)
    PROVE  InvOf("opening", new \o Tail(s), c, n)
<1>1. n \in Seq([at : Nat, level : Nat])
  BY TopIs
<1>2. new \in Seq(WalkType)
  BY DEF ConversionWalks
<1>3. ASSUME NEW v, On(v, new)
      PROVE  v.walk \notin TreeWalks /\ WalkOK(v, n)
  <2>1. v \in ConversionWalks
    BY <1>3, ElementOfSeq DEF On
  <2> QED
    BY <2>1 DEF ConversionWalks, WalkOK, TreeWalks, SideWalks
<1>4. /\ ~Deep(s[1]) /\ \A h : ~Follows(s[1], h)
      /\ \A q : ~Ahead(s[1], q)
  BY DEF Deep, Follows, Ahead, TreeWalks, SideWalks
<1> QED
  BY <1>1, <1>2, <1>3, <1>4, SideMoves

\* A data block that is no list ends the walk that leads to it.
LEMMA DataEnds ==
    ASSUME file \in Files, NEW s, NEW c, NEW n, InvOf("opening", s, c, n), s # <<>>,
           s[1].walk = "data", ListHead(s[1].path[1]) = 0
    PROVE  InvOf("opening", <<>> \o Tail(s), c, n)
<1>1. n \in Seq([at : Nat, level : Nat])
  BY TopIs
<1>2. <<>> \in Seq(WalkType) /\ \A v : ~On(v, <<>>)
  BY OnFew
<1>3. ~Deep(s[1]) /\ \A q : ~Ahead(s[1], q)
  BY DEF Deep, Ahead, TreeWalks
<1>4. ASSUME NEW h, Follows(s[1], h)
      PROVE  ~Cyclic(h)
  <2>1. h = 0
    BY <1>4 DEF Follows, SideWalks
  <2>2. Chain(0) = {}
    BY ChainBegins
  <2> QED
    BY <2>1, <2>2 DEF Cyclic
<1> QED
  BY <1>1, <1>2, <1>3, <1>4, SideMoves

\* A list of data is walked from its first block on.
LEMMA DataMoves ==
    ASSUME file \in Files, NEW s, NEW c, NEW n, InvOf("opening", s, c, n), s # <<>>,
           s[1].walk = "data", NEW x \in WalkType, x.walk \in {"DL", "LD"}, x.seen = {},
           x.at = ListHead(s[1].path[1])
    PROVE  InvOf("opening", <<x>> \o Tail(s), c, n)
<1>1. n \in Seq([at : Nat, level : Nat]) /\ WalkOK(s[1], n) /\ Root \in Nat
  BY TopIs
<1>2. Tree(s[1].path) /\ Len(s[1].path) = 1
  BY <1>1 DEF WalkOK
<1>3. x.at \in AllHeads(n)
  BY <1>1, <1>2, HeadsHave DEF AllHeads
<1>4. x.walk \in SideWalks /\ x.walk # "CH"
  BY DEF SideWalks
<1>5. WalkOK(x, n) /\ x.walk \notin TreeWalks /\ Follows(x, x.at)
  BY <1>3, <1>4, SideStarts
<1>6. PICK new : new = <<x>>
  OBVIOUS
<1>7. new \in Seq(WalkType) /\ \A v : On(v, new) <=> v = x
  BY <1>6, OnFew
<1>8. ~Deep(s[1]) /\ \A q : ~Ahead(s[1], q)
  BY DEF Deep, Ahead, TreeWalks
<1>9. ASSUME NEW h, Follows(s[1], h)
      PROVE  \E v : On(v, new) /\ Follows(v, h)
  <2>1. h = x.at
    BY <1>9 DEF Follows, SideWalks
  <2> QED
    BY <1>5, <1>7, <2>1
<1>10. InvOf("opening", new \o Tail(s), c, n)
  BY <1>1, <1>5, <1>7, <1>8, <1>9, SideMoves
<1> QED
  BY <1>6, <1>10

\* A chain of the hierarchy ends at a node that is known.
LEMMA KnownEnds ==
    ASSUME file \in Files, NEW s, NEW c, NEW n, InvOf("opening", s, c, n), s # <<>>,
           s[1].walk = "CH"
    PROVE  InvOf("opening", <<>> \o Tail(s), c, n)
<1>1. n \in Seq([at : Nat, level : Nat])
  BY TopIs
<1>2. <<>> \in Seq(WalkType) /\ \A v : ~On(v, <<>>)
  BY OnFew
<1>3. /\ ~Deep(s[1]) /\ \A h : ~Follows(s[1], h)
      /\ \A q : ~Ahead(s[1], q)
  BY DEF Deep, Follows, Ahead, TreeWalks, SideWalks
<1> QED
  BY <1>1, <1>2, <1>3, SideMoves

\* A node of the hierarchy goes before its children.
LEMMA NodeMoves ==
    ASSUME file \in Files, NEW s, NEW c, NEW n, InvOf("opening", s, c, n), s # <<>>,
           s[1].walk = "CH", s[1].at # 0, s[1].at \notin s[1].seen,
           NEW level \in Nat, NEW x \in WalkType, x.walk = "CH", x.seen = {}, x.at = Down(s[1].at)
    PROVE  InvOf("opening", (<<x>> \o <<Done(s[1])>>) \o Tail(s), c,
                 Append(n, [at |-> s[1].at, level |-> level]))
<1>1. PICK node : node = [at |-> s[1].at, level |-> level]
  OBVIOUS
<1>2. PICK n2 : n2 = Append(n, node)
  OBVIOUS
<1>3. n \in Seq([at : Nat, level : Nat]) /\ s[1].at \in Nat
  BY TopIs DEF WalkType
<1>4. node \in [at : Nat, level : Nat] /\ node.at = s[1].at
  BY <1>1, <1>3
<1>5. /\ n2 \in Seq([at : Nat, level : Nat]) /\ Len(n2) = Len(n) + 1 /\ Len(n) \in Nat
      /\ \A i \in 1..Len(n) : n2[i] = n[i]
      /\ n2[Len(n) + 1] = node
  BY <1>2, <1>3, <1>4, OnLonger
<1>6. DOMAIN n = 1..Len(n) /\ DOMAIN n2 = 1..Len(n2)
  BY <1>3, <1>5, LenProperties
<1>7. \A i \in DOMAIN n : i \in DOMAIN n2 /\ n2[i] = n[i]
  BY <1>5, <1>6
<1>8. Len(n) + 1 \in DOMAIN n2
  BY <1>5, <1>6
<1>9. {Down(n[i].at) : i \in DOMAIN n} \subseteq {Down(n2[i].at) : i \in DOMAIN n2}
        /\ x.at \in {Down(n2[i].at) : i \in DOMAIN n2}
  BY <1>4, <1>5, <1>7, <1>8
<1>10. AllHeads(n) \subseteq AllHeads(n2) /\ x.at \in AllHeads(n2)
  BY <1>9 DEF AllHeads
<1>11. WalkOK(x, n2) /\ x.walk \notin TreeWalks
  BY <1>10, SideStarts DEF SideWalks
<1>12. PICK held : held = <<x>>
  OBVIOUS
<1>13. held \in Seq(WalkType) /\ \A v : On(v, held) <=> v = x
  BY <1>12, OnFew
<1>14. s[1].walk \in SideWalks
  BY DEF SideWalks
<1>15. InvOf("opening", (held \o <<Done(s[1])>>) \o Tail(s), c, n2)
  <2>1. \A v : On(v, held) => v.walk \notin TreeWalks /\ WalkOK(v, n2)
    BY <1>11, <1>13
  <2> QED
    BY <1>5, <1>10, <1>13, <1>14, <2>1, ListMoves
<1> QED
  BY <1>1, <1>2, <1>12, <1>15

\* A block of a list that holds nothing to walk.
LEMMA BlockMoves ==
    ASSUME file \in Files, NEW s, NEW c, NEW n, InvOf("opening", s, c, n), s # <<>>,
           s[1].walk \in SideWalks, s[1].at # 0, s[1].at \notin s[1].seen
    PROVE  InvOf("opening", (<<>> \o <<Done(s[1])>>) \o Tail(s), c, n)
<1>1. n \in Seq([at : Nat, level : Nat])
  BY TopIs
<1>2. <<>> \in Seq(WalkType) /\ \A v : ~On(v, <<>>)
  BY OnFew
<1> QED
  BY <1>1, <1>2, ListMoves

(***************************************************************************)
(* Going down the tree.                                                    *)
(***************************************************************************)

\* A data group is gone into: its channel groups and its data.
LEMMA DataGroupMoves ==
    ASSUME file \in Files, NEW s, NEW c, NEW n, InvOf("opening", s, c, n), s # <<>>,
           s[1].walk = "DG", s[1].at # 0, s[1].at \notin s[1].seen, Kind(s[1].at) = "DG",
           NEW d \in WalkType, d.walk = "CG", d.at = Down(s[1].at), d.seen = {}, d.path = <<s[1].at>>,
           NEW x \in WalkType, x.walk = "data", x.at = file[s[1].at].more[1], x.seen = {},
           x.path = <<s[1].at>>
    PROVE  InvOf("opening", (<<d, x>> \o <<Done(s[1])>>) \o Tail(s), c, n)
<1>1. PICK T, p : T = s[1] /\ p = Grow(T)
  OBVIOUS
<1>2. T \in WalkType /\ WalkOK(T, n) /\ Root \in Nat
  BY <1>1, TopIs
<1>3. /\ p \in Seq(Nat) /\ T.path \in Seq(Nat) /\ T.at \in Nat /\ Len(T.path) \in Nat
      /\ Len(p) = Len(T.path) + 1 /\ p[Len(T.path) + 1] = T.at
  BY <1>1, <1>2, GrowIs
<1>4. Len(T.path) = 0
  BY <1>1, <1>2 DEF WalkOK, TreeWalkOK, TreeWalks
<1>5. T.path = <<>> /\ Len(p) = 1 /\ p[1] = T.at
  BY <1>3, <1>4, EmptySeq
<1>6. p = <<T.at>>
  BY <1>3, <1>5
<1>7. Tree(p)
  BY <1>1, <1>2, GrowIsInTree
<1>8. WalkOK(x, n)
  BY <1>1, <1>5, <1>6, <1>7 DEF WalkOK, TreeWalks, SideWalks
<1>9. Deepest >= 3
  BY OpenFileAssumption DEF Deepest
<1>10. ASSUME NEW t, On(d, t), On(x, t)
       PROVE  Followed(p, t, c)
  <2>1. Down(p[1]) \in Nat /\ ListHead(p[1]) \in Nat
    <3>1. file[p[1]].more[1] \in Nat
      BY <1>1, <1>5, FirstLinkIs
    <3> QED
      BY <3>1, LinksAre, ListHeadIs
  <2>2. Follows(d, Down(p[1]))
    BY <1>1, <1>5, <2>1, ChainStarts DEF Follows
  <2>3. x.path[1] = p[1]
    BY <1>1, <1>6
  <2>4. Follows(x, ListHead(p[1]))
    BY <2>1, <2>3 DEF Follows
  <2>5. Handled(Down(p[1]), t) /\ Handled(ListHead(p[1]), t)
    BY <1>10, <2>2, <2>4 DEF Handled
  <2>6. ~(Len(p) >= 3) /\ Len(p) # 2 /\ Len(p) # Deepest
    BY <1>5, <1>9 DEF Deepest
  <2> QED
    BY <2>5, <2>6 DEF Followed
<1>11. OneDown(T, d) /\ x.walk \notin TreeWalks
  BY <1>1 DEF OneDown, TreeWalks
<1> DEFINE held == <<d, x>>
<1>12. held = <<d, x>>
  OBVIOUS
<1> HIDE DEF held
<1>13. InvOf("opening", (held \o <<Done(s[1])>>) \o Tail(s), c, n)
  BY <1>1, <1>6, <1>8, <1>10, <1>11, <1>12, TreeMoves
<1> QED
  BY <1>12, <1>13

\* A channel group is gone into: its channels and its sample reductions.
LEMMA ChannelGroupMoves ==
    ASSUME file \in Files, NEW s, NEW c, NEW n, InvOf("opening", s, c, n), s # <<>>,
           s[1].walk = "CG", s[1].at # 0, s[1].at \notin s[1].seen, Kind(s[1].at) = "CG",
           NEW d \in WalkType, d.walk = "CN", d.at = Down(s[1].at), d.seen = {},
           d.path = <<s[1].path[1], s[1].at>>,
           NEW x \in WalkType, x.walk = "SR", x.at = file[s[1].at].more[1], x.seen = {}
    PROVE  InvOf("opening", (<<d, x>> \o <<Done(s[1])>>) \o Tail(s), c, n)
<1>1. PICK T, p : T = s[1] /\ p = Grow(T)
  OBVIOUS
<1>2. T \in WalkType /\ WalkOK(T, n) /\ Root \in Nat
  BY <1>1, TopIs
<1>3. /\ p \in Seq(Nat) /\ T.path \in Seq(Nat) /\ T.at \in Nat /\ Len(T.path) \in Nat
      /\ Len(p) = Len(T.path) + 1 /\ p[Len(T.path) + 1] = T.at
      /\ \A k \in 1..Len(T.path) : p[k] = T.path[k]
  BY <1>1, <1>2, GrowIs
<1>4. Len(T.path) = 1
  BY <1>1, <1>2 DEF WalkOK, TreeWalkOK, TreeWalks
<1>5. Len(p) = 2 /\ p[1] = T.path[1] /\ p[2] = T.at
  BY <1>3, <1>4
<1>6. p = <<T.path[1], T.at>>
  BY <1>3, <1>5
<1>7. Tree(p)
  BY <1>1, <1>2, GrowIsInTree
<1>8. IsBlock(T.at) /\ file[T.at].more[1] \in Nat /\ Down(T.at) \in Nat
  BY <1>1, KindsAreOfBlocks, FirstLinkIs, LinksAre
<1>9. x.at \in AllHeads(n)
  BY <1>1, <1>2, <1>5, <1>7, <1>8, HeadsHave DEF AllHeads
<1>10. WalkOK(x, n) /\ x.walk \notin TreeWalks /\ Follows(x, x.at)
  BY <1>9, SideStarts DEF SideWalks
<1>11. Deepest >= 3
  BY OpenFileAssumption DEF Deepest
<1>12. ASSUME NEW t, On(d, t), On(x, t)
       PROVE  Followed(p, t, c)
  <2>1. Follows(d, Down(p[2]))
    BY <1>1, <1>5, <1>8, ChainStarts DEF Follows
  <2>2. Handled(Down(p[2]), t) /\ Handled(file[p[2]].more[1], t)
    BY <1>1, <1>5, <1>10, <1>12, <2>1 DEF Handled
  <2>3. ~(Len(p) >= 3) /\ Len(p) # 1 /\ Len(p) # Deepest
    BY <1>5, <1>11 DEF Deepest
  <2> QED
    BY <2>2, <2>3 DEF Followed
<1>13. OneDown(T, d)
  BY <1>1 DEF OneDown
<1> DEFINE held == <<d, x>>
<1>14. held = <<d, x>>
  OBVIOUS
<1> HIDE DEF held
<1>15. InvOf("opening", (held \o <<Done(s[1])>>) \o Tail(s), c, n)
  BY <1>1, <1>6, <1>10, <1>12, <1>13, <1>14, TreeMoves
<1> QED
  BY <1>14, <1>15

\* A channel is built, and gone into: its conversion and its composition.
LEMMA NewChannelMoves ==
    ASSUME file \in Files, NEW s, NEW c, NEW n, InvOf("opening", s, c, n), s # <<>>,
           s[1].walk \in {"CN", "struct"}, s[1].at # 0, s[1].at \notin s[1].seen,
           Kind(s[1].at) = "CN",
           NEW d \in WalkType, OneDown(s[1], d), d.at = Down(s[1].at), d.seen = {}, d.path = Grow(s[1]),
           NEW x \in WalkType, x.walk = "CC", x.seen = {}
    PROVE  InvOf("opening", (<<x, d>> \o <<Done(s[1])>>) \o Tail(s), Append(c, Grow(s[1])), n)
<1>1. PICK T, p, e : T = s[1] /\ p = Grow(T) /\ e = Append(c, p)
  OBVIOUS
<1>2. T \in WalkType /\ WalkOK(T, n) /\ Root \in Nat /\ c \in Seq(Seq(Nat))
  BY <1>1, TopIs
<1>3. /\ p \in Seq(Nat) /\ T.path \in Seq(Nat) /\ T.at \in Nat /\ Len(T.path) \in Nat
      /\ Len(p) = Len(T.path) + 1 /\ p[Len(T.path) + 1] = T.at
  BY <1>1, <1>2, GrowIs
<1>4. (T.walk = "CN" => Len(T.path) = 2) /\ (T.walk = "struct" => Len(T.path) = T.level + 3)
  BY <1>1, <1>2 DEF WalkOK, TreeWalkOK, TreeWalks
<1>5. T.level \in Nat /\ d.level \in Nat /\ MaxCompositionDepth \in Nat
  BY <1>2, OpenFileAssumption DEF WalkType
<1>6. d.walk = "composition" /\ Len(p) = d.level + 3
  <2>1. CASE T.walk = "CN"
    <3>1. d.walk = "composition" /\ d.level = 0
      BY <1>1, <2>1 DEF OneDown
    <3>2. Len(T.path) = 2
      BY <1>4, <2>1
    <3> QED
      BY <1>3, <3>1, <3>2
  <2>2. CASE T.walk = "struct"
    <3>1. d.walk = "composition" /\ d.level = T.level + 1
      BY <1>1, <2>2 DEF OneDown
    <3>2. Len(T.path) = T.level + 3
      BY <1>4, <2>2
    <3> QED
      BY <1>3, <1>5, <3>1, <3>2
  <2> QED
    BY <1>1, <2>1, <2>2
<1>7. p[Len(p)] = T.at
  BY <1>3
<1>8. On(p, e)
  BY <1>1, <1>2, <1>3, OnLonger
<1>9. ASSUME NEW t, On(d, t), On(x, t)
      PROVE  Followed(p, t, e)
  <2>1. Len(p) # 1 /\ Len(p) # 2
    BY <1>5, <1>6
  <2>2. ASSUME Structs(p[Len(p)]) # {}
        PROVE  Handled(Down(p[Len(p)]), t)
    <3>1. Kind(Down(p[Len(p)])) = "CN"
      BY <2>2 DEF Structs
    <3>2. Down(p[Len(p)]) \in Nat
      BY LinksAre
    <3>3. Follows(d, Down(p[Len(p)]))
      BY <1>1, <1>6, <1>7, <3>1, <3>2 DEF Follows
    <3> QED
      BY <1>9, <3>3 DEF Handled
  <2>3. ASSUME Len(p) = Deepest
        PROVE  Down(p[Len(p)]) = 0 \/ DeepOn(t)
    <3>1. d.level >= MaxCompositionDepth
      BY <1>5, <1>6, <2>3 DEF Deepest
    <3>2. Down(p[Len(p)]) # 0 => Deep(d)
      BY <1>1, <1>6, <1>7, <3>1 DEF Deep
    <3> QED
      BY <1>9, <3>2 DEF DeepOn
  <2> QED
    BY <1>8, <2>1, <2>2, <2>3 DEF Followed
<1>10. WalkOK(x, n) /\ x.walk \notin TreeWalks
  BY DEF WalkOK, TreeWalks, SideWalks
<1> DEFINE held == <<x, d>>
<1>11. held = <<x, d>>
  OBVIOUS
<1> HIDE DEF held
<1>12. T.walk \notin {"DG", "CG"} /\ T.walk \in {"DG", "CG", "CN", "struct"}
  BY <1>1
<1>13. e = IF T.walk \in {"DG", "CG"} THEN c ELSE Append(c, p)
  BY <1>1, <1>12
<1>14. InvOf("opening", (held \o <<Done(s[1])>>) \o Tail(s), e, n)
  BY <1>1, <1>9, <1>10, <1>11, <1>12, <1>13, TreeMoves
<1> QED
  BY <1>1, <1>11, <1>14

(***************************************************************************)
(* Before and at the header.                                               *)
(***************************************************************************)

\* Nothing is walked before the file is opened.
LEMMA NothingYet ==
    InvOf("closed", <<>>, <<>>, <<>>)
<1>1. /\ <<>> \in Seq(WalkType) /\ <<>> \in Seq(Seq(Nat)) /\ <<>> \in Seq([at : Nat, level : Nat])
      /\ \A w : ~On(w, <<>>)
      /\ Stacked(<<>>)
  BY OnFew, StackedFew
<1>2. Listed(<<>>)
  BY DEF Listed
<1> QED
  BY <1>1, <1>2 DEF InvOf

\* The walks of the header begin.
LEMMA HeaderMoves ==
    ASSUME file \in Files, Kind(Header) = "HD",
           NEW g \in WalkType, g.walk = "DG", g.at = Root, g.seen = {}, g.path = <<>>,
           NEW at \in WalkType, at.walk = "AT", at.at = file[Header].more[1], at.seen = {},
           NEW ev \in WalkType, ev.walk = "EV", ev.at = file[Header].more[2], ev.seen = {},
           NEW ch \in WalkType, ch.walk = "CH", ch.at = file[Header].more[3], ch.seen = {},
           NEW fh \in WalkType, fh.walk = "FH", fh.at = file[Header].more[4], fh.seen = {}
    PROVE  InvOf("opening", <<g, at, ev, ch, fh>>, <<>>, <<>>)
<1>1. /\ Root \in Nat
      /\ file[Header].more[1] \in Nat /\ file[Header].more[2] \in Nat
      /\ file[Header].more[3] \in Nat /\ file[Header].more[4] \in Nat
  BY HeaderIs
<1>2. {Root, file[Header].more[1], file[Header].more[2], file[Header].more[4]} \subseteq Heads
  BY <1>1, HeadsHave
<1>3. /\ at.at \in AllHeads(<<>>) /\ ev.at \in AllHeads(<<>>)
      /\ ch.at \in AllHeads(<<>>) /\ fh.at \in AllHeads(<<>>)
  BY <1>2 DEF AllHeads
<1>4. /\ WalkOK(at, <<>>) /\ at.walk \notin TreeWalks /\ Follows(at, at.at)
      /\ WalkOK(ev, <<>>) /\ ev.walk \notin TreeWalks /\ Follows(ev, ev.at)
      /\ WalkOK(ch, <<>>) /\ ch.walk \notin TreeWalks
      /\ WalkOK(fh, <<>>) /\ fh.walk \notin TreeWalks /\ Follows(fh, fh.at)
  BY <1>3, SideStarts DEF SideWalks
<1>5. HeadOf(<<>>) = Root /\ OnChain(Root, {}, Root)
  BY <1>1, ChainStarts DEF HeadOf
<1>6. g.walk \in TreeWalks /\ WalkOK(g, <<>>) /\ Follows(g, Root)
  BY <1>1, <1>5 DEF WalkOK, TreeWalkOK, TreeWalks, SideWalks, Follows
<1>7. PICK s : s = <<g, at, ev, ch, fh>>
  OBVIOUS
<1>8. /\ s \in Seq(WalkType) /\ Len(s) = 5
      /\ s[1] = g /\ s[2] = at /\ s[3] = ev /\ s[4] = ch /\ s[5] = fh
  BY <1>7
<1>9. \A w : On(w, s) <=> w \in {g, at, ev, ch, fh}
  <2>1. \A i : i \in 1..5 <=> i \in {1, 2, 3, 4, 5}
    OBVIOUS
  <2> QED
    BY <1>8, <2>1 DEF On
<1>10. ASSUME NEW w, On(w, s)
       PROVE  WalkOK(w, <<>>) /\ Once(w, <<>>) /\ Current(w, <<>>)
  <2>1. WalkOK(w, <<>>)
    BY <1>4, <1>6, <1>9, <1>10
  <2>2. Once(w, <<>>)
    BY DEF Once
  <2>3. w.walk \in TreeWalks => w = g
    BY <1>4, <1>9, <1>10
  <2>4. ~(Len(<<>>) >= 3)
    OBVIOUS
  <2>5. Current(w, <<>>)
    BY <2>3, <2>4 DEF Current
  <2> QED
    BY <2>1, <2>2, <2>5
<1>11. Stacked(s)
  <2>1. ASSUME NEW i \in 1..Len(s), NEW j \in 1..Len(s), i < j
        PROVE  s[j].walk \notin TreeWalks
    <3>1. j \in {2, 3, 4, 5}
      BY <1>8, <2>1
    <3> QED
      BY <1>4, <1>8, <3>1
  <2> QED
    BY <2>1 DEF Stacked, Under
<1>12. HeaderHandled(s)
  BY <1>4, <1>6, <1>9 DEF HeaderHandled, Handled
<1>13. ASSUME NEW q, Tree(q)
       PROVE  \E v : On(v, s) /\ Ahead(v, q)
  <2>1. q \in Seq(Nat) /\ Len(q) \in Nat /\ 1 \in 1..Len(q) /\ Len(q) > 0 /\ Beneath(q, 1)
    BY <1>13, LenProperties, OpenFileAssumption DEF Tree, Deepest
  <2>2. q[1] \in Chain(Root)
    BY <2>1 DEF Beneath
  <2>3. Len(<<>>) = 0 /\ \A k \in 1..Len(<<>>) : FALSE
    OBVIOUS
  <2>4. Extends(q, g.path) /\ q[Len(g.path) + 1] = q[1]
    BY <2>1, <2>3 DEF Extends
  <2>5. Ahead(g, q)
    BY <1>6, <2>2, <2>4 DEF Ahead
  <2> QED
    BY <1>9, <2>5
<1>14. /\ <<>> \in Seq(Seq(Nat)) /\ <<>> \in Seq([at : Nat, level : Nat])
  OBVIOUS
<1>15. Listed(<<>>)
  BY DEF Listed
<1>16. AllCovered(s, <<>>)
  BY <1>13 DEF AllCovered
<1>17. InvOf("opening", s, <<>>, <<>>)
  BY <1>8, <1>10, <1>11, <1>12, <1>14, <1>15, <1>16 DEF InvOf
<1> QED
  BY <1>7, <1>17

(***************************************************************************)
(* The open.                                                               *)
(***************************************************************************)

\* A channel, of an array with one of the outcomes A.
ChannelType(A) == [path : Seq(Nat), array : A, unreadable : BOOLEAN]

TreeInv ==
    /\ file \in Files
    /\ \E A : channels \in Seq(ChannelType(A))
    /\ InvOf(open, stack, PathsOf(channels), tree)

\* What holds of an open speaks of the file as it is.
LEMMA KeptInv ==
    ASSUME file' = file, NEW o, NEW s, NEW c, NEW n
    PROVE  InvOf(o, s, c, n)' <=> InvOf(o, s, c, n)
BY DEF InvOf, AllCovered, HeaderHandled, Followed, Ahead, DeepOn, Deep, Handled, Follows, Listed,
       Current, Once, Stacked, Under, Passed, WalkOK, TreeWalkOK, AllHeads, WalkType, Walks, On,
       Tree, Beneath, HeadOf, Root, Cyclic, OnChain, Structs, Heads, GroupHeads, MemberHeads,
       MembersOf, Groups, Paths, NestsTooDeep, ListHead, Kind, Down, IsBlock, Next1, Chain, Closure,
       Extends, Begins, Deepest

\* So does TreeInv.
LEMMA KeptTreeInv ==
    ASSUME file \in Files, file' = file, NEW A, channels' \in Seq(ChannelType(A)),
           InvOf(open', stack', PathsOf(channels'), tree')
    PROVE  TreeInv'
<1>1. PICK o, s, c, n : o = open' /\ s = stack' /\ c = PathsOf(channels') /\ n = tree'
  OBVIOUS
<1>2. InvOf(o, s, c, n)'
  BY <1>1, KeptInv
<1>3. PathsOf(channels)' = PathsOf(channels')
  BY DEF PathsOf
<1>4. InvOf(open, stack, PathsOf(channels), tree)'
  BY <1>1, <1>2, <1>3
<1>5. (\E B : channels \in Seq(ChannelType(B)))'
  BY DEF ChannelType
<1> QED
  BY <1>4, <1>5 DEF TreeInv

\* A channel more has its path behind the others.
LEMMA PathsGrow ==
    ASSUME NEW A, NEW list \in Seq(ChannelType(A)), NEW p \in Seq(Nat)
    PROVE  /\ Append(list, [path |-> p, array |-> "no", unreadable |-> FALSE])
                \in Seq(ChannelType(A \cup {"no"}))
           /\ PathsOf(Append(list, [path |-> p, array |-> "no", unreadable |-> FALSE]))
                = Append(PathsOf(list), p)
<1>1. PICK e : e = [path |-> p, array |-> "no", unreadable |-> FALSE]
  OBVIOUS
<1>2. e \in ChannelType(A \cup {"no"}) /\ e.path = p
  BY <1>1 DEF ChannelType
<1>3. list \in Seq(ChannelType(A \cup {"no"}))
  <2>1. \A x \in ChannelType(A) : x \in ChannelType(A \cup {"no"})
    BY DEF ChannelType
  <2>2. PICK T : T = ChannelType(A \cup {"no"})
    OBVIOUS
  <2>3. PICK m \in Nat : list \in [1..m -> ChannelType(A)]
    OBVIOUS
  <2>4. list \in [1..m -> T]
    BY <2>1, <2>2, <2>3
  <2>5. list \in Seq(T)
    BY <2>3, <2>4
  <2> QED
    BY <2>2, <2>5
<1>4. PICK d : d = Append(list, e)
  OBVIOUS
<1>5. /\ d \in Seq(ChannelType(A \cup {"no"})) /\ Len(d) = Len(list) + 1 /\ Len(list) \in Nat
      /\ (\A i \in 1..Len(list) : d[i] = list[i]) /\ d[Len(list) + 1] = e
  BY <1>2, <1>3, <1>4, OnLonger
<1>6. DOMAIN list = 1..Len(list) /\ DOMAIN d = 1..Len(d)
  BY <1>3, <1>5, LenProperties
<1>7. PICK k \in Nat : k = Len(list)
  BY <1>5
<1>8. PathsOf(list) = [i \in 1..k |-> list[i].path] /\ PathsOf(d) = [i \in 1..k + 1 |-> d[i].path]
  BY <1>5, <1>6, <1>7 DEF PathsOf
<1>9. \A i \in 1..k : list[i].path \in Seq(Nat)
  <2>1. \A i \in 1..k : list[i] \in ChannelType(A \cup {"no"})
    BY <1>3, <1>7, ElementOfSeq
  <2> QED
    BY <2>1 DEF ChannelType
<1>10. PICK u \in Seq(Seq(Nat)) : u = PathsOf(list) /\ Len(u) = k /\ \A i \in 1..k : u[i] = list[i].path
  <2>1. [i \in 1..k |-> list[i].path] \in Seq(Seq(Nat))
    BY <1>9
  <2>2. Len([i \in 1..k |-> list[i].path]) = k
    OBVIOUS
  <2> QED
    BY <1>8, <2>1, <2>2
<1>11. PICK a : a = Append(u, p)
  OBVIOUS
<1>12. /\ a \in Seq(Seq(Nat)) /\ Len(a) = k + 1
       /\ (\A i \in 1..k : a[i] = u[i]) /\ a[k + 1] = p
  BY <1>10, <1>11, OnLonger
<1>13. a = [i \in 1..k + 1 |-> d[i].path]
  <2>1. DOMAIN a = 1..k + 1 /\ a = [i \in DOMAIN a |-> a[i]]
    BY <1>12, LenProperties
  <2>2. \A i \in 1..k + 1 : i \in 1..k \/ i = k + 1
    OBVIOUS
  <2>3. \A i \in 1..k + 1 : a[i] = d[i].path
    BY <1>2, <1>5, <1>7, <1>10, <1>12, <2>2
  <2> QED
    BY <2>1, <2>3
<1> QED
  BY <1>1, <1>4, <1>5, <1>8, <1>10, <1>11, <1>13

\* A channel is marked with what its composition is.
Mark(list, k, x, y) == [list EXCEPT ![k].array = x, ![k].unreadable = y]

\* Marking a channel leaves the paths as they are.
LEMMA PathsStay ==
    ASSUME NEW A, NEW list \in Seq(ChannelType(A)), NEW k, NEW x, NEW y \in BOOLEAN
    PROVE  /\ Mark(list, k, x, y) \in Seq(ChannelType(A \cup {x}))
           /\ PathsOf(Mark(list, k, x, y)) = PathsOf(list)
<1>0. PICK d : d = Mark(list, k, x, y)
  OBVIOUS
<1>1. d = [list EXCEPT ![k].array = x, ![k].unreadable = y]
  BY <1>0 DEF Mark
<1>2. Len(list) \in Nat /\ DOMAIN list = 1..Len(list)
  BY LenProperties
<1>3. PICK m \in Nat : m = Len(list)
  BY <1>2
<1>4. DOMAIN d = 1..m /\ d = [i \in 1..m |-> d[i]]
  BY <1>1, <1>2, <1>3
<1>5. ASSUME NEW i \in 1..m
      PROVE  d[i] \in ChannelType(A \cup {x}) /\ d[i].path = list[i].path
  <2>1. list[i] \in ChannelType(A)
    BY <1>3, <1>5, ElementOfSeq
  <2>2. list[i] = [path |-> list[i].path, array |-> list[i].array, unreadable |-> list[i].unreadable]
          /\ list[i].path \in Seq(Nat) /\ list[i].array \in A /\ list[i].unreadable \in BOOLEAN
    BY <2>1 DEF ChannelType
  <2>3. CASE i = k
    <3>1. d[i] = [[list[i] EXCEPT !.array = x] EXCEPT !.unreadable = y]
      BY <1>1, <1>2, <1>3, <1>5, <2>3
    <3>2. d[i] = [path |-> list[i].path, array |-> x, unreadable |-> y]
      BY <2>2, <3>1
    <3> QED
      BY <2>2, <3>2 DEF ChannelType
  <2>4. CASE i # k
    <3>1. d[i] = list[i]
      BY <1>1, <1>2, <1>3, <1>5, <2>4
    <3> QED
      BY <2>2, <3>1 DEF ChannelType
  <2> QED
    BY <2>3, <2>4
<1>6. d \in Seq(ChannelType(A \cup {x}))
  <2>1. PICK T : T = ChannelType(A \cup {x})
    OBVIOUS
  <2>2. d \in [1..m -> T]
    BY <1>4, <1>5, <2>1
  <2>3. d \in Seq(T)
    BY <1>3, <2>2
  <2> QED
    BY <2>1, <2>3
<1>7. PathsOf(d) = PathsOf(list)
  BY <1>2, <1>3, <1>4, <1>5 DEF PathsOf
<1> QED
  BY <1>0, <1>6, <1>7

\* Before the open there is nothing.
LEMMA TreeInvInit == file \in Files /\ OpenInit => TreeInv
<1> SUFFICES ASSUME file \in Files, OpenInit
             PROVE  TreeInv
  OBVIOUS
<1>1. channels = <<>> /\ channels \in Seq(ChannelType({}))
  BY DEF OpenInit
<1>2. PathsOf(channels) = <<>>
  BY <1>1 DEF PathsOf
<1>3. open = "closed" /\ stack = <<>> /\ tree = <<>>
  BY DEF OpenInit
<1> QED
  BY <1>1, <1>2, <1>3, NothingYet DEF TreeInv

\* A step that leaves the channels alone.
LEMMA SameChannels ==
    ASSUME TreeInv, file' = file, channels' = channels, InvOf(open', stack', PathsOf(channels), tree')
    PROVE  TreeInv'
<1>1. PICK A : channels \in Seq(ChannelType(A))
  BY DEF TreeInv
<1>2. file \in Files /\ channels' \in Seq(ChannelType(A))
  BY <1>1 DEF TreeInv
<1>3. PathsOf(channels') = PathsOf(channels)
  BY DEF PathsOf
<1> QED
  BY <1>2, <1>3, KeptTreeInv

\* A step that fails the open.
LEMMA FailKeeps ==
    ASSUME TreeInv, NEW why, Fail(why), InvOf(why, <<>>, PathsOf(channels), tree)
    PROVE  TreeInv'
<1>1. /\ file' = file /\ channels' = channels
      /\ open' = why /\ stack' = <<>> /\ tree' = tree
  BY DEF Fail
<1> QED
  BY <1>1, SameChannels

\* The open fails at a block that is seen again, or is not what is expected.
LEMMA StepFails ==
    ASSUME TreeInv, open = "opening", stack # <<>>, Top.at # 0,
           (Seen(Top) /\ Fail("cyclic")) \/ Fail("bad block")
    PROVE  TreeInv'
<1>1. file \in Files /\ InvOf("opening", stack, PathsOf(channels), tree)
  BY DEF TreeInv
<1>2. CASE Seen(Top) /\ Fail("cyclic")
  <2>1. InvOf("cyclic", <<>>, PathsOf(channels), tree)
    BY <1>1, <1>2, SeenFails DEF Seen, Top
  <2> QED
    BY <1>2, <2>1, FailKeeps
<1>3. CASE Fail("bad block")
  <2>1. InvOf("bad block", <<>>, PathsOf(channels), tree)
    BY <1>1, Fails
  <2> QED
    BY <1>3, <2>1, FailKeeps
<1> QED
  BY <1>2, <1>3

\* The header's lists are begun.
LEMMA HeaderKeeps == TreeInv /\ OpenHeader => TreeInv'
<1> SUFFICES ASSUME TreeInv, OpenHeader
             PROVE  TreeInv'
  OBVIOUS
<1>1. file \in Files /\ open = "closed" /\ InvOf("closed", stack, PathsOf(channels), tree)
  BY DEF TreeInv, OpenHeader
<1>2. CASE Kind(Header) # "HD"
  <2>1. Fail("bad block")
    BY <1>2 DEF OpenHeader
  <2>2. InvOf("bad block", <<>>, PathsOf(channels), tree)
    BY <1>1, Fails
  <2> QED
    BY <2>1, <2>2, FailKeeps
<1>3. CASE Kind(Header) = "HD"
  <2>1. PICK g, at, ev, ch, fh :
           /\ g = Walk("DG", file[Header].down, 0, <<>>)
           /\ at = Walk("AT", file[Header].more[1], 0, <<>>)
           /\ ev = Walk("EV", file[Header].more[2], 0, <<>>)
           /\ ch = Walk("CH", file[Header].more[3], 0, <<>>)
           /\ fh = Walk("FH", file[Header].more[4], 0, <<>>)
    OBVIOUS
  <2>2. /\ open' = "opening" /\ stack' = <<g, at, ev, ch, fh>>
        /\ file' = file /\ channels' = channels /\ tree' = tree
    BY <1>3, <2>1 DEF OpenHeader
  <2>3. /\ file[Header].down \in Nat
        /\ file[Header].more[1] \in Nat /\ file[Header].more[2] \in Nat
        /\ file[Header].more[3] \in Nat /\ file[Header].more[4] \in Nat
    BY <1>1, <1>3, HeaderIs DEF Root
  <2>4. {"DG", "AT", "EV", "CH", "FH"} \subseteq Walks /\ <<>> \in Seq(Nat) /\ 0 \in Nat
    BY EmptySeq DEF Walks, TreeWalks, SideWalks
  <2>5. /\ g \in WalkType /\ g.walk = "DG" /\ g.at = Root /\ g.seen = {} /\ g.path = <<>>
        /\ at \in WalkType /\ at.walk = "AT" /\ at.at = file[Header].more[1] /\ at.seen = {}
        /\ ev \in WalkType /\ ev.walk = "EV" /\ ev.at = file[Header].more[2] /\ ev.seen = {}
        /\ ch \in WalkType /\ ch.walk = "CH" /\ ch.at = file[Header].more[3] /\ ch.seen = {}
        /\ fh \in WalkType /\ fh.walk = "FH" /\ fh.at = file[Header].more[4] /\ fh.seen = {}
    BY <2>1, <2>3, <2>4 DEF Walk, WalkType, Root
  <2>6. InvOf("opening", <<g, at, ev, ch, fh>>, <<>>, <<>>)
    BY <1>1, <1>3, <2>5, HeaderMoves
  <2>7. PathsOf(channels) = <<>> /\ tree = <<>>
    BY <1>1 DEF InvOf
  <2> QED
    BY <2>2, <2>6, <2>7, SameChannels
<1> QED
  BY <1>2, <1>3

\* The end of a chain.
LEMMA WalkEndKeeps == TreeInv /\ WalkEnds => TreeInv'
<1> SUFFICES ASSUME TreeInv, WalkEnds
             PROVE  TreeInv'
  OBVIOUS
<1>1. /\ file \in Files /\ InvOf("opening", stack, PathsOf(channels), tree)
      /\ stack # <<>> /\ stack[1].at = 0 /\ stack' = Tail(stack)
      /\ open' = IF Len(stack) = 1 THEN "opened" ELSE "opening"
      /\ file' = file /\ channels' = channels /\ tree' = tree
  BY DEF TreeInv, WalkEnds, Top
<1>2. PICK o : o = open'
  OBVIOUS
<1>3. InvOf(o, Tail(stack), PathsOf(channels), tree)
  BY <1>1, <1>2, ChainMoves
<1> QED
  BY <1>1, <1>2, <1>3, SameChannels

\* The walk that has its block done.
LEMMA DoneTop == [Top EXCEPT !.at = Next1(@), !.seen = @ \cup {Top.at}] = Done(stack[1])
BY DEF Top, Done

\* A data group is gone into.
LEMMA DataGroupKeeps == TreeInv /\ DataGroup => TreeInv'
<1> SUFFICES ASSUME TreeInv, DataGroup
             PROVE  TreeInv'
  OBVIOUS
<1>1. /\ file \in Files /\ InvOf("opening", stack, PathsOf(channels), tree)
      /\ open = "opening" /\ stack # <<>> /\ Top.at # 0 /\ Top.walk = "DG"
  BY DEF TreeInv, DataGroup, Step
<1>2. PICK d, x : /\ d = Walk("CG", block.down, 0, <<Top.at>>)
                  /\ x = Walk("data", block.more[1], 0, <<Top.at>>)
  OBVIOUS
<1>3. CASE (Seen(Top) /\ Fail("cyclic")) \/ Fail("bad block")
  BY <1>1, <1>3, StepFails
<1>4. CASE /\ ~Seen(Top) /\ Kind(Top.at) = "DG" /\ Advance(<<d, x>>)
           /\ open' = open /\ file' = file /\ channels' = channels /\ tree' = tree
  <2>1. Top = stack[1] /\ Top \in WalkType /\ Top.at \in Nat
    BY <1>1, TopIs DEF Top, WalkType
  <2>2. IsBlock(Top.at) /\ block.more[1] \in Nat /\ block.down = Down(Top.at) /\ Down(Top.at) \in Nat
    BY <1>1, <1>4, KindsAreOfBlocks, FirstLinkIs, LinksAre DEF block, Down
  <2>3. /\ d \in WalkType /\ d.walk = "CG" /\ d.at = Down(Top.at) /\ d.seen = {}
        /\ d.path = <<Top.at>>
        /\ x \in WalkType /\ x.walk = "data" /\ x.at = file[Top.at].more[1] /\ x.seen = {}
        /\ x.path = <<Top.at>>
    <3>1. {"CG", "data"} \subseteq Walks /\ <<Top.at>> \in Seq(Nat) /\ 0 \in Nat
      BY <2>1 DEF Walks, TreeWalks
    <3> QED
      BY <1>2, <2>2, <3>1 DEF Walk, WalkType, block
  <2>4. InvOf("opening", (<<d, x>> \o <<Done(stack[1])>>) \o Tail(stack), PathsOf(channels), tree)
    BY <1>1, <1>4, <2>1, <2>3, DataGroupMoves DEF Seen
  <2>5. stack' = (<<d, x>> \o <<Done(stack[1])>>) \o Tail(stack)
    BY <1>4, DoneTop DEF Advance
  <2> QED
    BY <1>1, <1>4, <2>4, <2>5, SameChannels
<1> QED
  BY <1>1, <1>2, <1>3, <1>4 DEF DataGroup, Step

\* A channel group is gone into.
LEMMA ChannelGroupKeeps == TreeInv /\ ChannelGroup => TreeInv'
<1> SUFFICES ASSUME TreeInv, ChannelGroup
             PROVE  TreeInv'
  OBVIOUS
<1>1. /\ file \in Files /\ InvOf("opening", stack, PathsOf(channels), tree)
      /\ open = "opening" /\ stack # <<>> /\ Top.at # 0 /\ Top.walk = "CG"
  BY DEF TreeInv, ChannelGroup, Step
<1>2. PICK d, x : /\ d = Walk("CN", block.down, 0, <<Top.path[1], Top.at>>)
                  /\ x = Walk("SR", block.more[1], 0, <<>>)
  OBVIOUS
<1>3. CASE (Seen(Top) /\ Fail("cyclic")) \/ Fail("bad block")
  BY <1>1, <1>3, StepFails
<1>4. CASE /\ ~Seen(Top) /\ Kind(Top.at) = "CG" /\ Advance(<<d, x>>)
           /\ open' = open /\ file' = file /\ channels' = channels /\ tree' = tree
  <2>1. Top = stack[1] /\ Top \in WalkType /\ Top.at \in Nat /\ Top.path \in Seq(Nat)
          /\ WalkOK(Top, tree)
    BY <1>1, TopIs DEF Top, WalkType
  <2>2. IsBlock(Top.at) /\ block.more[1] \in Nat /\ block.down = Down(Top.at) /\ Down(Top.at) \in Nat
    BY <1>1, <1>4, KindsAreOfBlocks, FirstLinkIs, LinksAre DEF block, Down
  <2>6. Top.path[1] \in Nat
    <3>1. Len(Top.path) = 1
      BY <1>1, <2>1 DEF WalkOK, TreeWalkOK, TreeWalks
    <3> QED
      BY <2>1, <3>1, ElementOfSeq
  <2>3. /\ d \in WalkType /\ d.walk = "CN" /\ d.at = Down(Top.at) /\ d.seen = {}
        /\ d.path = <<Top.path[1], Top.at>>
        /\ x \in WalkType /\ x.walk = "SR" /\ x.at = file[Top.at].more[1] /\ x.seen = {}
    <3>1. {"CN", "SR"} \subseteq Walks /\ <<Top.path[1], Top.at>> \in Seq(Nat) /\ <<>> \in Seq(Nat)
            /\ 0 \in Nat
      BY <2>1, <2>6, EmptySeq DEF Walks, TreeWalks, SideWalks
    <3> QED
      BY <1>2, <2>2, <3>1 DEF Walk, WalkType, block
  <2>4. InvOf("opening", (<<d, x>> \o <<Done(stack[1])>>) \o Tail(stack), PathsOf(channels), tree)
    BY <1>1, <1>4, <2>1, <2>3, ChannelGroupMoves DEF Seen
  <2>5. stack' = (<<d, x>> \o <<Done(stack[1])>>) \o Tail(stack)
    BY <1>4, DoneTop DEF Advance
  <2> QED
    BY <1>1, <1>4, <2>4, <2>5, SameChannels
<1> QED
  BY <1>1, <1>2, <1>3, <1>4 DEF ChannelGroup, Step

\* A block of a list that holds nothing that is walked.
LEMMA ListGoesOn ==
    ASSUME TreeInv, open = "opening", stack # <<>>, Top.at # 0, ~Seen(Top), Top.walk \in SideWalks,
           Advance(<<>>), open' = open, file' = file, channels' = channels, tree' = tree
    PROVE  TreeInv'
<1>1. file \in Files /\ InvOf("opening", stack, PathsOf(channels), tree) /\ Top = stack[1]
  BY DEF TreeInv, Top
<1>2. InvOf("opening", (<<>> \o <<Done(stack[1])>>) \o Tail(stack), PathsOf(channels), tree)
  BY <1>1, BlockMoves DEF Seen
<1>3. stack' = (<<>> \o <<Done(stack[1])>>) \o Tail(stack)
  BY DoneTop DEF Advance
<1> QED
  BY <1>1, <1>2, <1>3, SameChannels

\* A block of a flat list is listed.
LEMMA FlatListKeeps == TreeInv /\ FlatList => TreeInv'
<1> SUFFICES ASSUME TreeInv, FlatList
             PROVE  TreeInv'
  OBVIOUS
<1>1. /\ open = "opening" /\ stack # <<>> /\ Top.at # 0 /\ Top.walk \in {"SR", "AT", "EV", "FH"}
  BY DEF FlatList, Step
<1>2. CASE (Seen(Top) /\ Fail("cyclic")) \/ Fail("bad block")
  BY <1>1, <1>2, StepFails
<1>3. CASE /\ ~Seen(Top) /\ Advance(<<>>)
           /\ open' = open /\ file' = file /\ channels' = channels /\ tree' = tree
  BY <1>1, <1>3, ListGoesOn DEF SideWalks
<1> QED
  BY <1>1, <1>2, <1>3 DEF FlatList, Step

\* A DL block's entries are added.
LEMMA DataListKeeps == TreeInv /\ DataList => TreeInv'
<1> SUFFICES ASSUME TreeInv, DataList
             PROVE  TreeInv'
  OBVIOUS
<1>1. /\ open = "opening" /\ stack # <<>> /\ Top.at # 0 /\ Top.walk = "DL"
  BY DEF DataList, Step
<1>2. CASE (Seen(Top) /\ Fail("cyclic")) \/ Fail("bad block")
  BY <1>1, <1>2, StepFails
<1>3. CASE /\ ~Seen(Top) /\ Advance(<<>>)
           /\ open' = open /\ file' = file /\ channels' = channels /\ tree' = tree
  BY <1>1, <1>3, ListGoesOn DEF SideWalks
<1> QED
  BY <1>1, <1>2, <1>3 DEF DataList, Step

\* An LD block's entries are added.
LEMMA ListDataKeeps == TreeInv /\ ListData => TreeInv'
<1> SUFFICES ASSUME TreeInv, ListData
             PROVE  TreeInv'
  OBVIOUS
<1>1. /\ open = "opening" /\ stack # <<>> /\ Top.at # 0 /\ Top.walk = "LD"
  BY DEF ListData, Step
<1>2. CASE (Seen(Top) /\ Fail("cyclic")) \/ Fail("bad block")
  BY <1>1, <1>2, StepFails
<1>3. CASE /\ ~Seen(Top) /\ Advance(<<>>)
           /\ open' = open /\ file' = file /\ channels' = channels /\ tree' = tree
  BY <1>1, <1>3, ListGoesOn DEF SideWalks
<1> QED
  BY <1>1, <1>2, <1>3 DEF ListData, Step

\* A channel is built, with the walks of its conversion and its composition.
LEMMA ChannelGoesOn ==
    ASSUME TreeInv, open = "opening", stack # <<>>, Top.at # 0, ~Seen(Top),
           Top.walk \in {"CN", "struct"}, Kind(Top.at) = "CN",
           NEW level \in Nat, level = IF Top.walk = "CN" THEN 0 ELSE Top.level + 1,
           Advance(Members(level)), channels' = Append(channels, NewChannel),
           open' = open, file' = file, tree' = tree
    PROVE  TreeInv'
<1>1. file \in Files /\ InvOf("opening", stack, PathsOf(channels), tree)
  BY DEF TreeInv
<1>2. PICK A : channels \in Seq(ChannelType(A))
  BY DEF TreeInv
<1>3. PICK d, x : /\ d = Walk("composition", block.down, level, Top.path \o <<Top.at>>)
                  /\ x = Walk("CC", block.more[1], 0, <<>>)
  OBVIOUS
<1>4. Top = stack[1] /\ Top \in WalkType
  BY <1>1, TopIs DEF Top
<1>5. IsBlock(Top.at) /\ block.more[1] \in Nat /\ block.down = Down(Top.at) /\ Down(Top.at) \in Nat
  BY <1>1, KindsAreOfBlocks, FirstLinkIs, LinksAre DEF block, Down
<1>6. Grow(Top) = Top.path \o <<Top.at>> /\ Grow(Top) \in Seq(Nat)
  BY <1>4, GrowIs DEF Grow, Put
<1>7. /\ d \in WalkType /\ d.walk = "composition" /\ d.at = Down(Top.at) /\ d.seen = {}
      /\ d.path = Grow(Top) /\ d.level = level
      /\ x \in WalkType /\ x.walk = "CC" /\ x.seen = {}
  <2>1. {"composition", "CC"} \subseteq Walks /\ <<>> \in Seq(Nat) /\ 0 \in Nat
    BY EmptySeq DEF Walks, TreeWalks
  <2> QED
    BY <1>3, <1>5, <1>6, <2>1 DEF Walk, WalkType
<1>8. OneDown(Top, d)
  BY <1>7 DEF OneDown
<1>9. InvOf("opening", (<<x, d>> \o <<Done(stack[1])>>) \o Tail(stack),
            Append(PathsOf(channels), Grow(stack[1])), tree)
  BY <1>1, <1>4, <1>7, <1>8, NewChannelMoves DEF Seen
<1>10. stack' = (<<x, d>> \o <<Done(stack[1])>>) \o Tail(stack)
  BY <1>3, DoneTop DEF Advance, Members
<1>11. NewChannel = [path |-> Grow(Top), array |-> "no", unreadable |-> FALSE]
  BY <1>6 DEF NewChannel
<1>12. /\ channels' \in Seq(ChannelType(A \cup {"no"}))
       /\ PathsOf(channels') = Append(PathsOf(channels), Grow(Top))
  BY <1>2, <1>6, <1>11, PathsGrow
<1> QED
  BY <1>1, <1>4, <1>9, <1>10, <1>12, KeptTreeInv

\* A channel of a group is built.
LEMMA TopChannelKeeps == TreeInv /\ TopChannel => TreeInv'
<1> SUFFICES ASSUME TreeInv, TopChannel
             PROVE  TreeInv'
  OBVIOUS
<1>1. /\ open = "opening" /\ stack # <<>> /\ Top.at # 0 /\ Top.walk = "CN"
  BY DEF TopChannel, Step
<1>2. CASE (Seen(Top) /\ Fail("cyclic")) \/ Fail("bad block")
  BY <1>1, <1>2, StepFails
<1>3. CASE /\ ~Seen(Top) /\ Kind(Top.at) = "CN" /\ Advance(Members(0))
           /\ channels' = Append(channels, NewChannel)
           /\ open' = open /\ file' = file /\ tree' = tree
  BY <1>1, <1>3, ChannelGoesOn
<1> QED
  BY <1>1, <1>2, <1>3 DEF TopChannel, Step

\* A member of a composition is built.
LEMMA StructMemberKeeps == TreeInv /\ StructMember => TreeInv'
<1> SUFFICES ASSUME TreeInv, StructMember
             PROVE  TreeInv'
  OBVIOUS
<1>1. /\ open = "opening" /\ stack # <<>> /\ Top.at # 0 /\ Top.walk = "struct"
  BY DEF StructMember, Step
<1>2. CASE (Seen(Top) /\ Fail("cyclic")) \/ Fail("bad block")
  BY <1>1, <1>2, StepFails
<1>3. CASE /\ ~Seen(Top) /\ Kind(Top.at) = "CN" /\ Advance(Members(Top.level + 1))
           /\ channels' = Append(channels, NewChannel)
           /\ open' = open /\ file' = file /\ tree' = tree
  <2>1. Top \in WalkType
    BY <1>1, TopIs DEF TreeInv, Top
  <2>2. PICK level \in Nat : level = Top.level + 1
    BY <2>1 DEF WalkType
  <2> QED
    BY <1>1, <1>3, <2>2, ChannelGoesOn
<1> QED
  BY <1>1, <1>2, <1>3 DEF StructMember, Step

\* The composition of a channel is gone into, or refused.
LEMMA CompositionKeeps == TreeInv /\ Composition => TreeInv'
<1> SUFFICES ASSUME TreeInv, Composition
             PROVE  TreeInv'
  OBVIOUS
<1>1. /\ file \in Files /\ InvOf("opening", stack, PathsOf(channels), tree) /\ Top = stack[1]
      /\ open = "opening" /\ stack # <<>> /\ Top.at # 0 /\ Top.walk = "composition"
      /\ Top \in WalkType /\ Tail(stack) \in Seq(WalkType)
  BY TopIs DEF TreeInv, Composition, Top
<1>2. Top.level \in Nat /\ MaxCompositionDepth \in Nat
  BY <1>1, OpenFileAssumption DEF WalkType
<1>3. CASE Top.level >= MaxCompositionDepth
  <2>1. Fail("cyclic")
    BY <1>3 DEF Composition
  <2>2. InvOf("cyclic", <<>>, PathsOf(channels), tree)
    BY <1>1, <1>3, DepthFails
  <2> QED
    BY <2>1, <2>2, FailKeeps
<1>4. CASE Fail("bad block")
  BY <1>1, <1>4, StepFails
<1>5. ASSUME ~(Top.level >= MaxCompositionDepth), ~Fail("bad block")
      PROVE  TreeInv'
  <2>1. PICK rest : rest = IF Kind(Top.at) = "CN" THEN <<[Top EXCEPT !.walk = "struct"]>> ELSE <<>>
    OBVIOUS
  <2>2. /\ stack' = rest \o Tail(stack)
        /\ channels' = IF Kind(Top.at) # "CA" THEN channels
                       ELSE [channels EXCEPT
                               ![Len(channels)].array = Array(Top.at),
                               ![Len(channels)].unreadable = Array(Top.at) = "none" /\ Marked(Top.level)]
        /\ file' = file /\ open' = open /\ tree' = tree
    BY <1>5, <2>1 DEF Composition
  <2>3. Top.level < MaxCompositionDepth
    <3>1. PICK l \in Nat, m \in Nat : l = Top.level /\ m = MaxCompositionDepth
      BY <1>2
    <3>2. l >= m \/ l < m
      OBVIOUS
    <3> QED
      BY <1>5, <3>1, <3>2
  <2>4. InvOf("opening", rest \o Tail(stack), PathsOf(channels), tree)
    <3>1. CASE Kind(Top.at) = "CN"
      BY <1>1, <2>1, <2>3, <3>1, StructMoves
    <3>2. CASE Kind(Top.at) # "CN"
      BY <1>1, <2>1, <2>3, <3>2, ArrayMoves
    <3> QED
      BY <3>1, <3>2
  <2>5. PICK A : channels \in Seq(ChannelType(A))
    BY DEF TreeInv
  <2>6. \E B : channels' \in Seq(ChannelType(B)) /\ PathsOf(channels') = PathsOf(channels)
    <3>1. CASE Kind(Top.at) # "CA"
      BY <2>2, <2>5, <3>1
    <3>2. CASE Kind(Top.at) = "CA"
      <4>1. PICK k, x, y : /\ k = Len(channels) /\ x = Array(Top.at)
                           /\ y = (Array(Top.at) = "none" /\ Marked(Top.level))
        OBVIOUS
      <4>2. y \in BOOLEAN
        BY <4>1
      <4>3. channels' = [channels EXCEPT ![k].array = x, ![k].unreadable = y]
        BY <2>2, <3>2, <4>1
      <4>4. channels' = Mark(channels, k, x, y)
        BY <4>3 DEF Mark
      <4>5. /\ Mark(channels, k, x, y) \in Seq(ChannelType(A \cup {x}))
            /\ PathsOf(Mark(channels, k, x, y)) = PathsOf(channels)
        BY <2>5, <4>2, PathsStay
      <4>6. channels' \in Seq(ChannelType(A \cup {x})) /\ PathsOf(channels') = PathsOf(channels)
        BY <4>4, <4>5
      <4> QED
        BY <4>6
    <3> QED
      BY <3>1, <3>2
  <2> QED
    BY <1>1, <2>2, <2>4, <2>6, KeptTreeInv
<1> QED
  BY <1>3, <1>4, <1>5

\* A conversion is followed to those it refers to.
LEMMA ConversionKeeps == TreeInv /\ Conversion => TreeInv'
<1> SUFFICES ASSUME TreeInv, Conversion
             PROVE  TreeInv'
  OBVIOUS
<1>1. /\ file \in Files /\ InvOf("opening", stack, PathsOf(channels), tree) /\ Top = stack[1]
      /\ open = "opening" /\ stack # <<>> /\ Top.at # 0 /\ Top.walk = "CC"
      /\ Top \in WalkType
  BY TopIs DEF TreeInv, Conversion, Step, Top
<1>2. CASE (Seen(Top) /\ Fail("cyclic")) \/ Fail("bad block")
  BY <1>1, <1>2, StepFails
<1>3. CASE /\ Kind(Top.at) = "CC"
           /\ stack' = (IF Top.level >= MaxConversionDepth THEN <<>> ELSE Referred) \o Tail(stack)
           /\ open' = open /\ file' = file /\ channels' = channels /\ tree' = tree
  <2>1. PICK new : new = IF Top.level >= MaxConversionDepth THEN <<>> ELSE Referred
    OBVIOUS
  <2>2. IsBlock(Top.at) /\ Top.level \in Nat
    BY <1>1, <1>3, KindsAreOfBlocks DEF WalkType
  <2>3. new \in Seq(ConversionWalks)
    BY <1>1, <2>1, <2>2, ReferredAre, EmptySeq
  <2>4. InvOf("opening", new \o Tail(stack), PathsOf(channels), tree)
    BY <1>1, <2>3, ConversionMoves
  <2> QED
    BY <1>1, <1>3, <2>1, <2>4, SameChannels
<1> QED
  BY <1>1, <1>2, <1>3 DEF Conversion, Step

\* A node of the hierarchy is added, or known.
LEMMA HierarchyKeeps == TreeInv /\ HierarchyNode => TreeInv'
<1> SUFFICES ASSUME TreeInv, HierarchyNode
             PROVE  TreeInv'
  OBVIOUS
<1>1. /\ file \in Files /\ InvOf("opening", stack, PathsOf(channels), tree) /\ Top = stack[1]
      /\ open = "opening" /\ stack # <<>> /\ Top.at # 0 /\ Top.walk = "CH"
      /\ Top \in WalkType /\ Tail(stack) \in Seq(WalkType)
  BY TopIs DEF TreeInv, HierarchyNode, Step, Top
<1>2. CASE (Seen(Top) /\ Fail("cyclic")) \/ Fail("bad block")
  BY <1>1, <1>2, StepFails
<1>3. CASE /\ stack' = Tail(stack)
           /\ open' = open /\ file' = file /\ channels' = channels /\ tree' = tree
  <2>1. <<>> \o Tail(stack) = Tail(stack)
    BY <1>1, ConcatEmptySeq
  <2>2. InvOf("opening", <<>> \o Tail(stack), PathsOf(channels), tree)
    BY <1>1, KnownEnds
  <2> QED
    BY <1>1, <1>3, <2>1, <2>2, SameChannels
<1>4. CASE /\ ~Seen(Top) /\ Kind(Top.at) = "CH"
           /\ Advance(<<Walk("CH", block.down, Top.level + 1, <<>>)>>)
           /\ tree' = Append(tree, [at |-> Top.at, level |-> Top.level])
           /\ open' = open /\ file' = file /\ channels' = channels
  <2>1. PICK x, level : x = Walk("CH", block.down, Top.level + 1, <<>>) /\ level = Top.level
    OBVIOUS
  <2>2. level \in Nat /\ level + 1 \in Nat /\ block.down = Down(Top.at) /\ Down(Top.at) \in Nat
    BY <1>1, <1>4, <2>1, KindsAreOfBlocks, LinksAre DEF WalkType, block, Down
  <2>3. x \in WalkType /\ x.walk = "CH" /\ x.seen = {} /\ x.at = Down(Top.at)
    <3>1. "CH" \in Walks /\ <<>> \in Seq(Nat)
      BY EmptySeq DEF Walks, SideWalks
    <3> QED
      BY <2>1, <2>2, <3>1 DEF Walk, WalkType
  <2>4. InvOf("opening", (<<x>> \o <<Done(stack[1])>>) \o Tail(stack), PathsOf(channels),
              Append(tree, [at |-> stack[1].at, level |-> level]))
    BY <1>1, <1>4, <2>2, <2>3, NodeMoves DEF Seen
  <2>5. stack' = (<<x>> \o <<Done(stack[1])>>) \o Tail(stack)
    BY <1>4, <2>1, DoneTop DEF Advance
  <2> QED
    BY <1>1, <1>4, <2>1, <2>4, <2>5, SameChannels
<1> QED
  BY <1>1, <1>2, <1>3, <1>4 DEF HierarchyNode, Step

\* The data of a group is a block or a list of them.
LEMMA DataBlockKeeps == TreeInv /\ DataBlock => TreeInv'
<1> SUFFICES ASSUME TreeInv, DataBlock
             PROVE  TreeInv'
  OBVIOUS
<1>1. /\ file \in Files /\ InvOf("opening", stack, PathsOf(channels), tree) /\ Top = stack[1]
      /\ open = "opening" /\ stack # <<>> /\ Top.at # 0 /\ Top.walk = "data"
      /\ Top \in WalkType /\ Tail(stack) \in Seq(WalkType) /\ WalkOK(Top, tree)
  BY TopIs DEF TreeInv, DataBlock, Top
<1>2. Top.at = file[Top.path[1]].more[1] /\ Top.path \in Seq(Nat)
  BY <1>1 DEF WalkOK, WalkType
<1>3. PICK first : first = IF Kind(Top.at) = "HL" THEN block.down ELSE Top.at
  OBVIOUS
<1>4. CASE Fail("bad block")
  BY <1>1, <1>4, StepFails
<1>5. CASE /\ Kind(Top.at) \in DataKinds /\ stack' = Tail(stack)
           /\ open' = open /\ file' = file /\ channels' = channels /\ tree' = tree
  <2>1. <<>> \o Tail(stack) = Tail(stack)
    BY <1>1, ConcatEmptySeq
  <2>2. ListHead(Top.path[1]) = 0
    BY <1>2, <1>5 DEF ListHead, DataKinds
  <2>3. InvOf("opening", <<>> \o Tail(stack), PathsOf(channels), tree)
    BY <1>1, <2>2, DataEnds
  <2> QED
    BY <1>1, <1>5, <2>1, <2>3, SameChannels
<1>6. CASE /\ Kind(Top.at) \in {"DL", "LD", "HL"}
           /\ stack' = <<Walk(IF Kind(first) = "LD" THEN "LD" ELSE "DL", first, 0, Top.path)>> \o Tail(stack)
           /\ open' = open /\ file' = file /\ channels' = channels /\ tree' = tree
  <2>1. PICK walk, x : walk = (IF Kind(first) = "LD" THEN "LD" ELSE "DL") /\ x = Walk(walk, first, 0, Top.path)
    OBVIOUS
  <2>2. first = ListHead(Top.path[1]) /\ first \in Nat
    <3>1. IsBlock(Top.at)
      BY <1>6, KindsAreOfBlocks
    <3>2. block.down = Down(Top.at) /\ Down(Top.at) \in Nat /\ Top.at \in Nat
      BY <1>1, <3>1, LinksAre DEF block, Down, WalkType
    <3>3. CASE Kind(Top.at) = "HL"
      BY <1>2, <1>3, <3>2, <3>3 DEF ListHead
    <3>4. CASE Kind(Top.at) \in {"DL", "LD"}
      BY <1>2, <1>3, <3>2, <3>4 DEF ListHead
    <3> QED
      BY <1>6, <3>3, <3>4
  <2>3. x \in WalkType /\ x.walk \in {"DL", "LD"} /\ x.seen = {} /\ x.at = first
    <3>1. walk \in {"DL", "LD"} /\ walk \in Walks
      BY <2>1 DEF Walks, SideWalks
    <3> QED
      BY <1>2, <2>1, <2>2, <3>1 DEF Walk, WalkType
  <2>4. InvOf("opening", <<x>> \o Tail(stack), PathsOf(channels), tree)
    BY <1>1, <2>2, <2>3, DataMoves
  <2> QED
    BY <1>1, <1>6, <2>1, <2>4, SameChannels
<1> QED
  BY <1>1, <1>3, <1>4, <1>5, <1>6 DEF DataBlock

\* Every action keeps it.
LEMMA TreeInvNext == TreeInv /\ [OpenNext]_<<file, openVars>> => TreeInv'
<1> SUFFICES ASSUME TreeInv, [OpenNext]_<<file, openVars>>
             PROVE  TreeInv'
  OBVIOUS
<1>1. CASE UNCHANGED <<file, openVars>>
  <2>1. /\ file' = file /\ channels' = channels /\ open' = open /\ stack' = stack /\ tree' = tree
    BY <1>1 DEF openVars
  <2>2. InvOf(open, stack, PathsOf(channels), tree)
    BY DEF TreeInv
  <2> QED
    BY <2>1, <2>2, SameChannels
<1>2. CASE OpenNext
  BY <1>2, HeaderKeeps, WalkEndKeeps, DataGroupKeeps, ChannelGroupKeeps, FlatListKeeps,
     TopChannelKeeps, StructMemberKeeps, CompositionKeeps, ConversionKeeps, HierarchyKeeps,
     DataBlockKeeps, DataListKeeps, ListDataKeeps DEF OpenNext
<1> QED
  BY <1>1, <1>2

\* The channels of an opened file are the paths of its tree.
LEMMA ListedIsTheTree == TreeInv => ChannelsAreTheTree
<1> SUFFICES ASSUME TreeInv, open = "opened"
             PROVE  ChannelsAreTheTree
  BY DEF ChannelsAreTheTree
<1>1. PICK c : c = PathsOf(channels)
  OBVIOUS
<1>2. /\ file \in Files /\ InvOf("opened", <<>>, c, tree) /\ c \in Seq(Seq(Nat)) /\ Listed(c)
      /\ AllCovered(<<>>, c) /\ Kind(Header) = "HD"
  BY <1>1 DEF TreeInv, InvOf
<1>3. PICK A : channels \in Seq(ChannelType(A))
  BY DEF TreeInv
<1>4. PICK m \in Nat : /\ m = Len(channels) /\ DOMAIN channels = 1..m
                       /\ Len(c) = m /\ \A i \in 1..m : c[i] = channels[i].path
  <2>1. Len(channels) \in Nat /\ DOMAIN channels = 1..Len(channels)
    BY <1>3, LenProperties
  <2>2. c = [i \in 1..Len(channels) |-> channels[i].path]
    BY <1>1, <2>1 DEF PathsOf
  <2>3. DOMAIN c = 1..Len(channels) /\ DOMAIN c = 1..Len(c) /\ Len(c) \in Nat
    BY <1>2, <2>2, LenProperties
  <2>4. Len(c) = Len(channels)
    BY <2>1, <2>2
  <2> QED
    BY <2>1, <2>2, <2>4
<1>5. Root \in Nat
  BY <1>2, HeaderIs
<1>6. MaxCompositionDepth \in Nat
  BY OpenFileAssumption
<1>7. ASSUME NEW q
      PROVE  (\E i \in 1..m : q = c[i]) <=> \E n \in 0..MaxCompositionDepth : q \in Paths[n]
  <2>1. ASSUME NEW i \in 1..m, q = c[i]
        PROVE  \E n \in 0..MaxCompositionDepth : q \in Paths[n]
    <3>1. Tree(q) /\ Len(q) >= 3
      BY <1>2, <1>4, <2>1 DEF Listed
    <3>2. q \in Seq(Nat) /\ Len(q) \in 3..Deepest /\ Len(q) \in Nat
      BY <3>1, LenProperties DEF Tree, Deepest
    <3>3. PICK n \in 0..MaxCompositionDepth : Len(q) = n + 3
      <4>1. Len(q) - 3 \in 0..MaxCompositionDepth /\ Len(q) = (Len(q) - 3) + 3
        BY <1>6, <3>2 DEF Deepest
      <4> QED
        BY <4>1
    <3>4. q \in Level(n)
      BY <3>1, <3>2, <3>3 DEF Level
    <3> QED
      BY <1>2, <1>5, <3>4, PathsAre
  <2>2. ASSUME NEW n \in 0..MaxCompositionDepth, q \in Paths[n]
        PROVE  \E i \in 1..m : q = c[i]
    <3>1. q \in Level(n)
      BY <1>2, <1>5, <2>2, PathsAre
    <3>2. Tree(q) /\ Len(q) = n + 3
      BY <3>1 DEF Level
    <3>3. n \in Nat /\ Len(q) >= 3
      BY <1>6, <3>2
    <3>4. Followed(q, <<>>, c)
      BY <1>2, <3>2, OnFew DEF AllCovered
    <3>5. On(q, c)
      BY <3>3, <3>4 DEF Followed
    <3> QED
      BY <1>4, <3>5 DEF On
  <2> QED
    BY <2>1, <2>2
<1>8. {channels[i].path : i \in DOMAIN channels} = UNION {Paths[n] : n \in 0..MaxCompositionDepth}
  <2>1. \A q : q \in {channels[i].path : i \in DOMAIN channels} <=> \E i \in 1..m : q = c[i]
    BY <1>4
  <2>2. PICK P : P = Paths
    OBVIOUS
  <2>3. \A q : q \in UNION {P[n] : n \in 0..MaxCompositionDepth} <=> \E n \in 0..MaxCompositionDepth : q \in P[n]
    OBVIOUS
  <2>4. \A q : q \in {channels[i].path : i \in DOMAIN channels}
                 <=> q \in UNION {P[n] : n \in 0..MaxCompositionDepth}
    BY <1>7, <2>1, <2>2, <2>3
  <2>5. PICK X, Y : /\ X = {channels[i].path : i \in DOMAIN channels}
                    /\ Y = UNION {P[n] : n \in 0..MaxCompositionDepth}
    OBVIOUS
  <2>6. X = Y
    BY <2>4, <2>5
  <2> QED
    BY <2>2, <2>5, <2>6
<1>9. \A i, j \in DOMAIN channels : channels[i].path = channels[j].path => i = j
  BY <1>2, <1>4 DEF Listed
<1>10. \A i \in 2..Len(channels) :
          Len(channels[i].path) > 3 => IsPrefix(Front(channels[i].path), channels[i - 1].path)
  <2> TAKE i \in 2..Len(channels)
  <2>1. i \in 2..Len(c) /\ i \in 1..m /\ i - 1 \in 1..m
    BY <1>4
  <2> QED
    BY <1>2, <1>4, <2>1 DEF Listed
<1> QED
  BY <1>8, <1>9, <1>10 DEF ChannelsAreTheTree

\* A file that is opened has no cycle, and one refused for a cycle has one.
LEMMA FollowedToTheEnd == TreeInv => CyclesAreTold
<1> SUFFICES ASSUME TreeInv
             PROVE  CyclesAreTold
  OBVIOUS
<1>1. PICK c : c = PathsOf(channels)
  OBVIOUS
<1>2. file \in Files /\ InvOf(open, stack, c, tree)
  BY <1>1 DEF TreeInv
<1>3. ASSUME open = "opened"
      PROVE  (\A h \in Heads : ~Cyclic(h)) /\ ~NestsTooDeep
  <2>1. /\ Kind(Header) = "HD" /\ HeaderHandled(<<>>) /\ AllCovered(<<>>, c)
    BY <1>2, <1>3 DEF InvOf
  <2>2. Root \in Nat
    BY <1>2, <2>1, HeaderIs
  <2>3. \A h : Handled(h, <<>>) => ~Cyclic(h)
    BY OnFew DEF Handled
  <2>4. ~DeepOn(<<>>)
    BY OnFew DEF DeepOn
  <2>5. \A q : Tree(q) => Followed(q, <<>>, c)
    BY <2>1, OnFew DEF AllCovered
  <2>6. ASSUME NEW h \in Heads
        PROVE  Handled(h, <<>>)
    <3>1. CASE h \in {Root, file[Header].more[1], file[Header].more[2], file[Header].more[4]}
      BY <2>1, <3>1 DEF HeaderHandled
    <3>2. CASE \E q : Tree(q) /\ Len(q) = 1 /\ h \in {Down(q[1]), ListHead(q[1])}
      BY <2>5, <3>2 DEF Followed
    <3>3. CASE \E q : Tree(q) /\ Len(q) = 2 /\ IsBlock(q[2]) /\ h \in {Down(q[2]), file[q[2]].more[1]}
      BY <2>5, <3>3 DEF Followed
    <3>4. CASE \E q : /\ Tree(q) /\ Len(q) >= 3 /\ Len(q) < Deepest /\ Structs(q[Len(q)]) # {}
                      /\ h = Down(q[Len(q)])
      BY <2>5, <3>4 DEF Followed
    <3> QED
      BY <1>2, <2>2, <2>6, <3>1, <3>2, <3>3, <3>4, HeadsAre
  <2>7. ~NestsTooDeep
    <3> SUFFICES ASSUME NEW q, Tree(q), Len(q) = Deepest
                 PROVE  Down(q[Len(q)]) = 0
      BY <1>2, <2>2, TooDeepIs
    <3> QED
      BY <2>4, <2>5 DEF Followed
  <2> QED
    BY <2>3, <2>6, <2>7
<1>4. ASSUME open = "cyclic"
      PROVE  NestsTooDeep \/ \E h \in AllHeads(tree) : Cyclic(h)
  BY <1>2, <1>4 DEF InvOf
<1> QED
  BY <1>3, <1>4 DEF CyclesAreTold, Cyclic, AllHeads

\* Every path of links from a data group to a channel or to a member of its
\* composition gives one channel of an opened file, behind the channel it is of: for
\* every file and every depth of compositions (parse_data_groups to
\* expand_composition_channels).
THEOREM ChannelsOfEveryFile == OpenSpec => []ChannelsAreTheTree
<1>1. file \in Files /\ OpenInit => TreeInv
  BY TreeInvInit
<1>2. TreeInv /\ [OpenNext]_<<file, openVars>> => TreeInv'
  BY TreeInvNext
<1>3. TreeInv => ChannelsAreTheTree
  BY ListedIsTheTree
<1> QED
  BY <1>1, <1>2, <1>3, PTL DEF OpenSpec

\* No file is opened with a chain that returns to a block, and none is refused for a
\* cycle that has none: for every file (LinkChain, MAX_COMPOSITION_DEPTH).
THEOREM CyclesOfEveryFile == OpenSpec => []CyclesAreTold
<1>1. file \in Files /\ OpenInit => TreeInv
  BY TreeInvInit
<1>2. TreeInv /\ [OpenNext]_<<file, openVars>> => TreeInv'
  BY TreeInvNext
<1>3. TreeInv => CyclesAreTold
  BY FollowedToTheEnd
<1> QED
  BY <1>1, <1>2, <1>3, PTL DEF OpenSpec
=============================================================================

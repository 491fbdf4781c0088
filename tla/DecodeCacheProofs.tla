-------------------------- MODULE DecodeCacheProofs --------------------------
(***************************************************************************)
(* Proofs about BoundedLru and DecodeCache: for any files, bounds and      *)
(* number of readers, a reader is given the records it asked for, and a    *)
(* cache stays within its bounds by letting go of what was used longest    *)
(* ago, never of what has just been put into it.                           *)
(***************************************************************************)
EXTENDS DecodeCache, InductionFacts, SequenceTheorems

-----------------------------------------------------------------------------

(***************************************************************************)
(* BoundedLru.                                                             *)
(***************************************************************************)

\* Sizes have a total.
LEMMA TotalIsNumber ==
    ASSUME NEW sizes \in Seq(Nat)
    PROVE  Total(sizes) \in Nat
<1> DEFINE N == Len(sizes)
           F == [n \in 1..N |-> [x \in Nat |-> x + sizes[n]]]
           Upto == CHOOSE f : f = [n \in 0..N |-> IF n = 0 THEN 0 ELSE f[n - 1] + sizes[n]]
<1>1. N \in Nat /\ \A n \in 1..N : sizes[n] \in Nat
  BY LenProperties, ElementOfSeq
<1>2. F \in [1..N -> [Nat -> Nat]]
  BY <1>1
<1>3. PICK f : IsRecursion(f, N, Nat, 0, F)
  <2> HIDE DEF F, N
  <2> QED
    BY <1>1, <1>2, Recursion
<1>4. f = [n \in 0..N |-> IF n = 0 THEN 0 ELSE f[n - 1] + sizes[n]]
  <2>1. ASSUME NEW n \in 0..N
        PROVE  f[n] = IF n = 0 THEN 0 ELSE f[n - 1] + sizes[n]
    <3>1. CASE n = 0
      BY <3>1, <1>3 DEF IsRecursion
    <3>2. CASE n # 0
      <4>1. n \in 1..N /\ n - 1 \in 0..N
        BY <3>2, <1>1
      <4>2. f[n - 1] \in Nat /\ f[n] = F[n][f[n - 1]]
        <5> HIDE DEF F
        <5> QED
          BY <4>1, <3>2, <1>3 DEF IsRecursion
      <4> QED
        BY <4>1, <4>2, <3>2
    <3> QED
      BY <3>1, <3>2
  <2>2. f = [n \in 0..N |-> f[n]]
    BY <1>3 DEF IsRecursion
  <2> QED
    BY <2>1, <2>2
<1>5. Upto = [n \in 0..N |-> IF n = 0 THEN 0 ELSE Upto[n - 1] + sizes[n]]
  BY <1>4
<1>6. \A n \in 0..N : Upto[n] \in Nat
  <2> HIDE DEF Upto
  <2> DEFINE T == {n \in Nat : n <= N => Upto[n] \in Nat}
  <2>1. 0 \in T
    BY <1>5, <1>1
  <2>2. \A n \in T : n + 1 \in T
    <3> SUFFICES ASSUME NEW n \in T, n + 1 <= N
                 PROVE  Upto[n + 1] \in Nat
      OBVIOUS
    <3>1. Upto[n + 1] = Upto[n] + sizes[n + 1] /\ n + 1 \in 1..N
      BY <1>5, <1>1
    <3> QED
      BY <3>1, <1>1
  <2> HIDE DEF T
  <2>3. T = Nat
    <3>1. T \in SUBSET Nat
      BY DEF T
    <3> QED
      BY <3>1, <2>1, <2>2, NumberInduction
  <2> QED
    BY <2>3, <1>1 DEF T
<1>7. Total(sizes) = Upto[N]
  BY DEF Total
<1> HIDE DEF Upto
<1> QED
  BY <1>1, <1>6, <1>7

\* A part of a sequence, and the sequence without one of its elements.
Part(s, m, n) == SubSeq(s, m, n)

LEMMA PartOf ==
    ASSUME NEW S, NEW s \in Seq(S), NEW m \in Nat \ {0}, NEW n \in Nat, NEW len \in Nat,
           n <= Len(s), m + len = n + 1
    PROVE  /\ Part(s, m, n) \in Seq(S)
           /\ Len(Part(s, m, n)) = len
           /\ \A i \in 1..len : Part(s, m, n)[i] = s[m + i - 1]
<1>1. Len(s) \in Nat
  BY LenProperties
<1>2. \A i \in m..n : s[i] \in S
  <2> SUFFICES ASSUME NEW i \in m..n
               PROVE  s[i] \in S
    OBVIOUS
  <2>1. i \in 1..Len(s)
    BY <1>1
  <2> QED
    BY <2>1, ElementOfSeq
<1>3. /\ SubSeq(s, m, n) \in Seq(S)
      /\ Len(SubSeq(s, m, n)) = IF m <= n THEN n - m + 1 ELSE 0
      /\ \A i \in 1..(n - m + 1) : SubSeq(s, m, n)[i] = s[m + i - 1]
  <2>1. m \in Int /\ n \in Int
    OBVIOUS
  <2> QED
    BY <1>2, <2>1, SubSeqProperties
<1> QED
  BY <1>3 DEF Part

LEMMA FrontOf ==
    ASSUME NEW S, NEW s \in Seq(S), NEW n \in Nat, n <= Len(s)
    PROVE  /\ Part(s, 1, n) \in Seq(S)
           /\ Len(Part(s, 1, n)) = n
           /\ \A i \in 1..n : Part(s, 1, n)[i] = s[i]
<1>1. PICK m \in Nat \ {0} : m = 1
  OBVIOUS
<1>2. m + n = n + 1
  BY <1>1
<1>3. /\ Part(s, m, n) \in Seq(S)
      /\ Len(Part(s, m, n)) = n
      /\ \A i \in 1..n : Part(s, m, n)[i] = s[m + i - 1]
  BY <1>2, PartOf
<1>4. \A i \in 1..n : m + i - 1 = i
  BY <1>1
<1> QED
  BY <1>1, <1>3, <1>4

LEMMA BackOf ==
    ASSUME NEW S, NEW s \in Seq(S), NEW m \in Nat \ {0}, NEW len \in Nat, m + len = Len(s) + 1
    PROVE  /\ Part(s, m, Len(s)) \in Seq(S)
           /\ Len(Part(s, m, Len(s))) = len
           /\ \A i \in 1..len : Part(s, m, Len(s))[i] = s[m + i - 1]
<1>1. PICK n \in Nat : n = Len(s)
  BY LenProperties
<1>2. n <= Len(s) /\ m + len = n + 1
  BY <1>1
<1>3. /\ Part(s, m, n) \in Seq(S)
      /\ Len(Part(s, m, n)) = len
      /\ \A i \in 1..len : Part(s, m, n)[i] = s[m + i - 1]
  BY <1>2, PartOf
<1> QED
  BY <1>1, <1>3

LEMMA Removed ==
    ASSUME NEW S, NEW s \in Seq(S), NEW k \in 1..Len(s)
    PROVE  /\ RemoveAt(s, k) \in Seq(S)
           /\ Len(RemoveAt(s, k)) = Len(s) - 1
           /\ \A i \in 1..(Len(s) - 1) :
                  RemoveAt(s, k)[i] = IF i < k THEN s[i] ELSE s[i + 1]
<1>1. Len(s) \in Nat \ {0} /\ k \in Nat \ {0} /\ k <= Len(s)
  BY LenProperties
<1> DEFINE b == k - 1
           m == k + 1
           len == Len(s) - k
           p == Part(s, 1, b)
           q == Part(s, m, Len(s))
<1>2. b \in Nat /\ b <= Len(s) /\ m \in Nat \ {0} /\ len \in Nat /\ m + len = Len(s) + 1
  BY <1>1
<1>3. RemoveAt(s, k) = p \o q
  BY DEF RemoveAt, Part
<1>4. b = k - 1 /\ m = k + 1 /\ len = Len(s) - k
  OBVIOUS
<1> HIDE DEF b, m, len
<1>5. /\ p \in Seq(S) /\ Len(p) = k - 1
      /\ \A i \in 1..(k - 1) : p[i] = s[i]
  <2>1. p \in Seq(S) /\ Len(p) = b /\ \A i \in 1..b : p[i] = s[i]
    BY <1>2, FrontOf
  <2> HIDE DEF p
  <2> QED
    BY <2>1, <1>4
<1>6. /\ q \in Seq(S) /\ Len(q) = Len(s) - k
      /\ \A i \in 1..(Len(s) - k) : q[i] = s[k + i]
  <2>1. q \in Seq(S) /\ Len(q) = len /\ \A i \in 1..len : q[i] = s[m + i - 1]
    BY <1>2, BackOf
  <2> HIDE DEF q
  <2>2. \A i \in 1..len : m + i - 1 = k + i
    BY <1>2, <1>4
  <2> QED
    BY <2>1, <2>2, <1>4
<1> HIDE DEF p, q
<1>7. /\ p \o q \in Seq(S) /\ Len(p \o q) = Len(p) + Len(q)
      /\ \A i \in 1..(Len(p) + Len(q)) : (p \o q)[i] = IF i <= Len(p) THEN p[i] ELSE q[i - Len(p)]
  BY <1>5, <1>6, ConcatProperties
<1>8. ASSUME NEW i \in 1..(Len(s) - 1)
      PROVE  RemoveAt(s, k)[i] = IF i < k THEN s[i] ELSE s[i + 1]
  <2>1. RemoveAt(s, k)[i] = IF i <= k - 1 THEN p[i] ELSE q[i - (k - 1)]
    BY <1>1, <1>5, <1>6, <1>3, <1>7
  <2>2. CASE i < k
    <3>1. i \in 1..(k - 1) /\ i <= k - 1
      BY <2>2, <1>1
    <3> QED
      BY <3>1, <2>1, <2>2, <1>5
  <2>3. CASE ~(i < k)
    <3>1. i - (k - 1) \in 1..(Len(s) - k) /\ ~(i <= k - 1) /\ k + (i - (k - 1)) = i + 1
      BY <2>3, <1>1
    <3>2. q[i - (k - 1)] = s[i + 1]
      BY <3>1, <1>6
    <3> QED
      BY <3>1, <3>2, <2>1, <2>3
  <2> QED
    BY <2>2, <2>3
<1>9. Len(p) + Len(q) = Len(s) - 1
  BY <1>1, <1>5, <1>6
<1> QED
  BY <1>3, <1>7, <1>8, <1>9

\* Whatever is in t is in s.
Within(t, s) == \A i \in 1..Len(t) : \E j \in 1..Len(s) : t[i] = s[j]

\* No two uses have one stamp.
Apart(s) == \A i, j \in 1..Len(s) : s[i].used = s[j].used => i = j

\* Entries, whatever their keys and values are.
AreEntries(E) == \A e \in E : e.used \in Nat /\ e.size \in Nat

\* The oldest is an entry, and older than each of the others.
LEMMA OldestIs ==
    ASSUME NEW E, NEW s \in Seq(E), AreEntries(E), Apart(s), Len(s) > 0
    PROVE  /\ Oldest(s) \in 1..Len(s)
           /\ \A j \in 1..Len(s) : j # Oldest(s) => s[Oldest(s)].used < s[j].used
<1>1. Len(s) \in Nat \ {0} /\ DOMAIN s = 1..Len(s)
  BY LenProperties
<1>2. \A j \in 1..Len(s) : s[j].used \in Nat
  <2>1. \A j \in 1..Len(s) : s[j] \in E
    BY ElementOfSeq
  <2> QED
    BY <2>1 DEF AreEntries
<1> DEFINE U == {s[j].used : j \in 1..Len(s)}
<1>3. PICK u \in U : \A v \in U : u <= v
  <2>1. U \in SUBSET Nat
    BY <1>2
  <2>2. s[1].used \in U
    BY <1>1
  <2> HIDE DEF U
  <2> QED
    BY <2>1, <2>2, LeastNumber
<1>4. PICK k \in 1..Len(s) : u = s[k].used
  OBVIOUS
<1>5. \A j \in 1..Len(s) : s[k].used <= s[j].used
  BY <1>3, <1>4
<1>6. \A j \in 1..(k - 1) : s[k].used < s[j].used
  <2> SUFFICES ASSUME NEW j \in 1..(k - 1)
               PROVE  s[k].used < s[j].used
    OBVIOUS
  <2>1. j \in 1..Len(s) /\ j # k
    BY <1>1
  <2> QED
    BY <2>1, <1>2, <1>5 DEF Apart
<1>7. /\ Oldest(s) \in DOMAIN s
      /\ \A j \in DOMAIN s : s[Oldest(s)].used <= s[j].used
  BY <1>1, <1>5, <1>6 DEF Oldest
<1> QED
  BY <1>1, <1>2, <1>7 DEF Apart

\* One turn of the loop of insert.
LEMMA OneGoes ==
    ASSUME NEW E, NEW s \in Seq(E), NEW t, AreEntries(E), Apart(s), Len(s) > 1,
           t = RemoveAt(s, Oldest(s))
    PROVE  /\ t \in Seq(E) /\ Len(t) = Len(s) - 1
           /\ Within(t, s) /\ Apart(t)
           /\ \A j \in 1..Len(s) :
                  \/ \E i \in 1..Len(t) : t[i] = s[j]
                  \/ \A i \in 1..Len(t) : s[j].used < t[i].used
           /\ (\A j \in 1..Len(s) : s[j].used <= s[Len(s)].used) => t[Len(t)] = s[Len(s)]
<1>1. Len(s) \in Nat /\ Len(s) > 0
  BY LenProperties
<1>2. PICK k \in 1..Len(s) :
          k = Oldest(s) /\ \A j \in 1..Len(s) : j # k => s[k].used < s[j].used
  BY <1>1, OldestIs
<1>3. /\ t \in Seq(E) /\ Len(t) = Len(s) - 1
      /\ \A i \in 1..Len(t) : t[i] = IF i < k THEN s[i] ELSE s[i + 1]
  <2>1. t = RemoveAt(s, k)
    BY <1>2
  <2>2. /\ t \in Seq(E) /\ Len(t) = Len(s) - 1
        /\ \A i \in 1..(Len(s) - 1) : t[i] = IF i < k THEN s[i] ELSE s[i + 1]
    BY <2>1, Removed
  <2> QED
    BY <2>2
<1>4. \A j \in 1..Len(s) : s[j].used \in Nat
  <2>1. \A j \in 1..Len(s) : s[j] \in E
    BY ElementOfSeq
  <2> QED
    BY <2>1 DEF AreEntries
<1> DEFINE From(i) == IF i < k THEN i ELSE i + 1
<1>5. \A i \in 1..Len(t) : From(i) \in 1..Len(s) /\ From(i) # k /\ t[i] = s[From(i)]
  BY <1>1, <1>3
<1>6. Within(t, s)
  BY <1>5 DEF Within
<1>7. Apart(t)
  <2> SUFFICES ASSUME NEW i \in 1..Len(t), NEW j \in 1..Len(t), t[i].used = t[j].used
               PROVE  i = j
    BY DEF Apart
  <2>1. From(i) = From(j)
    BY <1>5 DEF Apart
  <2> QED
    BY <2>1, <1>1, <1>3
<1>8. ASSUME NEW j \in 1..Len(s), j # k
      PROVE  \E i \in 1..Len(t) : t[i] = s[j]
  <2> DEFINE i == IF j < k THEN j ELSE j - 1
  <2>1. i \in 1..Len(t) /\ From(i) = j
    BY <1>1, <1>3, <1>8
  <2>2. t[i] = s[j]
    BY <2>1, <1>5
  <2> HIDE DEF i
  <2> QED
    BY <2>1, <2>2
<1>9. \A i \in 1..Len(t) : s[k].used < t[i].used
  BY <1>2, <1>5
<1>10. ASSUME \A j \in 1..Len(s) : s[j].used <= s[Len(s)].used
       PROVE  t[Len(t)] = s[Len(s)]
  <2>1. k # Len(s)
    <3> SUFFICES ASSUME k = Len(s)
                 PROVE  FALSE
      OBVIOUS
    <3>1. 1 \in 1..Len(s) /\ 1 # k
      BY <1>1
    <3>2. s[k].used < s[1].used /\ s[1].used <= s[k].used
      BY <3>1, <1>2, <1>10
    <3> QED
      BY <3>1, <3>2, <1>4
  <2>2. Len(t) \in 1..Len(t) /\ From(Len(t)) = Len(s)
    BY <2>1, <1>1, <1>3
  <2> QED
    BY <2>2, <1>5
<1> QED
  BY <1>3, <1>6, <1>7, <1>8, <1>9, <1>10

\* The loop of insert, turn by turn: what goes is older than all that stay.
Pruned(t, s, E) ==
    /\ t \in Seq(E) /\ Len(t) \in 1..Len(s)
    /\ Within(t, s) /\ Apart(t)
    /\ \A j \in 1..Len(s) :
           \/ \E i \in 1..Len(t) : t[i] = s[j]
           \/ \A i \in 1..Len(t) : s[j].used < t[i].used
    /\ (\A j \in 1..Len(s) : s[j].used <= s[Len(s)].used) => t[Len(t)] = s[Len(s)]

LEMMA PrunedFurther ==
    ASSUME NEW E, NEW s \in Seq(E), NEW t, AreEntries(E), Apart(s),
           Pruned(t, s, E), Len(t) > 1
    PROVE  /\ Pruned(RemoveAt(t, Oldest(t)), s, E)
           /\ Len(RemoveAt(t, Oldest(t))) = Len(t) - 1
<1> DEFINE u == RemoveAt(t, Oldest(t))
<1>1. t \in Seq(E) /\ Len(t) \in Nat /\ Len(s) \in Nat /\ Len(t) <= Len(s) /\ Apart(t)
  BY LenProperties DEF Pruned
<1>2. /\ u \in Seq(E) /\ Len(u) = Len(t) - 1
      /\ Within(u, t) /\ Apart(u)
      /\ \A j \in 1..Len(t) :
             \/ \E i \in 1..Len(u) : u[i] = t[j]
             \/ \A i \in 1..Len(u) : t[j].used < u[i].used
      /\ (\A j \in 1..Len(t) : t[j].used <= t[Len(t)].used) => u[Len(u)] = t[Len(t)]
  BY <1>1, OneGoes
<1> HIDE DEF u
<1>3. Within(u, s)
  <2>1. \A i \in 1..Len(u) : \E j \in 1..Len(t) : u[i] = t[j]
    BY <1>2 DEF Within
  <2>2. \A j \in 1..Len(t) : \E k \in 1..Len(s) : t[j] = s[k]
    BY DEF Pruned, Within
  <2>3. \A i \in 1..Len(u) : \E k \in 1..Len(s) : u[i] = s[k]
    BY ONLY <2>1, <2>2
  <2> QED
    BY <2>3 DEF Within
<1>4. ASSUME NEW j \in 1..Len(s), ~(\E i \in 1..Len(u) : u[i] = s[j])
      PROVE  \A i \in 1..Len(u) : s[j].used < u[i].used
  <2>1. CASE \E i \in 1..Len(t) : t[i] = s[j]
    <3>1. PICK i \in 1..Len(t) : t[i] = s[j]
      BY <2>1
    <3> QED
      BY <3>1, <1>2, <1>4
  <2>2. CASE \A i \in 1..Len(t) : s[j].used < t[i].used
    <3>1. \A i \in 1..Len(u) : \E l \in 1..Len(t) : u[i] = t[l]
      BY <1>2 DEF Within
    <3> QED
      BY <3>1, <2>2
  <2> QED
    BY <2>1, <2>2 DEF Pruned
<1>5. ASSUME \A j \in 1..Len(s) : s[j].used <= s[Len(s)].used
      PROVE  u[Len(u)] = s[Len(s)]
  <2>1. t[Len(t)] = s[Len(s)]
    BY <1>5 DEF Pruned
  <2>2. \A j \in 1..Len(t) : t[j].used <= t[Len(t)].used
    BY <2>1, <1>5 DEF Pruned, Within
  <2> QED
    BY <2>1, <2>2, <1>2
<1>6. Len(u) \in 1..Len(s)
  BY <1>1, <1>2
<1>7. Pruned(u, s, E)
  BY <1>2, <1>3, <1>4, <1>5, <1>6 DEF Pruned
<1> QED
  BY <1>2, <1>7 DEF u

LEMMA PrunedAtFirst ==
    ASSUME NEW E, NEW s \in Seq(E), Apart(s), Len(s) > 0
    PROVE  Pruned(s, s, E)
<1>1. Len(s) \in 1..Len(s)
  BY LenProperties
<1>2. Within(s, s)
  BY DEF Within
<1> QED
  BY <1>1, <1>2 DEF Pruned

\* What the loop leaves: within the bounds, the last one put in, and of the
\* others those that were used last.
LEMMA EvictedIs ==
    ASSUME NEW E, NEW s \in Seq(E), AreEntries(E), Apart(s), Len(s) > 0
    PROVE  Pruned(Evicted(s), s, E) /\ ~OverBounds(Evicted(s))
<1> DEFINE N == Len(s)
           A == {t \in Seq(E) : Pruned(t, s, E)}
           Turn == [left \in Seq(Range(s)) |->
                        IF OverBounds(left) THEN RemoveAt(left, Oldest(left)) ELSE left]
           F == [n \in 1..N |-> [t \in A |-> Turn[t]]]
           After == CHOOSE f : f = [n \in 0..N |-> IF n = 0 THEN s ELSE Turn[f[n - 1]]]
<1>1. N \in Nat \ {0} /\ s \in A
  BY PrunedAtFirst, LenProperties
<1>2. ASSUME NEW t \in A
      PROVE  /\ Turn[t] = IF OverBounds(t) THEN RemoveAt(t, Oldest(t)) ELSE t
             /\ Turn[t] \in A
             /\ OverBounds(t) => Len(Turn[t]) = Len(t) - 1
             /\ Len(t) \in Nat
  <2>1. t \in Seq(Range(s))
    <3>1. \A i \in 1..Len(t) : t[i] \in Range(s)
      <4>1. DOMAIN s = 1..Len(s)
        BY LenProperties
      <4> QED
        BY <4>1 DEF Pruned, Within, Range
    <3>2. t \in [1..Len(t) -> Range(s)] /\ Len(t) \in Nat
      BY <3>1, LenProperties
    <3> QED
      BY <3>2, SeqDef
  <2>2. Turn[t] = IF OverBounds(t) THEN RemoveAt(t, Oldest(t)) ELSE t
    BY <2>1
  <2> HIDE DEF Turn
  <2>3. OverBounds(t) => Len(t) > 1
    BY DEF OverBounds
  <2>4. OverBounds(t) => Pruned(Turn[t], s, E) /\ Len(Turn[t]) = Len(t) - 1
    BY <2>2, <2>3, PrunedFurther
  <2>5. \A u : Pruned(u, s, E) => u \in Seq(E)
    BY DEF Pruned
  <2>6. Len(t) \in Nat
    BY LenProperties
  <2>7. Turn[t] \in A
    <3>1. ~OverBounds(t) => Turn[t] = t
      BY <2>2
    <3> QED
      BY <3>1, <2>4, <2>5
  <2> QED
    BY <2>2, <2>4, <2>6, <2>7
<1>3. F \in [1..N -> [A -> A]]
  <2> HIDE DEF Turn, A
  <2> QED
    BY <1>2
<1>4. PICK f : IsRecursion(f, N, A, s, F)
  <2> HIDE DEF F, A, N
  <2>1. N \in Nat
    BY <1>1
  <2> QED
    BY <2>1, <1>1, <1>3, Recursion
<1>5. f = [n \in 0..N |-> IF n = 0 THEN s ELSE Turn[f[n - 1]]]
  <2> HIDE DEF Turn
  <2>1. ASSUME NEW n \in 0..N
        PROVE  f[n] = IF n = 0 THEN s ELSE Turn[f[n - 1]]
    <3>1. CASE n = 0
      BY <3>1, <1>4 DEF IsRecursion
    <3>2. CASE n # 0
      <4>1. n \in 1..N /\ n - 1 \in 0..N
        BY <3>2, <1>1
      <4>2. f[n - 1] \in A /\ f[n] = F[n][f[n - 1]]
        <5> HIDE DEF F, A
        <5> QED
          BY <4>1, <3>2, <1>4 DEF IsRecursion
      <4> HIDE DEF A
      <4> QED
        BY <4>1, <4>2, <3>2
    <3> QED
      BY <3>1, <3>2
  <2>2. f = [n \in 0..N |-> f[n]]
    BY <1>4 DEF IsRecursion
  <2> QED
    BY <2>1, <2>2
<1>6. After = [n \in 0..N |-> IF n = 0 THEN s ELSE Turn[After[n - 1]]]
  BY <1>5
<1>7. Evicted(s) = After[N]
  BY DEF Evicted
<1> HIDE DEF After, Turn
<1>8. After[0] = s /\ \A n \in Nat : n + 1 <= N => After[n + 1] = Turn[After[n]]
  <2>1. After[0] = s
    BY <1>1, <1>6
  <2>2. ASSUME NEW n \in Nat, n + 1 <= N
        PROVE  After[n + 1] = Turn[After[n]]
    <3>1. n + 1 \in 0..N /\ n + 1 # 0 /\ (n + 1) - 1 = n
      BY <2>2, <1>1
    <3> QED
      BY <3>1, <1>6
  <2> QED
    BY <2>1, <2>2
<1> DEFINE T == {n \in Nat : n <= N =>
                    After[n] \in A /\ (OverBounds(After[n]) => Len(After[n]) <= N - n)}
<1> HIDE DEF A
<1>9. 0 \in T
  BY <1>1, <1>8
<1>10. \A n \in T : n + 1 \in T
  <2> SUFFICES ASSUME NEW n \in T, n + 1 <= N
               PROVE  /\ After[n + 1] \in A
                      /\ OverBounds(After[n + 1]) => Len(After[n + 1]) <= N - (n + 1)
    BY DEF T
  <2>1. n \in Nat /\ After[n] \in A /\ (OverBounds(After[n]) => Len(After[n]) <= N - n)
    BY <1>1
  <2>2. After[n + 1] = Turn[After[n]]
    BY <2>1, <1>8
  <2>3. After[n + 1] \in A
    BY <2>1, <2>2, <1>2
  <2>4. ASSUME OverBounds(After[n + 1])
        PROVE  Len(After[n + 1]) <= N - (n + 1)
    <3>1. OverBounds(After[n])
      BY <2>1, <2>2, <2>4, <1>2
    <3>2. Len(After[n + 1]) = Len(After[n]) - 1 /\ Len(After[n]) \in Nat
      BY <3>1, <2>1, <2>2, <1>2
    <3> QED
      BY <3>1, <3>2, <2>1, <1>1
  <2> QED
    BY <2>3, <2>4
<1> HIDE DEF T
<1>11. N \in T
  <2>1. T \in SUBSET Nat
    BY DEF T
  <2> QED
    BY <2>1, <1>1, <1>9, <1>10, NumberInduction
<1>12. After[N] \in A /\ (OverBounds(After[N]) => Len(After[N]) <= 0)
  BY <1>1, <1>11 DEF T
<1> QED
  BY <1>7, <1>12, <1>2 DEF OverBounds, A

\* What retain keeps of the first n entries.
RetainedOf(t, n, s, key, E) ==
    /\ t \in Seq(E)
    /\ Apart(t)
    /\ \A i \in 1..Len(t) : \E j \in 1..n : t[i] = s[j] /\ s[j].key # key
    /\ \A j \in 1..n : s[j].key # key => \E i \in 1..Len(t) : t[i] = s[j]

LEMMA RetainedFurther ==
    ASSUME NEW E, NEW s \in Seq(E), NEW key, NEW n \in Nat, NEW t,
           Apart(s), n + 1 <= Len(s), RetainedOf(t, n, s, key, E)
    PROVE  RetainedOf(IF s[n + 1].key = key THEN t ELSE Append(t, s[n + 1]), n + 1, s, key, E)
<1>1. n + 1 \in 1..Len(s) /\ Len(s) \in Nat /\ \A j \in 1..n : j \in 1..(n + 1)
  BY LenProperties
<1>2. \A j \in 1..(n + 1) : j \in 1..n \/ j = n + 1
  OBVIOUS
<1>3. s[n + 1] \in E /\ t \in Seq(E) /\ Len(t) \in Nat
  BY <1>1, ElementOfSeq, LenProperties DEF RetainedOf
<1>4. CASE s[n + 1].key = key
  <2>1. RetainedOf(t, n + 1, s, key, E)
    BY <1>1, <1>2, <1>4 DEF RetainedOf
  <2> QED
    BY <2>1, <1>4
<1>5. CASE s[n + 1].key # key
  <2> DEFINE u == Append(t, s[n + 1])
  <2>1. /\ u \in Seq(E) /\ Len(u) = Len(t) + 1
        /\ \A i \in 1..Len(t) : u[i] = t[i]
        /\ u[Len(t) + 1] = s[n + 1]
    BY <1>3, AppendProperties
  <2> HIDE DEF u
  <2>2. \A i \in 1..Len(u) : i \in 1..Len(t) \/ i = Len(t) + 1
    BY <2>1, <1>3
  <2>3. ASSUME NEW i \in 1..Len(u)
        PROVE  \E j \in 1..(n + 1) : u[i] = s[j] /\ s[j].key # key
    <3>1. CASE i \in 1..Len(t)
      BY <3>1, <2>1, <1>1 DEF RetainedOf
    <3>2. CASE i = Len(t) + 1
      <4>1. n + 1 \in 1..(n + 1)
        OBVIOUS
      <4> QED
        BY <4>1, <3>2, <2>1, <1>5
    <3> QED
      BY <3>1, <3>2, <2>2
  <2>4. ASSUME NEW j \in 1..(n + 1), s[j].key # key
        PROVE  \E i \in 1..Len(u) : u[i] = s[j]
    <3>1. CASE j \in 1..n
      <4>1. PICK i \in 1..Len(t) : t[i] = s[j]
        BY <3>1, <2>4 DEF RetainedOf
      <4>2. i \in 1..Len(u)
        BY <2>1, <1>3
      <4> QED
        BY <4>1, <4>2, <2>1
    <3>2. CASE j = n + 1
      <4>1. Len(t) + 1 \in 1..Len(u)
        BY <2>1, <1>3
      <4> QED
        BY <4>1, <3>2, <2>1
    <3> QED
      BY <3>1, <3>2, <1>2
  <2>5. ASSUME NEW i \in 1..Len(t)
        PROVE  t[i].used # s[n + 1].used
    <3>1. PICK j \in 1..n : t[i] = s[j]
      BY DEF RetainedOf
    <3>2. j \in 1..Len(s) /\ j # n + 1
      BY <1>1
    <3> QED
      BY <3>1, <3>2, <1>1 DEF Apart
  <2>6. Apart(u)
    <3> SUFFICES ASSUME NEW i \in 1..Len(u), NEW j \in 1..Len(u), u[i].used = u[j].used
                 PROVE  i = j
      BY DEF Apart
    <3>1. CASE i \in 1..Len(t) /\ j \in 1..Len(t)
      BY <3>1, <2>1 DEF RetainedOf, Apart
    <3>2. CASE ~(i \in 1..Len(t) /\ j \in 1..Len(t))
      BY <3>2, <2>1, <2>2, <2>5
    <3> QED
      BY <3>1, <3>2
  <2>7. RetainedOf(u, n + 1, s, key, E)
    BY <2>1, <2>3, <2>4, <2>6 DEF RetainedOf
  <2> QED
    BY <2>7, <1>5 DEF u
<1> QED
  BY <1>4, <1>5

LEMMA WithoutIs ==
    ASSUME NEW E, NEW s \in Seq(E), NEW key, Apart(s)
    PROVE  RetainedOf(Without(s, key), Len(s), s, key, E)
<1> DEFINE N == Len(s)
           A == Seq(E)
           Turn(n, t) == IF s[n].key = key THEN t ELSE Append(t, s[n])
           F == [n \in 1..N |-> [t \in A |-> Turn(n, t)]]
           Upto == CHOOSE f : f = [n \in 0..N |->
                       IF n = 0 THEN <<>>
                       ELSE IF s[n].key = key THEN f[n - 1]
                       ELSE Append(f[n - 1], s[n])]
<1>1. N \in Nat /\ <<>> \in A /\ \A n \in 1..N : s[n] \in E
  BY LenProperties, ElementOfSeq
<1>2. F \in [1..N -> [A -> A]]
  <2>1. \A n \in 1..N : \A t \in A : Turn(n, t) \in A
    BY <1>1, AppendProperties
  <2> HIDE DEF Turn, A
  <2> QED
    BY <2>1
<1>3. PICK f : IsRecursion(f, N, A, <<>>, F)
  <2> HIDE DEF F, A, N
  <2> QED
    BY <1>1, <1>2, Recursion
<1>4. f = [n \in 0..N |->
              IF n = 0 THEN <<>>
              ELSE IF s[n].key = key THEN f[n - 1]
              ELSE Append(f[n - 1], s[n])]
  <2>1. ASSUME NEW n \in 0..N
        PROVE  f[n] = IF n = 0 THEN <<>> ELSE Turn(n, f[n - 1])
    <3>1. CASE n = 0
      BY <3>1, <1>3 DEF IsRecursion
    <3>2. CASE n # 0
      <4>1. n \in 1..N /\ n - 1 \in 0..N
        BY <3>2, <1>1
      <4>2. f[n - 1] \in A /\ f[n] = F[n][f[n - 1]]
        <5> HIDE DEF F, A
        <5> QED
          BY <4>1, <3>2, <1>3 DEF IsRecursion
      <4> HIDE DEF A, Turn
      <4> QED
        BY <4>1, <4>2, <3>2
    <3> QED
      BY <3>1, <3>2
  <2>2. f = [n \in 0..N |-> f[n]]
    BY <1>3 DEF IsRecursion
  <2>3. f = [n \in 0..N |-> IF n = 0 THEN <<>> ELSE Turn(n, f[n - 1])]
    <3> HIDE DEF Turn
    <3> QED
      BY <2>1, <2>2
  <2> QED
    BY <2>3
<1>5. Upto = [n \in 0..N |->
                 IF n = 0 THEN <<>>
                 ELSE IF s[n].key = key THEN Upto[n - 1]
                 ELSE Append(Upto[n - 1], s[n])]
  BY <1>4
<1>6. Without(s, key) = Upto[N]
  BY DEF Without
<1> HIDE DEF Upto
<1>7. Upto[0] = <<>> /\ \A n \in Nat : n + 1 <= N => Upto[n + 1] = Turn(n + 1, Upto[n])
  <2>1. Upto[0] = <<>>
    BY <1>1, <1>5
  <2>2. ASSUME NEW n \in Nat, n + 1 <= N
        PROVE  Upto[n + 1] = Turn(n + 1, Upto[n])
    <3>1. n + 1 \in 0..N /\ n + 1 # 0 /\ (n + 1) - 1 = n
      BY <2>2, <1>1
    <3> QED
      BY <3>1, <1>5
  <2> QED
    BY <2>1, <2>2
<1> DEFINE T == {n \in Nat : n <= N => RetainedOf(Upto[n], n, s, key, E)}
<1>8. 0 \in T
  <2>1. Len(<<>>) = 0
    OBVIOUS
  <2>2. RetainedOf(<<>>, 0, s, key, E)
    BY <1>1, <2>1 DEF RetainedOf, Apart
  <2> QED
    BY <2>2, <1>7
<1>9. \A n \in T : n + 1 \in T
  <2> SUFFICES ASSUME NEW n \in T, n + 1 <= N
               PROVE  RetainedOf(Upto[n + 1], n + 1, s, key, E)
    OBVIOUS
  <2>1. n \in Nat /\ RetainedOf(Upto[n], n, s, key, E)
    BY <1>1
  <2> HIDE DEF T
  <2> QED
    BY <2>1, <1>7, RetainedFurther
<1> HIDE DEF T
<1>10. N \in T
  <2>1. T \in SUBSET Nat
    BY DEF T
  <2> QED
    BY <2>1, <1>1, <1>8, <1>9, NumberInduction
<1> QED
  BY <1>1, <1>6, <1>10 DEF T

\* No key has two entries.
OnePerKey(s) == \A i, j \in 1..Len(s) : s[i].key = s[j].key => i = j

\* insert with a stamp of its own, later than all there are.
LEMMA InsertIs ==
    ASSUME NEW E, NEW s \in Seq(E), NEW key, NEW held, NEW size, NEW now,
           AreEntries(E), Apart(s), Entry(key, held, size, now) \in E,
           \A i \in 1..Len(s) : s[i].used < now
    PROVE  LET t == Insert(s, key, held, size, now)
               e == Entry(key, held, size, now)
           IN  /\ t \in Seq(E) /\ Len(t) \in Nat \ {0}
               /\ ~OverBounds(t) /\ Apart(t)
               /\ t[Len(t)] = e
               /\ \A i \in 1..Len(t) : t[i] = e \/ \E j \in 1..Len(s) : t[i] = s[j] /\ s[j].key # key
               /\ \A j \in 1..Len(s) :
                      \/ s[j].key = key
                      \/ \E i \in 1..Len(t) : t[i] = s[j]
                      \/ \A i \in 1..Len(t) : s[j].used < t[i].used
               /\ OnePerKey(s) => OnePerKey(t)
<1> DEFINE e == Entry(key, held, size, now)
           w == Without(s, key)
           a == Append(w, e)
           t == Insert(s, key, held, size, now)
<1>1. e.key = key /\ e.used = now /\ now \in Nat
  BY DEF Entry, AreEntries
<1>2. RetainedOf(w, Len(s), s, key, E)
  BY WithoutIs
<1>3. t = Evicted(a)
  BY DEF Insert
<1> HIDE DEF e, w
<1>4. w \in Seq(E) /\ Len(w) \in Nat /\ e \in E
  BY <1>2, LenProperties DEF RetainedOf, e
<1>5. /\ a \in Seq(E) /\ Len(a) = Len(w) + 1
      /\ \A i \in 1..Len(w) : a[i] = w[i]
      /\ a[Len(w) + 1] = e
  BY <1>4, AppendProperties
<1> HIDE DEF a, t
<1>6. \A i \in 1..Len(a) : i \in 1..Len(w) \/ i = Len(w) + 1
  BY <1>4, <1>5
<1>7. \A i \in 1..Len(w) : w[i].used < now
  BY <1>2 DEF RetainedOf
<1>8. Apart(a)
  <2> SUFFICES ASSUME NEW i \in 1..Len(a), NEW j \in 1..Len(a), a[i].used = a[j].used
               PROVE  i = j
    BY DEF Apart
  <2>1. \A n \in 1..Len(w) : w[n].used # now
    <3> SUFFICES ASSUME NEW n \in 1..Len(w), w[n].used = now
                 PROVE  FALSE
      OBVIOUS
    <3> QED
      BY <1>1, <1>7
  <2>2. CASE i \in 1..Len(w) /\ j \in 1..Len(w)
    BY <2>2, <1>2, <1>5 DEF RetainedOf, Apart
  <2>3. CASE ~(i \in 1..Len(w) /\ j \in 1..Len(w))
    BY <2>1, <2>3, <1>1, <1>5, <1>6
  <2> QED
    BY <2>2, <2>3
<1>9. Pruned(t, a, E) /\ ~OverBounds(t)
  <2>1. Len(a) > 0
    BY <1>4, <1>5
  <2> QED
    BY <2>1, <1>3, <1>5, <1>8, EvictedIs
<1>10. t \in Seq(E) /\ Len(t) \in Nat \ {0} /\ Apart(t)
  BY <1>4, <1>5, <1>9 DEF Pruned
<1>11. t[Len(t)] = e
  <2>1. \A j \in 1..Len(a) : a[j].used <= a[Len(a)].used
    <3> SUFFICES ASSUME NEW j \in 1..Len(a)
                 PROVE  a[j].used <= now
      BY <1>1, <1>5
    <3>1. CASE j = Len(w) + 1
      BY <3>1, <1>1, <1>5
    <3>2. CASE j \in 1..Len(w)
      <4>1. w[j] \in E
        BY <3>2, <1>4, ElementOfSeq
      <4> QED
        BY <4>1, <3>2, <1>1, <1>5, <1>7 DEF AreEntries
    <3> QED
      BY <3>1, <3>2, <1>6
  <2> QED
    BY <2>1, <1>5, <1>9 DEF Pruned
<1>12. ASSUME NEW i \in 1..Len(t)
       PROVE  t[i] = e \/ \E j \in 1..Len(s) : t[i] = s[j] /\ s[j].key # key
  <2>1. PICK n \in 1..Len(a) : t[i] = a[n]
    BY <1>9 DEF Pruned, Within
  <2>2. CASE n = Len(w) + 1
    BY <2>1, <2>2, <1>5
  <2>3. CASE n \in 1..Len(w)
    BY <2>1, <2>3, <1>2, <1>5 DEF RetainedOf
  <2> QED
    BY <2>2, <2>3, <1>6
<1>13. ASSUME NEW j \in 1..Len(s), s[j].key # key
       PROVE  \/ \E i \in 1..Len(t) : t[i] = s[j]
              \/ \A i \in 1..Len(t) : s[j].used < t[i].used
  <2>1. PICK n \in 1..Len(w) : w[n] = s[j]
    BY <1>2, <1>13 DEF RetainedOf
  <2>2. n \in 1..Len(a) /\ a[n] = s[j]
    BY <2>1, <1>4, <1>5
  <2> QED
    BY <2>2, <1>9 DEF Pruned
<1>14. ASSUME OnePerKey(s)
       PROVE  OnePerKey(t)
  <2> SUFFICES ASSUME NEW i \in 1..Len(t), NEW j \in 1..Len(t), t[i].key = t[j].key
               PROVE  i = j
    BY DEF OnePerKey
  <2>1. t[i] = t[j]
    <3>1. CASE t[i] = e \/ t[j] = e
      BY <3>1, <1>1, <1>12
    <3>2. CASE t[i] # e /\ t[j] # e
      <4>1. PICK m \in 1..Len(s) : t[i] = s[m]
        BY <3>2, <1>12
      <4>2. PICK n \in 1..Len(s) : t[j] = s[n]
        BY <3>2, <1>12
      <4>3. m = n
        BY <4>1, <4>2, <1>14 DEF OnePerKey
      <4> QED
        BY <4>1, <4>2, <4>3
    <3> QED
      BY <3>1, <3>2
  <2> QED
    BY <2>1, <1>10 DEF Apart
<1> QED
  BY <1>9, <1>10, <1>11, <1>12, <1>13, <1>14 DEF t, e

-----------------------------------------------------------------------------

(***************************************************************************)
(* The invariant of DecodeCache.                                           *)
(***************************************************************************)

Keys == [dg : Nat, cg : Nat]

Cached == [key : Keys, value : Keys, size : Nat, used : Nat]

Places == {"idle", "lookup", "stamp", "assemble", "gather", "store", "done"}

CacheTypeOK ==
    /\ file \in Files
    /\ phase \in {"indexing", "seeding", "shared"}
    /\ at \in Nat \ {0}
    /\ seeds \in Seq(DOMAIN file)
    /\ seeded \in Nat
    /\ cache \in [Caches -> [entries : Seq(Cached), clock : Nat]]
    /\ locked \in [Caches -> SUBSET Readers]
    /\ pc \in [Readers -> Places]
    /\ level \in [Readers -> Caches]
    /\ request \in [Readers -> Keys]
    /\ tick \in [Readers -> Nat]
    /\ value \in [Readers -> Keys]
    /\ answer \in [Readers -> Keys]

\* A cache between two operations on it: each key once, each stamp once and
\* taken before now, what is held under a key is the key's, within the bounds.
Sound(c) ==
    LET s == cache[c].entries IN
        /\ Apart(s)
        /\ OnePerKey(s)
        /\ ~OverBounds(s)
        /\ \A i \in 1..Len(s) : s[i].value = s[i].key /\ s[i].used < cache[c].clock

Stamping(r, c) == pc[r] = "stamp" /\ level[r] = c

\* A reader between taking its stamp and storing it holds the read lock, so
\* its entry is still there, and nothing else has that stamp.
Pending(r, c) ==
    Stamping(r, c) =>
        /\ r \in locked[c]
        /\ Holds(cache[c].entries, KeyOf(c, request[r]))
        /\ tick[r] < cache[c].clock
        /\ \A i \in 1..Len(cache[c].entries) : cache[c].entries[i].used # tick[r]
        /\ \A q \in Readers : Stamping(q, c) /\ tick[q] = tick[r] => q = r

\* What a reader holds is what it asked for, or the stream that is in.
InHand(r) ==
    /\ pc[r] # "idle" => phase = "shared" /\ request[r] \in Groups
    /\ pc[r] = "assemble" => level[r] = "raw"
    /\ pc[r] = "store" => value[r] = Key(r)
    /\ pc[r] = "gather" => level[r] = "raw" /\ value[r] = Key(r)
    /\ pc[r] = "done" => value[r] \in {request[r], Nothing}
    /\ pc[r] = "idle" => answer[r] \in {request[r], Nothing}

Seeded ==
    (\A d \in DOMAIN file : file[d].bytes <= file[d].total /\ file[d].total <= FileSize)
        => seeded < 2 * MaxBytes \/ seeded = 0

CacheInv ==
    /\ CacheTypeOK
    /\ \A c \in Caches : Sound(c)
    /\ \A r \in Readers : \A c \in Caches : Pending(r, c)
    /\ \A r \in Readers : InHand(r)
    /\ Seeded

(***************************************************************************)
(* Steps that leave the caches alone.                                      *)
(***************************************************************************)

\* What a channel group or a stream takes is a number of bytes.
LEMMA GroupsHaveSizes ==
    ASSUME CacheTypeOK
    PROVE  /\ Groups \subseteq Keys
           /\ \A q \in Groups : \A c \in Caches : SizeOf(c, q) \in Nat /\ KeyOf(c, q) \in Keys
           /\ \A d \in DOMAIN file : SizeOf("raw", [dg |-> d, cg |-> 0]) \in Nat
<1>1. file \in Seq(DataGroup) /\ DOMAIN file = 1..Len(file) /\ Len(file) \in Nat
  <2>1. file \in Seq(DataGroup)
    BY DecodeAssumption DEF CacheTypeOK
  <2> QED
    BY <2>1, LenProperties
<1>2. \A d \in DOMAIN file : file[d].bytes \in Nat /\ file[d].records \in Seq(Nat)
  <2>1. \A d \in DOMAIN file : file[d] \in DataGroup
    BY <1>1, ElementOfSeq
  <2> QED
    BY <2>1 DEF DataGroup
<1>3. ASSUME NEW q \in Groups
      PROVE  /\ q \in Keys /\ q.dg \in DOMAIN file
             /\ q.cg \in DOMAIN file[q.dg].records
             /\ file[q.dg].records[q.cg] \in Nat
  <2>1. PICK d \in DOMAIN file : q \in {[dg |-> d, cg |-> g] : g \in DOMAIN file[d].records}
    BY DEF Groups
  <2>2. PICK g \in DOMAIN file[d].records : q = [dg |-> d, cg |-> g]
    BY <2>1
  <2>3. file[d].records \in Seq(Nat)
    BY <1>2
  <2>4. g \in 1..Len(file[d].records) /\ Len(file[d].records) \in Nat
    BY <2>3, LenProperties
  <2>5. file[d].records[g] \in Nat
    BY <2>3, <2>4, ElementOfSeq
  <2> QED
    BY <2>2, <2>4, <2>5, <1>1 DEF Keys
<1>4. \A q \in Groups : \A c \in Caches : SizeOf(c, q) \in Nat /\ KeyOf(c, q) \in Keys
  BY <1>2, <1>3 DEF SizeOf, KeyOf, Keys
<1>5. \A d \in DOMAIN file : SizeOf("raw", [dg |-> d, cg |-> 0]) \in Nat
  BY <1>2 DEF SizeOf
<1> QED
  BY <1>3, <1>4, <1>5

\* A reader goes on to place p and level l, with request q, value v and answer a.
Becomes(r, p, l, q, v, a) ==
    /\ pc' = [pc EXCEPT ![r] = p]
    /\ level' = [level EXCEPT ![r] = l]
    /\ request' = [request EXCEPT ![r] = q]
    /\ value' = [value EXCEPT ![r] = v]
    /\ answer' = [answer EXCEPT ![r] = a]

\* As it may: InHand holds there.
MayBe(p, l, q, v, a) ==
    /\ p \in Places /\ l \in Caches /\ q \in Keys /\ v \in Keys /\ a \in Keys
    /\ p # "idle" => phase = "shared" /\ q \in Groups
    /\ p = "assemble" => l = "raw"
    /\ p = "store" => v = KeyOf(l, q)
    /\ p = "gather" => l = "raw" /\ v = KeyOf(l, q)
    /\ p = "done" => v \in {q, Nothing}
    /\ p = "idle" => a \in {q, Nothing}

LEMMA ReaderBecomes ==
    ASSUME NEW r \in Readers, NEW p, NEW l, NEW q, NEW v, NEW a,
           CacheTypeOK, \A o \in Readers : InHand(o),
           UNCHANGED file, phase' = phase,
           Becomes(r, p, l, q, v, a), MayBe(p, l, q, v, a)
    PROVE  /\ pc' \in [Readers -> Places] /\ level' \in [Readers -> Caches]
           /\ request' \in [Readers -> Keys] /\ value' \in [Readers -> Keys]
           /\ answer' \in [Readers -> Keys]
           /\ pc'[r] = p /\ level'[r] = l /\ request'[r] = q
           /\ \A o \in Readers \ {r} :
                  pc'[o] = pc[o] /\ level'[o] = level[o] /\ request'[o] = request[o]
           /\ \A o \in Readers : InHand(o)'
<1>1. /\ pc' \in [Readers -> Places] /\ level' \in [Readers -> Caches]
      /\ request' \in [Readers -> Keys] /\ value' \in [Readers -> Keys]
      /\ answer' \in [Readers -> Keys]
  BY DEF CacheTypeOK, Becomes, MayBe
<1>2. /\ pc'[r] = p /\ level'[r] = l /\ request'[r] = q /\ value'[r] = v /\ answer'[r] = a
      /\ \A o \in Readers \ {r} :
             /\ pc'[o] = pc[o] /\ level'[o] = level[o] /\ request'[o] = request[o]
             /\ value'[o] = value[o] /\ answer'[o] = answer[o]
  BY DEF CacheTypeOK, Becomes
<1>3. Groups' = Groups
  BY DEF Groups
<1>4. InHand(r)'
  BY <1>2, <1>3 DEF InHand, Key, MayBe
<1>5. ASSUME NEW o \in Readers \ {r}
      PROVE  InHand(o)'
  <2>1. InHand(o)
    OBVIOUS
  <2>2. Key(o)' = Key(o)
    BY <1>2 DEF Key
  <2> QED
    BY <2>1, <2>2, <1>2, <1>3 DEF InHand
<1> QED
  BY <1>1, <1>2, <1>4, <1>5

\* A reader goes on without touching a cache, a lock or a stamp.
LEMMA ReaderMoves ==
    ASSUME NEW r \in Readers, NEW p, NEW l, NEW q, NEW v, NEW a,
           CacheInv,
           UNCHANGED <<openVars, cache, locked, tick>>,
           pc[r] # "stamp", p # "stamp",
           Becomes(r, p, l, q, v, a), MayBe(p, l, q, v, a)
    PROVE  CacheInv'
<1> USE DEF openVars
<1>1. /\ pc' \in [Readers -> Places] /\ level' \in [Readers -> Caches]
      /\ request' \in [Readers -> Keys] /\ value' \in [Readers -> Keys]
      /\ answer' \in [Readers -> Keys]
      /\ pc'[r] = p /\ level'[r] = l /\ request'[r] = q
      /\ \A o \in Readers \ {r} :
             pc'[o] = pc[o] /\ level'[o] = level[o] /\ request'[o] = request[o]
      /\ \A o \in Readers : InHand(o)'
  BY ReaderBecomes DEF CacheInv
<1>2. CacheTypeOK'
  BY <1>1 DEF CacheInv, CacheTypeOK
<1>3. \A c \in Caches : Sound(c)'
  BY DEF CacheInv, Sound
<1>4. \A o \in Readers : \A c \in Caches : Stamping(o, c)' <=> Stamping(o, c)
  BY <1>1 DEF Stamping
<1>5. \A o \in Readers : \A c \in Caches : Pending(o, c)'
  <2> SUFFICES ASSUME NEW o \in Readers, NEW c \in Caches, Stamping(o, c)'
               PROVE  Pending(o, c)'
    BY DEF Pending
  <2>1. Stamping(o, c) /\ o # r /\ Pending(o, c)
    BY <1>4 DEF Stamping, CacheInv
  <2>2. request'[o] = request[o]
    BY <2>1, <1>1
  <2> QED
    BY <2>1, <2>2, <1>4 DEF Pending
<1>6. Seeded'
  BY DEF CacheInv, Seeded
<1> QED
  BY <1>1, <1>2, <1>3, <1>5, <1>6 DEF CacheInv

\* What that takes of the reader itself.
LEMMA AReader ==
    ASSUME CacheInv, NEW r \in Readers
    PROVE  /\ pc[r] \in Places /\ level[r] \in Caches
           /\ request[r] \in Keys /\ value[r] \in Keys /\ answer[r] \in Keys
           /\ level = [level EXCEPT ![r] = level[r]]
           /\ request = [request EXCEPT ![r] = request[r]]
           /\ value = [value EXCEPT ![r] = value[r]]
           /\ answer = [answer EXCEPT ![r] = answer[r]]
           /\ pc = [pc EXCEPT ![r] = pc[r]]
           /\ InHand(r) /\ Nothing \in Keys
           /\ KeyOf("record", request[r]) = request[r]
           /\ KeyOf(level[r], request[r]) = Key(r)
           /\ Key(r) \in Keys
  BY DEF CacheInv, CacheTypeOK, Nothing, Keys, KeyOf, Key, Caches

LEMMA AskKeeps == ASSUME CacheInv, NEW r \in Readers, Ask(r) PROVE CacheInv'
<1>1. PICK q \in Groups : request' = [request EXCEPT ![r] = q]
  BY DEF Ask
<1>2. q \in Keys
  BY <1>1, GroupsHaveSizes DEF CacheInv
<1>3. Becomes(r, "lookup", "record", q, value[r], answer[r])
  BY <1>1, AReader DEF Ask, Go, Becomes
<1>4. MayBe("lookup", "record", q, value[r], answer[r])
  BY <1>2, AReader DEF Ask, MayBe, Places, Caches
<1>5. UNCHANGED <<openVars, cache, locked, tick>> /\ pc[r] # "stamp"
  BY DEF Ask
<1> QED
  BY <1>3, <1>4, <1>5, ReaderMoves

LEMMA MissKeeps == ASSUME CacheInv, NEW r \in Readers, Miss(r) PROVE CacheInv'
<1> DEFINE p == IF level[r] = "record" THEN "lookup" ELSE "assemble"
<1>1. pc[r] = "lookup" /\ UNCHANGED <<openVars, cache, locked, tick>>
  BY DEF Miss
<1>2. Becomes(r, p, "raw", request[r], value[r], answer[r])
  BY AReader DEF Miss, Go, Becomes, Caches
<1>3. MayBe(p, "raw", request[r], value[r], answer[r])
  BY <1>1, AReader DEF MayBe, Places, Caches, InHand
<1>4. p # "stamp"
  OBVIOUS
<1> HIDE DEF p
<1> QED
  BY <1>1, <1>2, <1>3, <1>4, ReaderMoves

LEMMA AssembleKeeps ==
    ASSUME CacheInv, NEW r \in Readers, Assemble(r) \/ AssembleFails(r) PROVE CacheInv'
<1>1. pc[r] = "assemble" /\ UNCHANGED <<openVars, cache, locked, tick>>
  BY DEF Assemble, AssembleFails
<1>2. CASE Assemble(r)
  <2>1. Becomes(r, "store", level[r], request[r], Key(r), answer[r])
    BY <1>2, AReader DEF Assemble, Go, Becomes
  <2>2. MayBe("store", level[r], request[r], Key(r), answer[r])
    BY <1>1, AReader DEF MayBe, Places, InHand
  <2> QED
    BY <1>1, <2>1, <2>2, ReaderMoves
<1>3. CASE AssembleFails(r)
  <2>1. Becomes(r, "done", level[r], request[r], Nothing, answer[r])
    BY <1>3, AReader DEF AssembleFails, Go, Becomes
  <2>2. MayBe("done", level[r], request[r], Nothing, answer[r])
    BY <1>1, AReader DEF MayBe, Places, InHand
  <2> QED
    BY <1>1, <2>1, <2>2, ReaderMoves
<1> QED
  BY <1>2, <1>3

LEMMA GatherKeeps == ASSUME CacheInv, NEW r \in Readers, Gather(r) PROVE CacheInv'
<1>1. pc[r] = "gather" /\ UNCHANGED <<openVars, cache, locked, tick>>
  BY DEF Gather
<1>2. /\ level[r] = "raw" /\ value[r] = KeyOf("raw", request[r])
      /\ phase = "shared" /\ request[r] \in Groups
  BY <1>1, AReader DEF InHand
<1>3. [dg |-> value[r].dg, cg |-> request[r].cg] = request[r]
  BY <1>2, AReader DEF KeyOf, Keys
<1>4. Becomes(r, "store", "record", request[r], request[r], answer[r])
  BY <1>3, AReader DEF Gather, Go, Becomes
<1>5. MayBe("store", "record", request[r], request[r], answer[r])
  BY <1>2, AReader DEF MayBe, Places, Caches
<1> QED
  BY <1>1, <1>4, <1>5, ReaderMoves

LEMMA FinishKeeps == ASSUME CacheInv, NEW r \in Readers, Finish(r) PROVE CacheInv'
<1>1. pc[r] = "done" /\ UNCHANGED <<openVars, cache, locked, tick>>
  BY DEF Finish
<1>2. Becomes(r, "idle", level[r], request[r], value[r], value[r])
  BY AReader DEF Finish, Go, Becomes
<1>3. MayBe("idle", level[r], request[r], value[r], value[r])
  BY <1>1, AReader DEF MayBe, Places, InHand
<1> QED
  BY <1>1, <1>2, <1>3, ReaderMoves

(***************************************************************************)
(* Steps on a cache.                                                       *)
(***************************************************************************)

\* What insert does to a cache no reader is stamping an entry of.
Took(c, key) ==
    /\ cache' \in [Caches -> [entries : Seq(Cached), clock : Nat]]
    /\ \A b \in Caches \ {c} : cache'[b] = cache[b]
    /\ Sound(c)'
    /\ Holds(cache'[c].entries, key)
    /\ \A j \in 1..Len(cache[c].entries) :
           \/ Holds(cache'[c].entries, cache[c].entries[j].key)
           \/ \A k \in 1..Len(cache'[c].entries) :
                  cache[c].entries[j].used < cache'[c].entries[k].used

LEMMA EntriesOf ==
    ASSUME CacheTypeOK, NEW c \in Caches
    PROVE  /\ cache[c] \in [entries : Seq(Cached), clock : Nat]
           /\ cache[c].entries \in Seq(Cached) /\ cache[c].clock \in Nat
           /\ Len(cache[c].entries) \in Nat
           /\ DOMAIN cache[c].entries = 1..Len(cache[c].entries)
           /\ \A i \in 1..Len(cache[c].entries) : cache[c].entries[i] \in Cached
           /\ AreEntries(Cached)
<1>1. cache[c] \in [entries : Seq(Cached), clock : Nat]
  BY DEF CacheTypeOK
<1>2. cache[c].entries \in Seq(Cached) /\ cache[c].clock \in Nat
  BY <1>1
<1>3. AreEntries(Cached)
  BY DEF AreEntries, Cached
<1> QED
  BY <1>1, <1>2, <1>3, LenProperties, ElementOfSeq

LEMMA PutTakes ==
    ASSUME CacheTypeOK, NEW c \in Caches, NEW q, NEW v,
           Sound(c), KeyOf(c, q) \in Keys, SizeOf(c, q) \in Nat, v = KeyOf(c, q),
           Put(c, q, v)
    PROVE  Took(c, KeyOf(c, q))
<1> DEFINE s == cache[c].entries
           now == cache[c].clock
           key == KeyOf(c, q)
           size == SizeOf(c, q)
           e == Entry(key, v, size, now)
           t == Insert(s, key, v, size, now)
<1>1. /\ s \in Seq(Cached) /\ now \in Nat /\ Len(s) \in Nat
      /\ \A i \in 1..Len(s) : s[i] \in Cached
      /\ AreEntries(Cached)
  BY EntriesOf
<1>2. /\ Apart(s) /\ OnePerKey(s)
      /\ \A i \in 1..Len(s) : s[i].value = s[i].key /\ s[i].used < now
  BY DEF Sound
<1>3. e \in Cached /\ e.key = key /\ e.value = key /\ e.used = now
  BY <1>1 DEF Entry, Cached
<1>4. /\ t \in Seq(Cached) /\ Len(t) \in Nat \ {0}
      /\ ~OverBounds(t) /\ Apart(t)
      /\ t[Len(t)] = e
      /\ \A i \in 1..Len(t) : t[i] = e \/ \E j \in 1..Len(s) : t[i] = s[j] /\ s[j].key # key
      /\ \A j \in 1..Len(s) :
             \/ s[j].key = key
             \/ \E i \in 1..Len(t) : t[i] = s[j]
             \/ \A i \in 1..Len(t) : s[j].used < t[i].used
      /\ OnePerKey(t)
  <2>1. /\ s \in Seq(Cached) /\ AreEntries(Cached) /\ Apart(s) /\ OnePerKey(s)
        /\ Entry(key, v, size, now) \in Cached
        /\ \A i \in 1..Len(s) : s[i].used < now
    BY <1>1, <1>2, <1>3
  <2> HIDE DEF s, now, key, size
  <2> QED
    BY ONLY <2>1, InsertIs
<1>5. cache' = [cache EXCEPT ![c] = [entries |-> t, clock |-> now + 1]]
  BY DEF Put
<1> HIDE DEF t, e, key
<1>6. /\ cache'[c] = [entries |-> t, clock |-> now + 1]
      /\ \A b \in Caches \ {c} : cache'[b] = cache[b]
      /\ cache' \in [Caches -> [entries : Seq(Cached), clock : Nat]]
  BY <1>1, <1>4, <1>5 DEF CacheTypeOK
<1>7. cache'[c].entries = t /\ cache'[c].clock = now + 1
  BY <1>6
<1> HIDE DEF s, now
<1>8. \A i \in 1..Len(t) : t[i].value = t[i].key /\ t[i].used < now + 1
  <2> SUFFICES ASSUME NEW i \in 1..Len(t)
               PROVE  t[i].value = t[i].key /\ t[i].used < now + 1
    OBVIOUS
  <2>1. CASE t[i] = e
    BY <2>1, <1>1, <1>3
  <2>2. CASE t[i] # e
    <3>1. PICK j \in 1..Len(s) : t[i] = s[j]
      BY <2>2, <1>4
    <3>2. s[j].used \in Nat /\ s[j].used < now
      BY <1>1, <1>2 DEF Cached
    <3> QED
      BY <3>1, <3>2, <1>1, <1>2
  <2> QED
    BY <2>1, <2>2
<1>9. Sound(c)'
  <2>1. Apart(t) /\ OnePerKey(t) /\ ~OverBounds(t)
    BY <1>4
  <2> QED
    BY <2>1, <1>7, <1>8 DEF Sound
<1>10. DOMAIN t = 1..Len(t) /\ Len(t) \in 1..Len(t)
  BY <1>4, LenProperties
<1>11. Holds(t, key)
  BY <1>3, <1>4, <1>10 DEF Holds
<1>12. ASSUME NEW j \in 1..Len(s)
       PROVE  \/ Holds(t, s[j].key)
              \/ \A k \in 1..Len(t) : s[j].used < t[k].used
  BY <1>4, <1>10, <1>11 DEF Holds
<1> QED
  BY <1>6, <1>7, <1>9, <1>11, <1>12 DEF Took, s, key

\* A cache that takes something in while no reader is stamping there, with all
\* else that this invariant is about as it was or in order.
LEMMA TakingKeeps ==
    ASSUME CacheInv, NEW c \in Caches, NEW key, Took(c, key),
           UNCHANGED <<tick, locked>>,
           \A o \in Readers : ~Stamping(o, c),
           \A o \in Readers : \A b \in Caches : Stamping(o, b)' => Stamping(o, b),
           \A o \in Readers : pc'[o] = "stamp" => request'[o] = request[o],
           CacheTypeOK', \A o \in Readers : InHand(o)', Seeded'
    PROVE  CacheInv'
<1>1. ASSUME NEW b \in Caches
      PROVE  Sound(b)'
  <2>1. CASE b = c
    BY <2>1 DEF Took
  <2>2. CASE b # c
    BY <2>2 DEF Took, Sound, CacheInv
  <2> QED
    BY <2>1, <2>2
<1>2. ASSUME NEW o \in Readers, NEW b \in Caches, Stamping(o, b)'
      PROVE  Pending(o, b)'
  <2>1. Stamping(o, b) /\ b # c /\ Pending(o, b)
    BY <1>2 DEF CacheInv
  <2>2. cache'[b] = cache[b] /\ request'[o] = request[o]
    BY <2>1, <1>2 DEF Took, Stamping
  <2> QED
    BY <2>1, <2>2 DEF Pending
<1>3. \A o \in Readers : \A b \in Caches : Pending(o, b)'
  BY <1>2 DEF Pending
<1> QED
  BY <1>1, <1>3 DEF CacheInv

LEMMA StoreTakes ==
    ASSUME CacheInv, NEW r \in Readers, Store(r)
    PROVE  Took(level[r], Key(r))
<1>1. pc[r] = "store" /\ Put(level[r], request[r], value[r])
  BY DEF Store
<1>2. value[r] = KeyOf(level[r], request[r]) /\ request[r] \in Groups /\ level[r] \in Caches
  BY <1>1, AReader DEF InHand
<1>3. SizeOf(level[r], request[r]) \in Nat /\ KeyOf(level[r], request[r]) \in Keys
  BY <1>2, GroupsHaveSizes DEF CacheInv
<1>4. Took(level[r], KeyOf(level[r], request[r]))
  BY <1>1, <1>2, <1>3, PutTakes DEF CacheInv
<1> QED
  BY <1>4 DEF Key

LEMMA StoreKeeps == ASSUME CacheInv, NEW r \in Readers, Store(r) PROVE CacheInv'
<1> DEFINE p == IF level[r] = "record" THEN "done" ELSE "gather"
<1>1. pc[r] = "store" /\ locked[level[r]] = {} /\ UNCHANGED <<openVars, locked, tick>>
  BY DEF Store
<1>2. Becomes(r, p, level[r], request[r], value[r], answer[r])
  BY AReader DEF Store, Go, Becomes
<1>3. MayBe(p, level[r], request[r], value[r], answer[r])
  BY <1>1, AReader DEF MayBe, Places, Caches, InHand
<1>4. p # "stamp"
  OBVIOUS
<1> HIDE DEF p
<1>5. /\ pc' \in [Readers -> Places] /\ level' \in [Readers -> Caches]
      /\ request' \in [Readers -> Keys] /\ value' \in [Readers -> Keys]
      /\ answer' \in [Readers -> Keys]
      /\ pc'[r] = p
      /\ \A o \in Readers \ {r} :
             pc'[o] = pc[o] /\ level'[o] = level[o] /\ request'[o] = request[o]
      /\ \A o \in Readers : InHand(o)'
  BY <1>1, <1>2, <1>3, ReaderBecomes DEF CacheInv, openVars
<1>6. Took(level[r], Key(r)) /\ level[r] \in Caches
  BY StoreTakes, AReader
<1>7. CacheTypeOK'
  BY <1>1, <1>5, <1>6 DEF CacheInv, CacheTypeOK, Took, openVars
<1>8. \A o \in Readers : ~Stamping(o, level[r])
  BY <1>1, <1>6 DEF CacheInv, Pending
<1>9. /\ \A o \in Readers : \A b \in Caches : Stamping(o, b)' => Stamping(o, b)
      /\ \A o \in Readers : pc'[o] = "stamp" => request'[o] = request[o]
  BY <1>4, <1>5 DEF Stamping
<1>10. Seeded'
  BY <1>1 DEF CacheInv, Seeded, openVars
<1> QED
  BY <1>1, <1>5, <1>6, <1>7, <1>8, <1>9, <1>10, TakingKeeps

\* Opening: no reader is at work yet.
LEMMA NobodyReads ==
    ASSUME CacheInv, phase # "shared"
    PROVE  \A o \in Readers : pc[o] = "idle" /\ \A c \in Caches : ~Stamping(o, c)
  BY DEF CacheInv, InHand, Stamping

LEMMA SeedTakes ==
    ASSUME CacheInv, Seed
    PROVE  Took("raw", [dg |-> seeds[at], cg |-> 0])
<1> DEFINE q == [dg |-> seeds[at], cg |-> 0]
<1>1. at \in 1..Len(seeds) /\ seeds \in Seq(DOMAIN file) /\ Put("raw", q, q)
  BY LenProperties DEF Seed, CacheInv, CacheTypeOK
<1>2. seeds[at] \in DOMAIN file
  BY <1>1, ElementOfSeq
<1>3. SizeOf("raw", q) \in Nat
  BY <1>2, GroupsHaveSizes DEF CacheInv
<1>4. seeds[at] \in Nat
  <2>1. file \in Seq(DataGroup)
    BY DecodeAssumption DEF CacheInv, CacheTypeOK
  <2> QED
    BY <2>1, <1>2, LenProperties
<1>5. KeyOf("raw", q) = q /\ q \in Keys
  BY <1>4 DEF KeyOf, Keys
<1> HIDE DEF q
<1>6. Took("raw", KeyOf("raw", q))
  <2>1. "raw" \in Caches
    BY DEF Caches
  <2> QED
    BY <2>1, <1>1, <1>3, <1>5, PutTakes DEF CacheInv
<1> QED
  BY <1>5, <1>6 DEF q

LEMMA SeedKeeps == ASSUME CacheInv, Seed PROVE CacheInv'
<1>1. /\ phase = "seeding" /\ at' = at + 1
      /\ UNCHANGED <<file, phase, seeds, seeded, locked, readVars>>
  BY DEF Seed
<1>2. Took("raw", [dg |-> seeds[at], cg |-> 0]) /\ "raw" \in Caches
  BY SeedTakes DEF Caches
<1>3. CacheTypeOK'
  BY <1>1, <1>2 DEF CacheInv, CacheTypeOK, Took, readVars
<1>4. \A o \in Readers : pc[o] = "idle" /\ pc'[o] = "idle" /\ \A c \in Caches : ~Stamping(o, c)
  BY <1>1, NobodyReads DEF readVars
<1>5. \A o \in Readers : InHand(o)'
  BY <1>1, <1>4 DEF CacheInv, InHand, readVars
<1>6. /\ \A o \in Readers : \A b \in Caches : Stamping(o, b)' => Stamping(o, b)
      /\ \A o \in Readers : pc'[o] = "stamp" => request'[o] = request[o]
  BY <1>4 DEF Stamping
<1>7. Seeded'
  BY <1>1 DEF CacheInv, Seeded
<1>8. UNCHANGED <<tick, locked>>
  BY <1>1 DEF readVars
<1> QED
  BY <1>2, <1>3, <1>4, <1>5, <1>6, <1>7, <1>8, TakingKeeps

\* The streams that are kept are what they are said to be, so the first to
\* reach the budget stays below twice of it.
LEMMA IndexingKeeps ==
    ASSUME CacheInv, IndexGroup \/ IndexDone \/ SeedDone
    PROVE  CacheInv'
<1>1. /\ phase # "shared"
      /\ UNCHANGED <<file, cache, locked, readVars>>
  BY DEF IndexGroup, IndexDone, SeedDone
<1>2. file \in Seq(DataGroup) /\ DOMAIN file = 1..Len(file) /\ Len(file) \in Nat
  <2>1. file \in Seq(DataGroup)
    BY DecodeAssumption DEF CacheInv, CacheTypeOK
  <2> QED
    BY <2>1, LenProperties
<1>3. \A d \in DOMAIN file : file[d].bytes \in Nat /\ file[d].total \in Nat
  <2>1. \A d \in DOMAIN file : file[d] \in DataGroup
    BY <1>2, ElementOfSeq
  <2> QED
    BY <2>1 DEF DataGroup
<1>4. /\ seeds' \in Seq(DOMAIN file) /\ seeded' \in Nat /\ at' \in Nat \ {0}
      /\ phase' \in {"indexing", "seeding", "shared"}
      /\ Seeded'
  <2>1. seeds \in Seq(DOMAIN file) /\ seeded \in Nat /\ at \in Nat \ {0} /\ Seeded
    BY DEF CacheInv, CacheTypeOK
  <2>2. CASE IndexGroup
    <3>1. at \in DOMAIN file /\ phase' = "indexing" /\ at' = at + 1
      BY <2>1, <2>2, <1>2 DEF IndexGroup
    <3>2. CASE Kept(file[at])
      <4>1. seeds' = Append(seeds, at) /\ seeded' = seeded + file[at].bytes
        BY <2>2, <3>2 DEF IndexGroup
      <4>2. seeds' \in Seq(DOMAIN file)
        BY <4>1, <3>1, <2>1, AppendProperties
      <4>3. ASSUME \A d \in DOMAIN file : file[d].bytes <= file[d].total /\ file[d].total <= FileSize
            PROVE  seeded' < 2 * MaxBytes
        <5>1. file[at].bytes <= file[at].total /\ file[at].total <= MaxBytes /\ seeded < MaxBytes
          BY <4>3, <3>1, <3>2 DEF Kept
        <5>2. MaxBytes \in Nat
          BY LruAssumption
        <5> QED
          BY <5>1, <5>2, <4>1, <3>1, <2>1, <1>3
      <4> QED
        BY <4>1, <4>2, <4>3, <3>1, <2>1, <1>1, <1>3 DEF Seeded
    <3>3. CASE ~Kept(file[at])
      BY <3>1, <3>3, <2>1, <2>2, <1>1 DEF IndexGroup, Seeded
    <3> QED
      BY <3>2, <3>3
  <2>3. CASE IndexDone \/ SeedDone
    BY <2>1, <2>3, <1>1 DEF IndexDone, SeedDone, Seeded
  <2> QED
    BY <2>2, <2>3
<1>5. CacheTypeOK'
  BY <1>1, <1>4 DEF CacheInv, CacheTypeOK, readVars
<1>6. \A o \in Readers : pc[o] = "idle" /\ pc'[o] = "idle"
  BY <1>1, NobodyReads DEF readVars
<1>7. \A o \in Readers : InHand(o)'
  BY <1>1, <1>6 DEF CacheInv, InHand, readVars
<1>8. \A o \in Readers : \A c \in Caches : Pending(o, c)'
  BY <1>6 DEF Pending, Stamping
<1>9. \A c \in Caches : Sound(c)'
  BY <1>1 DEF CacheInv, Sound
<1> QED
  BY <1>4, <1>5, <1>7, <1>8, <1>9 DEF CacheInv

(***************************************************************************)
(* A hit: the stamp is taken, then stored, other hits in between.          *)
(***************************************************************************)

LEMMA HitKeeps == ASSUME CacheInv, NEW r \in Readers, Hit(r) PROVE CacheInv'
<1>1. PICK c \in Caches : c = level[r]
  BY AReader
<1>2. /\ pc[r] = "lookup" /\ Holds(Entries(r), Key(r))
      /\ locked' = [locked EXCEPT ![c] = @ \cup {r}]
      /\ tick' = [tick EXCEPT ![r] = cache[c].clock]
      /\ cache' = [cache EXCEPT ![c].clock = @ + 1]
      /\ pc' = [pc EXCEPT ![r] = "stamp"]
      /\ UNCHANGED <<file, phase, at, seeds, seeded, level, request, value, answer>>
  BY <1>1 DEF Hit, Go, openVars
<1>3. c \in Caches /\ Key(r) = KeyOf(c, request[r])
  BY <1>1, AReader
<1>4. \A b \in Caches : /\ cache[b].entries \in Seq(Cached) /\ cache[b].clock \in Nat
                        /\ \A i \in 1..Len(cache[b].entries) : cache[b].entries[i].used \in Nat
  BY EntriesOf DEF CacheInv, AreEntries
<1>5. /\ cache' \in [Caches -> [entries : Seq(Cached), clock : Nat]]
      /\ \A b \in Caches : cache'[b].entries = cache[b].entries
      /\ \A b \in Caches \ {c} : cache'[b] = cache[b]
      /\ cache'[c].clock = cache[c].clock + 1
  <2>1. cache' = [cache EXCEPT ![c] = [cache[c] EXCEPT !.clock = @ + 1]]
    BY <1>2
  <2>2. cache[c] \in [entries : Seq(Cached), clock : Nat]
    BY <1>3 DEF CacheInv, CacheTypeOK
  <2>3. /\ [cache[c] EXCEPT !.clock = @ + 1] \in [entries : Seq(Cached), clock : Nat]
        /\ [cache[c] EXCEPT !.clock = @ + 1].entries = cache[c].entries
        /\ [cache[c] EXCEPT !.clock = @ + 1].clock = cache[c].clock + 1
    BY <2>2
  <2> QED
    BY <2>1, <2>3, <1>3 DEF CacheInv, CacheTypeOK
<1>6. /\ tick' \in [Readers -> Nat] /\ tick'[r] = cache[c].clock
      /\ \A o \in Readers \ {r} : tick'[o] = tick[o] /\ pc'[o] = pc[o]
      /\ pc'[r] = "stamp" /\ r \in locked'[c]
      /\ locked' \in [Caches -> SUBSET Readers]
      /\ \A b \in Caches : locked[b] \subseteq locked'[b]
  BY <1>2, <1>3, <1>4 DEF CacheInv, CacheTypeOK
<1>7. /\ CacheTypeOK' /\ \A o \in Readers : InHand(o)'
  <2>1. Becomes(r, "stamp", level[r], request[r], value[r], answer[r])
    BY <1>2, AReader DEF Becomes
  <2>2. MayBe("stamp", level[r], request[r], value[r], answer[r])
    BY <1>2, AReader DEF MayBe, Places, InHand
  <2>3. /\ pc' \in [Readers -> Places] /\ level' \in [Readers -> Caches]
        /\ request' \in [Readers -> Keys] /\ value' \in [Readers -> Keys]
        /\ answer' \in [Readers -> Keys]
        /\ \A o \in Readers : InHand(o)'
    BY <2>1, <2>2, <1>2, ReaderBecomes DEF CacheInv
  <2> QED
    BY <2>3, <1>2, <1>5, <1>6 DEF CacheInv, CacheTypeOK
<1>8. ASSUME NEW b \in Caches
      PROVE  Sound(b)'
  <2>1. Sound(b)
    BY DEF CacheInv
  <2>2. \A i \in 1..Len(cache[b].entries) : cache[b].entries[i].used < cache'[b].clock
    <3> SUFFICES ASSUME NEW i \in 1..Len(cache[b].entries)
                 PROVE  cache[b].entries[i].used < cache'[b].clock
      OBVIOUS
    <3>1. /\ cache[b].entries[i].used < cache[b].clock
          /\ cache[b].entries[i].used \in Nat /\ cache[b].clock \in Nat
      BY <2>1, <1>4 DEF Sound
    <3>2. cache'[b].clock = cache[b].clock \/ cache'[b].clock = cache[b].clock + 1
      BY <1>5
    <3> QED
      BY <3>1, <3>2
  <2> QED
    BY <2>1, <2>2, <1>5 DEF Sound
<1>9. ASSUME NEW o \in Readers, NEW b \in Caches, Stamping(o, b)'
      PROVE  Pending(o, b)'
  <2>1. CASE o = r
    <3>1. b = c /\ tick'[r] = cache[c].clock
      BY <2>1, <1>1, <1>2, <1>6, <1>9 DEF Stamping
    <3>2. \A i \in 1..Len(cache[c].entries) : cache[c].entries[i].used # cache[c].clock
      BY <1>3, <1>4 DEF CacheInv, Sound
    <3>3. ASSUME NEW q \in Readers, Stamping(q, c)', tick'[q] = tick'[r], q # r
          PROVE  FALSE
      <4>1. Stamping(q, c) /\ tick[q] = cache[c].clock
        BY <3>3, <1>2, <1>6 DEF Stamping
      <4>2. tick[q] < cache[c].clock
        BY <4>1, <1>3 DEF CacheInv, Pending
      <4> QED
        BY <4>1, <4>2, <1>3, <1>4
    <3>4. Holds(cache'[c].entries, KeyOf(c, request'[r]))
      BY <1>1, <1>2, <1>3, <1>5 DEF Entries
    <3>5. tick'[r] < cache'[c].clock
      BY <3>1, <1>3, <1>4, <1>5
    <3>6. \A i \in 1..Len(cache'[c].entries) : cache'[c].entries[i].used # tick'[r]
      BY <3>1, <3>2, <1>3, <1>5
    <3> QED
      BY <2>1, <3>1, <3>3, <3>4, <3>5, <3>6, <1>6 DEF Pending
  <2>2. CASE o # r
    <3>1. Stamping(o, b) /\ tick'[o] = tick[o]
      BY <2>2, <1>2, <1>6, <1>9 DEF Stamping
    <3>2. Pending(o, b)
      BY DEF CacheInv
    <3>3. tick[o] < cache'[b].clock /\ tick[o] < cache[b].clock
      <4>1. tick[o] < cache[b].clock /\ tick[o] \in Nat
        BY <3>1, <3>2 DEF Pending, CacheInv, CacheTypeOK
      <4> QED
        <5>1. cache'[b].clock = cache[b].clock \/ cache'[b].clock = cache[b].clock + 1
          BY <1>5
        <5>2. cache[b].clock \in Nat
          BY <1>4
        <5> QED
          BY <4>1, <5>1, <5>2
    <3>4. ASSUME NEW q \in Readers, Stamping(q, b)', tick'[q] = tick'[o]
          PROVE  q = o
      <4>1. CASE q = r
        <5>1. b = c /\ tick'[o] = cache[c].clock
          BY <4>1, <3>4, <1>1, <1>2, <1>6 DEF Stamping
        <5>2. tick[o] = cache[c].clock /\ tick[o] < cache[c].clock /\ cache[c].clock \in Nat
          BY <5>1, <3>1, <3>3, <1>4
        <5> QED
          BY <5>2
      <4>2. CASE q # r
        <5>1. Stamping(q, b) /\ tick[q] = tick[o]
          BY <4>2, <3>1, <3>4, <1>2, <1>6 DEF Stamping
        <5> QED
          BY <5>1, <3>1, <3>2 DEF Pending
      <4> QED
        BY <4>1, <4>2
    <3> QED
      BY <3>1, <3>2, <3>3, <3>4, <1>2, <1>5, <1>6 DEF Pending
  <2> QED
    BY <2>1, <2>2
<1>10. \A o \in Readers : \A b \in Caches : Pending(o, b)'
  BY <1>9 DEF Pending
<1>11. Seeded'
  BY <1>2 DEF CacheInv, Seeded
<1> QED
  BY <1>7, <1>8, <1>10, <1>11 DEF CacheInv

\* Storing a stamp changes that one entry's, and so no size and no key.
LEMMA MarkIs ==
    ASSUME NEW s \in Seq(Cached), NEW key, NEW now \in Nat, Holds(s, key)
    PROVE  LET k == Find(s, key)
               t == Mark(s, key, now)
           IN  /\ k \in 1..Len(s) /\ s[k].key = key
               /\ t \in Seq(Cached) /\ Len(t) = Len(s)
               /\ \A i \in 1..Len(s) :
                      /\ t[i].key = s[i].key /\ t[i].value = s[i].value
                      /\ t[i].used = IF i = k THEN now ELSE s[i].used
               /\ OverBounds(t) <=> OverBounds(s)
<1> DEFINE k == Find(s, key)
           t == Mark(s, key, now)
           e == [s[k] EXCEPT !.used = now]
<1>1. DOMAIN s = 1..Len(s) /\ Len(s) \in Nat
  BY LenProperties
<1>2. k \in 1..Len(s) /\ s[k].key = key
  BY <1>1 DEF Holds, Find
<1>3. t = [s EXCEPT ![k] = e]
  BY DEF Mark
<1>4. s[k] \in Cached
  BY <1>2, ElementOfSeq
<1> HIDE DEF k, t
<1>5. /\ e \in Cached /\ e.key = s[k].key /\ e.value = s[k].value
      /\ e.size = s[k].size /\ e.used = now
  BY <1>4 DEF Cached
<1> HIDE DEF e
<1>6. /\ t \in Seq(Cached) /\ Len(t) = Len(s)
      /\ \A i \in 1..Len(s) : t[i] = IF i = k THEN e ELSE s[i]
  BY <1>2, <1>3, <1>5, ExceptSeq
<1>7. \A i \in 1..Len(s) :
          /\ t[i].key = s[i].key /\ t[i].value = s[i].value /\ t[i].size = s[i].size
          /\ t[i].used = IF i = k THEN now ELSE s[i].used
  BY <1>5, <1>6
<1>8. TotalSize(t) = TotalSize(s)
  <2>1. DOMAIN t = DOMAIN s
    BY <1>1, <1>6, LenProperties
  <2>2. [i \in DOMAIN t |-> t[i].size] = [i \in DOMAIN s |-> s[i].size]
    BY <2>1, <1>1, <1>7
  <2> QED
    BY <2>2 DEF TotalSize
<1>9. OverBounds(t) <=> OverBounds(s)
  BY <1>6, <1>8 DEF OverBounds
<1> QED
  BY <1>2, <1>6, <1>7, <1>9 DEF k, t

LEMMA StampKeeps == ASSUME CacheInv, NEW r \in Readers, Stamp(r) PROVE CacheInv'
<1>1. PICK c \in Caches : c = level[r]
  BY AReader
<1> DEFINE s == cache[c].entries
           t == Mark(s, Key(r), tick[r])
           k == Find(s, Key(r))
           p == IF level[r] = "record" THEN "done" ELSE "gather"
<1>2. /\ pc[r] = "stamp"
      /\ cache' = [cache EXCEPT ![c].entries = t]
      /\ value' = [value EXCEPT ![r] = s[k].value]
      /\ locked' = [locked EXCEPT ![c] = @ \ {r}]
      /\ pc' = [pc EXCEPT ![r] = p]
      /\ UNCHANGED <<file, phase, at, seeds, seeded, level, request, tick, answer>>
  BY <1>1 DEF Stamp, Go, openVars, Entries
<1>3. /\ c \in Caches /\ Key(r) = KeyOf(c, request[r]) /\ Stamping(r, c)
      /\ s \in Seq(Cached) /\ cache[c].clock \in Nat /\ tick[r] \in Nat
      /\ Len(s) \in Nat
  BY <1>1, <1>2, AReader, EntriesOf DEF Stamping, CacheInv, CacheTypeOK
<1>4. /\ Holds(s, Key(r)) /\ tick[r] < cache[c].clock
      /\ \A i \in 1..Len(s) : s[i].used # tick[r]
      /\ \A q \in Readers : Stamping(q, c) /\ tick[q] = tick[r] => q = r
  BY <1>3 DEF CacheInv, Pending
<1>5. /\ k \in 1..Len(s) /\ s[k].key = Key(r)
      /\ t \in Seq(Cached) /\ Len(t) = Len(s)
      /\ \A i \in 1..Len(s) :
             /\ t[i].key = s[i].key /\ t[i].value = s[i].value
             /\ t[i].used = IF i = k THEN tick[r] ELSE s[i].used
      /\ OverBounds(t) <=> OverBounds(s)
  <2> HIDE DEF s
  <2> QED
    BY <1>3, <1>4, MarkIs
<1>6. /\ Apart(s) /\ OnePerKey(s) /\ ~OverBounds(s)
      /\ \A i \in 1..Len(s) : s[i].value = s[i].key /\ s[i].used < cache[c].clock
  BY <1>3 DEF CacheInv, Sound
<1> HIDE DEF t, k
<1>7. /\ cache' \in [Caches -> [entries : Seq(Cached), clock : Nat]]
      /\ \A b \in Caches \ {c} : cache'[b] = cache[b]
      /\ cache'[c].entries = t /\ cache'[c].clock = cache[c].clock
  <2>1. cache' = [cache EXCEPT ![c] = [cache[c] EXCEPT !.entries = t]]
    BY <1>2
  <2>2. cache[c] \in [entries : Seq(Cached), clock : Nat]
    BY <1>3 DEF CacheInv, CacheTypeOK
  <2>3. /\ [cache[c] EXCEPT !.entries = t] \in [entries : Seq(Cached), clock : Nat]
        /\ [cache[c] EXCEPT !.entries = t].entries = t
        /\ [cache[c] EXCEPT !.entries = t].clock = cache[c].clock
    BY <2>2, <1>5
  <2> QED
    BY <2>1, <2>3, <1>3 DEF CacheInv, CacheTypeOK
<1> HIDE DEF s
<1>8. s[k].value = Key(r)
  BY <1>5, <1>6
<1>9. CacheTypeOK' /\ \A o \in Readers : InHand(o)'
  <2>1. Becomes(r, p, level[r], request[r], Key(r), answer[r])
    BY <1>2, <1>8, AReader DEF Becomes
  <2>2. MayBe(p, level[r], request[r], Key(r), answer[r])
    BY <1>2, AReader DEF MayBe, Places, InHand, Caches
  <2> HIDE DEF p
  <2>3. /\ pc' \in [Readers -> Places] /\ level' \in [Readers -> Caches]
        /\ request' \in [Readers -> Keys] /\ value' \in [Readers -> Keys]
        /\ answer' \in [Readers -> Keys]
        /\ \A o \in Readers : InHand(o)'
    BY <2>1, <2>2, <1>2, ReaderBecomes DEF CacheInv
  <2>4. locked' \in [Caches -> SUBSET Readers]
    BY <1>2, <1>3 DEF CacheInv, CacheTypeOK
  <2> QED
    BY <2>3, <2>4, <1>2, <1>7 DEF CacheInv, CacheTypeOK
<1>10. Sound(c)'
  <2>1. Apart(t)
    <3> SUFFICES ASSUME NEW i \in 1..Len(t), NEW j \in 1..Len(t), t[i].used = t[j].used
                 PROVE  i = j
      BY DEF Apart
    <3>1. i \in 1..Len(s) /\ j \in 1..Len(s)
      BY <1>5
    <3>2. CASE i = k \/ j = k
      BY <3>1, <3>2, <1>4, <1>5
    <3>3. CASE i # k /\ j # k
      BY <3>1, <3>3, <1>5, <1>6 DEF Apart
    <3> QED
      BY <3>2, <3>3
  <2>2. OnePerKey(t) /\ ~OverBounds(t)
    BY <1>5, <1>6 DEF OnePerKey
  <2>3. \A i \in 1..Len(t) : t[i].value = t[i].key /\ t[i].used < cache[c].clock
    BY <1>4, <1>5, <1>6
  <2> QED
    BY <2>1, <2>2, <2>3, <1>7 DEF Sound
<1>11. \A b \in Caches : Sound(b)'
  <2>1. ASSUME NEW b \in Caches, b # c
        PROVE  Sound(b)'
    BY <2>1, <1>7 DEF CacheInv, Sound
  <2> QED
    BY <2>1, <1>10
<1>12. ASSUME NEW o \in Readers, NEW b \in Caches, Stamping(o, b)'
       PROVE  Pending(o, b)'
  <2>1. pc'[r] # "stamp" /\ \A q \in Readers \ {r} : pc'[q] = pc[q]
    BY <1>2 DEF CacheInv, CacheTypeOK
  <2>2. o # r /\ Stamping(o, b) /\ \A q \in Readers : Stamping(q, b)' => Stamping(q, b)
    BY <2>1, <1>2, <1>12 DEF Stamping
  <2>3. Pending(o, b)
    BY DEF CacheInv
  <2>4. o \in locked'[b]
    BY <2>2, <2>3, <1>2, <1>3 DEF Pending, CacheInv, CacheTypeOK
  <2>5. CASE b = c
    <3>1. Holds(t, KeyOf(c, request[o]))
      <4>1. PICK i \in DOMAIN s : s[i].key = KeyOf(c, request[o])
        BY <2>2, <2>3, <2>5 DEF Pending, Holds, s
      <4>2. i \in DOMAIN t /\ t[i].key = s[i].key
        BY <4>1, <1>3, <1>5, LenProperties
      <4> QED
        BY <4>1, <4>2 DEF Holds
    <3>2. ASSUME NEW i \in 1..Len(t)
          PROVE  t[i].used # tick[o]
      <4>1. i \in 1..Len(s) /\ s[i].used # tick[o]
        BY <1>5, <2>2, <2>3, <2>5 DEF Pending, s
      <4>2. tick[o] # tick[r]
        BY <2>2, <2>5, <1>4
      <4> QED
        BY <4>1, <4>2, <1>5
    <3> QED
      BY <2>2, <2>3, <2>4, <2>5, <3>1, <3>2, <1>2, <1>7 DEF Pending
  <2>6. CASE b # c
    BY <2>2, <2>3, <2>4, <2>6, <1>2, <1>7 DEF Pending
  <2> QED
    BY <2>5, <2>6
<1>13. \A o \in Readers : \A b \in Caches : Pending(o, b)'
  BY <1>12 DEF Pending
<1>14. Seeded'
  BY <1>2 DEF CacheInv, Seeded
<1> QED
  BY <1>9, <1>11, <1>13, <1>14 DEF CacheInv

(***************************************************************************)
(* The theorems.                                                           *)
(***************************************************************************)

LEMMA CacheBegins == Init => CacheInv
<1> SUFFICES ASSUME Init
             PROVE  CacheInv
  OBVIOUS
<1>1. \A c \in Caches : cache[c].entries = <<>> /\ cache[c].clock = 0
  BY DEF Init
<1>2. Len(<<>>) = 0
  OBVIOUS
<1>3. CacheTypeOK
  <2>1. <<>> \in Seq(DOMAIN file) /\ <<>> \in Seq(Cached)
    OBVIOUS
  <2>2. cache \in [Caches -> [entries : Seq(Cached), clock : Nat]]
    BY <2>1 DEF Init
  <2>3. Nothing \in Keys
    BY DEF Nothing, Keys
  <2> QED
    BY <2>1, <2>2, <2>3 DEF Init, CacheTypeOK, Places, Caches
<1>4. \A c \in Caches : Sound(c)
  BY <1>1, <1>2 DEF Sound, Apart, OnePerKey, OverBounds
<1>5. \A r \in Readers : pc[r] = "idle" /\ answer[r] = Nothing
  BY DEF Init
<1>6. \A r \in Readers : InHand(r) /\ \A c \in Caches : Pending(r, c)
  BY <1>5 DEF InHand, Pending, Stamping
<1>7. Seeded
  BY DEF Init, Seeded
<1> QED
  BY <1>3, <1>4, <1>6, <1>7 DEF CacheInv

LEMMA CacheStepKeeps == CacheInv /\ [Next]_vars => CacheInv'
<1> SUFFICES ASSUME CacheInv, [Next]_vars
             PROVE  CacheInv'
  OBVIOUS
<1>1. CASE Opening
  BY <1>1, IndexingKeeps, SeedKeeps DEF Opening
<1>2. ASSUME NEW r \in Readers, Ask(r) \/ Continue(r)
      PROVE  CacheInv'
  BY <1>2, AskKeeps, HitKeeps, StampKeeps, MissKeeps, AssembleKeeps, GatherKeeps,
     StoreKeeps, FinishKeeps DEF Continue
<1>3. CASE UNCHANGED vars
  <2> USE <1>3 DEF vars, openVars, readVars
  <2>1. CacheTypeOK'
    BY DEF CacheInv, CacheTypeOK
  <2>2. \A c \in Caches : Sound(c)'
    BY DEF CacheInv, Sound
  <2>3. \A r \in Readers : \A c \in Caches : Pending(r, c)'
    BY DEF CacheInv, Pending, Stamping
  <2>4. \A r \in Readers : InHand(r)'
    BY DEF CacheInv, InHand, Key, Groups
  <2>5. Seeded'
    BY DEF CacheInv, Seeded
  <2> QED
    BY <2>1, <2>2, <2>3, <2>4, <2>5 DEF CacheInv
<1> QED
  BY <1>1, <1>2, <1>3 DEF Next

\* Between any two steps of any readers: stamps apart, keys apart, what is
\* held under a key is the key's, and a reader's pending stamp finds its entry.
THEOREM CacheInvariant == Spec => []CacheInv
<1>1. Init => CacheInv
  BY CacheBegins
<1>2. CacheInv /\ [Next]_vars => CacheInv'
  BY CacheStepKeeps
<1> QED
  BY <1>1, <1>2, PTL DEF Spec

\* Every reader is given the records of the channel group it asked for or an
\* error, whoever stored and evicted meanwhile (records_for).
THEOREM CacheAnswersAreOwn == Spec => []AnswersAreOwn
<1>1. CacheInv => AnswersAreOwn
  <2> SUFFICES ASSUME CacheInv
               PROVE  AnswersAreOwn
    OBVIOUS
  <2>1. \A r \in Readers : pc[r] = "idle" => answer[r] \in {request[r], Nothing}
    BY DEF CacheInv, InHand
  <2>2. ASSUME NEW c \in Caches, NEW k \in DOMAIN cache[c].entries
        PROVE  cache[c].entries[k].value = cache[c].entries[k].key
    BY EntriesOf DEF CacheInv, Sound
  <2> QED
    BY <2>1, <2>2 DEF AnswersAreOwn
<1> QED
  BY <1>1, CacheInvariant, PTL

LEMMA CacheBounded == CacheInv => Bounded
<1> SUFFICES ASSUME CacheInv
             PROVE  Bounded
  OBVIOUS
<1>1. ASSUME NEW c \in Caches, NEW s, s = cache[c].entries
      PROVE  /\ Len(s) <= MaxEntries
             /\ Len(s) > 1 => TotalSize(s) <= MaxBytes
             /\ \A j, k \in DOMAIN s : s[j].key = s[k].key => j = k
  <2>1. s \in Seq(Cached) /\ Len(s) \in Nat /\ DOMAIN s = 1..Len(s)
    BY <1>1, EntriesOf DEF CacheInv
  <2>2. OnePerKey(s) /\ ~OverBounds(s)
    BY <1>1 DEF CacheInv, Sound
  <2>3. TotalSize(s) \in Nat
    <3> DEFINE sizes == [k \in DOMAIN s |-> s[k].size]
    <3>1. \A k \in 1..Len(s) : s[k].size \in Nat
      <4>1. \A k \in 1..Len(s) : s[k] \in Cached
        BY <2>1, ElementOfSeq
      <4> QED
        BY <4>1 DEF Cached
    <3>2. sizes \in [1..Len(s) -> Nat]
      BY <3>1, <2>1
    <3>3. sizes \in Seq(Nat)
      BY <3>2, <2>1, SeqDef
    <3> HIDE DEF sizes
    <3>4. Total(sizes) \in Nat
      BY <3>3, TotalIsNumber
    <3> QED
      BY <3>4 DEF TotalSize, sizes
  <2>4. MaxEntries \in Nat \ {0} /\ MaxBytes \in Nat
    BY LruAssumption
  <2> QED
    BY <2>1, <2>2, <2>3, <2>4 DEF OverBounds, OnePerKey
<1>2. Seeded
  BY DEF CacheInv
<1> QED
  BY <1>1, <1>2 DEF Bounded, Seeded

\* A cache that took something in let go of the oldest.
LEMMA TakingEvictsTheOldest ==
    ASSUME CacheInv, CacheInv', NEW c \in Caches, NEW key, Took(c, key)
    PROVE  OldestGoes
<1>1. ASSUME NEW b \in Caches, NEW j \in DOMAIN cache[b].entries
      PROVE  \/ Holds(cache'[b].entries, cache[b].entries[j].key)
             \/ \A k \in DOMAIN cache'[b].entries :
                    cache'[b].entries[k].used > cache[b].entries[j].used
  <2>1. /\ DOMAIN cache[b].entries = 1..Len(cache[b].entries)
        /\ DOMAIN cache'[b].entries = 1..Len(cache'[b].entries)
    <3>1. cache[b].entries \in Seq(Cached) /\ cache'[b].entries \in Seq(Cached)
      BY DEF CacheInv, CacheTypeOK
    <3> QED
      BY <3>1, LenProperties
  <2>2. CASE b = c
    BY <2>1, <2>2, <1>1 DEF Took
  <2>3. CASE b # c
    BY <2>3, <1>1 DEF Took, Holds
  <2> QED
    BY <2>2, <2>3
<1> QED
  BY <1>1 DEF OldestGoes

LEMMA NoneGoes ==
    ASSUME \A c \in Caches : \A j \in DOMAIN cache[c].entries :
               Holds(cache'[c].entries, cache[c].entries[j].key)
    PROVE  OldestGoes
  BY DEF OldestGoes

LEMMA StepsEvictTheOldest == CacheInv /\ CacheInv' /\ [Next]_vars => [OldestGoes]_vars
<1> SUFFICES ASSUME CacheInv, CacheInv', Next
             PROVE  OldestGoes
  OBVIOUS
<1>1. CASE UNCHANGED cache
  <2>1. \A c \in Caches : \A j \in DOMAIN cache[c].entries :
            Holds(cache'[c].entries, cache[c].entries[j].key)
    BY <1>1 DEF Holds
  <2> QED
    BY <2>1, NoneGoes
<1>2. CASE Seed
  <2>1. "raw" \in Caches
    BY DEF Caches
  <2> QED
    BY <2>1, <1>2, SeedTakes, TakingEvictsTheOldest
<1>3. ASSUME NEW r \in Readers, Store(r)
      PROVE  OldestGoes
  BY <1>3, AReader, StoreTakes, TakingEvictsTheOldest
<1>4. ASSUME NEW r \in Readers, Hit(r)
      PROVE  OldestGoes
  <2>1. cache' = [cache EXCEPT ![level[r]].clock = @ + 1]
    BY <1>4 DEF Hit
  <2>2. \A c \in Caches : cache'[c].entries = cache[c].entries
    BY <2>1 DEF CacheInv, CacheTypeOK
  <2>3. \A c \in Caches : \A j \in DOMAIN cache[c].entries :
            Holds(cache'[c].entries, cache[c].entries[j].key)
    BY <2>2 DEF Holds
  <2> QED
    BY <2>3, NoneGoes
<1>5. ASSUME NEW r \in Readers, Stamp(r)
      PROVE  OldestGoes
  <2>1. /\ cache' = [cache EXCEPT ![level[r]].entries = Mark(@, Key(r), tick[r])]
        /\ Stamping(r, level[r]) /\ level[r] \in Caches
    BY <1>5, AReader DEF Stamp, Stamping
  <2>2. ASSUME NEW c \in Caches, NEW j \in DOMAIN cache[c].entries
        PROVE  Holds(cache'[c].entries, cache[c].entries[j].key)
    <3>1. cache[c].entries \in Seq(Cached) /\ DOMAIN cache[c].entries = 1..Len(cache[c].entries)
      BY EntriesOf DEF CacheInv
    <3>2. CASE c = level[r]
      <4>1. cache'[c].entries = Mark(cache[c].entries, Key(r), tick[r])
        BY <2>1, <3>2 DEF CacheInv, CacheTypeOK
      <4>2. Holds(cache[c].entries, Key(r)) /\ tick[r] \in Nat
        BY <2>1, <3>2 DEF CacheInv, CacheTypeOK, Pending, Key
      <4> DEFINE t == Mark(cache[c].entries, Key(r), tick[r])
      <4>3. t \in Seq(Cached) /\ Len(t) = Len(cache[c].entries) /\ t[j].key = cache[c].entries[j].key
        BY <4>2, <3>1, MarkIs
      <4> HIDE DEF t
      <4>4. j \in DOMAIN t
        BY <4>3, <3>1, LenProperties
      <4> QED
        BY <4>1, <4>3, <4>4 DEF Holds, t
    <3>3. CASE c # level[r]
      <4>1. cache'[c] = cache[c]
        BY <2>1, <3>3 DEF CacheInv, CacheTypeOK
      <4> QED
        BY <4>1 DEF Holds
    <3> QED
      BY <3>2, <3>3
  <2> QED
    BY <2>2, NoneGoes
<1>6. ASSUME NEW r \in Readers,
             Ask(r) \/ Miss(r) \/ Assemble(r) \/ AssembleFails(r) \/ Gather(r) \/ Finish(r)
      PROVE  UNCHANGED cache
  BY <1>6 DEF Ask, Miss, Assemble, AssembleFails, Gather, Finish
<1>7. CASE IndexGroup \/ IndexDone \/ SeedDone
  BY <1>1, <1>7 DEF IndexGroup, IndexDone, SeedDone
<1> QED
  BY <1>1, <1>2, <1>3, <1>4, <1>5, <1>6, <1>7 DEF Next, Opening, Continue

\* The caches stay within their two bounds, by letting go of what was used
\* longest ago (BoundedLru: "evicting least-recently-used entries until both
\* bounds are met").
THEOREM CacheKeepsTheRecentInBounds == Spec => KeepsTheRecentInBounds
<1>1. CacheInv => Bounded
  BY CacheBounded
<1>2. CacheInv /\ CacheInv' /\ [Next]_vars => [OldestGoes]_vars
  BY StepsEvictTheOldest
<1> QED
  BY <1>1, <1>2, CacheInvariant, PTL DEF Spec, KeepsTheRecentInBounds

\* However full or however large, the one just built is in: "always keeps the
\* just-inserted entry, even if it alone exceeds the byte budget" (insert).
KeepsWhatIsStored == \A r \in Readers : Store(r) => Holds(cache'[level[r]].entries, Key(r))

THEOREM CacheKeepsWhatIsStored == Spec => [][KeepsWhatIsStored]_vars
<1>1. CacheInv /\ [Next]_vars => [KeepsWhatIsStored]_vars
  BY StoreTakes DEF KeepsWhatIsStored, Took
<1> QED
  BY <1>1, CacheInvariant, PTL DEF Spec
=============================================================================

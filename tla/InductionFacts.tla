--------------------------- MODULE InductionFacts ---------------------------
(***************************************************************************)
(* Induction on the natural numbers with sets in place of predicates, so   *)
(* that a first-order prover can use it: what is proved is that a set of   *)
(* numbers is all of them.  And the functions that recursion on a number   *)
(* defines: they exist, and so are what their equation says.               *)
(***************************************************************************)
EXTENDS Integers, FiniteSets, TLAPS, WellFoundedInduction, FiniteSetTheorems

\* A set of numbers that is not empty has a least element.
LEMMA LeastNumber ==
    ASSUME NEW T \in SUBSET Nat, T # {}
    PROVE  \E n \in T : \A m \in T : n <= m
<1> DEFINE R == OpToRel(<, Nat)
<1>1. IsWellFoundedOn(R, Nat)
  BY NatLessThanWellFounded
<1> HIDE DEF R
<1>2. PICK n \in T : \A m \in T : ~ (<<m, n>> \in R)
  BY <1>1, WFMin
<1>3. ASSUME NEW m \in T
      PROVE  n <= m
  <2>1. <<m, n>> \notin R
    BY <1>2
  <2>2. ~(m < n)
    BY <2>1 DEF R, OpToRel
  <2> QED
    BY <2>2
<1> QED
  BY <1>3

\* What holds of nought, and of n + 1 whenever of n, holds of every number.
THEOREM NumberInduction ==
    ASSUME NEW T \in SUBSET Nat,
           0 \in T,
           \A n \in T : n + 1 \in T
    PROVE  T = Nat
<1> SUFFICES ASSUME Nat \ T # {}
             PROVE  FALSE
  OBVIOUS
<1>1. PICK n \in Nat \ T : \A m \in Nat \ T : n <= m
  BY LeastNumber
<1>2. n # 0 /\ n - 1 \in Nat
  BY <1>1
<1>3. n - 1 \in T
  BY <1>1, <1>2
<1> QED
  BY <1>1, <1>3

-----------------------------------------------------------------------------

\* The first n + 1 places of the sequence that begins with a and goes on by F.
IsRun(g, n, A, a, F) ==
    /\ g \in [0..n -> A]
    /\ g[0] = a
    /\ \A i \in 0..(n - 1) : g[i + 1] = F[i][g[i]]

LEMMA RunExists ==
    ASSUME NEW A, NEW a \in A, NEW F \in [Nat -> [A -> A]], NEW n \in Nat
    PROVE  \E g \in [0..n -> A] : IsRun(g, n, A, a, F)
<1> DEFINE T == {m \in Nat : \E g \in [0..m -> A] : IsRun(g, m, A, a, F)}
<1>1. 0 \in T
  <2> DEFINE g == [i \in 0..0 |-> a]
  <2>1. g \in [0..0 -> A] /\ IsRun(g, 0, A, a, F)
    BY DEF IsRun
  <2> QED
    BY <2>1
<1>2. ASSUME NEW m \in T
      PROVE  m + 1 \in T
  <2>1. PICK g \in [0..m -> A] : IsRun(g, m, A, a, F)
    OBVIOUS
  <2> DEFINE h == [i \in 0..(m + 1) |-> IF i = m + 1 THEN F[m][g[m]] ELSE g[i]]
  <2>2. h \in [0..(m + 1) -> A]
    <3>1. m \in 0..m /\ F[m] \in [A -> A]
      OBVIOUS
    <3>2. F[m][g[m]] \in A
      BY <3>1
    <3> QED
      BY <3>2
  <2>3. h[0] = a
    BY <2>1 DEF IsRun
  <2>4. ASSUME NEW i \in 0..((m + 1) - 1)
        PROVE  h[i + 1] = F[i][h[i]]
    <3>1. CASE i = m
      BY <3>1
    <3>2. CASE i # m
      <4>1. i \in 0..(m - 1) /\ i + 1 \in 0..m
        BY <3>2
      <4>2. g[i + 1] = F[i][g[i]]
        BY <2>1, <4>1 DEF IsRun
      <4> QED
        BY <4>1, <4>2
    <3> QED
      BY <3>1, <3>2
  <2>5. IsRun(h, m + 1, A, a, F)
    BY <2>2, <2>3, <2>4 DEF IsRun
  <2> QED
    BY <2>2, <2>5
<1> HIDE DEF T
<1>3. T = Nat
  <2>1. T \in SUBSET Nat
    BY DEF T
  <2> QED
    BY <2>1, <1>1, <1>2, NumberInduction
<1> QED
  BY <1>3 DEF T

LEMMA RunsAgree ==
    ASSUME NEW A, NEW a \in A, NEW F \in [Nat -> [A -> A]],
           NEW m \in Nat, NEW n \in Nat, m <= n,
           NEW g, IsRun(g, m, A, a, F),
           NEW h, IsRun(h, n, A, a, F)
    PROVE  \A i \in 0..m : g[i] = h[i]
<1> DEFINE T == {i \in Nat : i <= m => g[i] = h[i]}
<1>1. 0 \in T
  BY DEF IsRun
<1>2. ASSUME NEW i \in T
      PROVE  i + 1 \in T
  <2>1. SUFFICES ASSUME i + 1 <= m
                 PROVE  g[i + 1] = h[i + 1]
    OBVIOUS
  <2>2. g[i] = h[i]
    BY <2>1
  <2>3. i \in 0..(m - 1) /\ i \in 0..(n - 1)
    BY <2>1
  <2> QED
    BY <2>2, <2>3 DEF IsRun
<1> HIDE DEF T
<1>3. T = Nat
  <2>1. T \in SUBSET Nat
    BY DEF T
  <2> QED
    BY <2>1, <1>1, <1>2, NumberInduction
<1> QED
  BY <1>3 DEF T

\* All of that sequence.
IsIteration(g, A, a, F) ==
    /\ g \in [Nat -> A]
    /\ g[0] = a
    /\ \A n \in Nat : g[n + 1] = F[n][g[n]]

\* There is a sequence that begins with a and goes on by F.
THEOREM Iteration ==
    ASSUME NEW A, NEW a \in A, NEW F \in [Nat -> [A -> A]]
    PROVE  \E g : IsIteration(g, A, a, F)
<1> DEFINE R(n) == CHOOSE g \in [0..n -> A] : IsRun(g, n, A, a, F)
           whole == [n \in Nat |-> R(n)[n]]
<1>1. ASSUME NEW n \in Nat
      PROVE  R(n) \in [0..n -> A] /\ IsRun(R(n), n, A, a, F)
  BY RunExists
<1> HIDE DEF R
<1>2. whole \in [Nat -> A]
  <2>1. ASSUME NEW n \in Nat
        PROVE  R(n)[n] \in A
    <3>1. n \in 0..n
      OBVIOUS
    <3> QED
      BY <1>1, <3>1
  <2> QED
    BY <2>1
<1>3. whole[0] = a
  BY <1>1 DEF IsRun
<1>4. ASSUME NEW n \in Nat
      PROVE  whole[n + 1] = F[n][whole[n]]
  <2>1. R(n + 1)[n + 1] = F[n][R(n + 1)[n]]
    <3>1. n \in 0..((n + 1) - 1)
      OBVIOUS
    <3>2. IsRun(R(n + 1), n + 1, A, a, F)
      BY <1>1
    <3> QED
      BY <3>1, <3>2 DEF IsRun
  <2>2. R(n)[n] = R(n + 1)[n]
    <3>1. IsRun(R(n), n, A, a, F) /\ IsRun(R(n + 1), n + 1, A, a, F)
      BY <1>1
    <3>2. \A i \in 0..n : R(n)[i] = R(n + 1)[i]
      BY <3>1, RunsAgree
    <3> QED
      BY <3>2
  <2> QED
    BY <2>1, <2>2
<1> HIDE DEF whole
<1>5. IsIteration(whole, A, a, F)
  BY <1>2, <1>3, <1>4 DEF IsIteration
<1> QED
  BY <1>5

\* A function defined at nought, and at n by its value at n - 1, up to N.
IsRecursion(f, N, A, a, F) ==
    /\ f \in [0..N -> A]
    /\ f = [n \in 0..N |-> IF n = 0 THEN a ELSE F[n][f[n - 1]]]

\* There is such a function, so the one that CHOOSE takes for a definition
\* LET f[n \in 0..N] == ... is what its equation says.
THEOREM Recursion ==
    ASSUME NEW A, NEW a \in A, NEW N \in Nat, NEW F \in [1..N -> [A -> A]]
    PROVE  \E f : IsRecursion(f, N, A, a, F)
<1> DEFINE G == [n \in Nat |-> IF n < N THEN F[n + 1] ELSE [x \in A |-> x]]
<1>1. G \in [Nat -> [A -> A]]
  <2>1. ASSUME NEW n \in Nat
        PROVE  (IF n < N THEN F[n + 1] ELSE [x \in A |-> x]) \in [A -> A]
    <3>1. n < N => n + 1 \in 1..N
      OBVIOUS
    <3> QED
      BY <3>1
  <2> QED
    BY <2>1
<1>2. PICK g \in [Nat -> A] : g[0] = a /\ \A n \in Nat : g[n + 1] = G[n][g[n]]
  <2> HIDE DEF G
  <2>1. \E g : IsIteration(g, A, a, G)
    BY <1>1, Iteration
  <2> QED
    BY <2>1 DEF IsIteration
<1> DEFINE f == [n \in 0..N |-> g[n]]
<1>3. f \in [0..N -> A]
  OBVIOUS
<1>4. ASSUME NEW n \in 0..N, n # 0
      PROVE  f[n] = F[n][f[n - 1]]
  <2>1. n - 1 \in Nat /\ n - 1 \in 0..N /\ n - 1 < N /\ (n - 1) + 1 = n
    BY <1>4
  <2>2. g[(n - 1) + 1] = G[n - 1][g[n - 1]]
    <3> HIDE DEF G
    <3> QED
      BY <2>1, <1>2
  <2>3. G[n - 1] = F[n]
    BY <2>1
  <2> HIDE DEF G
  <2> QED
    BY <2>1, <2>2, <2>3
<1>5. f = [n \in 0..N |-> IF n = 0 THEN a ELSE F[n][f[n - 1]]]
  <2> HIDE DEF G
  <2>1. f[0] = a
    <3>1. 0 \in 0..N
      OBVIOUS
    <3> QED
      BY <3>1, <1>2
  <2> HIDE DEF f
  <2>2. \A n \in 0..N : f[n] = IF n = 0 THEN a ELSE F[n][f[n - 1]]
    BY <2>1, <1>4
  <2>3. f = [n \in 0..N |-> f[n]]
    BY <1>3
  <2> QED
    BY <2>2, <2>3
<1> HIDE DEF f
<1> QED
  BY <1>3, <1>5 DEF IsRecursion

\* A function on 0..N that is stop where p is not in Go, and goes by its value
\* at a later place where it is.
IsUpward(f, N, A, Go, next, stop, F) ==
    /\ f \in [0..N -> A]
    /\ f = [p \in 0..N |-> IF p \in Go THEN F[p][f[next[p]]] ELSE stop[p]]

\* There is such a function: the recursion that looks only ahead ends.
THEOREM RecursionUpward ==
    ASSUME NEW A, NEW N \in Nat, NEW Go \in SUBSET (0..N),
           NEW next \in [Go -> 0..N], \A p \in Go : next[p] > p,
           NEW stop \in [0..N -> A], NEW F \in [Go -> [A -> A]]
    PROVE  \E f : IsUpward(f, N, A, Go, next, stop, F)
<1> DEFINE S == [0..N -> A]
           Better(f) == [p \in 0..N |-> IF p \in Go THEN F[p][f[next[p]]] ELSE stop[p]]
           G == [n \in Nat |-> [f \in S |-> Better(f)]]
<1>1. ASSUME NEW f \in S
      PROVE  Better(f) \in S
  <2>1. ASSUME NEW p \in 0..N
        PROVE  (IF p \in Go THEN F[p][f[next[p]]] ELSE stop[p]) \in A
    <3>1. CASE p \in Go
      <4>1. next[p] \in 0..N
        BY <3>1
      <4>2. f[next[p]] \in A /\ F[p] \in [A -> A]
        BY <3>1, <4>1
      <4> QED
        BY <3>1, <4>2
    <3>2. CASE p \notin Go
      BY <3>2
    <3> QED
      BY <3>1, <3>2
  <2> QED
    BY <2>1
<1>2. G \in [Nat -> [S -> S]]
  BY <1>1
<1>3. PICK g : IsIteration(g, S, stop, G)
  <2> HIDE DEF G, S
  <2>1. stop \in S
    BY DEF S
  <2> QED
    BY <1>2, <2>1, Iteration
<1>4. g \in [Nat -> S] /\ g[0] = stop
  BY <1>3 DEF IsIteration
<1>5. \A n \in Nat : g[n + 1] = Better(g[n])
  BY <1>3, <1>4 DEF IsIteration
<1>6. ASSUME NEW n \in Nat, NEW p \in 0..N
      PROVE  /\ p \in Go => g[n + 1][p] = F[p][g[n][next[p]]]
             /\ p \notin Go => g[n + 1][p] = stop[p]
  BY <1>5
<1> HIDE DEF G, S, Better
<1> DEFINE T == {n \in Nat : \A p \in 0..N : p + n >= N => g[n + 1][p] = g[n][p]}
<1>7. 0 \in T
  <2> SUFFICES ASSUME NEW p \in 0..N, p >= N
               PROVE  g[0 + 1][p] = g[0][p]
    OBVIOUS
  <2>1. p \notin Go
    OBVIOUS
  <2>2. g[0 + 1][p] = stop[p]
    BY <1>6, <2>1
  <2> QED
    BY <1>4, <2>2
<1>8. ASSUME NEW n \in T
      PROVE  n + 1 \in T
  <2> SUFFICES ASSUME NEW p \in 0..N, p + (n + 1) >= N
               PROVE  g[(n + 1) + 1][p] = g[n + 1][p]
    OBVIOUS
  <2>0. n \in Nat /\ n + 1 \in Nat
    OBVIOUS
  <2>1. CASE p \in Go
    <3>1. next[p] \in 0..N /\ next[p] + n >= N
      BY <2>0, <2>1
    <3>2. g[n + 1][next[p]] = g[n][next[p]]
      BY <3>1
    <3>3. g[n + 1][p] = F[p][g[n][next[p]]]
      BY <1>6, <2>0, <2>1
    <3>4. g[(n + 1) + 1][p] = F[p][g[n + 1][next[p]]]
      BY <1>6, <2>0, <2>1
    <3> QED
      BY <3>2, <3>3, <3>4
  <2>2. CASE p \notin Go
    BY <1>6, <2>0, <2>2
  <2> QED
    BY <2>1, <2>2
<1> HIDE DEF T
<1>9. T = Nat
  <2>1. T \in SUBSET Nat
    BY DEF T
  <2> QED
    BY <2>1, <1>7, <1>8, NumberInduction
<1>10. g[N] = Better(g[N])
  <2>1. \A p \in 0..N : g[N + 1][p] = g[N][p]
    <3>1. N \in T
      BY <1>9
    <3>2. \A p \in 0..N : p + N >= N
      OBVIOUS
    <3> QED
      BY <3>1, <3>2 DEF T
  <2>2. g[N + 1] \in S /\ g[N] \in S
    BY <1>4
  <2>3. g[N + 1] = g[N]
    BY <2>1, <2>2 DEF S
  <2> QED
    BY <1>5, <2>3
<1>11. IsUpward(g[N], N, A, Go, next, stop, F)
  BY <1>4, <1>10 DEF IsUpward, S, Better
<1> QED
  BY <1>11

\* Induction as far as N.
LEMMA UpToInduction ==
    ASSUME NEW N \in Nat, NEW S, 0 \in S,
           \A n \in 1..N : n - 1 \in S => n \in S
    PROVE  \A n \in 0..N : n \in S
<1> DEFINE T == {n \in Nat : n <= N => n \in S}
<1>1. 0 \in T
  OBVIOUS
<1>2. ASSUME NEW n \in T
      PROVE  n + 1 \in T
  <2> SUFFICES ASSUME n + 1 <= N
               PROVE  n + 1 \in S
    OBVIOUS
  <2>1. n + 1 \in 1..N /\ (n + 1) - 1 = n /\ n \in S
    OBVIOUS
  <2> QED
    BY <2>1
<1> HIDE DEF T
<1>3. T = Nat
  <2>1. T \in SUBSET Nat
    BY DEF T
  <2> QED
    BY <2>1, <1>1, <1>2, NumberInduction
<1> QED
  BY <1>3 DEF T

\* The sets reached from some offsets in n steps or fewer.
IsReach(reach, from, next, N) ==
    reach = [n \in 0..N |-> IF n = 0 THEN from
                            ELSE reach[n - 1] \cup UNION {next[o] : o \in reach[n - 1]}]

\* One step further than n - 1.
ReachStep(reach, next, n) ==
    reach[n] = reach[n - 1] \cup UNION {next[o] : o \in reach[n - 1]}

\* There are such sets.
LEMMA ReachExists ==
    ASSUME NEW next \in [Nat -> SUBSET Nat], NEW from \in SUBSET Nat, NEW N \in Nat
    PROVE  \E reach : IsReach(reach, from, next, N)
<1> DEFINE F == [n \in 1..N |-> [s \in SUBSET Nat |-> s \cup UNION {next[o] : o \in s}]]
<1>1. \A s \in SUBSET Nat : (s \cup UNION {next[o] : o \in s}) \in SUBSET Nat
  OBVIOUS
<1>2. F \in [1..N -> [SUBSET Nat -> SUBSET Nat]]
  BY <1>1
<1>3. PICK f : IsRecursion(f, N, SUBSET Nat, from, F)
  <2> HIDE DEF F
  <2> QED
    BY <1>2, Recursion
<1>4. f \in [0..N -> SUBSET Nat] /\ f = [n \in 0..N |-> IF n = 0 THEN from ELSE F[n][f[n - 1]]]
  BY <1>3 DEF IsRecursion
<1>5. ASSUME NEW n \in 0..N, n # 0
      PROVE  F[n][f[n - 1]] = f[n - 1] \cup UNION {next[o] : o \in f[n - 1]}
  <2>1. n \in 1..N /\ n - 1 \in 0..N
    BY <1>5
  <2>2. f[n - 1] \in SUBSET Nat
    BY <1>4, <2>1
  <2> QED
    BY <2>1, <2>2
<1> HIDE DEF F
<1>6. [n \in 0..N |-> IF n = 0 THEN from ELSE F[n][f[n - 1]]]
        = [n \in 0..N |-> IF n = 0 THEN from ELSE f[n - 1] \cup UNION {next[o] : o \in f[n - 1]}]
  BY <1>5
<1> QED
  BY <1>4, <1>6 DEF IsReach

\* Each set is of numbers, and has the first.
LEMMA ReachGrows ==
    ASSUME NEW next \in [Nat -> SUBSET Nat], NEW from \in SUBSET Nat, NEW N \in Nat,
           NEW reach, IsReach(reach, from, next, N)
    PROVE  /\ reach[0] = from
           /\ \A n \in 0..N : reach[n] \in SUBSET Nat /\ from \subseteq reach[n]
           /\ \A n \in 1..N : ReachStep(reach, next, n)
<1>1. reach[0] = from
  BY DEF IsReach
<1>2. \A n \in 1..N : n \in 0..N /\ n # 0
  OBVIOUS
<1>3. \A n \in 1..N : ReachStep(reach, next, n)
  BY <1>2 DEF IsReach, ReachStep
<1> DEFINE S == {n \in 0..N : reach[n] \in SUBSET Nat /\ from \subseteq reach[n]}
<1>4. 0 \in S
  <2>1. 0 \in 0..N
    OBVIOUS
  <2> QED
    BY <2>1, <1>1
<1>5. ASSUME NEW n \in 1..N, n - 1 \in S
      PROVE  n \in S
  <2>1. reach[n] = reach[n - 1] \cup UNION {next[o] : o \in reach[n - 1]}
    BY <1>3 DEF ReachStep
  <2>2. \A o \in reach[n - 1] : next[o] \in SUBSET Nat
    BY <1>5
  <2>3. reach[n] \in SUBSET Nat /\ from \subseteq reach[n]
    BY <2>1, <2>2, <1>5
  <2> QED
    BY <2>3, <1>2
<1> HIDE DEF S
<1>6. \A n \in 0..N : n \in S
  BY <1>4, <1>5, UpToInduction
<1> QED
  BY <1>1, <1>3, <1>6 DEF S

\* A set that holds the first offsets, and where each of its own leads, holds all.
LEMMA ReachIsLeast ==
    ASSUME NEW next \in [Nat -> SUBSET Nat], NEW from \in SUBSET Nat, NEW N \in Nat,
           NEW reach, IsReach(reach, from, next, N),
           NEW All, from \subseteq All, \A o \in All \cap Nat : next[o] \subseteq All
    PROVE  \A n \in 0..N : reach[n] \subseteq All
<1> DEFINE S == {n \in 0..N : reach[n] \subseteq All}
<1>1. /\ reach[0] = from
      /\ \A n \in 0..N : reach[n] \in SUBSET Nat
      /\ \A n \in 1..N : ReachStep(reach, next, n)
  BY ReachGrows
<1>2. 0 \in S
  <2>1. 0 \in 0..N
    OBVIOUS
  <2> QED
    BY <2>1, <1>1
<1>3. ASSUME NEW n \in 1..N, n - 1 \in S
      PROVE  n \in S
  <2>1. n \in 0..N /\ n - 1 \in 0..N
    OBVIOUS
  <2>2. reach[n - 1] \subseteq All \cap Nat
    BY <1>1, <1>3, <2>1
  <2>3. reach[n] \subseteq All
    BY <1>1, <2>2 DEF ReachStep
  <2> QED
    BY <2>1, <2>3
<1> HIDE DEF S
<1>4. \A n \in 0..N : n \in S
  BY <1>2, <1>3, UpToInduction
<1> QED
  BY <1>4 DEF S


\* As many steps as there are offsets that lead anywhere reach all that can be:
\* a step that reaches no new one of them is the last that matters.
LEMMA ReachIsClosed ==
    ASSUME NEW B \in SUBSET Nat, IsFiniteSet(B),
           NEW next \in [Nat -> SUBSET Nat], \A o \in Nat \ B : next[o] \cap B = {},
           NEW from \in SUBSET Nat,
           NEW reach, IsReach(reach, from, next, Cardinality(B))
    PROVE  \A o \in reach[Cardinality(B)] \cap B : next[o] \subseteq reach[Cardinality(B)]
<1> DEFINE N == Cardinality(B)
           Closed(n) == \A o \in reach[n] : next[o] \cap B \subseteq reach[n]
           S == {n \in 0..N : Closed(n) \/ Cardinality(reach[n] \cap B) > n}
<1>1. N \in Nat
  BY FS_CardinalityType
<1>2. /\ \A n \in 0..N : reach[n] \in SUBSET Nat
      /\ \A n \in 1..N : ReachStep(reach, next, n)
  BY <1>1, ReachGrows
<1>3. \A n \in 0..N : /\ IsFiniteSet(reach[n] \cap B)
                      /\ Cardinality(reach[n] \cap B) \in Nat
                      /\ Cardinality(reach[n] \cap B) <= N
                      /\ Cardinality(reach[n] \cap B) = N => reach[n] \cap B = B
  <2> TAKE n \in 0..N
  <2>1. reach[n] \cap B \in SUBSET B
    OBVIOUS
  <2> QED
    BY <2>1, FS_Subset, FS_CardinalityType
<1> HIDE DEF N
<1>4. 0 \in S
  <2>1. 0 \in 0..N
    BY <1>1
  <2>2. PICK c \in Nat : c = Cardinality(reach[0] \cap B)
    BY <1>3, <2>1
  <2>3. CASE reach[0] \cap B = {}
    <3>1. Closed(0)
      BY <1>2, <2>1, <2>3
    <3> QED
      BY <2>1, <3>1
  <2>4. CASE reach[0] \cap B # {}
    <3>1. Cardinality(reach[0] \cap B) # 0
      BY <1>3, <2>1, <2>4, FS_EmptySet
    <3>2. c > 0
      BY <2>2, <3>1
    <3> QED
      BY <2>1, <2>2, <3>2
  <2> QED
    BY <2>3, <2>4
<1>5. ASSUME NEW n \in 1..N, n - 1 \in S
      PROVE  n \in S
  <2>1. n \in 0..N /\ n - 1 \in 0..N /\ n \in Nat /\ N \in Nat
    BY <1>1
  <2>2. reach[n] = reach[n - 1] \cup UNION {next[o] : o \in reach[n - 1]}
    BY <1>2 DEF ReachStep
  <2>3. CASE Closed(n - 1)
    <3>1. reach[n] \cap B = reach[n - 1] \cap B
      BY <2>2, <2>3
    <3>2. ASSUME NEW o \in reach[n]
          PROVE  next[o] \cap B \subseteq reach[n]
      <4>1. CASE o \in B
        BY <3>1, <2>3, <2>2, <4>1
      <4>2. CASE o \notin B
        BY <4>2, <1>2, <2>1
      <4> QED
        BY <4>1, <4>2
    <3> QED
      BY <3>2, <2>1
  <2>4. CASE ~Closed(n - 1)
    <3>1. PICK o \in reach[n - 1] : ~(next[o] \cap B \subseteq reach[n - 1])
      BY <2>4
    <3>2. PICK x \in next[o] \cap B : x \notin reach[n - 1]
      BY <3>1
    <3>3. x \in reach[n] /\ x \in B
      BY <2>2, <3>2
    <3> DEFINE before == reach[n - 1] \cap B
               now == reach[n] \cap B
    <3>4. before \cup {x} \in SUBSET now /\ x \notin before
      BY <3>2, <3>3, <2>2
    <3>5. /\ IsFiniteSet(before) /\ IsFiniteSet(now)
          /\ Cardinality(before) \in Nat /\ Cardinality(now) \in Nat
      BY <2>1, <1>3
    <3>6. Cardinality(before) > n - 1
      BY <1>5, <2>4
    <3> HIDE DEF before, now
    <3>7. Cardinality(before \cup {x}) = Cardinality(before) + 1
      BY <3>4, <3>5, FS_AddElement
    <3>8. Cardinality(before \cup {x}) <= Cardinality(now)
      BY <3>4, <3>5, FS_Subset
    <3>9. Cardinality(now) > n
      BY <3>5, <3>6, <3>7, <3>8, <2>1
    <3> QED
      BY <3>9, <2>1 DEF now
  <2> QED
    BY <2>3, <2>4
<1> HIDE DEF S
<1>6. \A n \in 0..N : n \in S
  BY <1>1, <1>4, <1>5, UpToInduction
<1> SUFFICES ASSUME NEW o \in reach[N] \cap B
             PROVE  next[o] \subseteq reach[N]
  BY DEF N
<1>7. N # 0
  <2> SUFFICES ASSUME N = 0
               PROVE  FALSE
    OBVIOUS
  <2>1. B = {}
    BY FS_EmptySet DEF N
  <2> QED
    BY <2>1
<1>8. N \in 1..N /\ N - 1 \in 0..N
  BY <1>1, <1>7
<1>9. reach[N] = reach[N - 1] \cup UNION {next[x] : x \in reach[N - 1]}
  BY <1>2, <1>8 DEF ReachStep
<1>10. N - 1 \in S
  BY <1>6, <1>8
<1>11. reach[N] \cap B \subseteq reach[N - 1]
  <2>1. CASE Closed(N - 1)
    BY <1>9, <2>1
  <2>2. CASE ~Closed(N - 1)
    <3>1. PICK c \in Nat : c = Cardinality(reach[N - 1] \cap B) /\ c <= N
      BY <1>3, <1>8
    <3>2. c > N - 1
      BY <1>10, <2>2, <3>1 DEF S
    <3>3. c = N
      BY <1>1, <3>1, <3>2
    <3>4. reach[N - 1] \cap B = B
      BY <1>3, <1>8, <3>1, <3>3
    <3> QED
      BY <3>4
  <2> QED
    BY <2>1, <2>2
<1> QED
  BY <1>9, <1>11
=============================================================================

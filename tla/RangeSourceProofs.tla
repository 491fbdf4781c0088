------------------------- MODULE RangeSourceProofs -------------------------
(***************************************************************************)
(* Proofs about RangeSource, for any number of readers, any file, window   *)
(* size, cache size and request: the cache is never wrong, and every       *)
(* answer is the bytes asked for or a refusal.                             *)
(***************************************************************************)
EXTENDS RangeSource, InductionFacts, TLAPS, SequenceTheorems

(***************************************************************************)
(* Runs of bytes.                                                          *)
(***************************************************************************)

\* A run of bytes inside the file is as long as it says.
LEMMA BytesType ==
    ASSUME NEW o \in Nat, NEW l \in Nat, o + l <= FileLen
    PROVE  BytesFrom(o, l) \in Seq(Nat) /\ Len(BytesFrom(o, l)) = l
PROOF
<1>1. File \in Seq(Nat) /\ Len(File) \in Nat
  BY RangeAssumption, LenProperties
<1>2. \A i \in (o + 1)..(o + l) : File[i] \in Nat
  BY <1>1, ElementOfSeq DEF FileLen
<1>3. /\ SubSeq(File, o + 1, o + l) \in Seq(Nat)
      /\ Len(SubSeq(File, o + 1, o + l)) =
             IF o + 1 <= o + l THEN (o + l) - (o + 1) + 1 ELSE 0
  BY <1>2, SubSeqProperties
<1> QED
  BY <1>3 DEF BytesFrom

\* An empty run holds nothing.
LEMMA NoBytes ==
    ASSUME NEW o \in Nat
    PROVE  BytesFrom(o, 0) = <<>>
PROOF
<1>1. o + 0 < o + 1
  OBVIOUS
<1> QED
  BY <1>1, SubSeqEmpty DEF BytesFrom

\* Adjacent runs join.
LEMMA BytesJoin ==
    ASSUME NEW o \in Nat, NEW l \in Nat, NEW m \in Nat, o + l + m <= FileLen
    PROVE  BytesFrom(o, l) \o BytesFrom(o + l, m) = BytesFrom(o, l + m)
PROOF
<1>1. File \in Seq(Nat) /\ Len(File) \in Nat
  BY RangeAssumption, LenProperties
<1>2. /\ o + 1 \in 1..(Len(File) + 1)
      /\ o + l \in ((o + 1) - 1)..Len(File)
      /\ (o + l) + m \in (o + l)..Len(File)
  BY <1>1 DEF FileLen
<1>3. SubSeq(File, o + 1, o + l) \o SubSeq(File, (o + l) + 1, (o + l) + m)
          = SubSeq(File, o + 1, (o + l) + m)
  BY <1>1, <1>2, ConcatAdjacentSubSeq
<1>4. o + (l + m) = (o + l) + m
  OBVIOUS
<1> QED
  BY <1>3, <1>4 DEF BytesFrom

\* SubSeq under a name that the provers leave alone.
Part(s, m, b) == SubSeq(s, m, b)

\* A part of a run is a run.
LEMMA BytesWithin ==
    ASSUME NEW o \in Nat, NEW l \in Nat, NEW m \in Nat, NEW b \in Nat,
           NEW first \in Nat, NEW size \in Nat,
           o + l <= FileLen, 1 <= m, m <= b, b <= l,
           first = o + m - 1, size = b - m + 1
    PROVE  Part(BytesFrom(o, l), m, b) = BytesFrom(first, size)
PROOF
<1>1. File \in Seq(Nat) /\ Len(File) \in Nat
  BY RangeAssumption, LenProperties
<1> DEFINE i == o + 1
           j == o + l
<1>2. /\ i \in 1..Len(File) /\ j \in 1..Len(File)
      /\ m \in 1..(j - i + 1) /\ b \in 1..(j - i + 1)
  BY <1>1 DEF FileLen
<1>3. SubSeq(SubSeq(File, i, j), m, b) = SubSeq(File, i + m - 1, i + b - 1)
  BY <1>1, <1>2, SubSeqOfSubSeq
<1>4. i + m - 1 = first + 1 /\ i + b - 1 = first + size
  OBVIOUS
<1> QED
  BY <1>3, <1>4 DEF BytesFrom, Part

\* A window that begins in the file is cut from it, and reaches the next
\* window or the end of the file.
LEMMA WindowType ==
    ASSUME NEW i \in Nat, i * Window < FileLen
    PROVE  /\ i * Window \in Nat
           /\ BytesOfWindow(i) \in Seq(Nat)
           /\ Len(BytesOfWindow(i)) = Least(FileLen - i * Window, Window)
           /\ (i + 1) * Window = i * Window + Window
PROOF
<1> DEFINE start == i * Window
<1>1. Window \in Nat /\ FileLen \in Nat
  BY RangeAssumption, LenProperties DEF FileLen
<1>2. start \in Nat /\ (i + 1) * Window = start + Window
  BY <1>1
<1> HIDE DEF start
<1> DEFINE n == Least(FileLen - start, Window)
<1>3. n \in Nat /\ start + n <= FileLen
  <2>1. start < FileLen
    BY DEF start
  <2> QED
    BY <1>1, <1>2, <2>1 DEF Least
<1> HIDE DEF n
<1>4. BytesFrom(start, n) \in Seq(Nat) /\ Len(BytesFrom(start, n)) = n
  BY <1>2, <1>3, BytesType
<1> QED
  BY <1>2, <1>4 DEF BytesOfWindow, start, n

(***************************************************************************)
(* The cache.                                                              *)
(***************************************************************************)

\* Making room leaves different windows of the cache, and space for one more.
LEMMA RoomShape ==
    ASSUME NEW s, NEW now, SoundCache(s, now)
    PROVE  /\ Room(s) \in Seq(CachedWindow)
           /\ Len(Room(s)) < MaxWindows
           /\ \A i \in DOMAIN Room(s) : \E k \in DOMAIN s : Room(s)[i] = s[k]
           /\ \A i, j \in DOMAIN Room(s) :
                  (Room(s)[i].index = Room(s)[j].index \/ Room(s)[i].used = Room(s)[j].used)
                      => i = j
PROOF
<1>1. /\ s \in Seq(CachedWindow) /\ Len(s) \in Nat /\ DOMAIN s = 1..Len(s)
      /\ MaxWindows \in Nat /\ MaxWindows > 0 /\ Len(s) <= MaxWindows
  BY RangeAssumption, LenProperties DEF SoundCache
<1>2. \A j, k \in DOMAIN s :
          (s[j].index = s[k].index \/ s[j].used = s[k].used) => j = k
  BY DEF SoundCache
<1>3. CASE Len(s) >= MaxWindows /\ s # <<>>
  <2> DEFINE k == Oldest(s)
             n == Len(s) - 1
             from(i) == IF i = k THEN Len(s) ELSE i
             t == [i \in 1..n |-> IF i = k THEN s[Len(s)] ELSE s[i]]
  <2>1. n \in Nat /\ n < MaxWindows
    BY <1>1, <1>3
  <2>2. Room(s) = t
    BY <1>3 DEF Room, SwapRemove
  <2> HIDE DEF k
  <2>3. \A i \in 1..n : from(i) \in DOMAIN s /\ t[i] = s[from(i)]
    BY <1>1, <2>1
  <2>4. \A i, j \in 1..n : from(i) = from(j) => i = j
    BY <1>1, <2>1
  <2>5. \A i \in 1..n : t[i] \in CachedWindow
    BY <1>1, <2>3, ElementOfSeq
  <2>6. t \in Seq(CachedWindow)
    <3> DEFINE e(i) == IF i = k THEN s[Len(s)] ELSE s[i]
    <3>1. \A i \in 1..n : e(i) \in CachedWindow
      BY <2>5
    <3> HIDE DEF e
    <3>2. [i \in 1..n |-> e(i)] \in Seq(CachedWindow)
      BY <2>1, <3>1, IsASeq
    <3> QED
      BY <3>2 DEF e
  <2>7. Len(t) = n /\ DOMAIN t = 1..n
    BY <2>1, <2>6, LenProperties
  <2>8. \A i \in DOMAIN t : \E m \in DOMAIN s : t[i] = s[m]
    BY <2>3, <2>7
  <2>9. ASSUME NEW i \in DOMAIN t, NEW j \in DOMAIN t,
               t[i].index = t[j].index \/ t[i].used = t[j].used
        PROVE  i = j
    <3>1. i \in 1..n /\ j \in 1..n
      BY <2>7
    <3> HIDE DEF t, from
    <3>2. from(i) = from(j)
      BY <1>2, <2>3, <2>9, <3>1
    <3> QED
      BY <2>4, <3>1, <3>2
  <2> HIDE DEF t
  <2> QED
    BY <2>1, <2>2, <2>6, <2>7, <2>8, <2>9
<1>4. CASE ~(Len(s) >= MaxWindows /\ s # <<>>)
  <2>1. Room(s) = s
    BY <1>4 DEF Room
  <2>2. Len(s) < MaxWindows
    <3>1. CASE s = <<>>
      BY <1>1, <3>1
    <3>2. CASE s # <<>>
      BY <1>1, <1>4, <3>2
    <3> QED
      BY <3>1, <3>2
  <2> QED
    BY <1>1, <1>2, <2>1, <2>2
<1> QED
  BY <1>3, <1>4

\* A stamp changes nothing else of a window.
LEMMA Stamped ==
    ASSUME NEW x \in CachedWindow, NEW u \in Nat
    PROVE  LET y == [x EXCEPT !.used = u]
           IN  /\ y \in CachedWindow
               /\ y.index = x.index /\ y.bytes = x.bytes /\ y.used = u
PROOF
  BY DEF CachedWindow

\* Stamping a window that is there keeps the cache sound.
LEMMA StampKeepsSound ==
    ASSUME NEW s, NEW now, SoundCache(s, now), NEW k \in DOMAIN s
    PROVE  SoundCache([s EXCEPT ![k].used = now + 1], now + 1)
PROOF
<1> DEFINE w == [s[k] EXCEPT !.used = now + 1]
           t == [s EXCEPT ![k] = w]
<1>1. /\ s \in Seq(CachedWindow) /\ Len(s) \in Nat /\ DOMAIN s = 1..Len(s)
      /\ now \in Nat /\ Len(s) <= MaxWindows
  BY LenProperties DEF SoundCache
<1>2. \A m \in DOMAIN s : s[m] \in CachedWindow
  BY <1>1, ElementOfSeq
<1>3. w \in CachedWindow /\ w.index = s[k].index /\ w.bytes = s[k].bytes /\ w.used = now + 1
  <2>1. s[k] \in CachedWindow /\ now + 1 \in Nat
    BY <1>1, <1>2
  <2> QED
    BY <2>1, Stamped
<1> HIDE DEF w
<1>4. /\ t \in Seq(CachedWindow) /\ Len(t) = Len(s) /\ DOMAIN t = DOMAIN s
      /\ \A m \in DOMAIN s : t[m] = IF m = k THEN w ELSE s[m]
  BY <1>1, <1>3, ExceptSeq
<1>5. ASSUME NEW m \in DOMAIN t
      PROVE  /\ t[m].used <= now + 1
             /\ t[m].index * Window < FileLen
             /\ t[m].bytes = BytesOfWindow(t[m].index)
  <2>1. /\ s[m].used <= now /\ s[m].used \in Nat
        /\ s[m].index * Window < FileLen
        /\ s[m].bytes = BytesOfWindow(s[m].index)
    BY <1>2, <1>4 DEF SoundCache, CachedWindow
  <2>2. t[m].index = s[m].index /\ t[m].bytes = s[m].bytes
    BY <1>3, <1>4
  <2>3. t[m].used = now + 1 \/ t[m].used = s[m].used
    BY <1>3, <1>4
  <2>4. t[m].used <= now + 1
    BY <1>1, <2>1, <2>3
  <2> QED
    BY <2>1, <2>2, <2>4
<1>6. ASSUME NEW i \in DOMAIN t, NEW j \in DOMAIN t,
             t[i].index = t[j].index \/ t[i].used = t[j].used
      PROVE  i = j
  <2>1. t[i].index = s[i].index /\ t[j].index = s[j].index
    BY <1>3, <1>4
  <2>2. CASE t[i].index = t[j].index
    BY <1>4, <2>1, <2>2 DEF SoundCache
  <2>3. CASE t[i].used = t[j].used
    <3>1. /\ s[i].used \in Nat /\ s[i].used <= now
          /\ s[j].used \in Nat /\ s[j].used <= now
      BY <1>2, <1>4 DEF SoundCache, CachedWindow
    <3>2. (i = k) <=> (t[i].used = now + 1)
      BY <1>1, <1>3, <1>4, <3>1
    <3>3. (j = k) <=> (t[j].used = now + 1)
      BY <1>1, <1>3, <1>4, <3>1
    <3>4. CASE i # k /\ j # k
      <4>1. s[i].used = s[j].used
        BY <1>4, <2>3, <3>4
      <4> QED
        BY <1>4, <4>1 DEF SoundCache
    <3> QED
      BY <2>3, <3>2, <3>3, <3>4
  <2> QED
    BY <1>6, <2>2, <2>3
<1> HIDE DEF t
<1>7. SoundCache(t, now + 1)
  BY <1>1, <1>4, <1>5, <1>6 DEF SoundCache
<1> QED
  BY <1>7 DEF t, w

\* So does storing a window that is not there yet, in the room made for it.
LEMMA StoreKeepsSound ==
    ASSUME NEW s, NEW now, SoundCache(s, now),
           NEW i \in Nat, i * Window < FileLen,
           \A k \in DOMAIN s : s[k].index # i
    PROVE  SoundCache(Append(Room(s),
               [index |-> i, bytes |-> BytesOfWindow(i), used |-> now + 1]), now + 1)
PROOF
<1> DEFINE r == Room(s)
           w == [index |-> i, bytes |-> BytesOfWindow(i), used |-> now + 1]
           t == Append(r, w)
<1>1. /\ r \in Seq(CachedWindow) /\ Len(r) < MaxWindows
      /\ \A m \in DOMAIN r : \E k \in DOMAIN s : r[m] = s[k]
      /\ \A m, n \in DOMAIN r : (r[m].index = r[n].index \/ r[m].used = r[n].used) => m = n
  BY RoomShape
<1>2. Len(r) \in Nat /\ DOMAIN r = 1..Len(r) /\ now \in Nat /\ MaxWindows \in Nat
  BY <1>1, RangeAssumption, LenProperties DEF SoundCache
<1>3. w \in CachedWindow
  BY <1>2, WindowType DEF CachedWindow
<1> HIDE DEF r
<1>4. ASSUME NEW m \in DOMAIN r
      PROVE  /\ r[m].used \in Nat /\ r[m].used <= now
             /\ r[m].index * Window < FileLen
             /\ r[m].bytes = BytesOfWindow(r[m].index)
             /\ r[m].index # i
  <2>1. PICK k \in DOMAIN s : r[m] = s[k]
    BY <1>1
  <2>2. r[m] \in CachedWindow
    BY <1>1, <1>2, ElementOfSeq
  <2> QED
    BY <2>1, <2>2 DEF SoundCache, CachedWindow
<1>5. w.index = i /\ w.bytes = BytesOfWindow(i) /\ w.used = now + 1
  OBVIOUS
<1> HIDE DEF w
<1>6. /\ t \in Seq(CachedWindow) /\ Len(t) = Len(r) + 1
      /\ DOMAIN t = 1..(Len(r) + 1)
      /\ \A m \in 1..Len(r) : t[m] = r[m]
      /\ t[Len(r) + 1] = w
  BY <1>1, <1>2, <1>3, AppendProperties, LenProperties
<1> HIDE DEF t
<1>7. \A m \in DOMAIN t : \/ m \in DOMAIN r /\ t[m] = r[m]
                          \/ m = Len(r) + 1 /\ t[m] = w
  BY <1>2, <1>6
<1>8. ASSUME NEW m \in DOMAIN t
      PROVE  /\ t[m].used <= now + 1
             /\ t[m].index * Window < FileLen
             /\ t[m].bytes = BytesOfWindow(t[m].index)
  <2>1. CASE m \in DOMAIN r /\ t[m] = r[m]
    <3>1. r[m].used <= now + 1
      BY <1>2, <1>4, <2>1
    <3> QED
      BY <1>4, <2>1, <3>1
  <2>2. CASE t[m] = w
    <3>1. w.used <= now + 1
      BY <1>2, <1>5
    <3> QED
      BY <1>5, <2>2, <3>1
  <2> QED
    BY <1>7, <2>1, <2>2
<1>9. ASSUME NEW m \in DOMAIN t, NEW n \in DOMAIN t,
             t[m].index = t[n].index \/ t[m].used = t[n].used
      PROVE  m = n
  <2>1. \A k \in DOMAIN r : r[k].index # w.index /\ r[k].used # w.used
    BY <1>2, <1>4, <1>5
  <2>2. CASE m \in DOMAIN r /\ n \in DOMAIN r
    BY <1>1, <1>2, <1>6, <1>9, <2>2
  <2>3. CASE m \in DOMAIN r /\ n \notin DOMAIN r
    BY <1>7, <1>9, <2>1, <2>3
  <2>4. CASE m \notin DOMAIN r /\ n \in DOMAIN r
    BY <1>7, <1>9, <2>1, <2>4
  <2>5. CASE m \notin DOMAIN r /\ n \notin DOMAIN r
    BY <1>7, <2>5
  <2> QED
    BY <2>2, <2>3, <2>4, <2>5
<1>10. SoundCache(t, now + 1)
  BY <1>1, <1>2, <1>6, <1>8, <1>9 DEF SoundCache
<1> QED
  BY <1>10 DEF t, w, r

(***************************************************************************)
(* A read.                                                                 *)
(***************************************************************************)

\* Where a window of n bytes at start overlaps the range from off to end, and
\* which part of the window that is.
LEMMA Overlap ==
    ASSUME NEW off \in Nat, NEW end \in Nat, NEW start \in Nat, NEW n \in Nat, NEW file \in Nat,
           n > 0, off < end, end <= file, start < end, off < start + n, start + n <= file
    PROVE  LET left == Greatest(off, start)
               right == Least(end, start + n)
           IN  /\ left - start \in Nat /\ right - start \in Nat
               /\ left - start < right - start /\ right - start <= n
               /\ left - off \in Nat
               /\ start + (left - start) = off + (left - off)
               /\ off + (left - off) + ((right - start) - (left - start)) <= file
               /\ (right - start) - (left - start) \in Nat
PROOF
<1>1. PICK left \in Nat : left = Greatest(off, start) /\ left >= off /\ left >= start
                           /\ (left = off \/ left = start)
  BY DEF Greatest
<1>2. PICK right \in Nat : right = Least(end, start + n) /\ right <= end /\ right <= start + n
                            /\ (right = end \/ right = start + n)
  BY DEF Least
<1>3. left < right
  BY <1>1, <1>2
<1>4. /\ left - start \in Nat /\ right - start \in Nat
      /\ left - start < right - start /\ right - start <= n
      /\ left - off \in Nat
  BY <1>1, <1>2, <1>3
<1>5. start + (left - start) = off + (left - off)
  BY <1>1
<1>6. /\ off + (left - off) + ((right - start) - (left - start)) <= file
      /\ (right - start) - (left - start) \in Nat
  BY <1>1, <1>2, <1>3
<1> QED
  BY <1>1, <1>2, <1>4, <1>5, <1>6

\* One turn of the loop of read_bytes, given the bytes of the window it is at,
\* leads to the next window, or to all the bytes of the range.
LEMMA OneMoreWindow ==
    ASSUME NEW q \in [offset : Nat, len : Nat], NEW i \in Nat, NEW o,
           Reading(q, i, o)
    PROVE  LET bytes == BytesOfWindow(i)
               start == i * Window
               end == q.offset + q.len
               more == SubSeq(bytes, Greatest(q.offset, start) - start + 1,
                              Least(end, start + Len(bytes)) - start)
           IN  /\ o \o more \in Seq(Nat)
               /\ IF (i + 1) * Window < end THEN Reading(q, i + 1, o \o more)
                  ELSE o \o more = BytesFrom(q.offset, q.len)
PROOF
<1> DEFINE start == i * Window
           next == (i + 1) * Window
           off == q.offset
           end == off + q.len
           bytes == BytesOfWindow(i)
           n == Least(FileLen - start, Window)
           have == Greatest(off, start) - off
           from == Greatest(off, start) - start
           to == Least(end, start + Len(bytes)) - start
           more == SubSeq(bytes, from + 1, to)
<1>1. /\ off \in Nat /\ q.len \in Nat /\ end \in Nat
      /\ Window \in Nat /\ Window > 0 /\ FileLen \in Nat
  BY RangeAssumption, LenProperties DEF FileLen
<1>2. /\ end <= FileLen /\ start < end /\ off < next
      /\ o = BytesFrom(off, have)
  BY DEF Reading, InFile
<1>3. start < FileLen
  <2>1. start \in Nat
    BY <1>1
  <2> HIDE DEF start, end
  <2> QED
    BY <1>1, <1>2, <2>1
<1>4. /\ start \in Nat /\ Len(bytes) = n /\ next = start + Window
  BY <1>3, WindowType
<1>5. bytes = BytesFrom(start, n)
  BY DEF BytesOfWindow
<1> HIDE DEF start, next, end, bytes, off
<1>6. n \in Nat /\ start + n <= FileLen
  BY <1>1, <1>3, <1>4 DEF Least
<1>7. /\ from \in Nat /\ to \in Nat /\ from < to /\ to <= n
      /\ have \in Nat
      /\ start + from = off + have
      /\ off + have + (to - from) <= FileLen
      /\ to - from \in Nat
  <2>1. end = off + q.len
    BY DEF end, off
  <2>2. q.len > 0
    BY DEF Reading
  <2>3. off < end
    BY ONLY <1>1, <2>1, <2>2
  <2>4. n = FileLen - start \/ n = Window
    BY DEF n, Least
  <2> HIDE DEF n
  <2>5. n > 0 /\ off < start + n
    BY ONLY <1>1, <1>2, <1>3, <1>4, <2>3, <2>4
  <2> QED
    BY <1>1, <1>2, <1>4, <1>6, <2>3, <2>5, Overlap DEF from, to, have
<1> HIDE DEF from, to, have, n
<1>8. more = BytesFrom(off + have, to - from)
  <2> DEFINE m == from + 1
             first == off + have
             size == to - from
  <2>1. /\ m \in Nat /\ 1 <= m /\ m <= to /\ to <= n
        /\ first \in Nat /\ first = start + m - 1
        /\ size \in Nat /\ size = to - m + 1
    BY <1>1, <1>4, <1>7
  <2> HIDE DEF m, first, size
  <2>2. Part(BytesFrom(start, n), m, to) = BytesFrom(first, size)
    BY <1>4, <1>6, <1>7, <2>1, BytesWithin
  <2> QED
    BY <1>5, <2>2 DEF m, first, size, Part
<1>9. o \o more = BytesFrom(off, have + (to - from))
  <2> DEFINE l == to - from
  <2>1. l \in Nat /\ off + have + l <= FileLen
    BY <1>7
  <2>2. o = BytesFrom(off, have)
    BY <1>2
  <2> HIDE DEF l
  <2>3. BytesFrom(off, have) \o BytesFrom(off + have, l) = BytesFrom(off, have + l)
    <3>1. off \in Nat /\ have \in Nat /\ l \in Nat /\ off + have + l <= FileLen
      BY <1>1, <1>7, <2>1
    <3> QED
      BY ONLY <3>1, RangeAssumption, BytesJoin
  <2> QED
    BY <1>8, <2>2, <2>3 DEF l
<1>10. have + (to - from) = Least(end, next) - off
  BY <1>1, <1>2, <1>3, <1>4, <1>6 DEF have, to, from, n, Least, Greatest
<1>11. o \o more \in Seq(Nat)
  <2> DEFINE l == have + (to - from)
             joined == o \o more
  <2>1. off \in Nat /\ l \in Nat /\ off + l <= FileLen
    BY <1>1, <1>7
  <2>2. joined = BytesFrom(off, l)
    BY <1>9
  <2> HIDE DEF l, joined
  <2>3. BytesFrom(off, l) \in Seq(Nat)
    BY ONLY <2>1, BytesType
  <2>4. joined \in Seq(Nat)
    BY ONLY <2>2, <2>3
  <2> QED
    BY ONLY <2>4 DEF joined
<1>12. CASE next < end
  <2>1. have + (to - from) = Greatest(off, next) - off
    BY <1>1, <1>2, <1>4, <1>10, <1>12 DEF Least, Greatest
  <2>2. off < ((i + 1) + 1) * Window
    <3>1. ((i + 1) + 1) * Window = (i + 1) * Window + Window
      BY <1>1
    <3>2. ((i + 1) + 1) * Window = next + Window
      BY <3>1 DEF next
    <3> QED
      BY <1>1, <1>2, <1>4, <3>2
  <2>3. InFile(q) /\ q.len > 0
    BY DEF Reading
  <2>4. Reading(q, i + 1, o \o more)
    BY <1>9, <1>12, <2>1, <2>2, <2>3 DEF Reading, next, end, off
  <2> QED
    BY <1>11, <1>12, <2>4 DEF start, next, end, off, bytes, more, from, to
<1>13. CASE ~(next < end)
  <2>1. Least(end, next) - off = q.len
    BY <1>1, <1>4, <1>13 DEF Least, end, off
  <2>2. o \o more = BytesFrom(off, q.len)
    BY <1>9, <1>10, <2>1
  <2> QED
    BY <1>11, <1>13, <2>2 DEF start, next, end, off, bytes, more, from, to
<1> QED
  BY <1>12, <1>13

(***************************************************************************)
(* The invariant.                                                          *)
(***************************************************************************)

\* Every request names a range of numbers.
LEMMA RequestType ==
    ASSUME NEW q \in Requests
    PROVE  q \in [offset : Nat, len : Nat] /\ q.offset \in Nat /\ q.len \in Nat
PROOF
  BY RangeAssumption

\* It holds before any read.
LEMMA RangeInvInit == Init => RangeInv
PROOF
<1> SUFFICES ASSUME Init PROVE RangeInv
  OBVIOUS
<1>1. (CHOOSE q \in Requests : TRUE) \in Requests
  BY RangeAssumption
<1>2. TypeOK
  BY <1>1 DEF Init, TypeOK, Steps, Refusal, CachedWindow
<1>3. SoundCache(windows, clock)
  <2>1. windows = <<>> /\ clock = 0 /\ MaxWindows \in Nat
    BY RangeAssumption DEF Init
  <2>2. windows \in Seq(CachedWindow) /\ Len(windows) = 0 /\ DOMAIN windows = {}
    BY <2>1
  <2> QED
    BY <2>1, <2>2 DEF SoundCache
<1>4. \A r \in Readers : SoundReader(r)
  BY DEF Init, SoundReader
<1> QED
  BY <1>2, <1>3, <1>4 DEF RangeInv

\* Only the reader that takes a step is disturbed by it.
LEMMA OthersUndisturbed ==
    ASSUME NEW r, NEW s, SoundReader(s),
           pc'[s] = pc[s], request'[s] = request[s], index'[s] = index[s],
           out'[s] = out[s], fetched'[s] = fetched[s]
    PROVE  SoundReader(s)'
PROOF
  BY DEF SoundReader

\* A read begins in the first window its range reaches into.
LEMMA AskStep ==
    ASSUME RangeInv, NEW r \in Readers, NEW q \in Requests, Ask(r, q)
    PROVE  RangeInv'
PROOF
<1>1. q.offset \in Nat /\ q.len \in Nat /\ Window \in Nat /\ Window > 0
  BY RequestType, RangeAssumption
<1> DEFINE i == q.offset \div Window
<1>2. i \in Nat /\ i * Window \in Nat /\ i * Window <= q.offset
      /\ q.offset < i * Window + Window /\ (i + 1) * Window = i * Window + Window
  BY <1>1
<1> HIDE DEF i
<1>3. TypeOK'
  <2>1. /\ reads' \in [Readers -> Nat] /\ request' \in [Readers -> Requests]
        /\ out' \in [Readers -> Seq(Nat)]
    BY DEF RangeInv, TypeOK, Ask
  <2>2. index' \in [Readers -> Nat]
    BY <1>2 DEF RangeInv, TypeOK, Ask, i
  <2>3. pc' \in [Readers -> Steps]
    BY DEF RangeInv, TypeOK, Ask, Steps
  <2> QED
    BY <2>1, <2>2, <2>3 DEF RangeInv, TypeOK, Ask, cacheVars
<1>4. SoundCache(windows, clock)'
  BY DEF RangeInv, Ask, cacheVars
<1>5. ASSUME NEW s \in Readers
      PROVE  SoundReader(s)'
  <2>1. CASE s # r
    BY <2>1, OthersUndisturbed DEF RangeInv, TypeOK, Ask
  <2>2. CASE s = r
    <3>1. request'[s] = q /\ out'[s] = <<>>
      BY <2>2 DEF RangeInv, TypeOK, Ask
    <3>2. index'[s] = i
      BY <2>2 DEF RangeInv, TypeOK, Ask, i
    <3>3. pc'[s] = IF ~InFile(q) THEN "refuse"
                   ELSE IF q.len = 0 THEN "done"
                   ELSE IF q.len >= Window * MaxWindows THEN "direct"
                   ELSE "lookup"
      BY <2>2 DEF RangeInv, TypeOK, Ask
    <3>4. CASE ~InFile(q)
      BY <3>1, <3>3, <3>4 DEF SoundReader, InFile, FileLen
    <3>5. CASE InFile(q) /\ q.len = 0
      BY <1>1, <3>1, <3>3, <3>5, NoBytes DEF SoundReader, InFile, FileLen
    <3>6. CASE pc'[s] = "direct"
      <4>1. InFile(q) /\ q.len > 0
        BY <1>1, <3>3, <3>6
      <4> QED
        BY <3>1, <3>6, <4>1 DEF SoundReader, InFile, FileLen
    <3>7. CASE pc'[s] = "lookup"
      <4>1. InFile(q) /\ q.len # 0
        BY <3>3, <3>7
      <4>2. Greatest(q.offset, i * Window) - q.offset = 0
        BY <1>1, <1>2 DEF Greatest
      <4>3. BytesFrom(q.offset, 0) = <<>>
        BY <1>1, NoBytes
      <4>4. i * Window < q.offset + q.len /\ q.offset < (i + 1) * Window /\ q.len > 0
        BY <1>1, <1>2, <4>1
      <4>5. Reading(q, i, <<>>)
        BY <4>1, <4>2, <4>3, <4>4 DEF Reading
      <4> QED
        BY <3>1, <3>2, <3>7, <4>5 DEF SoundReader, Reading, InFile, FileLen, BytesFrom
    <3> QED
      BY <3>3, <3>4, <3>5, <3>6, <3>7
  <2> QED
    BY <2>1, <2>2
<1> QED
  BY <1>3, <1>4, <1>5 DEF RangeInv

\* Taking the bytes of the right window moves the read on.
LEMMA AdvanceStep ==
    ASSUME RangeInv, NEW r \in Readers, pc[r] \in {"lookup", "store"},
           Advance(r, BytesOfWindow(index[r])),
           UNCHANGED <<request, fetched>>
    PROVE  /\ pc' \in [Readers -> Steps]
           /\ index' \in [Readers -> Nat]
           /\ out' \in [Readers -> Seq(Nat)]
           /\ \A s \in Readers : SoundReader(s)'
PROOF
<1> DEFINE q == request[r]
           i == index[r]
           o == out[r]
           next == o \o Wanted(r, BytesOfWindow(i))
<1>1. q \in [offset : Nat, len : Nat] /\ i \in Nat
  BY RequestType DEF RangeInv, TypeOK
<1>2. Reading(q, i, o)
  BY DEF RangeInv, SoundReader
<1>3. /\ next \in Seq(Nat)
      /\ IF (i + 1) * Window < End(r) THEN Reading(q, i + 1, next)
         ELSE next = BytesFrom(q.offset, q.len)
  BY <1>1, <1>2, OneMoreWindow DEF Wanted, End
<1>4. InFile(q)
  BY <1>2 DEF Reading
<1> HIDE DEF next
<1>5. /\ out' = [out EXCEPT ![r] = next]
      /\ index' = [index EXCEPT ![r] = i + 1]
      /\ pc' = [pc EXCEPT ![r] = IF (i + 1) * Window < End(r) THEN "lookup" ELSE "done"]
  BY DEF Advance, next
<1>6. /\ pc' \in [Readers -> Steps]
      /\ index' \in [Readers -> Nat]
      /\ out' \in [Readers -> Seq(Nat)]
  BY <1>1, <1>3, <1>5 DEF RangeInv, TypeOK, Steps
<1>7. ASSUME NEW s \in Readers
      PROVE  SoundReader(s)'
  <2>1. CASE s # r
    BY <1>5, <2>1, OthersUndisturbed DEF RangeInv, TypeOK
  <2>2. CASE s = r
    <3>1. request'[s] = q /\ out'[s] = next /\ index'[s] = i + 1
      BY <1>5, <2>2 DEF RangeInv, TypeOK
    <3>2. pc'[s] = IF (i + 1) * Window < End(r) THEN "lookup" ELSE "done"
      BY <1>5, <2>2 DEF RangeInv, TypeOK
    <3> HIDE DEF q, i
    <3>3. CASE pc'[s] = "lookup" /\ Reading(q, i + 1, next)
      BY <3>1, <3>3 DEF SoundReader, Reading, InFile, FileLen, BytesFrom
    <3>4. CASE pc'[s] = "done" /\ next = BytesFrom(q.offset, q.len)
      BY <1>4, <3>1, <3>4 DEF SoundReader, InFile, FileLen, BytesFrom
    <3> QED
      BY <1>3, <3>2, <3>3, <3>4
  <2> QED
    BY <2>1, <2>2
<1> QED
  BY <1>6, <1>7

\* A hit hands over the bytes of the window and stamps it.
LEMMA HitStep ==
    ASSUME RangeInv, NEW r \in Readers, Hit(r)
    PROVE  RangeInv'
PROOF
<1>1. PICK k \in DOMAIN windows :
          /\ windows[k].index = index[r]
          /\ windows' = [windows EXCEPT ![k].used = clock + 1]
          /\ Advance(r, windows[k].bytes)
  BY DEF Hit
<1>2. windows[k].bytes = BytesOfWindow(index[r])
  BY <1>1 DEF RangeInv, SoundCache
<1>3. /\ pc' \in [Readers -> Steps]
      /\ index' \in [Readers -> Nat]
      /\ out' \in [Readers -> Seq(Nat)]
      /\ \A s \in Readers : SoundReader(s)'
  BY <1>1, <1>2, AdvanceStep DEF Hit
<1>4. clock' = clock + 1
  BY DEF Hit
<1>5. SoundCache(windows, clock)'
  <2>1. SoundCache([windows EXCEPT ![k].used = clock + 1], clock + 1)
    BY StampKeepsSound DEF RangeInv
  <2> QED
    BY <1>1, <1>4, <2>1 DEF SoundCache, BytesOfWindow, BytesFrom, FileLen
<1>6. TypeOK'
  <2>1. windows' \in Seq(CachedWindow) /\ clock' \in Nat
    BY <1>5 DEF SoundCache
  <2> QED
    BY <1>3, <2>1 DEF RangeInv, TypeOK, Hit
<1> QED
  BY <1>3, <1>5, <1>6 DEF RangeInv

\* A window is stored once, however many readers fetched it.
LEMMA StoreStep ==
    ASSUME RangeInv, NEW r \in Readers, Store(r)
    PROVE  RangeInv'
PROOF
<1>1. fetched[r] = BytesOfWindow(index[r])
  BY DEF RangeInv, SoundReader, Store
<1>2. /\ pc' \in [Readers -> Steps]
      /\ index' \in [Readers -> Nat]
      /\ out' \in [Readers -> Seq(Nat)]
      /\ \A s \in Readers : SoundReader(s)'
  BY <1>1, AdvanceStep DEF Store
<1>3. index[r] \in Nat /\ index[r] * Window < FileLen
  <2>1. Reading(request[r], index[r], out[r])
    BY DEF RangeInv, SoundReader, Store
  <2>2. /\ index[r] \in Nat /\ request[r].offset \in Nat /\ request[r].len \in Nat
        /\ Window \in Nat /\ FileLen \in Nat
    BY RequestType, RangeAssumption, LenProperties DEF RangeInv, TypeOK, FileLen
  <2> DEFINE start == index[r] * Window
  <2>3. start \in Nat /\ start < request[r].offset + request[r].len
    BY <2>1, <2>2 DEF Reading
  <2>4. request[r].offset + request[r].len <= FileLen
    BY <2>1 DEF Reading, InFile
  <2> HIDE DEF start
  <2>5. start < FileLen
    BY <2>2, <2>3, <2>4
  <2> QED
    BY <2>2, <2>5 DEF start
<1>4. clock' = clock + 1 /\ clock \in Nat
  BY DEF Store, RangeInv, TypeOK
<1>5. SoundCache(windows', clock')
  <2>1. CASE Cached(index[r])
    <3>1. windows' = windows
      BY <2>1 DEF Store
    <3>2. SoundCache(windows, clock + 1)
      <4>1. \A k \in DOMAIN windows : windows[k].used \in Nat
        <5>1. windows \in Seq(CachedWindow) /\ DOMAIN windows = 1..Len(windows)
          BY LenProperties DEF RangeInv, TypeOK
        <5>2. \A k \in DOMAIN windows : windows[k] \in CachedWindow
          BY <5>1, ElementOfSeq
        <5> QED
          BY <5>2 DEF CachedWindow
      <4>2. \A k \in DOMAIN windows : windows[k].used <= clock + 1
        BY <1>4, <4>1 DEF RangeInv, SoundCache
      <4> QED
        BY <1>4, <4>2 DEF RangeInv, SoundCache
    <3> QED
      BY <1>4, <3>1, <3>2
  <2>2. CASE ~Cached(index[r])
    <3>1. windows' = Append(Room(windows),
              [index |-> index[r], bytes |-> BytesOfWindow(index[r]), used |-> clock + 1])
      BY <1>1, <2>2 DEF Store
    <3>2. \A k \in DOMAIN windows : windows[k].index # index[r]
      BY <2>2 DEF Cached
    <3>3. SoundCache(windows', clock + 1)
      BY <1>3, <3>1, <3>2, StoreKeepsSound DEF RangeInv
    <3> QED
      BY <1>4, <3>3
  <2> QED
    BY <2>1, <2>2
<1>6. SoundCache(windows, clock)'
  BY <1>5 DEF SoundCache, BytesOfWindow, BytesFrom, FileLen
<1>7. TypeOK'
  <2>1. windows' \in Seq(CachedWindow) /\ clock' \in Nat
    BY <1>5 DEF SoundCache
  <2> QED
    BY <1>2, <1>5, <2>1 DEF RangeInv, TypeOK, Store
<1> QED
  BY <1>2, <1>6, <1>7 DEF RangeInv

\* A long read takes the bytes of its range and leaves the cache alone.
LEMMA DirectStep ==
    ASSUME RangeInv, NEW r \in Readers, Direct(r)
    PROVE  RangeInv'
PROOF
<1> DEFINE q == request[r]
<1>1. q.offset \in Nat /\ q.len \in Nat /\ InFile(q)
  BY RequestType DEF RangeInv, TypeOK, SoundReader, Direct
<1>2. BytesFrom(q.offset, q.len) \in Seq(Nat)
  BY <1>1, BytesType DEF InFile
<1>3. TypeOK'
  BY <1>2 DEF RangeInv, TypeOK, Direct, Steps, cacheVars
<1>4. SoundCache(windows, clock)'
  BY DEF RangeInv, Direct, cacheVars
<1>5. ASSUME NEW s \in Readers
      PROVE  SoundReader(s)'
  <2>1. CASE s # r
    BY <2>1, OthersUndisturbed DEF RangeInv, TypeOK, Direct
  <2>2. CASE s = r
    <3>1. pc'[s] = "done" /\ request'[s] = q /\ out'[s] = BytesFrom(q.offset, q.len)
      BY <2>2 DEF RangeInv, TypeOK, Direct
    <3> QED
      BY <1>1, <3>1 DEF SoundReader, InFile, FileLen, BytesFrom
  <2> QED
    BY <2>1, <2>2
<1> QED
  BY <1>3, <1>4, <1>5 DEF RangeInv

\* A miss leaves the windows as they are, under a later clock.
LEMMA MissStep ==
    ASSUME RangeInv, NEW r \in Readers, Miss(r)
    PROVE  RangeInv'
PROOF
<1>1. TypeOK'
  BY DEF RangeInv, TypeOK, Miss, Steps
<1>2. SoundCache(windows, clock)'
  <2>1. windows \in Seq(CachedWindow) /\ DOMAIN windows = 1..Len(windows) /\ clock \in Nat
    BY LenProperties DEF RangeInv, TypeOK
  <2>2. \A k \in DOMAIN windows : windows[k].used \in Nat
    <3>1. \A k \in DOMAIN windows : windows[k] \in CachedWindow
      BY <2>1, ElementOfSeq
    <3> QED
      BY <3>1 DEF CachedWindow
  <2>3. \A k \in DOMAIN windows : windows[k].used <= clock + 1
    BY <2>1, <2>2 DEF RangeInv, SoundCache
  <2>4. windows' = windows /\ clock' = clock + 1
    BY DEF Miss
  <2>5. SoundCache(windows, clock + 1)
    BY <2>1, <2>3 DEF RangeInv, SoundCache
  <2> QED
    BY <2>4, <2>5 DEF SoundCache, BytesOfWindow, BytesFrom, FileLen
<1>3. ASSUME NEW s \in Readers
      PROVE  SoundReader(s)'
  <2>1. CASE s # r
    BY <2>1, OthersUndisturbed DEF RangeInv, TypeOK, Miss
  <2>2. CASE s = r
    <3>1. pc'[s] = "fetch" /\ pc[s] = "lookup"
      BY <2>2 DEF RangeInv, TypeOK, Miss
    <3> QED
      BY <3>1 DEF RangeInv, SoundReader, Miss
  <2> QED
    BY <2>1, <2>2
<1> QED
  BY <1>1, <1>2, <1>3 DEF RangeInv

\* A fetch brings the bytes of the window.
LEMMA FetchStep ==
    ASSUME RangeInv, NEW r \in Readers, Fetch(r)
    PROVE  RangeInv'
PROOF
<1>1. index[r] \in Nat /\ BytesOfWindow(index[r]) \in Seq(Nat)
  <2>1. Reading(request[r], index[r], out[r])
    BY DEF RangeInv, SoundReader, Fetch
  <2>2. /\ index[r] \in Nat /\ request[r].offset \in Nat /\ request[r].len \in Nat
        /\ Window \in Nat /\ FileLen \in Nat
    BY RequestType, RangeAssumption, LenProperties DEF RangeInv, TypeOK, FileLen
  <2>3. index[r] * Window \in Nat
    BY <2>2
  <2>4. index[r] * Window < request[r].offset + request[r].len
        /\ request[r].offset + request[r].len <= FileLen
    BY <2>1 DEF Reading, InFile
  <2> DEFINE start == index[r] * Window
             end == request[r].offset + request[r].len
  <2>5. start \in Nat /\ end \in Nat /\ start < end /\ end <= FileLen
    BY <2>2, <2>3, <2>4
  <2> HIDE DEF start, end
  <2>6. start < FileLen
    BY <2>2, <2>5
  <2> QED
    BY <2>2, <2>6, WindowType DEF start
<1>2. TypeOK'
  BY <1>1 DEF RangeInv, TypeOK, Fetch, Steps, cacheVars
<1>3. SoundCache(windows, clock)'
  BY DEF RangeInv, Fetch, cacheVars
<1>4. ASSUME NEW s \in Readers
      PROVE  SoundReader(s)'
  <2>1. CASE s # r
    BY <2>1, OthersUndisturbed DEF RangeInv, TypeOK, Fetch
  <2>2. CASE s = r
    <3>1. /\ pc'[s] = "store" /\ pc[s] = "fetch"
          /\ fetched'[s] = BytesOfWindow(index[s])
      BY <2>2 DEF RangeInv, TypeOK, Fetch
    <3> QED
      BY <3>1 DEF RangeInv, SoundReader, Fetch
  <2> QED
    BY <2>1, <2>2
<1> QED
  BY <1>2, <1>3, <1>4 DEF RangeInv

\* A fetch that fails leads to a refusal, and only where bytes were wanted.
LEMMA FetchFailsStep ==
    ASSUME RangeInv, NEW r \in Readers, FetchFails(r)
    PROVE  RangeInv'
PROOF
<1>1. TypeOK'
  BY DEF RangeInv, TypeOK, FetchFails, Steps, cacheVars
<1>2. SoundCache(windows, clock)'
  BY DEF RangeInv, FetchFails, cacheVars
<1>3. ASSUME NEW s \in Readers
      PROVE  SoundReader(s)'
  <2>1. CASE s # r
    BY <2>1, OthersUndisturbed DEF RangeInv, TypeOK, FetchFails
  <2>2. CASE s = r
    <3>1. pc'[s] = "refuse" /\ request' = request
      BY <2>2 DEF RangeInv, TypeOK, FetchFails
    <3>2. request[s].len > 0
      <4>1. CASE pc[s] = "fetch"
        BY <4>1 DEF RangeInv, SoundReader, Reading
      <4>2. CASE pc[s] = "direct"
        BY <4>2 DEF RangeInv, SoundReader
      <4> QED
        BY <2>2, <4>1, <4>2 DEF FetchFails
    <3> QED
      BY <3>1, <3>2 DEF SoundReader
  <2> QED
    BY <2>1, <2>2
<1> QED
  BY <1>1, <1>2, <1>3 DEF RangeInv

\* Handing over the answer changes nothing for the other reads.
LEMMA FinishStep ==
    ASSUME RangeInv, NEW r \in Readers, Finish(r)
    PROVE  RangeInv'
PROOF
<1>1. TypeOK'
  BY DEF RangeInv, TypeOK, Finish, Steps, Given, Refusal, cacheVars
<1>2. SoundCache(windows, clock)'
  BY DEF RangeInv, Finish, cacheVars
<1>3. ASSUME NEW s \in Readers
      PROVE  SoundReader(s)'
  <2>1. CASE s # r
    BY <2>1, OthersUndisturbed DEF RangeInv, TypeOK, Finish
  <2>2. CASE s = r
    BY <2>2 DEF RangeInv, TypeOK, Finish, SoundReader
  <2> QED
    BY <2>1, <2>2
<1> QED
  BY <1>1, <1>2, <1>3 DEF RangeInv

\* Every step preserves the invariant.
LEMMA RangeInvStep == RangeInv /\ [Next]_vars => RangeInv'
PROOF
<1>1. ASSUME RangeInv, UNCHANGED vars
      PROVE  RangeInv'
  BY <1>1 DEF vars, RangeInv, TypeOK, SoundCache, SoundReader, Reading, InFile,
              BytesOfWindow, BytesFrom, FileLen
<1>2. ASSUME RangeInv, NEW r \in Readers, Continue(r)
      PROVE  RangeInv'
  BY <1>2, DirectStep, HitStep, MissStep, FetchStep, FetchFailsStep, StoreStep, FinishStep
     DEF Continue
<1>3. ASSUME RangeInv, NEW r \in Readers, NEW q \in Requests, Ask(r, q)
      PROVE  RangeInv'
  BY <1>3, AskStep
<1> QED
  BY <1>1, <1>2, <1>3 DEF Next

\* The invariant holds throughout, however the readers interleave.
THEOREM RangeInvariant == Spec => []RangeInv
PROOF
<1> QED
  BY RangeInvInit, RangeInvStep, PTL DEF Spec

(***************************************************************************)
(* What follows from it.                                                   *)
(***************************************************************************)

\* Every variable keeps its type.
THEOREM RangeTypeCorrect == Spec => []TypeOK
PROOF
<1>1. RangeInv => TypeOK
  BY DEF RangeInv
<1> QED
  BY <1>1, RangeInvariant, PTL

\* Readers that miss one window at the same time never store it twice, and
\* the cache keeps to its limit (window_bytes looks again before it stores).
THEOREM RangeOneCopy == Spec => []OneCopyInBounds
PROOF
<1>1. RangeInv => OneCopyInBounds
  BY DEF RangeInv, SoundCache, OneCopyInBounds
<1> QED
  BY <1>1, RangeInvariant, PTL

\* No cached window holds anything but the bytes of its place, although it was
\* fetched outside the lock and stored later.
THEOREM RangeWindowsMatch == Spec => []WindowsMatchTheFile
PROOF
<1>1. RangeInv => WindowsMatchTheFile
  BY DEF RangeInv, SoundCache, SoundReader, WindowsMatchTheFile
<1> QED
  BY <1>1, RangeInvariant, PTL

\* The oldest window is always one window: stamps are never given out twice.
THEOREM RangeStampsDistinct == Spec => []StampsDistinct
PROOF
<1>1. RangeInv => StampsDistinct
  BY DEF RangeInv, SoundCache, StampsDistinct
<1> QED
  BY <1>1, RangeInvariant, PTL

\* The subtraction that sizes a fetch never underflows.
THEOREM RangeBeginsInFile == Spec => []WindowsBeginInFile
PROOF
<1>1. RangeInv => WindowsBeginInFile
  BY DEF RangeInv, SoundCache, SoundReader, Reading, End, WindowsBeginInFile
<1> QED
  BY <1>1, RangeInvariant, PTL

\* A read has always assembled the bytes of its range up to where it is.
THEOREM RangeAssembles == Spec => []AssembledInOrder
PROOF
<1>1. RangeInv => AssembledInOrder
  BY DEF RangeInv, SoundReader, Reading, AssembledInOrder
<1> QED
  BY <1>1, RangeInvariant, PTL

(***************************************************************************)
(* The windows that are kept.                                              *)
(***************************************************************************)

\* The two parts of RecencyInv, of any cache and any history of uses.
StampsTell(s, now, uses) ==
    /\ \A k \in DOMAIN s :
           s[k].index \in DOMAIN uses /\ uses[s[k].index] = s[k].used
    /\ \A i \in DOMAIN uses : uses[i] \in Nat /\ uses[i] <= now

IsThere(s, i) == \E k \in DOMAIN s : s[k].index = i

Older(s, uses, i) ==
    /\ Len(s) = MaxWindows
    /\ \A k \in DOMAIN s : s[k].index \in DOMAIN uses /\ uses[i] < uses[s[k].index]

KeepsRecent(s, uses) == \A i \in DOMAIN uses : IsThere(s, i) \/ Older(s, uses, i)

\* The history after window i is used at now + 1.
Used(uses, i, now) == [j \in DOMAIN uses \cup {i} |-> IF j = i THEN now + 1 ELSE uses[j]]

\* Where the stamps differ, there is one window of the least stamp, and it is
\* the one Oldest chooses.
LEMMA OldestIsLeast ==
    ASSUME NEW s, NEW now, SoundCache(s, now), s # <<>>
    PROVE  /\ Oldest(s) \in DOMAIN s
           /\ \A i \in DOMAIN s : i # Oldest(s) => s[Oldest(s)].used < s[i].used
PROOF
<1>1. /\ s \in Seq(CachedWindow) /\ Len(s) \in Nat /\ DOMAIN s = 1..Len(s)
      /\ \A j, k \in DOMAIN s : s[j].used = s[k].used => j = k
  BY LenProperties DEF SoundCache
<1>2. \A k \in DOMAIN s : s[k].used \in Nat
  <2>1. \A k \in DOMAIN s : s[k] \in CachedWindow
    BY <1>1, ElementOfSeq
  <2> QED
    BY <2>1 DEF CachedWindow
<1> DEFINE stamps == {s[k].used : k \in DOMAIN s}
<1>3. stamps \in SUBSET Nat /\ stamps # {}
  <2>1. 1 \in DOMAIN s
    BY <1>1
  <2> QED
    BY <1>2, <2>1
<1>4. PICK u \in stamps : \A v \in stamps : u <= v
  <2> HIDE DEF stamps
  <2> QED
    BY <1>3, LeastNumber
<1>5. PICK m \in DOMAIN s : s[m].used = u
  OBVIOUS
<1>6. \A i \in DOMAIN s : s[m].used <= s[i].used
  BY <1>4, <1>5
<1>7. \A i \in 1..(m - 1) : s[m].used < s[i].used
  <2> SUFFICES ASSUME NEW i \in 1..(m - 1)
               PROVE  s[m].used < s[i].used
    OBVIOUS
  <2>1. i \in DOMAIN s /\ i # m
    BY <1>1
  <2>2. s[m].used <= s[i].used /\ s[m].used # s[i].used
    BY <1>1, <1>6, <2>1
  <2> QED
    BY <1>2, <2>1, <2>2
<1> DEFINE k == Oldest(s)
<1>8. k \in DOMAIN s /\ \A i \in DOMAIN s : s[k].used <= s[i].used
  BY <1>6, <1>7 DEF Oldest
<1> HIDE DEF k
<1>9. \A i \in DOMAIN s : i # k => s[k].used < s[i].used
  BY <1>1, <1>2, <1>8
<1> QED
  BY <1>8, <1>9 DEF k

\* Making room drops no window, or of a full cache the one used longest ago.
LEMMA RoomDropsTheOldest ==
    ASSUME NEW s, NEW now, SoundCache(s, now)
    PROVE  \/ Room(s) = s /\ Len(s) < MaxWindows
           \/ /\ Len(s) = MaxWindows
              /\ Len(Room(s)) + 1 = Len(s)
              /\ \E k \in DOMAIN s :
                     /\ \A i \in DOMAIN s : i # k =>
                            /\ s[k].used < s[i].used
                            /\ \E m \in DOMAIN Room(s) : Room(s)[m] = s[i]
                     /\ \A m \in DOMAIN Room(s) :
                            \E i \in DOMAIN s : i # k /\ Room(s)[m] = s[i]
PROOF
<1>1. /\ s \in Seq(CachedWindow) /\ Len(s) \in Nat /\ DOMAIN s = 1..Len(s)
      /\ MaxWindows \in Nat /\ MaxWindows > 0 /\ Len(s) <= MaxWindows
  BY RangeAssumption, LenProperties DEF SoundCache
<1>2. CASE Len(s) >= MaxWindows
  <2>1. s # <<>> /\ Len(s) = MaxWindows
    <3>1. Len(s) = MaxWindows
      <4> DEFINE n == Len(s)
      <4>1. n \in Nat /\ n <= MaxWindows /\ n >= MaxWindows
        BY <1>1, <1>2
      <4> HIDE DEF n
      <4>2. n = MaxWindows
        BY <1>1, <4>1
      <4> QED
        BY <4>2 DEF n
    <3>2. s # <<>>
      BY <1>1, <3>1
    <3> QED
      BY <3>1, <3>2
  <2>2. PICK k : /\ k = Oldest(s)
                 /\ k \in DOMAIN s
                 /\ \A i \in DOMAIN s : i # k => s[k].used < s[i].used
    BY <2>1, OldestIsLeast
  <2> DEFINE n == Len(s) - 1
             t == [i \in 1..n |-> IF i = k THEN s[Len(s)] ELSE s[i]]
  <2>3. Room(s) = t
    BY <1>2, <2>1, <2>2 DEF Room, SwapRemove
  <2>4. n \in Nat /\ DOMAIN t = 1..n
    BY <1>1, <2>1
  <2>5. Len(t) = n
    <3>1. Len(Room(s)) \in Nat /\ DOMAIN Room(s) = 1..Len(Room(s))
      BY RoomShape, LenProperties
    <3> HIDE DEF t, n
    <3>2. DOMAIN t = 1..Len(t) /\ Len(t) \in Nat
      BY <2>3, <3>1
    <3> QED
      BY <2>4, <3>2
  <2>6. ASSUME NEW i \in DOMAIN s, i # k
        PROVE  \E m \in DOMAIN t : t[m] = s[i]
    <3>1. CASE i = Len(s)
      <4>1. k \in DOMAIN t /\ t[k] = s[i]
        BY <1>1, <2>2, <2>4, <2>6, <3>1
      <4> QED
        BY <4>1
    <3>2. CASE i # Len(s)
      <4>1. i \in DOMAIN t /\ t[i] = s[i]
        BY <1>1, <2>4, <2>6, <3>2
      <4> QED
        BY <4>1
    <3> QED
      BY <3>1, <3>2
  <2>7. ASSUME NEW m \in DOMAIN t
        PROVE  \E i \in DOMAIN s : i # k /\ t[m] = s[i]
    <3>1. CASE m = k
      <4>1. Len(s) \in DOMAIN s /\ Len(s) # k /\ t[m] = s[Len(s)]
        BY <1>1, <2>2, <2>4, <2>7, <3>1
      <4> QED
        BY <4>1
    <3>2. CASE m # k
      <4>1. m \in DOMAIN s /\ t[m] = s[m]
        BY <1>1, <2>4, <2>7, <3>2
      <4> QED
        BY <3>2, <4>1
    <3> QED
      BY <3>1, <3>2
  <2> HIDE DEF t
  <2>8. Len(t) + 1 = Len(s)
    BY <1>1, <2>5
  <2> QED
    BY <2>1, <2>2, <2>3, <2>6, <2>7, <2>8
<1>3. CASE ~(Len(s) >= MaxWindows)
  <2>1. Room(s) = s
    BY <1>3 DEF Room
  <2>2. Len(s) < MaxWindows
    BY <1>1, <1>3
  <2> QED
    BY <2>1, <2>2
<1> QED
  BY <1>2, <1>3

\* A hit keeps what was kept: its window is now the most recent of them.
LEMMA HitKeepsRecent ==
    ASSUME NEW s, NEW now, NEW uses, NEW k \in DOMAIN s, NEW i,
           SoundCache(s, now), StampsTell(s, now, uses), KeepsRecent(s, uses),
           i = s[k].index
    PROVE  LET t == [s EXCEPT ![k].used = now + 1]
           IN  /\ StampsTell(t, now + 1, Used(uses, i, now))
               /\ KeepsRecent(t, Used(uses, i, now))
PROOF
<1> DEFINE w == [s[k] EXCEPT !.used = now + 1]
           t == [s EXCEPT ![k] = w]
           u == Used(uses, i, now)
<1>1. /\ s \in Seq(CachedWindow) /\ now \in Nat
      /\ \A j, m \in DOMAIN s : s[j].index = s[m].index => j = m
  BY DEF SoundCache
<1>2. \A m \in DOMAIN s : s[m] \in CachedWindow
  BY <1>1, ElementOfSeq
<1>3. w \in CachedWindow /\ w.index = i /\ w.used = now + 1
  <2>1. s[k] \in CachedWindow /\ now + 1 \in Nat
    BY <1>1, <1>2
  <2> QED
    BY <2>1, Stamped
<1> HIDE DEF w
<1>4. /\ Len(t) = Len(s) /\ DOMAIN t = DOMAIN s
      /\ \A m \in DOMAIN s : t[m] = IF m = k THEN w ELSE s[m]
  BY <1>1, <1>3, ExceptSeq
<1> HIDE DEF t
<1>5. /\ DOMAIN u = DOMAIN uses \cup {i} /\ u[i] = now + 1
      /\ \A j \in DOMAIN uses : j # i => u[j] = uses[j]
  BY DEF Used
<1> HIDE DEF u
<1>6. \A m \in DOMAIN s : t[m].index = s[m].index
  BY <1>3, <1>4
<1>7. ASSUME NEW m \in DOMAIN t
      PROVE  t[m].index \in DOMAIN u /\ u[t[m].index] = t[m].used
  <2>1. CASE m = k
    BY <1>3, <1>4, <1>5, <2>1
  <2>2. CASE m # k
    <3>1. t[m] = s[m] /\ s[m].index # i
      BY <1>1, <1>4, <2>2
    <3> QED
      BY <1>4, <1>5, <3>1 DEF StampsTell
  <2> QED
    BY <2>1, <2>2
<1>8. ASSUME NEW j \in DOMAIN u
      PROVE  u[j] \in Nat /\ u[j] <= now + 1
  <2>1. CASE j = i
    BY <1>1, <1>5, <2>1
  <2>2. CASE j # i
    <3>1. u[j] = uses[j] /\ uses[j] \in Nat /\ uses[j] <= now
      BY <1>5, <2>2 DEF StampsTell
    <3> QED
      BY <1>1, <3>1
  <2> QED
    BY <2>1, <2>2
<1>9. ASSUME NEW j \in DOMAIN u, ~IsThere(t, j)
      PROVE  Older(t, u, j)
  <2>1. j # i /\ j \in DOMAIN uses /\ ~IsThere(s, j)
    BY <1>3, <1>4, <1>5, <1>6, <1>9 DEF IsThere
  <2>2. Older(s, uses, j)
    BY <2>1 DEF KeepsRecent
  <2>3. ASSUME NEW m \in DOMAIN t
        PROVE  t[m].index \in DOMAIN u /\ u[j] < u[t[m].index]
    <3>1. u[j] = uses[j] /\ uses[j] \in Nat /\ uses[j] <= now
      BY <1>5, <2>1 DEF StampsTell
    <3>2. CASE m = k
      <4>1. u[t[m].index] = now + 1
        BY <1>3, <1>4, <1>5, <3>2
      <4>2. u[j] < now + 1
        BY <1>1, <3>1
      <4> QED
        BY <1>7, <4>1, <4>2
    <3>3. CASE m # k
      <4>1. t[m].index = s[m].index /\ s[m].index # i /\ m \in DOMAIN s
        BY <1>1, <1>4, <1>6, <3>3
      <4>2. s[m].index \in DOMAIN uses /\ uses[j] < uses[s[m].index]
        BY <2>2, <4>1 DEF Older
      <4> QED
        BY <1>5, <3>1, <4>1, <4>2
    <3> QED
      BY <3>2, <3>3
  <2> QED
    BY <1>4, <2>2, <2>3 DEF Older
<1>10. StampsTell(t, now + 1, u) /\ KeepsRecent(t, u)
  BY <1>7, <1>8, <1>9 DEF StampsTell, KeepsRecent
<1> QED
  BY <1>10 DEF t, w, u

\* So does a store: what it drops was used before all that stays.
LEMMA StoreKeepsRecent ==
    ASSUME NEW s, NEW now, NEW uses, NEW i, NEW w \in CachedWindow,
           SoundCache(s, now), StampsTell(s, now, uses), KeepsRecent(s, uses),
           ~IsThere(s, i), w.index = i, w.used = now + 1
    PROVE  /\ StampsTell(Append(Room(s), w), now + 1, Used(uses, i, now))
           /\ KeepsRecent(Append(Room(s), w), Used(uses, i, now))
PROOF
<1> DEFINE r == Room(s)
           t == Append(r, w)
           u == Used(uses, i, now)
<1>1. /\ r \in Seq(CachedWindow) /\ Len(r) \in Nat /\ DOMAIN r = 1..Len(r)
      /\ \A m \in DOMAIN r : \E k \in DOMAIN s : r[m] = s[k]
      /\ now \in Nat
  BY RoomShape, LenProperties DEF SoundCache
<1>2. /\ Len(t) = Len(r) + 1
      /\ DOMAIN t = 1..(Len(r) + 1)
      /\ \A m \in 1..Len(r) : t[m] = r[m]
      /\ t[Len(r) + 1] = w
  BY <1>1, AppendProperties, LenProperties
<1>3. \/ r = s /\ Len(s) < MaxWindows
      \/ /\ Len(s) = MaxWindows
         /\ Len(r) + 1 = Len(s)
         /\ \E k \in DOMAIN s :
                /\ \A m \in DOMAIN s : m # k =>
                       /\ s[k].used < s[m].used
                       /\ \E n \in DOMAIN r : r[n] = s[m]
                /\ \A n \in DOMAIN r : \E m \in DOMAIN s : m # k /\ r[n] = s[m]
  BY RoomDropsTheOldest
<1> HIDE DEF t, r
<1>4. /\ DOMAIN u = DOMAIN uses \cup {i} /\ u[i] = now + 1
      /\ \A j \in DOMAIN uses : j # i => u[j] = uses[j]
  BY DEF Used
<1> HIDE DEF u
<1>5. \A m \in DOMAIN t : \/ m \in DOMAIN r /\ t[m] = r[m]
                          \/ m = Len(r) + 1 /\ t[m] = w
  BY <1>1, <1>2
<1>6. \A m \in DOMAIN r : m \in DOMAIN t /\ t[m] = r[m]
  BY <1>1, <1>2
<1>7. Len(r) + 1 \in DOMAIN t
  BY <1>1, <1>2
<1>8. ASSUME NEW m \in DOMAIN s
      PROVE  /\ s[m].index # i /\ s[m].index \in DOMAIN uses
             /\ s[m].index \in DOMAIN u /\ u[s[m].index] = s[m].used
             /\ uses[s[m].index] = s[m].used
             /\ s[m].used \in Nat /\ s[m].used <= now
  BY <1>4 DEF IsThere, StampsTell
<1>9. ASSUME NEW m \in DOMAIN t
      PROVE  t[m].index \in DOMAIN u /\ u[t[m].index] = t[m].used
  <2>1. CASE m \in DOMAIN r /\ t[m] = r[m]
    <3>1. PICK k \in DOMAIN s : r[m] = s[k]
      BY <1>1, <2>1
    <3> QED
      BY <1>8, <2>1, <3>1
  <2>2. CASE t[m] = w
    BY <1>4, <2>2
  <2> QED
    BY <1>5, <2>1, <2>2
<1>10. ASSUME NEW j \in DOMAIN u
       PROVE  u[j] \in Nat /\ u[j] <= now + 1
  <2>1. CASE j = i
    BY <1>1, <1>4, <2>1
  <2>2. CASE j # i
    <3>1. u[j] = uses[j] /\ uses[j] \in Nat /\ uses[j] <= now
      BY <1>4, <2>2 DEF StampsTell
    <3> QED
      BY <1>1, <3>1
  <2> QED
    BY <2>1, <2>2
<1>11. ASSUME NEW j \in DOMAIN u, ~IsThere(t, j)
       PROVE  Older(t, u, j)
  <2>1. j # i /\ j \in DOMAIN uses
    BY <1>2, <1>4, <1>7, <1>11 DEF IsThere
  <2>2. u[j] = uses[j] /\ uses[j] \in Nat /\ uses[j] <= now
    BY <1>4, <2>1 DEF StampsTell
  <2>3. u[j] < now + 1
    BY <1>1, <2>2
  <2>4. CASE r = s /\ Len(s) < MaxWindows
    <3>1. ~IsThere(s, j)
      BY <1>6, <1>11, <2>4 DEF IsThere
    <3>2. Len(s) = MaxWindows
      BY <2>1, <3>1 DEF KeepsRecent, Older
    <3>3. Len(s) \in Nat /\ MaxWindows \in Nat
      BY <1>1, <2>4, RangeAssumption
    <3> QED
      BY <2>4, <3>2, <3>3
  <2>5. ASSUME Len(s) = MaxWindows, Len(r) + 1 = Len(s),
               NEW k \in DOMAIN s,
               \A m \in DOMAIN s : m # k =>
                   /\ s[k].used < s[m].used
                   /\ \E n \in DOMAIN r : r[n] = s[m],
               \A n \in DOMAIN r : \E m \in DOMAIN s : m # k /\ r[n] = s[m]
        PROVE  Older(t, u, j)
    <3>1. Len(t) = MaxWindows
      BY <1>2, <2>5
    <3>2. ASSUME NEW m \in DOMAIN s, m # k
          PROVE  u[j] < s[m].used
      <4>1. CASE IsThere(s, j)
        <5>1. PICK l \in DOMAIN s : s[l].index = j
          BY <4>1 DEF IsThere
        <5>2. l = k
          BY <1>6, <1>11, <2>5, <5>1 DEF IsThere
        <5>3. u[j] = s[k].used
          BY <1>8, <5>1, <5>2
        <5> QED
          BY <2>5, <3>2, <5>3
      <4>2. CASE ~IsThere(s, j)
        <5>1. Older(s, uses, j)
          BY <2>1, <4>2 DEF KeepsRecent
        <5>2. uses[j] < uses[s[m].index]
          BY <5>1 DEF Older
        <5> QED
          BY <1>8, <2>2, <5>2
      <4> QED
        BY <4>1, <4>2
    <3>3. ASSUME NEW m \in DOMAIN t
          PROVE  t[m].index \in DOMAIN u /\ u[j] < u[t[m].index]
      <4>1. CASE m \in DOMAIN r /\ t[m] = r[m]
        <5>1. PICK l \in DOMAIN s : l # k /\ r[m] = s[l]
          BY <2>5, <4>1
        <5> QED
          BY <1>8, <3>2, <4>1, <5>1
      <4>2. CASE t[m] = w
        BY <1>4, <2>3, <4>2
      <4> QED
        BY <1>5, <4>1, <4>2
    <3> QED
      BY <3>1, <3>3 DEF Older
  <2> QED
    BY <1>3, <2>4, <2>5
<1>12. StampsTell(t, now + 1, u) /\ KeepsRecent(t, u)
  BY <1>9, <1>10, <1>11 DEF StampsTell, KeepsRecent
<1> QED
  BY <1>12 DEF t, r, u

\* What RecencyInv says, in these terms.
LEMMA RecencyParts ==
    /\ StampsAreUses <=> StampsTell(windows, clock, lastUse)
    /\ KeepsTheMostRecent <=> KeepsRecent(windows, lastUse)
PROOF
  BY DEF StampsAreUses, StampsTell, KeepsTheMostRecent, KeepsRecent, Cached, IsThere, Older

\* Letting the clock run leaves the stamps what they were.
LEMMA LaterStamps ==
    ASSUME NEW s, NEW now \in Nat, NEW uses, StampsTell(s, now, uses)
    PROVE  StampsTell(s, now + 1, uses)
PROOF
<1>1. ASSUME NEW i \in DOMAIN uses
      PROVE  uses[i] \in Nat /\ uses[i] <= now + 1
  <2>1. uses[i] \in Nat /\ uses[i] <= now
    BY DEF StampsTell
  <2> QED
    BY <2>1
<1> QED
  BY <1>1 DEF StampsTell

\* Every step keeps the windows used last.
LEMMA RecencyStep == RecencyInv /\ [Next]_vars => StampsAreUses' /\ KeepsTheMostRecent'
PROOF
<1> SUFFICES ASSUME RecencyInv, [Next]_vars
             PROVE  StampsAreUses' /\ KeepsTheMostRecent'
  OBVIOUS
<1>1. /\ StampsTell(windows, clock, lastUse) /\ KeepsRecent(windows, lastUse)
      /\ SoundCache(windows, clock) /\ clock \in Nat
  BY RecencyParts DEF RecencyInv, RangeInv, TypeOK
<1> SUFFICES StampsTell(windows', clock', lastUse') /\ KeepsRecent(windows', lastUse')
  BY DEF StampsAreUses, StampsTell, KeepsTheMostRecent, KeepsRecent, Cached, IsThere, Older
<1>2. CASE UNCHANGED cacheVars
  BY <1>1, <1>2 DEF cacheVars
<1>3. ASSUME NEW r \in Readers, Hit(r)
      PROVE  StampsTell(windows', clock', lastUse') /\ KeepsRecent(windows', lastUse')
  <2>1. PICK k \in DOMAIN windows :
            /\ windows[k].index = index[r]
            /\ windows' = [windows EXCEPT ![k].used = clock + 1]
    BY <1>3 DEF Hit
  <2>2. clock' = clock + 1 /\ lastUse' = Used(lastUse, index[r], clock)
    BY <1>3 DEF Hit, Touch, Used
  <2>3. /\ StampsTell([windows EXCEPT ![k].used = clock + 1], clock + 1,
                      Used(lastUse, index[r], clock))
        /\ KeepsRecent([windows EXCEPT ![k].used = clock + 1],
                       Used(lastUse, index[r], clock))
    BY ONLY <1>1, <2>1, HitKeepsRecent
  <2> QED
    BY <2>1, <2>2, <2>3
<1>4. ASSUME NEW r \in Readers, Miss(r)
      PROVE  StampsTell(windows', clock', lastUse') /\ KeepsRecent(windows', lastUse')
  <2>1. windows' = windows /\ clock' = clock + 1 /\ lastUse' = lastUse
    BY <1>4 DEF Miss
  <2> QED
    BY <1>1, <2>1, LaterStamps
<1>5. ASSUME NEW r \in Readers, Store(r)
      PROVE  StampsTell(windows', clock', lastUse') /\ KeepsRecent(windows', lastUse')
  <2>1. CASE Cached(index[r])
    <3>1. windows' = windows /\ clock' = clock + 1 /\ lastUse' = lastUse
      BY <1>5, <2>1 DEF Store
    <3> QED
      BY <1>1, <3>1, LaterStamps
  <2>2. CASE ~Cached(index[r])
    <3> DEFINE w == [index |-> index[r], bytes |-> fetched[r], used |-> clock + 1]
    <3>1. /\ windows' = Append(Room(windows), w)
          /\ clock' = clock + 1 /\ lastUse' = Used(lastUse, index[r], clock)
      BY <1>5, <2>2 DEF Store, Touch, Used
    <3>2. w \in CachedWindow /\ w.index = index[r] /\ w.used = clock + 1
      BY DEF RecencyInv, RangeInv, TypeOK, CachedWindow
    <3>3. ~IsThere(windows, index[r])
      BY <2>2 DEF Cached, IsThere
    <3> HIDE DEF w
    <3>4. /\ StampsTell(Append(Room(windows), w), clock + 1, Used(lastUse, index[r], clock))
          /\ KeepsRecent(Append(Room(windows), w), Used(lastUse, index[r], clock))
      BY ONLY <1>1, <3>2, <3>3, StoreKeepsRecent
    <3> QED
      BY <3>1, <3>4
  <2> QED
    BY <2>1, <2>2
<1>6. ASSUME NEW r \in Readers,
             \/ Direct(r) \/ Fetch(r) \/ FetchFails(r) \/ Finish(r)
             \/ \E q \in Requests : Ask(r, q)
      PROVE  UNCHANGED cacheVars
  BY <1>6 DEF Direct, Fetch, FetchFails, Finish, Ask
<1> QED
  BY <1>2, <1>3, <1>4, <1>5, <1>6 DEF Next, Continue, vars, cacheVars

\* The windows that are cached are those used last, whoever used them: a
\* window that went was used before every one that is there, and went because
\* the cache was full (evict_for picks the least stamp, a hit renews it).
THEOREM RangeKeepsTheMostRecent == Spec => []KeepsTheMostRecent
PROOF
<1>1. Init => RecencyInv
  <2>1. Init => StampsAreUses /\ KeepsTheMostRecent
    BY DEF Init, StampsAreUses, KeepsTheMostRecent
  <2> QED
    BY <2>1, RangeInvInit DEF RecencyInv
<1>2. RecencyInv /\ [Next]_vars => RecencyInv'
  BY RecencyStep, RangeInvStep DEF RecencyInv
<1>3. RecencyInv => KeepsTheMostRecent
  BY DEF RecencyInv
<1> QED
  BY <1>1, <1>2, <1>3, PTL DEF Spec

(***************************************************************************)
(* The source implements ByteSource.                                       *)
(***************************************************************************)

\* A reader inside read_bytes, as ByteSource sees it.
AtWork == {r \in Readers : pc[r] # "idle"}

\* A reader that only moves on inside read_bytes is not seen to move.
LEMMA QuietStep ==
    ASSUME RangeInv, NEW r \in Readers, pc[r] # "idle",
           NEW step, step # "idle", pc' = [pc EXCEPT ![r] = step]
    PROVE  AtWork' = AtWork
PROOF
  BY DEF RangeInv, TypeOK, AtWork

\* Every step is one of ByteSource, or is not visible there.
LEMMA RangeRefinesStep ==
    RangeInv /\ [Next]_vars => [Promise!Next]_Promise!sourceVars
PROOF
<1> SUFFICES ASSUME RangeInv, [Next]_vars
             PROVE  [Promise!Next]_Promise!sourceVars
  OBVIOUS
<1> USE DEF AtWork
<1>1. CASE UNCHANGED vars
  BY <1>1 DEF vars, Promise!sourceVars
<1>2. ASSUME NEW r \in Readers, NEW q \in Requests, Ask(r, q)
      PROVE  Promise!Next
  <2>1. r \notin AtWork /\ AtWork' = AtWork \cup {r}
    BY <1>2 DEF Ask, RangeInv, TypeOK
  <2>2. Promise!Ask(r)
    BY <1>2, <2>1 DEF Ask, Promise!Ask
  <2> QED
    BY <2>2 DEF Promise!Next
<1>3. ASSUME NEW r \in Readers, Finish(r)
      PROVE  Promise!Next
  <2>1. r \in AtWork /\ AtWork' = AtWork \ {r}
    BY <1>3 DEF Finish, RangeInv, TypeOK
  <2>2. SoundReader(r)
    BY DEF RangeInv
  <2>3. CASE pc[r] = "done"
    <3>1. /\ InFile(request[r])
          /\ out[r] = BytesFrom(request[r].offset, request[r].len)
      BY <2>2, <2>3 DEF SoundReader
    <3>2. answer' = [answer EXCEPT ![r] = Given(out[r])]
      BY <1>3, <2>3 DEF Finish
    <3>3. Promise!Serve(r)
      BY <1>3, <2>1, <3>1, <3>2 DEF Finish, Promise!Serve, Promise!InFile, InFile, FileLen,
         Promise!Given, Given, Promise!BytesOf, BytesFrom
    <3> QED
      BY <3>3 DEF Promise!Next
  <2>4. CASE pc[r] = "refuse"
    <3>1. InFile(request[r]) => request[r].len > 0
      BY <2>2, <2>4 DEF SoundReader
    <3>2. answer' = [answer EXCEPT ![r] = Refusal]
      BY <1>3, <2>4 DEF Finish
    <3>3. Promise!Refuse(r)
      BY <1>3, <2>1, <3>1, <3>2 DEF Finish, Promise!Refuse, Promise!InFile, InFile, FileLen,
         Promise!Refusal, Refusal
    <3> QED
      BY <3>3 DEF Promise!Next
  <2> QED
    BY <1>3, <2>3, <2>4 DEF Finish
<1>4. ASSUME NEW r \in Readers,
             \/ Direct(r) \/ Hit(r) \/ Miss(r) \/ Fetch(r) \/ FetchFails(r) \/ Store(r)
      PROVE  UNCHANGED Promise!sourceVars
  <2>1. UNCHANGED <<request, answer>>
    BY <1>4 DEF Direct, Hit, Miss, Fetch, FetchFails, Store
  <2>2. pc[r] # "idle"
    BY <1>4 DEF Direct, Hit, Miss, Fetch, FetchFails, Store
  <2>3. \E step : step # "idle" /\ pc' = [pc EXCEPT ![r] = step]
    <3>1. CASE Hit(r) \/ Store(r)
      <4>1. pc' = [pc EXCEPT ![r] =
                       IF (index[r] + 1) * Window < End(r) THEN "lookup" ELSE "done"]
        BY <3>1 DEF Hit, Store, Advance
      <4> DEFINE step == IF (index[r] + 1) * Window < End(r) THEN "lookup" ELSE "done"
      <4>2. step # "idle"
        OBVIOUS
      <4>3. pc' = [pc EXCEPT ![r] = step]
        BY <4>1
      <4> HIDE DEF step
      <4> QED
        BY <4>2, <4>3
    <3>2. CASE Direct(r)
      BY <3>2 DEF Direct
    <3>3. CASE Miss(r)
      BY <3>3 DEF Miss
    <3>4. CASE Fetch(r)
      BY <3>4 DEF Fetch
    <3>5. CASE FetchFails(r)
      BY <3>5 DEF FetchFails
    <3> QED
      BY <1>4, <3>1, <3>2, <3>3, <3>4, <3>5
  <2>4. AtWork' = AtWork
    BY <2>2, <2>3, QuietStep
  <2> QED
    BY <2>1, <2>4 DEF Promise!sourceVars
<1> QED
  BY <1>1, <1>2, <1>3, <1>4 DEF Next, Continue

\* A RangeSource is a ByteSource: each answer is exactly the bytes asked for or
\* a refusal, a range past the end is refused, whatever other threads read.
THEOREM RangeReadsAreExact == Spec => ReadsAreExact
PROOF
<1>1. Init => Promise!Init
  BY DEF Init, Promise!Init, Promise!Refusal, Refusal
<1>2. RangeInv /\ [Next]_vars => [Promise!Next]_Promise!sourceVars
  BY RangeRefinesStep
<1> QED
  BY <1>1, <1>2, RangeInvariant, PTL DEF Spec, ReadsAreExact, Promise!SafeSpec
=============================================================================

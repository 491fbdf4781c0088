---------------------------- MODULE RangeSource ----------------------------
(***************************************************************************)
(* io/range.rs: a byte source over an on-demand range fetch, with a small  *)
(* LRU of fixed-size windows shared by every thread that reads the file.   *)
(* The cache is behind a mutex that is not held during a fetch, so threads *)
(* interleave between looking a window up and storing it.                  *)
(*                                                                         *)
(* Each action is one critical section of the mutex, or the fetch between  *)
(* two of them.  The fetch is the caller's: it fills the buffer with the   *)
(* bytes of the file, or fails.                                            *)
(***************************************************************************)
EXTENDS Naturals, Sequences, FiniteSets

CONSTANTS
    Readers,      \* the threads that share the source
    File,         \* the bytes of the file
    Window,       \* window: bytes of a window
    MaxWindows,   \* max_windows: windows kept
    Requests,     \* the ranges a reader may ask for: [offset, len]
    MaxReads      \* bound of the model: reads made by each reader

ASSUME RangeAssumption ==
    /\ File \in Seq(Nat)
    /\ Window \in Nat \ {0}         \* with_cache clamps both to at least 1
    /\ MaxWindows \in Nat \ {0}
    /\ Requests \subseteq [offset : Nat, len : Nat]
    /\ Requests # {}
    /\ MaxReads \in Nat

VARIABLES
    pc,        \* where each reader is in read_bytes
    request,   \* what it asked
    answer,    \* what it was given last
    index,     \* the window it is at
    out,       \* the bytes it has assembled so far
    fetched,   \* the window it holds but has not stored yet
    windows,   \* WindowCache: <<index, bytes, last use>>, as records
    clock,     \* WindowCache: the stamp last given out
    reads,     \* reads each reader has begun
    lastUse    \* history: each window ever used, and when it last was

cacheVars == <<windows, clock, lastUse>>
vars == <<pc, request, answer, index, out, fetched, windows, clock, reads, lastUse>>

Refusal == [ok |-> FALSE, bytes |-> <<>>]

Given(bytes) == [ok |-> TRUE, bytes |-> bytes]

FileLen == Len(File)

Least(a, b) == IF a <= b THEN a ELSE b
Greatest(a, b) == IF a >= b THEN a ELSE b

InFile(q) == q.offset < FileLen /\ q.offset + q.len <= FileLen

End(r) == request[r].offset + request[r].len

BytesFrom(offset, len) == SubSeq(File, offset + 1, offset + len)

\* The bytes of window i; the last window of the file is short.
BytesOfWindow(i) == BytesFrom(i * Window, Least(FileLen - i * Window, Window))

Cached(i) == \E k \in DOMAIN windows : windows[k].index = i

\* What the request takes from the bytes of the window it is at.
Wanted(r, bytes) ==
    LET start == index[r] * Window
        from == Greatest(request[r].offset, start) - start
        to == Least(End(r), start + Len(bytes)) - start
    IN  SubSeq(bytes, from + 1, to)

(***************************************************************************)
(* Actions.                                                                *)
(***************************************************************************)

Init ==
    /\ pc = [r \in Readers |-> "idle"]
    /\ request = [r \in Readers |-> CHOOSE q \in Requests : TRUE]
    /\ answer = [r \in Readers |-> Refusal]
    /\ index = [r \in Readers |-> 0]
    /\ out = [r \in Readers |-> <<>>]
    /\ fetched = [r \in Readers |-> <<>>]
    /\ windows = <<>>
    /\ clock = 0
    /\ reads = [r \in Readers |-> 0]
    /\ lastUse = <<>>

\* A read that is as long as the whole cache does not go through it.
Ask(r, q) ==
    /\ pc[r] = "idle"
    /\ reads[r] < MaxReads
    /\ reads' = [reads EXCEPT ![r] = @ + 1]
    /\ request' = [request EXCEPT ![r] = q]
    /\ pc' = [pc EXCEPT ![r] =
                  IF ~InFile(q) THEN "refuse"
                  ELSE IF q.len = 0 THEN "done"
                  ELSE IF q.len >= Window * MaxWindows THEN "direct"
                  ELSE "lookup"]
    /\ index' = [index EXCEPT ![r] = q.offset \div Window]
    /\ out' = [out EXCEPT ![r] = <<>>]
    /\ UNCHANGED <<answer, fetched, cacheVars>>

Direct(r) ==
    /\ pc[r] = "direct"
    /\ out' = [out EXCEPT ![r] = BytesFrom(request[r].offset, request[r].len)]
    /\ pc' = [pc EXCEPT ![r] = "done"]
    /\ UNCHANGED <<request, answer, index, fetched, cacheVars, reads>>

Touch(i) ==
    lastUse' = [j \in DOMAIN lastUse \cup {i} |-> IF j = i THEN clock + 1 ELSE lastUse[j]]

\* The loop of read_bytes: take what is wanted, and go on while there is more.
Advance(r, bytes) ==
    /\ out' = [out EXCEPT ![r] = @ \o Wanted(r, bytes)]
    /\ index' = [index EXCEPT ![r] = @ + 1]
    /\ pc' = [pc EXCEPT ![r] =
                  IF (index[r] + 1) * Window < End(r) THEN "lookup" ELSE "done"]

\* Mutant of Hit: the stamp is left alone.
HitWithoutStamp(r) ==
    /\ pc[r] = "lookup"
    /\ clock' = clock + 1
    /\ \E k \in DOMAIN windows :
           /\ windows[k].index = index[r]
           /\ Advance(r, windows[k].bytes)
    /\ Touch(index[r])
    /\ UNCHANGED <<request, answer, fetched, windows, reads>>

\* window_bytes, first critical section: a hit is stamped and returned.
Hit(r) ==
    /\ pc[r] = "lookup"
    /\ clock' = clock + 1
    /\ \E k \in DOMAIN windows :
           /\ windows[k].index = index[r]
           /\ windows' = [windows EXCEPT ![k].used = clock + 1]
           /\ Advance(r, windows[k].bytes)
    /\ Touch(index[r])
    /\ UNCHANGED <<request, answer, fetched, reads>>

Miss(r) ==
    /\ pc[r] = "lookup"
    /\ ~Cached(index[r])
    /\ clock' = clock + 1
    /\ pc' = [pc EXCEPT ![r] = "fetch"]
    /\ UNCHANGED <<request, answer, index, out, fetched, windows, reads, lastUse>>

\* The fetch, outside the lock.
Fetch(r) ==
    /\ pc[r] = "fetch"
    /\ fetched' = [fetched EXCEPT ![r] = BytesOfWindow(index[r])]
    /\ pc' = [pc EXCEPT ![r] = "store"]
    /\ UNCHANGED <<request, answer, index, out, cacheVars, reads>>

FetchFails(r) ==
    /\ pc[r] \in {"fetch", "direct"}
    /\ pc' = [pc EXCEPT ![r] = "refuse"]
    /\ UNCHANGED <<request, answer, index, out, fetched, cacheVars, reads>>

\* swap_remove: the last element takes the place of the one removed.
SwapRemove(s, k) ==
    [i \in 1..(Len(s) - 1) |-> IF i = k THEN s[Len(s)] ELSE s[i]]

\* min_by_key: the first element of the smallest stamp.
Oldest(s) ==
    CHOOSE k \in DOMAIN s :
        /\ \A i \in DOMAIN s : s[k].used <= s[i].used
        /\ \A i \in 1..(k - 1) : s[k].used < s[i].used

Room(s) ==
    IF Len(s) >= MaxWindows /\ s # <<>> THEN SwapRemove(s, Oldest(s)) ELSE s

\* Mutant of Store: the window is stored without looking again.
StoreUnchecked(r) ==
    /\ pc[r] = "store"
    /\ clock' = clock + 1
    /\ windows' = Append(Room(windows),
           [index |-> index[r], bytes |-> fetched[r], used |-> clock + 1])
    /\ Touch(index[r])
    /\ Advance(r, fetched[r])
    /\ UNCHANGED <<request, answer, fetched, reads>>

\* window_bytes, second critical section: another reader may have stored the
\* window meanwhile, and then it is left as it is.
Store(r) ==
    /\ pc[r] = "store"
    /\ clock' = clock + 1
    /\ IF Cached(index[r])
       THEN UNCHANGED <<windows, lastUse>>
       ELSE /\ windows' = Append(Room(windows),
                   [index |-> index[r], bytes |-> fetched[r], used |-> clock + 1])
            /\ Touch(index[r])
    /\ Advance(r, fetched[r])
    /\ UNCHANGED <<request, answer, fetched, reads>>

\* Mutant of Finish: what was assembled before a failed fetch is returned.
FinishPartial(r) ==
    /\ pc[r] \in {"done", "refuse"}
    /\ answer' = [answer EXCEPT ![r] = Given(out[r])]
    /\ pc' = [pc EXCEPT ![r] = "idle"]
    /\ UNCHANGED <<request, index, out, fetched, cacheVars, reads>>

Finish(r) ==
    /\ pc[r] \in {"done", "refuse"}
    /\ answer' = [answer EXCEPT ![r] = IF pc[r] = "done" THEN Given(out[r]) ELSE Refusal]
    /\ pc' = [pc EXCEPT ![r] = "idle"]
    /\ UNCHANGED <<request, index, out, fetched, cacheVars, reads>>

\* A read in progress goes on.
Continue(r) ==
    \/ Direct(r)
    \/ Hit(r)
    \/ Miss(r)
    \/ Fetch(r)
    \/ FetchFails(r)
    \/ Store(r)
    \/ Finish(r)

Next == \E r \in Readers : Continue(r) \/ \E q \in Requests : Ask(r, q)

Spec == Init /\ [][Next]_vars

\* Threads are scheduled and the caller's fetch returns.
FairSpec == Spec /\ \A r \in Readers : WF_vars(Continue(r))

(***************************************************************************)
(* Properties.                                                             *)
(***************************************************************************)

Steps == {"idle", "direct", "lookup", "fetch", "store", "done", "refuse"}

CachedWindow == [index : Nat, bytes : Seq(Nat), used : Nat]

TypeOK ==
    /\ pc \in [Readers -> Steps]
    /\ request \in [Readers -> Requests]
    /\ answer \in [Readers -> [ok : BOOLEAN, bytes : Seq(Nat)]]
    /\ index \in [Readers -> Nat]
    /\ out \in [Readers -> Seq(Nat)]
    /\ fetched \in [Readers -> Seq(Nat)]
    /\ windows \in Seq(CachedWindow)
    /\ clock \in Nat
    /\ reads \in [Readers -> Nat]

\* Threads that miss the same window at once do not store it twice, and the
\* cache never holds more than it may.
OneCopyInBounds ==
    /\ \A j, k \in DOMAIN windows : windows[j].index = windows[k].index => j = k
    /\ Len(windows) <= MaxWindows

\* Whatever interleaves with a fetch, a cached window holds the bytes of its
\* own place in the file, and a window waiting to be stored does too ("a
\* failing fetch is an error, not a cached window").
WindowsMatchTheFile ==
    /\ \A k \in DOMAIN windows : windows[k].bytes = BytesOfWindow(windows[k].index)
    /\ \A r \in Readers : pc[r] = "store" => fetched[r] = BytesOfWindow(index[r])

\* Windows begin within the file, so that the size of the one to fetch, len
\* minus its start, never underflows, and the window a read is at is one its
\* range reaches into.
WindowsBeginInFile ==
    /\ \A k \in DOMAIN windows : windows[k].index * Window < FileLen
    /\ \A r \in Readers :
           pc[r] \in {"lookup", "fetch", "store"} =>
               /\ index[r] * Window < End(r)
               /\ request[r].offset < (index[r] + 1) * Window
               /\ InFile(request[r])

\* No two windows carry one stamp, and none a stamp not given out yet, so that
\* the oldest is well defined.
StampsDistinct ==
    /\ \A j, k \in DOMAIN windows : windows[j].used = windows[k].used => j = k
    /\ \A k \in DOMAIN windows : windows[k].used <= clock

\* The cache holds the windows used last: one that was used and is gone was
\* used before each of those that are kept, and went because the cache was
\* full ("the last few windows are kept").
KeepsTheMostRecent ==
    \A i \in DOMAIN lastUse :
        \/ Cached(i)
        \/ /\ Len(windows) = MaxWindows
           /\ \A k \in DOMAIN windows :
                  /\ windows[k].index \in DOMAIN lastUse
                  /\ lastUse[i] < lastUse[windows[k].index]

\* The bytes assembled so far are those from the start of the range up to the
\* window the read is at.
AssembledInOrder ==
    \A r \in Readers :
        /\ pc[r] \in {"lookup", "fetch", "store"} =>
               out[r] = BytesFrom(request[r].offset,
                   Greatest(request[r].offset, index[r] * Window) - request[r].offset)
        /\ pc[r] = "done" => out[r] = BytesFrom(request[r].offset, request[r].len)

\* The source is a ByteSource: exact bytes or a refusal for every reader,
\* whatever the others do, and an answer to every read.
Promise == INSTANCE ByteSource WITH
    waiting <- {r \in Readers : pc[r] # "idle"}

ReadsAsPromised == Promise!Spec

\* The part of it that does not depend on scheduling.
ReadsAreExact == Promise!SafeSpec

(***************************************************************************)
(* The inductive invariant the proofs use.                                 *)
(***************************************************************************)

\* What one critical section relies on and restores: windows with distinct
\* places and stamps, each with the bytes of its place.
SoundCache(s, now) ==
    /\ s \in Seq(CachedWindow)
    /\ now \in Nat
    /\ Len(s) <= MaxWindows
    /\ \A k \in DOMAIN s :
           /\ s[k].used <= now
           /\ s[k].index * Window < FileLen
           /\ s[k].bytes = BytesOfWindow(s[k].index)
    /\ \A j, k \in DOMAIN s :
           (s[j].index = s[k].index \/ s[j].used = s[k].used) => j = k

\* What a turn of the loop of read_bytes starts from.
Reading(q, i, o) ==
    /\ InFile(q)
    /\ q.len > 0
    /\ i * Window < q.offset + q.len
    /\ q.offset < (i + 1) * Window
    /\ o = BytesFrom(q.offset, Greatest(q.offset, i * Window) - q.offset)

\* Stamps tell when a window was used last, and no use is yet to come.
StampsAreUses ==
    /\ \A k \in DOMAIN windows :
           /\ windows[k].index \in DOMAIN lastUse
           /\ lastUse[windows[k].index] = windows[k].used
    /\ \A i \in DOMAIN lastUse : lastUse[i] \in Nat /\ lastUse[i] <= clock

SoundReader(r) ==
    /\ pc[r] \in {"lookup", "fetch", "store"} => Reading(request[r], index[r], out[r])
    /\ pc[r] = "store" => fetched[r] = BytesOfWindow(index[r])
    /\ pc[r] = "direct" => InFile(request[r]) /\ request[r].len > 0
    /\ pc[r] = "done" =>
           /\ InFile(request[r])
           /\ out[r] = BytesFrom(request[r].offset, request[r].len)
    /\ pc[r] = "refuse" => (InFile(request[r]) => request[r].len > 0)

RangeInv ==
    /\ TypeOK
    /\ SoundCache(windows, clock)
    /\ \A r \in Readers : SoundReader(r)

RecencyInv ==
    /\ RangeInv
    /\ StampsAreUses
    /\ KeepsTheMostRecent
=============================================================================

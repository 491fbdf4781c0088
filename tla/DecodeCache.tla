---------------------------- MODULE DecodeCache ----------------------------
(***************************************************************************)
(* The decode caches of Mf4File.  Every thread that reads a channel asks   *)
(* records_for for the records of its channel group; that cache stands     *)
(* over raw_stream_for, which keeps whole data-group streams and is seeded *)
(* with those the open-time walk assembled.  Each cache is a BoundedLru    *)
(* behind a read-write lock that is not held while records are built.  A   *)
(* hit stamps its entry under the read lock, so hits interleave.           *)
(*                                                                         *)
(* A stream is named by its data group, records by their channel group:    *)
(* what they hold is RecordIndex's subject.                                *)
(***************************************************************************)
EXTENDS BoundedLru

CONSTANTS
    Files,     \* files: a sequence of data groups, see below
    FileSize,  \* file_size
    Readers,   \* threads that read channels
    MaxReads   \* bound of the model: reads made by each of them

\* A data group: whether its records are indexed when the file is opened, the
\* size its blocks declare (total), the bytes of its stream, and the bytes of
\* the records of each of its channel groups.
DataGroup == [unsorted : BOOLEAN, total : Nat, bytes : Nat, records : Seq(Nat)]

ASSUME DecodeAssumption ==
    /\ Files \subseteq Seq(DataGroup)
    /\ FileSize \in Nat
    /\ MaxReads \in Nat

VARIABLES
    file,     \* the file being opened, then read
    phase,    \* "indexing", "seeding" or "shared"
    at,       \* the data group the open is at, or the seed it is at
    seeds,    \* stream_seeds: the data groups whose streams were kept
    seeded,   \* seeded_bytes
    cache,    \* "record" and "raw": the entries, and the clock
    locked,   \* who holds the read lock of each cache
    pc,       \* where each reader is
    level,    \* the cache it is at
    request,  \* the channel group it reads: [dg, cg]
    tick,     \* the stamp it took but has not stored yet
    value,    \* what it holds
    answer,   \* what it was given last
    reads     \* reads it has begun

openVars == <<file, phase, at, seeds, seeded>>
readVars == <<pc, level, request, tick, value, answer, reads>>
vars == <<openVars, cache, locked, readVars>>

Caches == {"record", "raw"}

Nothing == [dg |-> 0, cg |-> 0]

\* What a cache holds under the key of a request: a stream, or one channel
\* group's records.
KeyOf(c, q) == IF c = "raw" THEN [dg |-> q.dg, cg |-> 0] ELSE q

Groups == UNION {{[dg |-> d, cg |-> g] : g \in DOMAIN file[d].records} : d \in DOMAIN file}

\* A sorted group's records are its stream, shared and not copied.
SizeOf(c, q) ==
    IF c = "raw" \/ ~file[q.dg].unsorted THEN file[q.dg].bytes
    ELSE file[q.dg].records[q.cg]

(***************************************************************************)
(* Opening.                                                                *)
(***************************************************************************)

Init ==
    /\ file \in Files
    /\ phase = "indexing"
    /\ at = 1
    /\ seeds = <<>>
    /\ seeded = 0
    /\ cache = [c \in Caches |-> [entries |-> <<>>, clock |-> 0]]
    /\ locked = [c \in Caches |-> {}]
    /\ pc = [r \in Readers |-> "idle"]
    /\ level = [r \in Readers |-> "record"]
    /\ request = [r \in Readers |-> Nothing]
    /\ tick = [r \in Readers |-> 0]
    /\ value = [r \in Readers |-> Nothing]
    /\ answer = [r \in Readers |-> Nothing]
    /\ reads = [r \in Readers |-> 0]

\* keep_stream: by the size declared and what earlier groups have seeded.
Kept(d) ==
    /\ d.unsorted
    /\ (IF d.total <= FileSize THEN d.total ELSE FileSize) <= MaxBytes
    /\ seeded < MaxBytes

IndexGroup ==
    /\ phase = "indexing"
    /\ at <= Len(file)
    /\ IF Kept(file[at])
       THEN /\ seeds' = Append(seeds, at)
            /\ seeded' = seeded + file[at].bytes
       ELSE UNCHANGED <<seeds, seeded>>
    /\ at' = at + 1
    /\ UNCHANGED <<file, phase, cache, locked, readVars>>

IndexDone ==
    /\ phase = "indexing"
    /\ at > Len(file)
    /\ phase' = "seeding"
    /\ at' = 1
    /\ UNCHANGED <<file, seeds, seeded, cache, locked, readVars>>

\* BoundedLru::insert, under the write lock.
Put(c, q, v) ==
    cache' = [cache EXCEPT ![c] =
        [entries |-> Insert(@.entries, KeyOf(c, q), v, SizeOf(c, q), @.clock),
         clock |-> @.clock + 1]]

\* with_seeded_streams.
Seed ==
    /\ phase = "seeding"
    /\ at <= Len(seeds)
    /\ LET q == [dg |-> seeds[at], cg |-> 0] IN Put("raw", q, q)
    /\ at' = at + 1
    /\ UNCHANGED <<file, phase, seeds, seeded, locked, readVars>>

SeedDone ==
    /\ phase = "seeding"
    /\ at > Len(seeds)
    /\ phase' = "shared"
    /\ UNCHANGED <<file, at, seeds, seeded, cache, locked, readVars>>

(***************************************************************************)
(* Reading: records_for, build_records and raw_stream_for.                 *)
(***************************************************************************)

Key(r) == KeyOf(level[r], request[r])

Entries(r) == cache[level[r]].entries

Go(r, step) == pc' = [pc EXCEPT ![r] = step]

Ask(r) ==
    /\ phase = "shared"
    /\ pc[r] = "idle"
    /\ reads[r] < MaxReads
    /\ reads' = [reads EXCEPT ![r] = @ + 1]
    /\ \E q \in Groups : request' = [request EXCEPT ![r] = q]
    /\ level' = [level EXCEPT ![r] = "record"]
    /\ Go(r, "lookup")
    /\ UNCHANGED <<openVars, cache, locked, tick, value, answer>>

\* get, as far as fetch_add: a stamp of its own for this hit.
Hit(r) ==
    /\ pc[r] = "lookup"
    /\ Holds(Entries(r), Key(r))
    /\ locked' = [locked EXCEPT ![level[r]] = @ \cup {r}]
    /\ tick' = [tick EXCEPT ![r] = cache[level[r]].clock]
    /\ cache' = [cache EXCEPT ![level[r]].clock = @ + 1]
    /\ Go(r, "stamp")
    /\ UNCHANGED <<openVars, level, request, value, answer, reads>>

\* The store of that stamp, and the value; the read lock is released.
Stamp(r) ==
    /\ pc[r] = "stamp"
    /\ cache' = [cache EXCEPT ![level[r]].entries = Mark(@, Key(r), tick[r])]
    /\ value' = [value EXCEPT ![r] = Entries(r)[Find(Entries(r), Key(r))].value]
    /\ locked' = [locked EXCEPT ![level[r]] = @ \ {r}]
    /\ Go(r, IF level[r] = "record" THEN "done" ELSE "gather")
    /\ UNCHANGED <<openVars, level, request, tick, answer, reads>>

\* Mutant of Miss: the guard of the lookup lives on while the value is built.
MissHoldingLock(r) ==
    /\ pc[r] = "lookup"
    /\ ~Holds(Entries(r), Key(r))
    /\ locked' = [locked EXCEPT ![level[r]] = @ \cup {r}]
    /\ IF level[r] = "record"
       THEN level' = [level EXCEPT ![r] = "raw"] /\ UNCHANGED pc
       ELSE Go(r, "assemble") /\ UNCHANGED level
    /\ UNCHANGED <<openVars, cache, request, tick, value, answer, reads>>

\* The read lock is released before anything is built.
Miss(r) ==
    /\ pc[r] = "lookup"
    /\ ~Holds(Entries(r), Key(r))
    /\ IF level[r] = "record"
       THEN level' = [level EXCEPT ![r] = "raw"] /\ UNCHANGED pc
       ELSE Go(r, "assemble") /\ UNCHANGED level
    /\ UNCHANGED <<openVars, cache, locked, request, tick, value, answer, reads>>

\* read_raw_data_indexed, without a lock; it may fail.
Assemble(r) ==
    /\ pc[r] = "assemble"
    /\ value' = [value EXCEPT ![r] = Key(r)]
    /\ Go(r, "store")
    /\ UNCHANGED <<openVars, cache, locked, level, request, tick, answer, reads>>

AssembleFails(r) ==
    /\ pc[r] = "assemble"
    /\ value' = [value EXCEPT ![r] = Nothing]
    /\ Go(r, "done")
    /\ UNCHANGED <<openVars, cache, locked, level, request, tick, answer, reads>>

\* Mutant of Gather: always the first channel group's offsets.
GatherFirst(r) ==
    /\ pc[r] = "gather"
    /\ value' = [value EXCEPT ![r] = [dg |-> value[r].dg, cg |-> 1]]
    /\ level' = [level EXCEPT ![r] = "record"]
    /\ Go(r, "store")
    /\ UNCHANGED <<openVars, cache, locked, request, tick, answer, reads>>

\* build_records: this channel group's records, from the stream in hand.
Gather(r) ==
    /\ pc[r] = "gather"
    /\ value' = [value EXCEPT ![r] = [dg |-> value[r].dg, cg |-> request[r].cg]]
    /\ level' = [level EXCEPT ![r] = "record"]
    /\ Go(r, "store")
    /\ UNCHANGED <<openVars, cache, locked, request, tick, answer, reads>>

\* Another reader may have stored the same meanwhile: it is replaced.
Store(r) ==
    /\ pc[r] = "store"
    /\ locked[level[r]] = {}
    /\ Put(level[r], request[r], value[r])
    /\ Go(r, IF level[r] = "record" THEN "done" ELSE "gather")
    /\ UNCHANGED <<openVars, locked, level, request, tick, value, answer, reads>>

Finish(r) ==
    /\ pc[r] = "done"
    /\ answer' = [answer EXCEPT ![r] = value[r]]
    /\ Go(r, "idle")
    /\ UNCHANGED <<openVars, cache, locked, level, request, tick, value, reads>>

Continue(r) ==
    \/ Hit(r)
    \/ Stamp(r)
    \/ Miss(r)
    \/ Assemble(r)
    \/ AssembleFails(r)
    \/ Gather(r)
    \/ Store(r)
    \/ Finish(r)

Opening == IndexGroup \/ IndexDone \/ Seed \/ SeedDone

Next == Opening \/ \E r \in Readers : Ask(r) \/ Continue(r)

Spec == Init /\ [][Next]_vars

\* Threads are scheduled, and each lock is released after a bounded time.
FairSpec == Spec /\ WF_vars(Opening) /\ \A r \in Readers : WF_vars(Continue(r))

(***************************************************************************)
(* Properties.                                                             *)
(***************************************************************************)

\* Whoever built or evicted what meanwhile, a reader is given the records of
\* the channel group it asked for, or an error.
AnswersAreOwn ==
    /\ \A r \in Readers : pc[r] = "idle" => answer[r] \in {request[r], Nothing}
    /\ \A c \in Caches : \A k \in DOMAIN cache[c].entries :
           cache[c].entries[k].value = cache[c].entries[k].key

\* "Bounded by both count and total byte size": a cache holds more than its
\* byte budget only as the single entry just built, and never two of one key.
\* What opening keeps stands outside the caches: it was less than the budget
\* before its last stream, which by its declared size is within the budget.
Bounded ==
    /\ \A c \in Caches :
           LET entries == cache[c].entries IN
               /\ Len(entries) <= MaxEntries
               /\ Len(entries) > 1 => TotalSize(entries) <= MaxBytes
               /\ \A j, k \in DOMAIN entries : entries[j].key = entries[k].key => j = k
    /\ (\A d \in DOMAIN file : file[d].bytes <= file[d].total /\ file[d].total <= FileSize)
           => seeded < 2 * MaxBytes \/ seeded = 0

\* What is evicted was last stamped before everything that stays.
OldestGoes ==
    \A c \in Caches :
        LET before == cache[c].entries
            after == cache'[c].entries
        IN  \A j \in DOMAIN before :
                Holds(after, before[j].key)
                \/ \A k \in DOMAIN after : after[k].used > before[j].used

\* "Bounded by both count and total byte size", by letting go of what was used
\* longest ago, however hits of other threads interleave (BoundedLru).
KeepsTheRecentInBounds == []Bounded /\ [][OldestGoes]_vars

\* No reader waits for a lock for ever: each read is answered.
EveryReadEnds == \A r \in Readers : pc[r] # "idle" ~> pc[r] = "idle"
=============================================================================

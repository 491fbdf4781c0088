----------------------------- MODULE BoundedLru -----------------------------
(***************************************************************************)
(* BoundedLru (file.rs): a few entries, bounded by their number and by the *)
(* bytes they account for.  An entry carries the stamp of its last use.    *)
(* The operators are the pure part of get and insert; which of their steps *)
(* other threads may come between is for the module that uses them.        *)
(***************************************************************************)
EXTENDS Naturals, SequencesExt

CONSTANTS
    MaxEntries,   \* CACHE_ENTRIES, scaled from 4
    MaxBytes      \* the byte budget, options.max_alloc

ASSUME LruAssumption == MaxEntries \in Nat \ {0} /\ MaxBytes \in Nat

Entry(key, value, size, used) ==
    [key |-> key, value |-> value, size |-> size, used |-> used]

Holds(entries, key) == \E k \in DOMAIN entries : entries[k].key = key

\* get finds an entry by key.
Find(entries, key) == CHOOSE k \in DOMAIN entries : entries[k].key = key

Mark(entries, key, tick) == [entries EXCEPT ![Find(entries, key)].used = tick]

Total(sizes) ==
    LET Upto[n \in 0..Len(sizes)] == IF n = 0 THEN 0 ELSE Upto[n - 1] + sizes[n]
    IN  Upto[Len(sizes)]

TotalSize(entries) == Total([k \in DOMAIN entries |-> entries[k].size])

OverBounds(entries) ==
    Len(entries) > 1 /\ (Len(entries) > MaxEntries \/ TotalSize(entries) > MaxBytes)

\* Mutant of Oldest: the entry inserted first goes, used since or not.
FirstInserted(entries) == 1

Oldest(entries) ==
    CHOOSE k \in DOMAIN entries :
        /\ \A j \in DOMAIN entries : entries[k].used <= entries[j].used
        /\ \A j \in 1..(k - 1) : entries[k].used < entries[j].used

\* The loop of insert: the oldest goes until both bounds are met.
Evicted(entries) ==
    LET Turn == [left \in Seq(Range(entries)) |->
                    IF OverBounds(left) THEN RemoveAt(left, Oldest(left)) ELSE left]
        After[n \in 0..Len(entries)] == IF n = 0 THEN entries ELSE Turn[After[n - 1]]
    IN  After[Len(entries)]

\* The entries of other keys, as retain leaves them.
Without(entries, key) ==
    LET Upto[n \in 0..Len(entries)] ==
            IF n = 0 THEN <<>>
            ELSE IF entries[n].key = key THEN Upto[n - 1]
            ELSE Append(Upto[n - 1], entries[n])
    IN  Upto[Len(entries)]

\* insert: an entry of that key is replaced.
Insert(entries, key, value, size, tick) ==
    Evicted(Append(Without(entries, key), Entry(key, value, size, tick)))
=============================================================================

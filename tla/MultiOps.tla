------------------------------ MODULE MultiOps ------------------------------
(***************************************************************************)
(* The decoded time series of src/src/time_ops.rs and the operations on    *)
(* it, and src/src/multi_ops.rs over such series: several files joined     *)
(* along time (concatenate), laid side by side (stack), or one file put    *)
(* on a common raster (Mf4File::resample), and what a caller then computes *)
(* from the series he was given.                                           *)
(*                                                                         *)
(* Time is counted in whole units (one unit is the millisecond that the    *)
(* joining of files falls back on).  A sample's value is abstracted to     *)
(* the set of recorded samples it was computed from: one for a sample that *)
(* was read or held, two for one interpolated between neighbours, the      *)
(* samples of both operands for a sum.  A file is its start time and its   *)
(* channel groups: a master axis [t, usable] and the other channels, each  *)
(* [name, kind, float, masked, ok].                                        *)
(***************************************************************************)
EXTENDS Integers, FiniteSets, Sequences, SequencesExt

(* SignalSeries.  ok is the mask of one flag per sample (TRUE = valid);    *)
(* a series without invalidation bits has masked = FALSE and ok = << >>.   *)
Series(t, v, masked, ok, float) ==
    [t |-> t, v |-> v, masked |-> masked, ok |-> ok, float |-> float]

(* What the mask says of sample i; without a mask every sample is valid.   *)
Valid(s, i) == ~s.masked \/ s.ok[i]

(* validate_master_axis on finite coordinates: each sample valid, none     *)
(* below its predecessor; equal ones are kept in file order.               *)
UsableAxis(t, ok) ==
    /\ \A i \in 1 .. Len(t) : ok[i]
    /\ \A i \in 1 .. Len(t) - 1 : t[i] <= t[i + 1]

(* partition_point on an ascending axis: how many samples lie at or before *)
(* (AtOrBefore), or strictly before (Before), a time.                      *)
AtOrBefore(t, x) == Len(SelectSeq(t, LAMBDA y : y <= x))
Before(t, x)     == Len(SelectSeq(t, LAMBDA y : y < x))

(* SignalSeries::cut: the closed window [lo, hi].                          *)
Cut(s, lo, hi) ==
    LET from == IF lo > hi THEN 1 ELSE Before(s.t, lo) + 1
        upto == IF lo > hi THEN 0 ELSE AtOrBefore(s.t, hi)
    IN  [s EXCEPT !.t = SubSeq(@, from, upto), !.v = SubSeq(@, from, upto),
                  !.ok = IF s.masked THEN SubSeq(@, from, upto) ELSE @]

(* Mutant: a sample at x itself is not taken.                              *)
HoldIndexBefore(t, x) == IF Before(t, x) = 0 THEN 1 ELSE Before(t, x)

(* step_hold_index: the last sample at or before x, the first when there   *)
(* is none.                                                                *)
HoldIndex(t, x) == IF AtOrBefore(t, x) = 0 THEN 1 ELSE AtOrBefore(t, x)

(* linear_weights: the samples a linear value at x is computed from.       *)
Neighbours(t, x) ==
    LET n == Len(t)
        k == AtOrBefore(t, x)
    IN  IF x <= t[1] THEN {1}
        ELSE IF x >= t[n] THEN {n}
        ELSE IF t[k] = x THEN {k} ELSE {k, k + 1}

(* generate_raster_grid: from lo in steps of dt, never past hi.            *)
Grid(lo, hi, dt) == [i \in 1 .. (hi - lo) \div dt + 1 |-> lo + (i - 1) * dt]

(* SignalSeries::new refuses values whose number is not the grid's, which  *)
(* is what a series without samples gives on a grid that has some.         *)
CanResample(s, grid) == s.t # << >> \/ grid = << >>

(* resample_values and resample_validity: only a float channel             *)
(* interpolates, and the mask is held even where the value is not.         *)
Resample(s, grid, linear) ==
    LET From(x) == IF linear /\ s.float THEN Neighbours(s.t, x) ELSE {HoldIndex(s.t, x)}
    IN  [s EXCEPT
            !.t  = grid,
            !.v  = [i \in DOMAIN grid |-> UNION {s.v[k] : k \in From(grid[i])}],
            !.ok = IF s.masked
                   THEN [i \in DOMAIN grid |-> s.ok[HoldIndex(s.t, grid[i])]]
                   ELSE << >>]

(* union_timestamps_in_range, the loop over both axes and the two that     *)
(* finish either: out ends with the last time taken.                       *)
RECURSIVE Merge(_, _, _, _)
Merge(a, b, end, out) ==
    LET Taken(x) == IF x > out[1] /\ x < end /\ Last(out) # x THEN Append(out, x) ELSE out
    IN  CASE a # << >> /\ b # << >> ->
               IF a[1] > end /\ b[1] > end THEN out
               ELSE LET x == IF a[1] < b[1] THEN a[1] ELSE b[1]
                    IN  Merge(IF a[1] <= b[1] THEN Tail(a) ELSE a,
                              IF b[1] <= a[1] THEN Tail(b) ELSE b, end, Taken(x))
          [] a # << >> /\ b = << >> ->
               IF a[1] >= end THEN out ELSE Merge(Tail(a), b, end, Taken(a[1]))
          [] a = << >> /\ b # << >> ->
               IF b[1] >= end THEN out ELSE Merge(a, Tail(b), end, Taken(b[1]))
          [] OTHER -> out

(* Mutant: the end of the overlap is not added.                            *)
UnionWithoutEnd(a, b, start, end) ==
    Merge(SubSeq(a, Before(a, start) + 1, Len(a)),
          SubSeq(b, Before(b, start) + 1, Len(b)), end, <<start>>)

UnionInRange(a, b, start, end) ==
    LET out == Merge(SubSeq(a, Before(a, start) + 1, Len(a)),
                     SubSeq(b, Before(b, start) + 1, Len(b)), end, <<start>>)
    IN  IF Last(out) # end THEN Append(out, end) ELSE out

(* combine_validity: the logical OR of two masks of "valid" flags, cut to  *)
(* the shorter, or the only mask there is.                                 *)
CombineValidity(a, b) ==
    IF a.masked /\ b.masked
    THEN [i \in 1 .. (IF Len(a.ok) < Len(b.ok) THEN Len(a.ok) ELSE Len(b.ok))
            |-> a.ok[i] \/ b.ok[i]]
    ELSE IF a.masked THEN a.ok ELSE b.ok

(* align refuses an operand without samples.                               *)
CanCombine(a, b) == a.t # << >> /\ b.t # << >>

(* align and apply_binary: both operands interpolated onto the union of    *)
(* their times inside the overlap, then combined sample by sample.  When   *)
(* they do not overlap the times are empty, but the later operand keeps    *)
(* the samples at its first time: its mask is not empty.                   *)
Combine(a, b) ==
    LET start == IF a.t[1] > b.t[1] THEN a.t[1] ELSE b.t[1]
        end   == IF Last(a.t) < Last(b.t) THEN Last(a.t) ELSE Last(b.t)
        time  == IF start > end THEN << >> ELSE UnionInRange(a.t, b.t, start, end)
        x     == IF start > end THEN Cut(a, start, start) ELSE Resample(a, time, TRUE)
        y     == IF start > end THEN Cut(b, start, start) ELSE Resample(b, time, TRUE)
        n     == IF Len(x.v) < Len(y.v) THEN Len(x.v) ELSE Len(y.v)
    IN  Series(time, [i \in 1 .. n |-> x.v[i] \cup y.v[i]],
               a.masked \/ b.masked, CombineValidity(x, y), TRUE)

-----------------------------------------------------------------------------
(* Several files (multi_ops.rs).                                           *)

CONSTANTS
    FileSets,     \* the sequences of files a caller may hand over
    Bounds,       \* the times he cuts at and puts samples on
    MaxDerived    \* how many operations he applies to the series in a row

VARIABLES
    task,     \* "concatenate", "stack" or "resample"
    files,    \* the files handed over
    aligned,  \* TimeAlignment::StartTime (TRUE) or AsRecorded
    at,       \* the group and the file concatenate is at
    last,     \* last_timestamp of the group: << >> or <<time>>
    joined,   \* the accumulators of the group, one per channel of the first file
    out,      \* the series handed back so far, each with where it is from
    state,    \* "running", "done" or "error"
    derived   \* the last operation on the series: its operands and its result

joinVars == <<task, files, aligned, at, last, joined, out, state, derived>>

NotDerived == [op |-> "none", left |-> << >>, right |-> << >>, arg |-> << >>,
               result |-> << >>, depth |-> 0]

Group(f, g) == files[f].groups[g]

(* The name of one recorded sample: file, group, channel, place.           *)
Samples(f, g, c) == [i \in DOMAIN Group(f, g).t |-> {<<f, g, c, i>>}]

(* series_for on one channel.                                              *)
SeriesOf(f, g, c) ==
    LET ch == Group(f, g).channels[c]
    IN  Series(Group(f, g).t, Samples(f, g, c), ch.masked, ch.ok, ch.float)

(* channel_timestamps refuses the axis; a group no channel of which is     *)
(* read is not looked at.                                                  *)
Readable(f, g) ==
    Group(f, g).channels # << >> => UsableAxis(Group(f, g).t, Group(f, g).usable)

(* start_time_offsets: from the earliest file handed over.                 *)
Oldest == CHOOSE s \in {files[f].start : f \in DOMAIN files} :
              \A f \in DOMAIN files : s <= files[f].start
Offset(f) == IF aligned THEN files[f].start - Oldest ELSE 0

(* check_same_structure: as many groups, and in each the same names,       *)
(* counted with their repetitions.                                         *)
NameCount(f, g, name) ==
    Cardinality({c \in DOMAIN Group(f, g).channels : Group(f, g).channels[c].name = name})
SameStructure ==
    \A f \in DOMAIN files :
        /\ Len(files[f].groups) = Len(files[1].groups)
        /\ \A g \in DOMAIN files[1].groups :
              \A k \in {1, f} : \A c \in DOMAIN Group(k, g).channels :
                 LET name == Group(k, g).channels[c].name
                 IN  NameCount(1, g, name) = NameCount(f, g, name)

(* Mutant: a match is not consumed, so two slots of one name get the same. *)
MatchedFirst(f, g, c) ==
    CHOOSE d \in DOMAIN Group(f, g).channels :
        /\ Group(f, g).channels[d].name = Group(1, g).channels[c].name
        /\ \A e \in 1 .. d - 1 :
              Group(f, g).channels[e].name # Group(1, g).channels[c].name

(* The channel of file f that continues slot c of the first file: the      *)
(* k-th of its name continues the k-th of its name (taken).                *)
Matched(f, g, c) ==
    LET name == Group(1, g).channels[c].name
        rank == Cardinality({d \in 1 .. c : Group(1, g).channels[d].name = name})
    IN  CHOOSE d \in DOMAIN Group(f, g).channels :
            /\ Group(f, g).channels[d].name = name
            /\ Cardinality({e \in 1 .. d : Group(f, g).channels[e].name = name}) = rank

(* The axis of a file in the joined group: moved by its start time, and by *)
(* as much more as puts it one interval after what is there already.       *)
MovedAxis(f, g) ==
    LET t     == [i \in DOMAIN Group(f, g).t |-> Group(f, g).t[i] + Offset(f)]
        delta == IF Len(t) >= 2 THEN t[2] - t[1] ELSE 1
        push  == IF last # << >> /\ last[1] >= t[1] THEN last[1] + delta - t[1] ELSE 0
    IN  IF t = << >> THEN t ELSE [i \in DOMAIN t |-> t[i] + push]

(* Where the group's recording ends: a file without samples is not one     *)
(* that ended, and leaves the last timestamp alone.                        *)
EndSoFar(master) == IF master = << >> THEN last ELSE <<Last(master)>>

(* append_validity: a file without a mask contributes valid samples, and   *)
(* one with a mask finds those before it valid.                            *)
AppendValidity(acc, s) ==
    IF ~acc.masked /\ ~s.masked THEN << >>
    ELSE (IF acc.masked THEN acc.ok ELSE [i \in DOMAIN acc.v |-> TRUE])
         \o (IF s.masked THEN s.ok ELSE [i \in DOMAIN s.v |-> TRUE])

(* append_values: samples are joined only to samples of their own kind.    *)
Appendable(f, g, c) ==
    Group(f, g).channels[Matched(f, g, c)].kind = Group(1, g).channels[c].kind

(* One slot extended by the series of its channel in the next file.        *)
Extended(acc, s, master) ==
    [acc EXCEPT !.t = @ \o master, !.v = @ \o s.v,
                !.masked = @ \/ s.masked, !.ok = AppendValidity(acc, s)]

NoSamples(c) == Series(<< >>, << >>, FALSE, << >>, Group(1, at.g).channels[c].float)
-----------------------------------------------------------------------------
JoinInit ==
    /\ task \in {"concatenate", "stack", "resample"}
    /\ files \in FileSets
    /\ aligned \in BOOLEAN
    /\ at = [g |-> 1, f |-> 1]
    /\ last = << >>
    /\ joined = << >>
    /\ out = << >>
    /\ state = "running"
    /\ derived = NotDerived

(* An error is the only answer: nothing is handed back.                    *)
Fail ==
    /\ state' = "error"
    /\ out' = << >>
    /\ joined' = << >>
    /\ UNCHANGED <<task, files, aligned, at, last, derived>>

Refuse ==
    /\ task = "concatenate" /\ state = "running" /\ ~SameStructure
    /\ Fail

(* concatenate, the next file of the current group: its axis is refused or *)
(* its samples are of another kind, or every slot is extended.             *)
AppendFile ==
    /\ task = "concatenate" /\ state = "running" /\ SameStructure
    /\ at.g <= Len(files[1].groups) /\ at.f <= Len(files)
    /\ LET g == at.g
           f == at.f
           slots == DOMAIN Group(1, g).channels
       IN  IF ~Readable(f, g) \/ \E c \in slots : ~Appendable(f, g, c)
           THEN Fail
           ELSE LET master == MovedAxis(f, g)
                IN  /\ joined' = [c \in slots |->
                                    Extended(IF f = 1 THEN NoSamples(c) ELSE joined[c],
                                             SeriesOf(f, g, Matched(f, g, c)), master)]
                    /\ last' = IF slots = {} THEN last ELSE EndSoFar(master)
                    /\ at' = [at EXCEPT !.f = @ + 1]
                    /\ UNCHANGED <<task, files, aligned, out, state, derived>>

(* concatenate, after the last file of a group: one series per slot, and   *)
(* the next group starts without a last timestamp.                         *)
FinishGroup ==
    /\ task = "concatenate" /\ state = "running"
    /\ at.g <= Len(files[1].groups) /\ at.f > Len(files)
    /\ out' = out \o [c \in DOMAIN joined |-> [from |-> <<0, at.g, c>>, series |-> joined[c]]]
    /\ joined' = << >>
    /\ last' = << >>
    /\ at' = [g |-> at.g + 1, f |-> 1]
    /\ UNCHANGED <<task, files, aligned, state, derived>>

FinishJoin ==
    /\ task = "concatenate" /\ state = "running" /\ SameStructure
    /\ at.g > Len(files[1].groups)
    /\ state' = "done"
    /\ UNCHANGED <<task, files, aligned, at, last, joined, out, derived>>

(* Every channel of a file, group by group.                                *)
ChannelsOf(f) ==
    FlattenSeq([g \in DOMAIN files[f].groups |->
        [c \in DOMAIN Group(f, g).channels |-> <<f, g, c>>]])

(* stack, one file: each series on its own axis, moved by the file's start.*)
StackFile ==
    /\ task = "stack" /\ state = "running" /\ at.f <= Len(files)
    /\ IF \E g \in DOMAIN files[at.f].groups : ~Readable(at.f, g)
       THEN Fail
       ELSE /\ out' = out \o [k \in DOMAIN ChannelsOf(at.f) |->
                  LET p == ChannelsOf(at.f)[k]
                  IN  [from |-> p,
                       series |-> [SeriesOf(p[1], p[2], p[3]) EXCEPT
                                      !.t = [i \in DOMAIN @ |-> @[i] + Offset(p[1])]]]]
            /\ state' = IF at.f = Len(files) THEN "done" ELSE state
            /\ at' = [at EXCEPT !.f = @ + 1]
            /\ UNCHANGED <<task, files, aligned, last, joined, derived>>

(* Mf4File::resample of all channels of one file: one raster over the span *)
(* of all of them.  A channel without samples refuses the whole batch.     *)
ResampleBatch ==
    /\ task = "resample" /\ state = "running"
    /\ \E dt \in 1 .. 2, linear \in BOOLEAN :
         LET all   == ChannelsOf(1)
             S(k)  == SeriesOf(all[k][1], all[k][2], all[k][3])
             times == UNION {ToSet(S(k).t) : k \in DOMAIN all}
             grid  == IF times = {} THEN << >>
                      ELSE Grid(CHOOSE x \in times : \A y \in times : x <= y,
                                CHOOSE x \in times : \A y \in times : x >= y, dt)
         IN  IF \/ \E g \in DOMAIN files[1].groups : ~Readable(1, g)
                \/ \E k \in DOMAIN all : ~CanResample(S(k), grid)
             THEN Fail
             ELSE /\ out' = [k \in DOMAIN all |->
                               [from |-> all[k], series |-> Resample(S(k), grid, linear)]]
                  /\ state' = "done"
                  /\ UNCHANGED <<task, files, aligned, at, last, joined, derived>>
-----------------------------------------------------------------------------
(* What the caller may work on next: a series handed back, or the result   *)
(* of his last operation.                                                  *)
AtHand ==
    {out[k].series : k \in DOMAIN out}
    \cup (IF derived.op = "none" THEN {} ELSE {derived.result})

Derive(op, left, right, arg, result) ==
    /\ state = "done" /\ derived.depth < MaxDerived
    /\ derived.op # "none" => derived.result \in {left, right}
    /\ derived' = [op |-> op, left |-> left, right |-> right, arg |-> arg,
                   result |-> result, depth |-> derived.depth + 1]
    /\ UNCHANGED <<task, files, aligned, at, last, joined, out, state>>

CutSeries ==
    \E s \in AtHand, lo, hi \in Bounds : Derive("cut", s, s, <<lo, hi>>, Cut(s, lo, hi))

ResampleSeries ==
    \E s \in AtHand, linear \in BOOLEAN :
        \/ \E dt \in 1 .. 2 :
             LET grid == IF s.t = << >> THEN << >> ELSE Grid(s.t[1], Last(s.t), dt)
             IN  Derive(IF linear THEN "interpolate" ELSE "hold", s, s, <<dt>>,
                        Resample(s, grid, linear))
        \/ \E lo, hi \in Bounds :
             /\ CanResample(s, <<lo, hi>>)
             /\ Derive(IF linear THEN "interpolate" ELSE "hold", s, s, <<lo, hi>>,
                       Resample(s, <<lo, hi>>, linear))

CombineSeries ==
    \E a, b \in AtHand :
        CanCombine(a, b) /\ Derive("combine", a, b, << >>, Combine(a, b))

JoinNext ==
    \/ Refuse \/ AppendFile \/ FinishGroup \/ FinishJoin \/ StackFile
    \/ ResampleBatch \/ CutSeries \/ ResampleSeries \/ CombineSeries

-----------------------------------------------------------------------------
(* The recorded sample behind a sample that was only read and joined.      *)
Origin(s, i) == CHOOSE o \in s.v[i] : TRUE
RecordedTime(o)  == Group(o[1], o[2]).t[o[4]]
RecordedValid(o) == LET ch == Group(o[1], o[2]).channels[o[3]]
                    IN  ~ch.masked \/ ch.ok[o[4]]

(* Joining loses, repeats and mixes nothing: a slot holds the samples of   *)
(* one channel of its name out of each file, in the order of the files, no *)
(* sample is in two slots, and each kept what its own file said of its     *)
(* validity.  "The result is monotonic": whatever the files' start times,  *)
(* its times never fall.  A file is moved as a whole, by its start time,   *)
(* and further on only when the samples of its own group before it reach   *)
(* to where it would begin.                                                *)
JoinedIsEachFileWhole ==
    task = "concatenate" =>
        \A k \in DOMAIN out :
            LET s     == out[k].series
                whose == [f \in DOMAIN files |->
                            SelectSeq([i \in DOMAIN s.v |-> Origin(s, i)], LAMBDA o : o[1] = f)]
            IN  /\ FlattenSeq(whose) = [i \in DOMAIN s.v |-> Origin(s, i)]
                /\ \A f \in DOMAIN files :
                     /\ Len(whose[f]) = Len(Group(f, out[k].from[2]).t)
                     /\ \A i, j \in DOMAIN whose[f] :
                          /\ whose[f][i][3] = whose[f][j][3]
                          /\ i < j => whose[f][i][4] < whose[f][j][4]
                /\ s.masked => Len(s.ok) = Len(s.v)
                /\ Len(s.t) = Len(s.v)
                /\ \A i \in 1 .. Len(s.t) - 1 : s.t[i] <= s.t[i + 1]
                /\ \A i \in DOMAIN s.v :
                     /\ Valid(s, i) = RecordedValid(Origin(s, i))
                     /\ LET o    == Origin(s, i)
                            due  == RecordedTime(o) + Offset(o[1])
                            prev == Origin(s, i - 1)
                        IN  IF i > 1 /\ prev[1] = o[1]
                            THEN s.t[i] - s.t[i - 1] = RecordedTime(o) - RecordedTime(prev)
                            ELSE s.t[i] = due \/ (i > 1 /\ due <= s.t[i - 1] /\ due < s.t[i])
                /\ \A l \in DOMAIN out : l # k =>
                     UNION ToSet(out[l].series.v) \cap UNION ToSet(s.v) = {}

(* Stacked series have a common origin: what two files recorded at the     *)
(* same instant has the same time, and no time lies before the earliest    *)
(* file's start.                                                           *)
StackedOnOneOrigin ==
    (task = "stack" /\ aligned) =>
        \A k, l \in DOMAIN out :
            \A i \in DOMAIN out[k].series.v, j \in DOMAIN out[l].series.v :
                LET o == Origin(out[k].series, i)
                    p == Origin(out[l].series, j)
                IN  out[k].series.t[i] - out[l].series.t[j]
                      = (files[o[1]].start + RecordedTime(o))
                        - (files[p[1]].start + RecordedTime(p))

(* A held sample is the latest one that was there by then, value and flag  *)
(* alike: none of a resampled series comes from a later time than its own, *)
(* unless it lies before the first, nothing later was there to take, and   *)
(* the raster stays inside the series.                                     *)
HeldIsTheLatest ==
    derived.op = "hold" =>
        LET s == derived.left
            r == derived.result
        IN  \A i \in DOMAIN r.t :
              /\ Len(derived.arg) = 1 => r.t[i] >= s.t[1] /\ r.t[i] <= Last(s.t)
              /\ \E j \in DOMAIN s.t :
                   /\ r.v[i] = s.v[j] /\ Valid(r, i) = Valid(s, j)
                   /\ s.t[j] <= r.t[i] \/ (j = 1 /\ \A k \in DOMAIN s.t : s.t[k] > r.t[i])
                   /\ \A k \in DOMAIN s.t : s.t[k] <= r.t[i] => k <= j

(* A sum has one sample at every time either operand has one inside the    *)
(* overlap, ends included, in ascending order, and each is computed from   *)
(* samples of both that enclose its time.                                  *)
CombinedOnTheUnion ==
    derived.op = "combine" =>
        LET a == derived.left
            b == derived.right
            r == derived.result
            Inside(x) == /\ a.t[1] <= x /\ b.t[1] <= x
                         /\ x <= Last(a.t) /\ x <= Last(b.t)
            Enclosed(s, i) == \E j, k \in DOMAIN s.t :
                /\ s.t[j] <= r.t[i] /\ r.t[i] <= s.t[k] /\ k <= j + 1
                /\ s.v[j] \subseteq r.v[i]
        IN  /\ ToSet(r.t) = {x \in ToSet(a.t) \cup ToSet(b.t) : Inside(x)}
            /\ \A i \in 1 .. Len(r.t) - 1 : r.t[i] < r.t[i + 1]
            /\ \A i \in DOMAIN r.t : Enclosed(a, i) /\ Enclosed(b, i)

(* Files joined or stacked keep every sample, its time and its validity,   *)
(* whatever their order and start times (concatenate, stack).              *)
FilesKeepTheirSamples == JoinedIsEachFileWhole /\ StackedOnOneOrigin

(* What is computed from series comes from the samples there were at the   *)
(* time (resample, cut, align, apply_binary).                              *)
DerivedAtTheirTimes == HeldIsTheLatest /\ CombinedOnTheUnion
=============================================================================

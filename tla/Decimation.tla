----------------------------- MODULE Decimation -----------------------------
(***************************************************************************)
(* What a plot is given of a series.  Four pieces of code thin a series to *)
(* the width of a plot: decimate_window of the web binding, view_window of *)
(* the library, which reads the series in chunks, decimate_min_max and     *)
(* decimate_curve of the viewer.  Text is thinned to its changes, by two   *)
(* more.  All keep some of the samples, in their order: what is kept is a  *)
(* set of places in the series.                                            *)
(*                                                                         *)
(* Times and values are whole numbers, times ascend; Gap stands for a      *)
(* value that is not finite or whose sample is invalid, Infinity and its   *)
(* negative for the bounds of a view that shows everything.  Columns are   *)
(* computed exactly, rounding of floating-point numbers is left out.       *)
(***************************************************************************)
EXTENDS Integers, FiniteSetsExt, SequencesExt

Gap == -9
Infinity == 99

Finite(s, i) == s.v[i] # Gap

(***************************************************************************)
(* The window of a view.                                                   *)
(***************************************************************************)

\* A bound that is not finite is the series' own, on its side.
Lower(s, t0) == IF t0 \in {-Infinity, Infinity} THEN s.t[1] ELSE t0
Upper(s, t1) == IF t1 \in {-Infinity, Infinity} THEN s.t[Len(s.t)] ELSE t1

\* The two partition points of ascending times.
Between(s, x0, x1) == {i \in DOMAIN s.t : x0 <= s.t[i] /\ s.t[i] <= x1}

Visible(s, t0, t1) ==
    IF s.t = <<>> \/ Len(s.v) # Len(s.t) \/ t0 > t1 THEN {}
    ELSE Between(s, Lower(s, t0), Upper(s, t1))

(***************************************************************************)
(* Columns and their extremes.                                             *)
(***************************************************************************)

Column(t, x0, x1, n) == ((t - x0) * n) \div (x1 - x0)

\* The first of the least, and of the greatest, values.
Lowest(s, I) == CHOOSE i \in I : \A j \in I : s.v[i] < s.v[j] \/ (s.v[i] = s.v[j] /\ i <= j)
Highest(s, I) == CHOOSE i \in I : \A j \in I : s.v[i] > s.v[j] \/ (s.v[i] = s.v[j] /\ i <= j)

\* Mutant of FirstMinMaxLast: the lowest sample is not looked for.
FirstMaxLast(s, I) == {Min(I), Highest(s, I), Max(I)}

FirstMinMaxLast(s, I) == {Min(I), Lowest(s, I), Highest(s, I), Max(I)}

InColumns(s, I, x0, x1, n) == {{i \in I : Column(s.t[i], x0, x1, n) = c} : c \in 0..n} \ {{}}

\* Sets of places that follow one another, in that order.
InOrder(parts) ==
    [k \in 1..Cardinality(parts) |->
        CHOOSE p \in parts : Cardinality({q \in parts : Min(q) < Min(p)}) = k - 1]

\* The maximal runs within I of one kind: all finite or all gaps.
Runs(s, I) ==
    LET starts == {i \in I : i - 1 \notin I \/ Finite(s, i - 1) # Finite(s, i)}
    IN  {{j \in I : i <= j /\ \A k \in (i + 1)..j : k \in I \ starts} : i \in starts}

(***************************************************************************)
(* decimate_window (wasm/src/lib.rs).                                      *)
(***************************************************************************)

\* decimate_run: column by column, until there are as many as room allows.
\* All that is kept of the window so far counts against the room of one run.
DecimateRun(s, run, x0, x1, n, room, kept) ==
    IF x0 = x1 THEN kept \cup FirstMinMaxLast(s, run)
    ELSE FoldLeft(LAMBDA acc, column : IF Cardinality(acc) >= room THEN acc
                                       ELSE acc \cup FirstMinMaxLast(s, column),
                  kept, InOrder(InColumns(s, run, x0, x1, n)))

\* hard_cap, less what is kept already.
Room(max, kept) ==
    LET cap == max + max \div 2
    IN  IF Cardinality(kept) < cap THEN cap - Cardinality(kept) ELSE 0

DecimateWindow(s, t0, t1, max) ==
    LET W == IF max = 0 THEN {} ELSE Visible(s, t0, t1)
        total == Cardinality({i \in W : Finite(s, i)})
        columns == IF max \div 4 > 1 THEN max \div 4 ELSE 1
        Share(run) == LET c == (columns * Cardinality(run)) \div total IN IF c > 1 THEN c ELSE 1
        OneRun(kept, run) ==
            IF ~Finite(s, Min(run)) THEN kept \cup {Min(run)}
            ELSE DecimateRun(s, run, Lower(s, t0), Upper(s, t1), Share(run), Room(max, kept), kept)
    IN  IF Cardinality(W) <= max THEN W ELSE FoldLeft(OneRun, {}, InOrder(Runs(s, W)))

(***************************************************************************)
(* view_window (view.rs): two passes over the chunks, one bucket a column. *)
(***************************************************************************)

\* Bucket::push: endpoints, finite extremes, and the first gap.
Bucket(s, I) ==
    LET finite == {i \in I : Finite(s, i)}
    IN  {Min(I), Max(I)}
            \cup (IF finite = {} THEN {} ELSE {Lowest(s, finite), Highest(s, finite)})
            \cup (IF finite = I THEN {} ELSE {Min(I \ finite)})

\* Columns have the extent of the series within the view; the last one holds
\* its end too.
ViewWindow(s, t0, t1, max) ==
    LET first == s.t[1]
        last == s.t[Len(s.t)]
        lo == IF t0 \in {-Infinity, Infinity} \/ t0 < first THEN first ELSE t0
        hi == IF t1 \in {-Infinity, Infinity} \/ t1 > last THEN last ELSE t1
        n == max \div 5
        ColumnOf(i) == IF lo = hi THEN 0
                       ELSE LET c == Column(s.t[i], lo, hi, n) IN IF c < n THEN c ELSE n - 1
        buckets == {{i \in Between(s, lo, hi) : ColumnOf(i) = c} : c \in 0..(n - 1)} \ {{}}
    IN  IF s.t = <<>> \/ t0 > t1 THEN {} ELSE UNION {Bucket(s, b) : b \in buckets}

(***************************************************************************)
(* The viewer (gui/src/decimate.rs, segments_for of panels/plot.rs).       *)
(***************************************************************************)

\* A column's scan starts from its first sample, and nothing compares with a
\* value that is not a number.
ExtremesSeen(s, I) ==
    LET finite == {i \in I : Finite(s, i)}
    IN  IF ~Finite(s, Min(I)) THEN {Min(I)} ELSE {Lowest(s, finite), Highest(s, finite)}

DecimateMinMax(s, I, x0, x1, n) ==
    LET W == I \cap Between(s, x0, x1)
    IN  IF n = 0 THEN {}
        ELSE IF Cardinality(W) <= n * 2 \/ x0 >= x1 THEN W
        ELSE UNION {ExtremesSeen(s, column) : column \in InColumns(s, W, x0, x1, n)}

\* One segment for each run of valid samples; flags that do not line up with
\* the samples are not looked at.
DecimateGaps(s, valid, x0, x1, n) ==
    LET all == DOMAIN s.t
        good == IF Len(valid) = Len(s.v) THEN {i \in all : valid[i]} ELSE all
        starts == {i \in good : i - 1 \notin good}
        runs == {{j \in good : i <= j /\ i..j \subseteq good} : i \in starts}
    IN  {DecimateMinMax(s, run, x0, x1, n) : run \in runs} \ {{}}

\* The view is brought into the series' own time, and the points out of it.
SegmentsFor(s, valid, offset, x0, x1, n) ==
    {{<<s.t[i] + offset, s.v[i]>> : i \in segment} :
        segment \in DecimateGaps(s, valid, x0 - offset, x1 - offset, n)}

\* A curve, whose x need not ascend: s.t holds its x, s.v its y.
DecimateCurve(s, x0, x1, n) ==
    LET W == Between(s, x0, x1)
    IN  IF n = 0 THEN {}
        ELSE IF Cardinality(W) <= n * 4 \/ x1 <= x0 THEN W
        ELSE UNION {FirstMinMaxLast(s, column) : column \in InColumns(s, W, x0, x1, n)}

(***************************************************************************)
(* Labels.  A sample without one is a Gap, too.                            *)
(***************************************************************************)

Changes(s, W) == {i \in W : i - 1 \notin W \/ s.v[i - 1] # s.v[i]}

FirstOf(n, I) == {i \in I : Cardinality({j \in I : j < i}) < n}

\* decimate_label_runs: changes, up to a cap, then the end of the last run.
DecimateLabels(s, t0, t1, max) ==
    LET W == IF max = 0 THEN {} ELSE Visible(s, t0, t1)
        cap == max + max \div 2
        changes == Changes(s, W)
        kept == FirstOf(cap, changes)
        closing == W # {} /\ kept = changes /\ s.t[Max(kept)] # s.t[Max(W)]
    IN  [kept |-> IF closing /\ Cardinality(kept) < cap THEN kept \cup {Max(W)} ELSE kept,
         truncated |-> kept # changes \/ (closing /\ Cardinality(kept) >= cap)]

\* view_text_window: every stride-th change, and the last sample.
ViewText(s, t0, t1, max) ==
    LET W == Between(s, t0, t1)
        changes == Changes(s, W)
        budget == IF max > 2 THEN max - 1 ELSE 1
        quotient == (Cardinality(changes) + budget - 1) \div budget
        stride == IF quotient > 1 THEN quotient ELSE 1
        kept == {i \in changes : Cardinality({j \in changes : j < i}) % stride = 0}
        closed == W # {} => /\ s.t[Max(kept)] = s.t[Max(W)]
                            /\ s.v[Max(kept)] = s.v[Max(W)]
    IN  [kept |-> IF closed THEN kept ELSE kept \cup {Max(W)},
         truncated |-> Cardinality(changes) + 1 > max]

(***************************************************************************)
(* Figures over a window.                                                  *)
(***************************************************************************)

\* window_stats_json: gaps are counted and nothing else.
WindowStats(s, t0, t1) ==
    LET W == Visible(s, t0, t1)
        finite == {i \in W : Finite(s, i)}
    IN  [count |-> Cardinality(finite), invalid |-> Cardinality(W \ finite),
         sum |-> MapThenSumSet(LAMBDA i : s.v[i], finite),
         figures |-> IF finite = {} THEN <<>>
                     ELSE <<s.v[Lowest(s, finite)], s.v[Highest(s, finite)],
                            s.v[Min(finite)], s.v[Max(finite)]>>]

\* window_label_stats_json: a sample holds until the next one of the window.
LabelStats(s, t0, t1) ==
    LET W == Visible(s, t0, t1)
        Held(i) == IF i = Max(W) \/ s.t[i + 1] <= s.t[i] THEN 0 ELSE s.t[i + 1] - s.t[i]
        Of(label) == {i \in W : s.v[i] = label}
    IN  [label \in {s.v[i] : i \in W} \ {Gap} |->
            [samples |-> Cardinality(Of(label)), seconds |-> MapThenSumSet(Held, Of(label))]]

(***************************************************************************)
(* One element of each sample of an array.                                 *)
(***************************************************************************)

\* element_values of the web binding: flat values, strided or by their starts.
\* What is not there is a gap.
ElementValues(flat, starts, each, element) ==
    LET At(k) == IF k + 1 \in DOMAIN flat THEN flat[k + 1] ELSE Gap
    IN  IF starts # <<>>
        THEN [i \in 1..(Len(starts) - 1) |->
                 IF element < starts[i + 1] - starts[i] THEN At(starts[i] + element) ELSE Gap]
        ELSE IF each = 0 THEN <<>>
        ELSE [i \in 1..(Len(flat) \div each) |-> At((i - 1) * each + element)]

\* element_values of view.rs: flags are of samples or of elements, and an
\* element no sample of a fixed shape has is refused.
Refused == <<-Infinity>>
ViewElements(flat, starts, each, flags, element) ==
    LET n == IF starts # <<>> THEN Len(starts) - 1 ELSE Len(flat) \div each
        At(i) == IF starts # <<>> THEN starts[i] + element ELSE (i - 1) * each + element
        Has(i) == starts # <<>> => element < starts[i + 1] - starts[i]
        Flag(i) == flags = <<>> \/ flags[IF Len(flags) = n THEN i ELSE At(i) + 1]
    IN  IF starts = <<>> /\ element >= each THEN Refused
        ELSE [i \in 1..n |-> IF Has(i) /\ Flag(i) THEN flat[At(i) + 1] ELSE Gap]
=============================================================================

---------------------------- MODULE Measurements ----------------------------
(***************************************************************************)
(* What the viewer's panels say of decoded series: the values at the       *)
(* cursors and at an instant (panels/plot.rs, panels/numeric.rs), the      *)
(* figures of a region and of a whole channel (panels/stats.rs,            *)
(* percentile.rs), two channels as a curve (xy.rs), where the window of    *)
(* time goes when it is moved (time_view.rs), and the clock at the axis.   *)
(*                                                                         *)
(* A series is [t, v, ok] as in Expressions; places count from one. Times  *)
(* are in nanoseconds: what compares them with 1e-9 seconds compares with  *)
(* one, what asks for less than that asks for none. Means are left as sums *)
(* and deviations are left out; what a percentile or a median divides by   *)
(* is kept as a factor.                                                    *)
(***************************************************************************)
EXTENDS Expressions

Measured(s, i) == FlagOf(s, i) /\ s.v[i] # Gap
MeasuredPlaces(s) == {i \in DOMAIN s.t : Measured(s, i)}
ValuesAt(s, I) == {s.v[i] : i \in I}

(***************************************************************************)
(* One sample: nearest_index, sample_at, readout, cursor_measurement.      *)
(***************************************************************************)

\* Mutant of NearestIndex: of two as near it takes the later.
NearestOrLater(t, x) ==
    LET below == Cardinality({i \in DOMAIN t : t[i] < x})
    IN  IF below = 0 THEN 1
        ELSE IF below = Len(t) THEN below
        ELSE IF t[below + 1] - x <= x - t[below] THEN below + 1 ELSE below

NearestIndex(t, x) ==
    LET below == Cardinality({i \in DOMAIN t : t[i] < x})
    IN  IF below = 0 THEN 1
        ELSE IF below = Len(t) THEN below
        ELSE IF t[below + 1] - x < x - t[below] THEN below + 1 ELSE below

\* A cursor that is not placed, a difference that is not shown.
Unset == -99

AtCursor(s, x) ==
    IF x = Unset \/ s.t = <<>> THEN [v |-> Unset, ok |-> FALSE]
    ELSE LET i == NearestIndex(s.t, x) IN [v |-> s.v[i], ok |-> FlagOf(s, i)]

CursorMeasurement(s, a, b) ==
    LET A == AtCursor(s, a)
        B == AtCursor(s, b)
    IN  [a |-> A, b |-> B,
         dt |-> IF Unset \in {a, b} THEN Unset ELSE b - a,
         dy |-> IF A.ok /\ B.ok /\ Gap \notin {A.v, B.v} THEN B.v - A.v ELSE Unset]

\* What the readout shows at x of a series drawn offset to the right.
Readout(s, offset, x) ==
    LET i == NearestIndex(s.t, x - offset) IN [at |-> s.t[i] + offset, v |-> IF FlagOf(s, i) THEN s.v[i] ELSE Unset]

\* value_at: the last measured sample at or before x, by its place, or none;
\* and what the table says of it.
ValueAt(s, x) == Max({0} \cup {i \in 1..Neighbour(s, x) : Measured(s, i)})

NumericStatus(s, x) ==
    LET i == ValueAt(s, x)
    IN  CASE s.t = <<>> -> "no samples"
          [] i = 0 -> IF x < s.t[1] THEN "before first" ELSE "all prior invalid"
          [] s.t[Neighbour(s, x)] > s.t[i] -> "skipped"
          [] OTHER -> IF s.t[i] = x THEN "exact" ELSE "held"

(***************************************************************************)
(* Many samples: value_bounds, overlay_flattens, region_stats,             *)
(* compute_stats, percentile.                                              *)
(***************************************************************************)

NoFigures == <<>>

\* Two figures in the order they are shown in.
LeastAndGreatest(V) == IF V = {} THEN NoFigures ELSE <<Min(V), Max(V)>>
ValueBounds(s) == LeastAndGreatest(ValuesAt(s, MeasuredPlaces(s)))

RangeHintRatio == 20
OverlayFlattens(bounds) ==
    LET axis == Max({b[2] : b \in ToSet(bounds)}) - Min({b[1] : b \in ToSet(bounds)})
    IN  Len(bounds) >= 2 /\ \E b \in ToSet(bounds) : b[1] < b[2] /\ (b[2] - b[1]) * RangeHintRatio < axis

RegionStats(s, from, to) ==
    LET inside == Between(s, Min({from, to}), Max({from, to}))
        counted == inside \cap MeasuredPlaces(s)
    IN  IF counted = {} THEN NoFigures
        ELSE <<Cardinality(counted), Cardinality(inside \ counted), LeastAndGreatest(ValuesAt(s, counted)),
               MapThenSumSet(LAMBDA i : s.v[i], counted)>>

Sorted(values) == SortSeq(values, <)

\* The value at the percent-th hundredth of the ranks, times a hundred.
Percentile100(values, percent) ==
    LET sorted == Sorted(values)
        rank == percent * (Len(values) - 1)
        lower == rank \div 100
        weight == rank % 100
    IN  IF weight = 0 THEN 100 * sorted[lower + 1]
        ELSE 100 * sorted[lower + 1] + (sorted[lower + 2] - sorted[lower + 1]) * weight

Median2(values) ==
    LET sorted == Sorted(values)
        n == Len(values)
    IN  IF n % 2 = 1 THEN 2 * sorted[n \div 2 + 1] ELSE sorted[n \div 2] + sorted[n \div 2 + 1]

HistogramBins == 50
Histogram(values) ==
    LET low == Min(ToSet(values))
        span == Max(ToSet(values)) - low
        Bin(x) == Min({HistogramBins - 1, ((x - low) * HistogramBins) \div span})
    IN  IF span = 0 THEN NoFigures
        ELSE [k \in 1..HistogramBins |-> Len(SelectSeq(values, LAMBDA x : Bin(x) = k - 1))]

ChannelStats(s) ==
    LET valid == SelectSeq([i \in DOMAIN s.v |-> i], LAMBDA i : FlagOf(s, i))
        finite == SelectSeq([k \in DOMAIN valid |-> s.v[valid[k]]], LAMBDA x : x # Gap)
    IN  [samples |-> Len(s.v), valid |-> Len(valid), excluded |-> Len(s.v) - Len(valid), nan |-> Len(valid) - Len(finite),
         ends |-> IF valid = <<>> THEN NoFigures ELSE <<s.v[Head(valid)], s.v[Last(valid)]>>,
         bounds |-> LeastAndGreatest(ToSet(finite)),
         median |-> IF finite = <<>> THEN Unset ELSE Median2(finite),
         percentiles |-> IF finite = <<>> THEN NoFigures
                         ELSE [k \in 1..4 |-> Percentile100(finite, <<5, 25, 75, 95>>[k])],
         histogram |-> IF finite = <<>> THEN NoFigures ELSE Histogram(finite)]

(***************************************************************************)
(* Two channels on one clock: alignment_offset_seconds, pair_xy, point_at. *)
(***************************************************************************)

\* A start of nought is a header without one.
AlignmentOffset(absolute, a, b) == IF absolute /\ a # 0 /\ b # 0 THEN b - a ELSE 0

SameTime == 1  \* SAME_TIME_EPSILON

NoCurve(why) == [refused |-> why, points |-> <<>>, dropped |-> 0]

\* collect: the pairs that are measured on both axes.
Collect(pairs) ==
    LET kept == SelectSeq(pairs, LAMBDA p : p.ok /\ Gap \notin {p.x, p.y})
    IN  IF kept = <<>> THEN NoCurve("nothing valid")
        ELSE [refused |-> "no", points |-> kept, dropped |-> Len(pairs) - Len(kept)]

PairXy(x, xOffset, y, yOffset, crossFile, absolute) ==
    LET X == [i \in DOMAIN x.t |-> x.t[i] + xOffset]
        Y == [i \in DOMAIN y.t |-> y.t[i] + yOffset]
        low == Max({X[1], Y[1]})
        high == Min({X[Len(X)], Y[Len(Y)]})
        shared == SelectSeq([i \in DOMAIN X |-> i], LAMBDA i : low <= X[i] /\ X[i] <= high)
        sameRaster == Len(X) = Len(Y) /\ \A i \in DOMAIN X : X[i] - Y[i] \in -SameTime..SameTime
        Sampled(i) == Resampled(y, X[i] - yOffset)
        Exact(i) == [t |-> X[i], x |-> x.v[i], y |-> y.v[i], ok |-> FlagOf(x, i) /\ FlagOf(y, i)]
        Interpolated(i) == [t |-> X[i], x |-> x.v[i], y |-> Sampled(i).v, ok |-> FlagOf(x, i) /\ Sampled(i).ok]
    IN  IF crossFile /\ ~absolute THEN NoCurve("clocks")
        ELSE IF x.t = <<>> \/ y.t = <<>> THEN NoCurve("no samples")
        ELSE IF low > high + SameTime THEN NoCurve("no overlap")
        ELSE IF sameRaster THEN Collect([i \in DOMAIN X |-> Exact(i)])
        ELSE IF shared = <<>> THEN NoCurve("no overlap")
        ELSE Collect([k \in DOMAIN shared |-> Interpolated(shared[k])])

\* XySeries::point_at, by its place: none outside of the curve.
PointAt(curve, x) ==
    LET times == [k \in DOMAIN curve.points |-> curve.points[k].t]
    IN  IF times = <<>> THEN 0
        ELSE IF x < times[1] - SameTime \/ x > Last(times) + SameTime THEN 0
        ELSE NearestIndex(times, x)

(***************************************************************************)
(* The window of time: time_view.  Fractions are in quarters.              *)
(***************************************************************************)

\* The narrowest window over a recording: a ten-millionth of it.
MinSpan(full) == Max({(full[2] - full[1]) \div 10000000, 1})
NoView == <<>>

ClampView(w, full) ==
    LET low == Min({w[1], w[2]})
        span == Max({w[1], w[2]}) - low
        from == Max({low, full[1]})
    IN  IF full[1] >= full[2] THEN <<low, low + span>>
        ELSE IF span >= full[2] - full[1] THEN full
        ELSE IF from + span > full[2] THEN <<full[2] - span, full[2]>> ELSE <<from, from + span>>

PanView(w, quarters, full) ==
    LET shift == ((w[2] - w[1]) * quarters) \div 4 IN ClampView(<<w[1] + shift, w[2] + shift>>, full)

ZoomView(w, quarters, anchor, full) ==
    LET span == w[2] - w[1]
        wide == Max({(span * quarters) \div 4, MinSpan(full)})
        at == Max({0, Min({anchor - w[1], span})})
        from == IF span > 0 THEN anchor - (at * wide) \div span ELSE anchor - wide \div 2
    IN  ClampView(<<from, from + wide>>, full)

BetweenView(a, b, quarters, full) ==
    LET low == Min({a, b})
        span == Max({a, b}) - low
        pad == (span * quarters) \div 4
    IN  IF span <= MinSpan(full) THEN NoView ELSE ClampView(<<low - pad, low + span + pad>>, full)

(***************************************************************************)
(* The clock: absolute_label, civil_from_days.  An instant is a pair of    *)
(* seconds and nanoseconds; a label has the day, the second in it and the  *)
(* thousandth.                                                             *)
(***************************************************************************)

Giga == 1000000000
Mega == 1000000

AbsoluteLabel(start, offset) ==
    LET nanos == start[2] + offset[2]
        thousandths == ((nanos % Giga) + Mega \div 2) \div Mega
        carry == IF thousandths >= 1000 THEN 1 ELSE 0
        secs == start[1] + offset[1] + nanos \div Giga + carry
    IN  [day |-> secs \div 86400, second |-> secs % 86400, thousandth |-> thousandths - 1000 * carry]

CivilFromDays(days) ==
    LET z == days + 719468
        era == z \div 146097
        doe == z % 146097
        yoe == (doe - doe \div 1460 + doe \div 36524 - doe \div 146096) \div 365
        doy == doe - (365 * yoe + yoe \div 4 - yoe \div 100)
        mp == (5 * doy + 2) \div 153
        month == IF mp < 10 THEN mp + 3 ELSE mp - 9
    IN  <<yoe + era * 400 + (IF month <= 2 THEN 1 ELSE 0), month, doy - (153 * mp + 2) \div 5 + 1>>

=============================================================================

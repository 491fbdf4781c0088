----------------------------- MODULE WebAnswers -----------------------------
(***************************************************************************)
(* What the web binding answers about one channel (wasm/src/lib.rs): pages *)
(* of samples, the sample nearest to a time, a window for the plot, a CSV, *)
(* statistics, an element of an array, a GPS track, a page of bus frames   *)
(* and the frame nearest to a time.                                        *)
(*                                                                         *)
(* A channel is what its decode gives: the kind of its values, the times,  *)
(* the values or bytes of all samples one after another (flat), how many   *)
(* each sample has (width) or where each begins (starts), and the flags of *)
(* the samples (ok, << >> for none).  Places in a series count from one,   *)
(* the arguments start and count and the elements of an array from nought. *)
(***************************************************************************)
EXTENDS Expressions

\* Rows a visit is handed at a time, the most a page may have, and
\* TRACK_MAX_POINTS.
CONSTANTS ChunkRows, MaxPage, TrackMaxPoints

Least2(a, b) == IF a < b THEN a ELSE b
Less(a, b) == IF a > b THEN a - b ELSE 0
Slice(s, from, to) == SubSeq(s, from + 1, to)
SampleCount(c) == Len(c.t)

(***************************************************************************)
(* The decode that is kept: decode_v4, map_payload.                        *)
(***************************************************************************)

\* valid_at, fold_validity: flags that do not line up are ignored.
ValidAt(ok, i, n) == Len(ok) = n => ok[i]
FoldValidity(values, ok) == [i \in DOMAIN values |-> IF ValidAt(ok, i, Len(values)) THEN values[i] ELSE Gap]

ToF64(c) == IF c.kind \in {"text", "bytes"} THEN [i \in 1..SampleCount(c) |-> Gap] ELSE c.flat

Decoded(c) ==
    [t |-> c.t, v |-> FoldValidity(ToF64(c), c.ok), kind |-> c.kind,
     labels |-> IF c.kind = "text" THEN FoldValidity(c.flat, c.ok) ELSE <<>>,
     flat |-> c.flat, width |-> c.width, starts |-> c.starts]

\* decode_v3: as many values as there are times, or a time for every value.
DecodedOfV3(values, master) ==
    IF master = NoSeries THEN [t |-> [i \in DOMAIN values |-> i - 1], v |-> values]
    ELSE [t |-> master.v, v |-> Slice(values, 0, Least2(Len(values), Len(master.v)))]

(***************************************************************************)
(* One sample: write_sample.                                               *)
(***************************************************************************)

From(c, i) == IF c.starts # <<>> THEN c.starts[i] ELSE (i - 1) * c.width
To(c, i) == IF c.starts # <<>> THEN c.starts[i + 1] ELSE i * c.width

\* Flags are of samples when there are as many as samples, else of elements.
SampleValid(c, i, j) ==
    c.ok = <<>> \/ LET k == IF Len(c.ok) = SampleCount(c) THEN i ELSE j
                   IN  k \in DOMAIN c.ok /\ c.ok[k]

\* The whole of an array.
Every == -1

WriteSample(c, i, element) ==
    LET Value(j) == IF SampleValid(c, i, j) THEN c.flat[j] ELSE Gap
    IN  CASE c.kind \in {"f64", "text"} -> Value(i)
          [] c.kind = "bytes" -> IF SampleValid(c, i, i) THEN Slice(c.flat, From(c, i), To(c, i)) ELSE <<Gap>>
          [] element = Every -> [k \in 1..(To(c, i) - From(c, i)) |-> Value(From(c, i) + k)]
          [] OTHER -> IF From(c, i) + element < To(c, i) THEN Value(From(c, i) + element + 1) ELSE Gap

(***************************************************************************)
(* Pages: sample_page of a file's channel visits the chunks up to its end; *)
(* of an overlay it is a slice, and so is raw_page.                        *)
(***************************************************************************)

ChunkOf(c, k) == [offset |-> (k - 1) * ChunkRows, rows |-> Least2(ChunkRows, Less(SampleCount(c), (k - 1) * ChunkRows))]
Chunks(c) == [k \in 1..((SampleCount(c) + ChunkRows - 1) \div ChunkRows) |-> ChunkOf(c, k)]

TooLarge == <<"page too large">>

SamplePage(c, start, count) ==
    LET first == Least2(start, SampleCount(c))
        end == Least2(first + count, SampleCount(c))
        Rows(chunk) ==
            LET low == Less(first, chunk.offset)
                high == Least2(Less(end, chunk.offset), chunk.rows)
            IN  [k \in 1..Less(high, low) |->
                    LET i == chunk.offset + low + k IN <<c.t[i], WriteSample(c, i, Every)>>]
        Visited(acc, chunk) == IF acc.over THEN acc
                               ELSE [rows |-> acc.rows \o Rows(chunk), over |-> chunk.offset + chunk.rows >= end]
    IN  IF count > MaxPage THEN TooLarge
        ELSE FoldLeft(Visited, [rows |-> <<>>, over |-> FALSE], Chunks(c)).rows

SeriesPage(s, start, count) ==
    LET first == Least2(start, Len(s.t))
        end == Least2(first + count, Len(s.t))
        shown == IF s.kind = "text" THEN s.labels ELSE s.v
    IN  [k \in 1..(end - first) |-> <<s.t[first + k], shown[first + k]>>]

\* raw_page: the elements or bytes of the page, and where each sample's begin
\* within it.
RawPage(s, start, count) ==
    LET first == Least2(start, Len(s.t))
        end == Least2(first + count, Len(s.t))
        all == IF s.kind = "bytes" THEN s.flat ELSE s.v
        Begin(i) == IF s.starts # <<>> THEN s.starts[i + 1] ELSE i * s.width
    IN  [times |-> Slice(s.t, first, end), flat |-> Slice(all, Begin(first), Begin(end)),
         starts |-> [k \in 1..(end - first + 1) |-> Begin(first + k - 1) - Begin(first)]]

(***************************************************************************)
(* sample_at: the first of the samples nearest to a time.                  *)
(***************************************************************************)

Away(t, i, x) == IF t[i] < x THEN x - t[i] ELSE t[i] - x

\* Mutant of NearestSample: a later sample as near takes its place.
NearestOfLast(t, x) == CHOOSE i \in DOMAIN t : \A j \in DOMAIN t :
    Away(t, i, x) < Away(t, j, x) \/ (Away(t, i, x) = Away(t, j, x) /\ i >= j)

NearestSample(t, x) == CHOOSE i \in DOMAIN t : \A j \in DOMAIN t :
    Away(t, i, x) < Away(t, j, x) \/ (Away(t, i, x) = Away(t, j, x) /\ i <= j)

SampleAt(c, x, element) == IF c.t = <<>> THEN Gap ELSE WriteSample(c, NearestSample(c.t, x), element)

SeriesSampleAt(s, x) ==
    IF s.t = <<>> THEN Gap
    ELSE LET i == NearestSample(s.t, x) IN IF s.kind = "text" THEN s.labels[i] ELSE s.v[i]

(***************************************************************************)
(* Windows: signal_csv, signal_stats, signal_text, signal_window and       *)
(* signal_element_window, all of the kept decode.                          *)
(***************************************************************************)

NotFor == <<"another kind">>

Labelled(s) == [t |-> s.t, v |-> s.labels]

SignalCsv(s, t0, t1) ==
    LET series == IF s.kind = "text" THEN Labelled(s) ELSE s
        W == IF s.t = <<>> THEN {} ELSE Between(series, Lower(series, t0), Upper(series, t1))
    IN  IF s.kind \notin {"f64", "text"} THEN NotFor
        ELSE [k \in 1..Cardinality(W) |-> LET i == Min(W) + k - 1 IN <<series.t[i], series.v[i]>>]

SignalStats(s, t0, t1) ==
    CASE s.kind = "f64" -> WindowStats(s, t0, t1)
      [] s.kind = "text" -> LabelStats(Labelled(s), t0, t1)
      [] OTHER -> NotFor

SignalText(s, t0, t1, max) == IF s.kind = "text" THEN DecimateLabels(Labelled(s), t0, t1, max) ELSE NotFor

\* How many elements can be chosen, and the window of one.
Elements(s) ==
    IF s.starts = <<>> THEN s.width
    ELSE Max({0} \cup {s.starts[i + 1] - s.starts[i] : i \in 1..(Len(s.starts) - 1)})

ElementSeries(s, element) == [t |-> s.t, v |-> ElementValues(s.v, s.starts, s.width, element)]

SignalElementWindow(s, element, t0, t1, max) ==
    IF s.kind # "array" THEN NotFor ELSE DecimateWindow(ElementSeries(s, element), t0, t1, max)

\* An element no sample has.
NoWindow == {0}

\* window_series: what a file's channel is shown with, and what any other is.
WindowSeries(c, element, t0, t1, budget) ==
    LET elements == ViewElements(c.flat, c.starts, c.width, c.ok, element)
    IN  CASE c.kind = "text" -> ViewText([t |-> c.t, v |-> Decoded(c).labels], t0, t1, budget).kept
          [] c.kind = "array" -> IF elements = Refused THEN NoWindow
                                 ELSE ViewWindow([t |-> c.t, v |-> elements], t0, t1, budget)
          [] OTHER -> ViewWindow([t |-> c.t, v |-> Decoded(c).v], t0, t1, budget)

(***************************************************************************)
(* gps_track: the samples of the latitude, every stride-th of those that   *)
(* are a number, each with what the others have at the same place.         *)
(***************************************************************************)

AtPlace(v, i) == IF i \in DOMAIN v THEN v[i] ELSE Gap

GpsTrack(lat, lon, speed) ==
    LET stride == Max({1, (Len(lat.t) + TrackMaxPoints - 1) \div TrackMaxPoints})
        points == {i \in DOMAIN lat.t : (i - 1) % stride = 0 /\ Finite(lat, i)}
    IN  [points |-> {<<lat.t[i], lat.v[i], AtPlace(lon.v, i), AtPlace(speed.v, i)>> : i \in points},
         aligned |-> Len(lon.v) = Len(lat.t) /\ Len(speed.v) = Len(lat.t)]

(***************************************************************************)
(* Bus frames, by their time stamps.                                       *)
(***************************************************************************)

FramesPage(stamps, start, count) ==
    LET first == Least2(start, Len(stamps))
        end == Least2(first + count, Len(stamps))
    IN  [start |-> first, rows |-> Slice(stamps, first, end)]

RECURSIVE Bisected(_, _, _, _)
Bisected(stamps, x, low, high) ==
    LET middle == (low + high) \div 2
    IN  IF low >= high THEN low
        ELSE IF stamps[middle + 1] < x THEN Bisected(stamps, x, middle + 1, high)
        ELSE Bisected(stamps, x, low, middle)

BusFrameLocate(stamps, x) ==
    LET n == Len(stamps)
        low == Bisected(stamps, x, 0, n)
    IN  IF n = 0 THEN 0
        ELSE IF low > 0 /\ (low = n \/ x - stamps[low] <= stamps[low + 1] - x) THEN low - 1
        ELSE Least2(low, n - 1)
=============================================================================

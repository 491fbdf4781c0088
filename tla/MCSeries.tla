------------------------------ MODULE MCSeries ------------------------------
(***************************************************************************)
(* Decoded series, and what is done with them: files joined, stacked and   *)
(* put on one raster; the computed channels of the plot panel; and, one    *)
(* piece at a time, what a front end shows.                                *)
(***************************************************************************)
EXTENDS MultiOps, WebAnswers, NameSearch, Measurements, PlotPanel, TLC

CONSTANTS Tasks,        \* the pieces looked at
          m1, m2, m3

VARIABLES item, done

vars == <<joinVars, plotVars, item, done>>

(***************************************************************************)
(* Small measurements for MultiOps: axes of up to three samples, files of  *)
(* one group whose start times, axes and masks differ, and files whose     *)
(* groups name several channels, in another order, twice, of another kind  *)
(* or not at all.                                                          *)
(***************************************************************************)

Axes == {<< >>, <<1>>, <<0, 2>>, <<0, 0, 3>>, <<2, 1>>}

Masks(n) == {m \in [1 .. n -> BOOLEAN] : n < 3 \/ ~m[1]}

Recorded(name, kind, float, masked, ok) ==
    [name |-> name, kind |-> kind, float |-> float, masked |-> masked, ok |-> ok]

GroupOf(t, channels) == [t |-> t, usable |-> [i \in DOMAIN t |-> TRUE], channels |-> channels]

FileOf(start, groups) == [start |-> start, groups |-> groups]

(* One channel x in one group.                                             *)
Singles(starts, axes) ==
    UNION {{FileOf(s, <<GroupOf(t, <<Recorded("x", "f64", TRUE, m, ok)>>)>>) :
               s \in starts, m \in {TRUE}, ok \in Masks(Len(t))}
           \cup {FileOf(s, <<GroupOf(t, <<Recorded("x", "u8", FALSE, FALSE, << >>)>>)>>) : s \in starts}
           \cup {FileOf(s, <<GroupOf(t, <<Recorded("x", "f64", TRUE, FALSE, << >>)>>)>>) : s \in starts}
           : t \in axes}

(* Two groups: one of the channels named, in that order, and one of z.     *)
Named(names, kind, t) ==
    FileOf(Len(t),
           <<GroupOf(t, [c \in DOMAIN names |->
                           Recorded(names[c], kind, c = 1, c = 2, IF c = 2 THEN [i \in DOMAIN t |-> i = 1] ELSE << >>)]),
             GroupOf(<<1, 2>>, <<Recorded("z", "f64", TRUE, FALSE, << >>)>>)>>)

Structures ==
    {Named(names, kind, t) :
        names \in {<<"x", "y">>, <<"y", "x">>, <<"x", "x">>, <<"y", "x", "x">>, <<"x", "x", "y">>, << >>},
        kind \in {"f64", "u8"}, t \in {<<0, 2>>, <<1>>, << >>}}

Written64 == {f \in Structures : \A c \in DOMAIN f.groups[1].channels : f.groups[1].channels[c].kind = "f64"}

UnusableMaster ==
    [FileOf(0, <<GroupOf(<<0, 1>>, <<Recorded("x", "f64", TRUE, FALSE, << >>)>>)>>)
        EXCEPT !.groups[1].usable[2] = FALSE]

MCFileSets ==
    {<<f>> : f \in Singles({0}, {<<0, 0, 3>>, <<0, 2>>}) \cup Structures}
    \cup {<<f, g>> : f \in Singles({0}, Axes \ {<<0, 0, 3>>}), g \in Singles({0, 2}, Axes \ {<<0, 0, 3>>})}
    \cup {<<f, g>> : f \in Singles({2}, {<<1>>, <<0, 2>>}), g \in Singles({0}, {<<0, 2>>})}
    \cup {<<f, g>> : f \in Structures, g \in Written64}
    \cup {<<f, e, g>> : f, g \in Singles({0, 1}, {<<0, 2>>}), e \in Singles({0}, {<< >>})}
    \cup {<<UnusableMaster>>}

MCBounds == {0, 1, 3}
(***************************************************************************)
(* Series of a plot.                                                       *)
(***************************************************************************)

Ascending(n) == {t \in [1..n -> 0..n] : \A i \in 1..(n - 1) : t[i] <= t[i + 1]}

Windows == {<<-Infinity, Infinity>>, <<1, 3>>, <<2, 2>>, <<3, 1>>}

Curve(t, v, w, max) ==
    [t |-> t, v |-> v, x0 |-> w[1], x1 |-> w[2], max |-> max]

Curves ==
    {Curve(t, v, w, max) :
        t \in {<<0, 1, 2, 3, 4, 5>>, <<0, 0, 1, 3, 3, 4>>, <<2, 2, 2, 2, 2, 2>>},
        v \in [1..6 -> {Gap, 0, 2}], w \in Windows, max \in {1, 4, 5}}
    \cup {Curve(t, v, w, max) : t \in Ascending(2), v \in [1..2 -> {Gap, 0}], w \in Windows, max \in 0..2}
    \cup {Curve([i \in 1..8 |-> i], v, <<1, 8>>, max) : v \in [1..8 -> {Gap, 0, 2}], max \in {4, 6}}

(***************************************************************************)
(* Formulas over two channels, and what they are evaluated on.             *)
(***************************************************************************)

Leaves == {Leaf("x"), Leaf("y"), Leaf("2")}
Binary(ops, A, B) == {Node(op, <<a, b>>) : op \in ops, a \in A, b \in B}
OneDeep == Binary(Operators \cup {"min"}, Leaves, Leaves) \cup {Node(op, <<a>>) : op \in {"neg", "abs"}, a \in Leaves}
TwoDeep == Binary({"-", "/"}, OneDeep, {Leaf("x")}) \cup Binary({"-", "*"}, {Leaf("y")}, OneDeep)
           \cup {Node(op, <<a>>) : op \in {"neg", "abs"}, a \in OneDeep}

\* Signs and parentheses as deep as the viewer goes, and deeper.
Nested(n) == FoldLeft(LAMBDA e, k : Node("-", <<Leaf("x"), e>>), Leaf("y"), [k \in 1..n |-> k])
Signed(n) == FoldLeft(LAMBDA e, k : Node("neg", <<e>>), Leaf("x"), [k \in 1..n |-> k])
Formulas == Leaves \cup OneDeep \cup TwoDeep \cup {Nested(n) : n \in 1..6} \cup {Signed(n) : n \in 1..6}

Operand(t, v, ok) == [t |-> t, v |-> v, ok |-> ok]
OperandPairs ==
    {[x |-> Operand(<<0, 2, 6>>, <<4, 0, 3>>, xOk), y |-> Operand(t, [i \in DOMAIN t |-> v[i]], yOk)] :
        xOk \in {<<>>, <<TRUE, FALSE, TRUE>>}, t \in {<<0, 2, 6>>, <<1, 2, 4>>, <<2>>, <<>>},
        v \in {<<1, 0, 5>>, <<2, Gap, 1>>}, yOk \in {<<>>}}

(***************************************************************************)
(* Channels to ask about: numbers, labels, arrays of a fixed shape and of  *)
(* one that varies, bytes; some samples invalid.                           *)
(***************************************************************************)

TimesAsked == {<<>>, <<3>>, <<0, 2, 2, 5, 6>>, <<1, 2, 4, 5, 7>>}
Flags(n) == {<<>>, [i \in 1..n |-> i % 2 = 1], [i \in 1..n |-> i > 2]}
Plain(t, v) == [t |-> t, flat |-> [i \in DOMAIN t |-> v[i]], width |-> 1, starts |-> <<>>]
Shaped(t, w) == [t |-> t, flat |-> [j \in 1..(w * Len(t)) |-> j], width |-> w, starts |-> <<>>]
Varying(t, first) ==
    LET starts == [i \in 1..(Len(t) + 1) |-> ((i - 1 + first) \div 2) * 2 - (first \div 2) * 2]
    IN  [t |-> t, flat |-> [j \in 1..starts[Len(t) + 1] |-> 10 * j], width |-> 0, starts |-> starts]
Shapes(t) == {<<"f64", Plain(t, <<3, 1, 3, 2, 0>>)>>, <<"f64", Plain(t, <<0, 0, 4, 4, 0>>)>>, <<"text", Plain(t, <<1, 1, 2, 1, 2>>)>>}
             \cup {<<kind, s>> : kind \in {"array", "bytes"}, s \in {Shaped(t, 1), Shaped(t, 2), Varying(t, 0), Varying(t, 1)}}
Asked(shape, ok) == [kind |-> shape[1], ok |-> ok] @@ shape[2]
AskedChannels == UNION {{Asked(shape, ok) : shape \in Shapes(t), ok \in Flags(Len(t))} : t \in TimesAsked}

(***************************************************************************)
(* Names and patterns, of letters and the characters that mean something.  *)
(***************************************************************************)

Words(letters, n) == UNION {[1..k -> letters] : k \in 0..n}
NamesSearched == Words({"a", "b"}, 4)
WildcardsTried == Words({"a", "b", "*", "?"}, 4)
RegexesTried == {<<q>> \o r : q \in {"^", ".", "a"}, r \in Words({"a", "*", "?", "$", "."}, 3)}
                \cup {<<"[">> \o r : r \in Words({"^", "b", "]", "+", Quote}, 4)}
                \cup Words({"b", "+", "*", "(", Quote}, 3)
ChannelLists == Words({"a", "b"}, 3)

(***************************************************************************)
(* Series under the cursors, with another to pair them with; windows of a  *)
(* recording that are moved; and instants near the turns of the calendar.  *)
(***************************************************************************)

Readings(t, ok) == {Operand(t, [i \in DOMAIN t |-> v[i]], ok) : v \in {<<4, 0, 3, 8>>, <<2, Gap, 2, 9>>}}
SeriesMeasured == UNION {Readings(t, ok) : t \in {<<>>, <<3>>, <<0, 2, 6>>, <<1, 2, 2, 5>>}, ok \in {<<>>, <<TRUE, FALSE, TRUE, TRUE>>}}
PairedWith == Readings(<<0, 2, 6>>, <<>>) \cup Readings(<<3, 4, 5, 8>>, <<FALSE, TRUE, TRUE, TRUE>>) \cup {NoSeries}

MeasuredItems == [series : SeriesMeasured, other : PairedWith, offset : {0, 1, 7}, a : {Unset, 2, 4}, b : {1, 3}]

Recording == <<8, 40>>
Views == {<<a, b>> \in {4 * k : k \in 2..10} \X {4 * k : k \in 2..10} : a <= b}

Turns == {-719468, -719163, -135140, -25567, -1, 0, 10956, 11016, 19782, 47540}
Instants == {<<d * 86400 - 1, n>> : d \in {-366, 0, 19782}, n \in {0, 499999, 999499999, 999500000, 999999999}}
Offsets == {<<-1, 999999999>>, <<0, 0>>, <<0, 500000>>, <<1, 500000000>>}

(***************************************************************************)
(* The panel: two files with each other's channels at a place, one of them *)
(* an array, and a third, without a start time, whose one channel says     *)
(* itself that it cannot be read; a place in memory for the first and two  *)
(* for the others, so that one may lie where a closed one did or not.      *)
(***************************************************************************)

AsWritten(text, written) == [text |-> text, written |-> written]
Holding(name, kind, size) == [name |-> name, kind |-> kind, size |-> size]

speed == AsWritten("speed", "Speed")
rpm == AsWritten("rpm", "rpm")

MCFileHolds ==
    ("one" :> <<Holding(speed, "numbers", 2), Holding(rpm, "array", 2)>>)
    @@ ("two" :> <<Holding(rpm, "numbers", 2), Holding(AsWritten("speed", "SPEED"), "numbers", 2)>>)
    @@ ("three" :> <<Holding(rpm, "unreadable", 2)>>)

Sound(names) == [kind |-> "sound", names |-> names]

MCTexts == {Sound(<<rpm>>), Sound(<<speed, rpm>>)}
MCAddresses == {m1, m2, m3}

\* Those a second file may be put at.
FreeAlike == Permutations(MCAddresses \ {FirstAddress})
MCRpmAlone == {Sound(<<rpm>>)}

-----------------------------------------------------------------------------

NoItem == << >>

Idle ==
    /\ files = << >> /\ aligned = FALSE /\ at = [g |-> 1, f |-> 1] /\ last = << >>
    /\ joined = << >> /\ out = << >> /\ state = "idle" /\ derived = NotDerived

Init ==
    /\ done = FALSE
    /\ PlotInit
    /\ \/ JoinInit /\ item = NoItem
       \/ task = "plot" /\ item \in Curves /\ Idle
       \/ task = "computed" /\ item \in [tree : Formulas, operands : OperandPairs] /\ Idle
       \/ task = "asked" /\ item \in [channel : AskedChannels, window : Windows] /\ Idle
       \/ task = "search" /\ item \in [pattern : WildcardsTried \cup RegexesTried, channels : {<<>>}] /\ Idle
       \/ task = "search" /\ item \in [pattern : {<<"a">>}, channels : ChannelLists] /\ Idle
       \/ task = "measured" /\ item \in MeasuredItems /\ Idle
       \/ task = "moved" /\ item \in [view : Views, quarters : {1, 2, 6, 8}, anchor : {8, 16, 20, 40}] /\ Idle
       \/ task = "dated" /\ item \in [turn : Turns, instant : {<<0, 0>>}, offset : {<<0, 0>>}] /\ Idle
       \/ task = "dated" /\ item \in [turn : {0}, instant : Instants, offset : Offsets] /\ Idle
       \/ task = "panel" /\ item = NoItem /\ Idle
    /\ task \in Tasks

\* The answers are functions of the item: looking at them is the only step.
LookAt == state = "idle" /\ task # "panel" /\ ~done /\ done' = TRUE /\ UNCHANGED <<joinVars, plotVars, item>>

Join == JoinNext /\ UNCHANGED <<plotVars, item, done>>

\* A bound: no two definitions are alike, one that is no expression yet is not hidden, and
\* clocks are aligned and threads end without a result with one definition only.
Few(defs) ==
    /\ Cardinality(ToSet(defs)) = Len(defs)
    /\ {d \in ToSet(defs) : ~d.visible /\ d.text.kind # "sound"} = {}
    /\ IF Len(defs) > 1
       THEN align' = "own" /\ {loc \in DOMAIN operandSlots' : operandSlots'[loc].st = "ended"} = {}
       ELSE TRUE

Panel ==
    /\ task = "panel"
    /\ PlotNext /\ Few(definitions') /\ UNCHANGED <<joinVars, item, done>>

Next == LookAt \/ Join \/ Panel

Spec == Init /\ [][Next]_vars

-----------------------------------------------------------------------------
(***************************************************************************)
(* Properties.                                                             *)
(***************************************************************************)

\* The values of the least and the greatest of some samples are among others.
HasExtremes(s, kept, I) ==
    I # {} => \A e \in {Lowest(s, I), Highest(s, I)} : \E i \in kept : s.v[i] = s.v[e]

\* No two samples kept are neighbours across one that is no measurement.
Unbridged(s, kept) ==
    \A i, j \in kept :
        (i < j /\ Finite(s, i) /\ Finite(s, j) /\ \E k \in i..j : ~Finite(s, k))
            => \E k \in kept : i < k /\ k < j /\ ~Finite(s, k)

\* The sample whose label holds at sample i is the last one kept before it.
HoldsLabels(s, kept, I) ==
    \A i \in I : \E k \in kept :
        k <= i /\ s.v[k] = s.v[i] /\ \A j \in kept : j <= i => j <= k

\* The array whose elements numbered 0 are the series, with another between.
ElementsAgree(s) ==
    LET n == Len(s.v)
        flat == [k \in 1..(2 * n) |-> IF k % 2 = 1 THEN s.v[(k + 1) \div 2] ELSE 7]
        starts == [i \in 1..(n + 1) |-> 2 * (i - 1)]
    IN  /\ ElementValues(flat, <<>>, 2, 0) = s.v
        /\ ElementValues(flat, starts, 0, 0) = s.v
        /\ \A shape \in {<<<<>>, 2>>, <<starts, 0>>}, flags \in {<<>>, [i \in 1..n |-> Finite(s, i)]} :
               ViewElements(flat, shape[1], shape[2], flags, 0) = s.v
        /\ \A i \in 1..n : ElementValues(flat, starts, 0, 2)[i] = Gap

\* What is thinned for a plot still shows what a reader looks for: the samples
\* of the view and no others, its lowest and its highest value, no line across
\* samples that are no measurement, and each label for as long as it held,
\* unless the answer says it was cut short (decimate_window, view_window,
\* decimate_min_max_gaps, segments_for, decimate_curve, decimate_label_runs,
\* view_text_window, window_stats_json, element_values).
ThinnedStillShows ==
    task = "plot" /\ done =>
        LET s == item
            W == Visible(s, s.x0, s.x1)
            finite == {i \in W : Finite(s, i)}
            web == DecimateWindow(s, s.x0, s.x1, s.max)
            library == ViewWindow(s, s.x0, s.x1, s.max + 1)
            valid == [i \in DOMAIN s.v |-> Finite(s, i)]
            read == [s EXCEPT !.v = [i \in DOMAIN s.v |-> IF valid[i] THEN s.v[i] ELSE 7]]
            lines == DecimateGaps(read, valid, Lower(s, s.x0), Upper(s, s.x1), s.max)
            turned == [s EXCEPT !.t = read.v, !.v = s.t]
            curve == DecimateCurve(turned, 0, 2, 1)
            crossed == Between(turned, 0, 2)
            labels == DecimateLabels(s, s.x0, s.x1, s.max)
            text == ViewText(s, s.x0, s.x1, s.max + 1)
            stats == WindowStats(s, s.x0, s.x1)
            held == LabelStats(s, s.x0, s.x1)
        IN  /\ s.max > 0 => Unbridged(s, web)
            /\ web \subseteq W
            /\ finite = W /\ s.max >= 4 => /\ HasExtremes(s, web, W)
                                           /\ W # {} => {Min(W), Max(W)} \subseteq web
            /\ s.max >= 4 => /\ library \subseteq W
                             /\ Cardinality(library) <= s.max + 1
                             /\ HasExtremes(s, library, finite)
                             /\ finite # W => \E i \in library : ~Finite(s, i)
            /\ s.max > 0 => \A run \in Runs(s, W) :
                   Finite(s, Min(run)) =>
                       \E line \in lines : line \subseteq run /\ HasExtremes(s, line, run)
            /\ \A line \in lines : \E run \in Runs(s, W) : line \subseteq run /\ Finite(s, Min(run))
            /\ SegmentsFor(read, valid, 5, Lower(s, s.x0) + 5, Upper(s, s.x1) + 5, s.max)
                   = {{<<read.t[i] + 5, read.v[i]>> : i \in line} : line \in lines}
            /\ curve \subseteq crossed /\ HasExtremes(turned, curve, crossed)
            /\ W # {} /\ s.max > 0 => HoldsLabels(s, labels.kept,
                                                   IF labels.truncated THEN {i \in W : i <= Max(labels.kept)} ELSE W)
            /\ ~text.truncated => HoldsLabels(s, text.kept, Between(s, s.x0, s.x1))
            /\ stats.count + stats.invalid = Cardinality(W)
            /\ finite = W /\ s.max >= 4 /\ W # {} =>
                   stats.figures = <<s.v[Lowest(s, web)], s.v[Highest(s, web)], s.v[Min(web)], s.v[Max(web)]>>
            /\ MapThenSumSet(LAMBDA l : held[l].samples, DOMAIN held) = stats.count
            /\ finite = W /\ W # {} =>
                   MapThenSumSet(LAMBDA l : held[l].seconds, DOMAIN held) = s.t[Max(W)] - s.t[Min(W)]
            /\ s.max = 4 => ElementsAgree(s)

\* The samples of s at the time x.
SamplesAt(s, x) == {i \in DOMAIN s.t : s.t[i] = x}

\* What was typed is read as the formula it was written for.
ReadAsWritten(e, tokens, viewer, web) ==
    /\ web.ok /\ web.tree = e
    /\ viewer.ok <=> (DepthOf(e, 1) <= MaxExpressionDepth /\ ToSet(tokens) \cap DOMAIN Functions = {})
    /\ viewer.ok => viewer.tree = e

\* The samples of t around a time.
Around(t, x) == {j \in DOMAIN t : \A k \in DOMAIN t : ~(t[j] < t[k] /\ t[k] <= x) /\ ~(x <= t[k] /\ t[k] < t[j])}

\* The viewer's series s, and the web binding's.
SampledLikeItsOperands(names, given, s, web) ==
    names # {} /\ s # NoSeries =>
        /\ ToSet(s.t) = UNION {ToSet(given[n].t) : n \in names}
        /\ \A i, j \in DOMAIN s.t : i < j => s.t[i] < s.t[j]
        /\ \A i \in DOMAIN s.t : s.ok[i] =>
              \A n \in names : \A j \in Around(given[n].t, s.t[i]) : FlagOf(given[n], j)
        /\ \A i \in DOMAIN s.t : (\A n \in names : SamplesAt(given[n], s.t[i]) # {}) =>
              \E k \in DOMAIN web.t : web.t[k] = s.t[i] /\ web.v[k] = s.v[i]

\* A computed channel means what was typed: the viewer and the web binding
\* read the text of a formula as that formula, the viewer up to its depth; it
\* has a sample at every time of its operands, with the values the operands
\* have there, valid if theirs are; and where the operands were sampled
\* together both front ends give one value (parse_expr, eval_expr of
\* computed.rs; Parser, decode_computed of the web binding).
ComputedMeansItsFormula ==
    task = "computed" /\ done =>
        LET names == Referenced(item.tree)
        IN  /\ \A tokens \in {Written(item.tree, 1)} :
                   ReadAsWritten(item.tree, tokens, ParseViewer(tokens), ParseWeb(tokens))
            /\ SampledLikeItsOperands(ToSet(names), item.operands, EvalExpr(item.tree, item.operands),
                   ComputedOf(item.tree, names, [k \in DOMAIN names |-> item.operands[names[k]]]))

\* The answers the web binding gives about one channel are of the same samples:
\* pages of any size put together are the channel, whatever chunks it is read
\* in; the value at a time is that of the earliest of the nearest samples; a CSV
\* has the rows of the window and the statistics count them; the elements and
\* bytes of a raw page are those of its rows; a track and a frame are where they
\* are looked for (sample_page, raw_page, sample_at, signal_csv, signal_stats,
\* signal_text, signal_element_window, window_series, gps_track,
\* bus_frames_page, bus_frame_locate).
AnswersAgree ==
    task = "asked" /\ done =>
        LET c == item.channel
            n == SampleCount(c)
            x0 == item.window[1]
            x1 == item.window[2]
            s == Decoded(c)
            rows == [i \in 1..n |-> <<c.t[i], WriteSample(c, i, Every)>>]
            single == c.kind \in {"f64", "text"}
            shown == Visible([t |-> c.t, v |-> c.t], x0, x1)
            Page(start, count) == Slice(rows, Least2(start, n), Least2(start + count, n))
            raw(start, count) == RawPage(s, start, count)
            elements == 0..2
            track == GpsTrack(s, [s EXCEPT !.v = Slice(s.v, 0, Least2(3, n))], s)
            HasElement(i, e) == From(c, i) + e < To(c, i)
        IN  /\ \A start \in 0..(n + 1), count \in 0..MaxPage :
                  /\ SamplePage(c, start, count) = Page(start, count)
                  /\ single => SeriesPage(s, start, count) = Page(start, count)
                  /\ ~single /\ c.ok = <<>> =>
                        LET page == raw(start, count)
                        IN  [k \in DOMAIN page.times |->
                                <<page.times[k], Slice(page.flat, page.starts[k], page.starts[k + 1])>>]
                            = Page(start, count)
                  /\ FramesPage(c.t, start, count).rows = [k \in DOMAIN Page(start, count) |-> Page(start, count)[k][1]]
            /\ \A x \in 0..8, e \in elements : n > 0 =>
                  /\ \E i \in 1..n : /\ SampleAt(c, x, e) = WriteSample(c, i, e)
                                    /\ \A j \in 1..n : Away(c.t, i, x) < Away(c.t, j, x) \/ (Away(c.t, i, x) = Away(c.t, j, x) /\ i <= j)
                  /\ single => SeriesSampleAt(s, x) = SampleAt(c, x, e)
                  /\ \A j \in 1..n : Away(c.t, BusFrameLocate(c.t, x) + 1, x) <= Away(c.t, j, x)
            /\ single => SignalCsv(s, x0, x1) = Slice(rows, Min({n + 1} \cup shown) - 1, Max({0} \cup shown))
                            \/ (shown = {} /\ SignalCsv(s, x0, x1) = <<>>)
            /\ c.kind = "f64" => SignalStats(s, x0, x1).count + SignalStats(s, x0, x1).invalid = Len(SignalCsv(s, x0, x1))
            /\ c.kind = "text" => SignalText(s, x0, x1, 4).kept \subseteq shown
            /\ \A e \in elements :
                  /\ WindowSeries(c, e, x0, x1, 5) = NoWindow <=> (c.kind = "array" /\ c.starts = <<>> /\ e >= c.width)
                  /\ WindowSeries(c, e, x0, x1, 5) # NoWindow => WindowSeries(c, e, x0, x1, 5) \subseteq shown
                  /\ c.kind = "array" =>
                        /\ SignalElementWindow(s, e, x0, x1, 8) \subseteq shown
                        /\ n > 0 => (e < Elements(s) <=> \E i \in 1..n : HasElement(i, e))
                        /\ c.ok = <<>> /\ e < Elements(s) =>
                              ElementSeries(s, e).v = [i \in 1..n |-> WriteSample(c, i, e)]
            /\ single => /\ Cardinality(track.points) <= TrackMaxPoints
                         /\ \A p \in track.points : \E i \in 1..n :
                               p = <<c.t[i], s.v[i], IF i > 3 THEN Gap ELSE s.v[i], s.v[i]>>
                         /\ track.aligned <=> n <= 3

\* What a pattern with stars stands for.
RECURSIVE StandsFor(_, _)
StandsFor(pattern, text) ==
    IF pattern = <<>> THEN text = <<>>
    ELSE \/ Head(pattern) = "*" /\ \E k \in 0..Len(text) : StandsFor(Tail(pattern), SubSeq(text, k + 1, Len(text)))
         \/ Head(pattern) # "*" /\ text # <<>> /\ Head(pattern) \in {"?", Head(text)} /\ StandsFor(Tail(pattern), Tail(text))

\* Where a regular expression may end when it begins at one of some places.
RECURSIVE EndsOf(_, _, _)
EndsOf(items, text, from) ==
    IF items = <<>> THEN from
    ELSE LET one(S) == {i + 1 : i \in {j \in S : AtomMatches(Head(items).atom, text, j)}}
             run(S) == {k \in 1..(Len(text) + 1) : \E i \in S : i <= k /\ \A j \in i..(k - 1) : AtomMatches(Head(items).atom, text, j)}
             next == CASE Head(items).quant = "one" -> one(from)
                       [] Head(items).quant = "?" -> from \cup one(from)
                       [] Head(items).quant = "*" -> run(from)
                       [] OTHER -> run(one(from))
         IN  EndsOf(Tail(items), text, next)

\* A search finds the names its pattern stands for, whichever front end looks,
\* and a name finds the same channels with the index of names and without it
\* (wildcard_match of channels_db.rs, search.rs and the web binding;
\* compile_regex, regex_search; find_channel, find_channels, channel_names).
SearchFindsWhatIsMeant ==
    task = "search" /\ done =>
        LET p == item.pattern
            r == CompileRegex(p)
            names == item.channels
            index == BuildIndex(names)
        IN  /\ p \in WildcardsTried => \A text \in NamesSearched :
                  /\ MatchAt(text, p, 1, 1) <=> StandsFor(p, text)
                  /\ WildcardViewer(text, p) <=> StandsFor(p, text)
                  /\ WildcardWeb(text, p) <=> StandsFor(p, text)
                  /\ ToSet(p) \cap {"*", "?"} = {} => (Substring(text, p) <=> StandsFor(<<"*">> \o p \o <<"*">>, text))
            /\ r.ok => \A text \in NamesSearched :
                  LET ends == EndsOf(r.items, text, IF r.start THEN {1} ELSE 1..(Len(text) + 1))
                  IN  RegexSearch(r, text) <=> (IF r.end THEN Len(text) + 1 \in ends ELSE ends # {})
            /\ \A name \in {"a", "b"} :
                  /\ FindChannels(names, index, name) = FindChannels(names, NoIndex, name)
                  /\ FindChannel(names, index, name) = FindChannel(names, NoIndex, name)
                  /\ HasChannel(names, index, name) <=> HasChannel(names, NoIndex, name)
                  /\ Resolve(names, index, name) # NoPlace => FindChannel(names, index, name) = Resolve(names, index, name)
            /\ ChannelNames(names, index) = ChannelNames(names, NoIndex)

\* The cursors, the readout, the table of an instant and the statistics read
\* one series alike, and as the web binding's statistics do.
ReadAlike(s, a, b) ==
    LET m == CursorMeasurement(s, a, b)
        back == CursorMeasurement(s, b, a)
        folded == [s EXCEPT !.v = [i \in DOMAIN s.v |-> IF FlagOf(s, i) THEN s.v[i] ELSE Gap]]
        n == Len(s.t)
        whole == ChannelStats(s)
        region == RegionStats(s, a, b)
        web == WindowStats(folded, Min({a, b}), Max({a, b}))
    IN  /\ n > 0 /\ a # Unset =>
              /\ Readout(s, 0, a).v = IF m.a.ok THEN m.a.v ELSE Unset
              /\ \A i \in 1..n : LET near == NearestIndex(s.t, a) IN
                    Away(s.t, near, a) < Away(s.t, i, a) \/ (Away(s.t, near, a) = Away(s.t, i, a) /\ s.t[near] <= s.t[i])
        /\ m.dy # Unset => back.dy = -m.dy /\ back.dt = -m.dt
        /\ region = RegionStats(s, b, a)
        /\ a # Unset => IF web.count = 0 THEN region = NoFigures
                        ELSE region[1] = web.count /\ region[2] = web.invalid /\ region[3] = SubSeq(web.figures, 1, 2)
        /\ NumericStatus(s, b) \in {"exact", "held", "skipped"} <=> ValueAt(s, b) # 0
        /\ NumericStatus(s, b) = "exact" => \E i \in SamplesAt(s, b) : s.v[ValueAt(s, b)] = s.v[i]
        /\ NumericStatus(s, b) = "held" => Resampled([s EXCEPT !.v = s.t], s.t[ValueAt(s, b)]).v <= b
        /\ n > 0 => ValueBounds(s) = whole.bounds
                    /\ (RegionStats(s, s.t[1], s.t[n]) # NoFigures => RegionStats(s, s.t[1], s.t[n])[3] = whole.bounds)
        /\ whole.valid + whole.excluded = n
        /\ whole.histogram # NoFigures => FoldLeft(+, 0, whole.histogram) = whole.valid - whole.nan
        /\ whole.percentiles # NoFigures =>
              /\ \A k \in 1..3 : whole.percentiles[k] <= whole.percentiles[k + 1]
              /\ 100 * whole.bounds[1] <= whole.percentiles[1] /\ whole.percentiles[4] <= 100 * whole.bounds[2]
              /\ whole.percentiles[2] <= 50 * whole.median /\ 50 * whole.median <= whole.percentiles[3]

\* The series with four nanoseconds where it had one.
Slower(s) == [s EXCEPT !.t = [i \in DOMAIN s.t |-> 4 * s.t[i]]]

\* A point of the curve is a sample of X with what Y has at that time, within
\* both recordings; every sample of X there is a point or dropped; and the
\* curve answers for its own span only. Clocks that differ by a nanosecond at
\* every sample are one clock.
PairedInTime(x, y, offset) ==
    LET curve == PairXy(x, 0, y, offset, TRUE, TRUE)
        X(i) == x.t[i]
        Y(j) == y.t[j] + offset
        oneClock == DOMAIN x.t = DOMAIN y.t /\ \A i \in DOMAIN x.t : X(i) - Y(i) \in -1..1
        Covered(i) == (\E j \in DOMAIN y.t : Y(j) <= X(i)) /\ (\E j \in DOMAIN y.t : X(i) <= Y(j))
        shared == {i \in DOMAIN x.t : oneClock \/ Covered(i)}
        AtTime(j, t) == IF oneClock THEN Y(j) - t \in -1..1 ELSE Y(j) = t
    IN  /\ PairXy(x, 0, y, offset, TRUE, FALSE).refused = "clocks"
        /\ \A k \in DOMAIN curve.points :
              LET p == curve.points[k]
              IN  /\ \E i \in shared : p.t = X(i) /\ p.x = x.v[i] /\ Measured(x, i)
                  /\ \A j \in DOMAIN y.t : AtTime(j, p.t) /\ Cardinality(SamplesAt(y, y.t[j])) = 1 => p.y = y.v[j]
                  /\ \E j \in DOMAIN y.t : y.v[j] <= p.y
        /\ curve.refused = "no" => Len(curve.points) + curve.dropped = Cardinality(shared)
        /\ curve.refused # "no" => \A i \in shared : ~Measured(x, i) \/ \E j \in DOMAIN y.t : ~Measured(y, j)
        /\ \A x1 \in 0..33 : PointAt(curve, x1) # 0 <=>
              \E k, l \in DOMAIN curve.points : curve.points[k].t - 1 <= x1 /\ x1 <= curve.points[l].t + 1

\* A window that is moved stays in the recording and keeps its width, one that
\* is zoomed keeps what is under the pointer where it was.
MovedWithin(w, quarters, anchor) ==
    LET Inside(v) == Recording[1] <= v[1] /\ v[1] <= v[2] /\ v[2] <= Recording[2]
        width == w[2] - w[1]
        zoomed == ZoomView(w, quarters, anchor, Recording)
        picked == BetweenView(w[1], anchor, quarters, Recording)
    IN  /\ Inside(zoomed)
        /\ (w[1] <= anchor /\ anchor <= w[2]) => zoomed[1] <= anchor /\ anchor <= zoomed[2]
        /\ (w[1] <= anchor /\ anchor <= w[2] /\ width > 0
            /\ zoomed[1] > Recording[1] /\ zoomed[2] < Recording[2]) =>
               (anchor - zoomed[1]) * width = (anchor - w[1]) * (zoomed[2] - zoomed[1])
        /\ \A q \in {quarters, -quarters} :
              /\ Inside(PanView(w, q, Recording))
              /\ PanView(w, q, Recording)[2] - PanView(w, q, Recording)[1] = width
        /\ picked # NoView => Inside(picked) /\ picked[1] <= Min({w[1], anchor}) /\ Max({w[1], anchor}) <= picked[2]

Leap(y) == y % 4 = 0 /\ (y % 100 # 0 \/ y % 400 = 0)
DaysOf(y, m) == IF m = 2 THEN IF Leap(y) THEN 29 ELSE 28 ELSE IF m \in {4, 6, 9, 11} THEN 30 ELSE 31
NextDay(d) ==
    IF d[3] < DaysOf(d[1], d[2]) THEN <<d[1], d[2], d[3] + 1>>
    ELSE IF d[2] < 12 THEN <<d[1], d[2] + 1, 1>> ELSE <<d[1] + 1, 1, 1>>

\* The days follow one another as in the calendar, and a label is within half
\* a thousandth of a second of its instant.
DatedRight(turn, instant, offset) ==
    LET label == AbsoluteLabel(instant, offset)
        late == label.day * 86400 + label.second - instant[1] - offset[1] - (instant[2] + offset[2]) \div Giga
        off == late * Giga + label.thousandth * Mega - ((instant[2] + offset[2]) % Giga)
    IN  /\ CivilFromDays(0) = <<1970, 1, 1>>
        /\ \A d \in turn..(turn + 400) : CivilFromDays(d + 1) = NextDay(CivilFromDays(d))
        /\ label.thousandth \in 0..999 /\ late \in {0, 1}
        /\ -Mega <= 2 * off /\ 2 * off <= Mega

\* What one panel says of a series the others say too: cursors, readout, the
\* values at an instant and the figures of a region and of the whole are of the
\* same samples (cursor_measurement, readout, value_at, region_stats,
\* value_bounds, compute_stats); a curve pairs what was measured at one time
\* (pair_xy, point_at); moving the window never leaves the recording
\* (time_view); and a wall-clock label is the instant's (absolute_label).
PanelsAgree ==
    done =>
        /\ task = "measured" => /\ ReadAlike(item.series, item.a, item.b)
                                /\ item.a = 2 /\ item.b = 3 =>
                                      \A apart \in -1..1 :
                                          PairedInTime(Slower(item.series), Slower(item.other), 4 * item.offset + apart)
        /\ task = "moved" => MovedWithin(item.view, item.quarters, item.anchor)
        /\ task = "dated" => DatedRight(item.turn, item.instant, item.offset)
=============================================================================

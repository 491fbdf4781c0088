------------------------------- MODULE Writer -------------------------------
(***************************************************************************)
(* Mf4Writer of src/src/write.rs: a measurement imported from a file or    *)
(* begun empty, edited through the calls of Mf4Writer, WriteGroup and      *)
(* WriteChannel, and written.  WrittenFile says what is emitted and what a *)
(* reader finds in it.                                                     *)
(***************************************************************************)
EXTENDS WrittenFile

CONSTANTS
    Sources,      \* the files imported from: data groups of channel groups
                  \* [master, times, channels], a channel [kind, mask, readable]
    Axes,         \* the time axes a caller gives a group, in any order
    AddedKinds,   \* the channels he adds, without name and samples
    MaskOf(_),    \* the masks he gives a channel of that many samples
    Codecs,       \* how he has the records compressed
    MaxCalls      \* bound on the calls that add or change something, those
                  \* of the import included

VARIABLES
    groups,       \* Mf4Writer::groups: [times, channels, dg]
    next_dg_id,
    calls,        \* how many such calls were made; names the next channel
    source, report,   \* the file imported from, and the places the import noted
    refused,      \* whether the last call was an error
    emitted       \* the blocks write emitted, forgotten at the next edit

writerVars == <<groups, next_dg_id, calls, source, report, refused, emitted>>

-----------------------------------------------------------------------------
(* Samples of channel n: a number has one cell, an array two, a text as    *)
(* many as it is long.                                                     *)
SamplesOf(n, type, len) ==
    [i \in 1 .. len |->
        [e \in 1 .. (CASE type = "number" -> 1 [] type = "array" -> 2 [] OTHER -> (2 * i) % 3)
            |-> <<n, i, e>>]]

(* add_channel_internal: an array brings its shape along.                  *)
NewChannel(n, kind, mask, len) ==
    [name |-> n, type |-> kind.type, vlsd |-> kind.vlsd, unit |-> kind.unit,
     comment |-> kind.comment, conv |-> kind.refs # << >>, refs |-> kind.refs,
     shaped |-> kind.type = "array", masked |-> mask # << >>, valid |-> mask,
     values |-> SamplesOf(n, kind.type, len)]

(* Mutant: of a group with an unusable master only the master is noted.    *)
NotedMaster(cg) ==
    IF cg.master = "unusable" THEN {1}
    ELSE {c \in DOMAIN cg.channels :
             (c = 1 /\ cg.master = "usable") \/ ~cg.channels[c].readable}

(* from_file_with_report, one channel group: the channels noted.  One with *)
(* an unusable master is omitted and noted whole; a usable master is       *)
(* rewritten, and noted for that.                                          *)
Noted(cg) ==
    IF cg.master = "unusable" THEN DOMAIN cg.channels
    ELSE {c \in DOMAIN cg.channels :
             (c = 1 /\ cg.master = "usable") \/ ~cg.channels[c].readable}

ReportOf(src) ==
    UNION {{<<d, g, c>> : c \in Noted(src[d][g])} :
              <<d, g>> \in {p \in (1 .. 2) \X (1 .. 2) :
                               p[1] \in DOMAIN src /\ p[2] \in DOMAIN src[p[1]]}}

NameOf(d, g, c) == 100 * d + 10 * g + c

Imported(src, d, g) ==
    LET cg   == src[d][g]
        over == SelectSeq([c \in DOMAIN cg.channels |-> c],
                          LAMBDA c : /\ cg.channels[c].readable
                                     /\ (c = 1) => cg.master = "none")
    IN  [times    |-> IF cg.master = "none" THEN [i \in DOMAIN cg.times |-> i - 1] ELSE cg.times,
         channels |-> [k \in DOMAIN over |->
                         NewChannel(NameOf(d, g, over[k]), cg.channels[over[k]].kind,
                                    cg.channels[over[k]].mask, Len(cg.times))],
         dg       |-> d]

ImportedGroups(src) ==
    FlattenSeq([d \in DOMAIN src |->
        LET kept == SelectSeq([g \in DOMAIN src[d] |-> g],
                              LAMBDA g : src[d][g].master # "unusable")
        IN  [k \in DOMAIN kept |-> Imported(src, d, kept[k])]])
-----------------------------------------------------------------------------
WriterInit ==
    /\ source \in Sources \cup {<< >>}
    /\ report = ReportOf(source)
    /\ groups = ImportedGroups(source)
    /\ next_dg_id = Len(source) + 1
    /\ calls = Len(groups) + SumOf(Len(groups), LAMBDA g : Len(groups[g].channels))
    /\ refused = FALSE
    /\ emitted = << >>

(* Every call but write leaves the file behind that was written before.    *)
Edit(gs) ==
    /\ calls < MaxCalls
    /\ calls' = calls + 1
    /\ groups' = gs
    /\ refused' = FALSE
    /\ emitted' = << >>
    /\ UNCHANGED <<source, report>>

AddGroup ==
    /\ \E t \in Axes :
          Edit(Append(groups, [times |-> t, channels |-> << >>, dg |-> next_dg_id]))
    /\ next_dg_id' = next_dg_id + 1

AddGroupIn ==
    /\ \E t \in Axes, sibling \in DOMAIN groups :
          Edit(Append(groups, [times |-> t, channels |-> << >>, dg |-> groups[sibling].dg]))
    /\ UNCHANGED next_dg_id

AddChannel ==
    /\ \E g \in DOMAIN groups, kind \in AddedKinds :
          \E mask \in MaskOf(Len(groups[g].times)) :
              Edit([groups EXCEPT ![g].channels = Append(@,
                       NewChannel(calls + 1, kind, mask, Len(groups[g].times)))])
    /\ UNCHANGED next_dg_id

(* remove_group and retain_groups; the groups behind move up.              *)
RemoveGroup ==
    /\ \E g \in DOMAIN groups : Edit(RemoveAt(groups, g))
    /\ UNCHANGED next_dg_id

RemoveChannel ==
    /\ \E g \in DOMAIN groups : \E c \in DOMAIN groups[g].channels :
          Edit([groups EXCEPT ![g].channels = RemoveAt(@, c)])
    /\ UNCHANGED next_dg_id

(* set_times: refused unless every channel has as many samples.            *)
SetTimes ==
    /\ \E g \in DOMAIN groups, t \in Axes :
          /\ \A c \in DOMAIN groups[g].channels : Len(groups[g].channels[c].values) = Len(t)
          /\ Edit([groups EXCEPT ![g].times = t])
    /\ UNCHANGED next_dg_id

(* The setters of one channel: set_vlsd (text only), set_valid, set_values *)
(* (as many samples; an array keeps the elements of its shape) and         *)
(* set_array_shape(None).  A number that is given arrays gets no shape.    *)
SetChannel ==
    /\ \E g \in DOMAIN groups : \E c \in DOMAIN groups[g].channels :
          LET ch == groups[g].channels[c]
              With(new) == [groups EXCEPT ![g].channels[c] = new]
          IN  \/ ch.type = "text" /\ Edit(With([ch EXCEPT !.vlsd = ~@]))
              \/ \E mask \in MaskOf(Len(ch.values)) :
                    Edit(With([ch EXCEPT !.masked = mask # << >>, !.valid = mask]))
              \/ \E type \in {"number", "array", "text"} :
                    /\ ch.shaped => type = "array"
                    /\ ch.vlsd => type = "text"
                    /\ Edit(With([ch EXCEPT !.type = type,
                                   !.values = SamplesOf(ch.name, type, Len(ch.values))]))
              \/ ch.shaped /\ Edit(With([ch EXCEPT !.shaped = FALSE]))
    /\ UNCHANGED next_dg_id

(* Mf4Writer::write: all payloads are built first, and one that is refused *)
(* leaves nothing emitted.                                                 *)
Write ==
    /\ \E codec \in Codecs :
          IF \E d \in DOMAIN DataGroups(groups) : CodecRefused(DataGroups(groups)[d], codec)
          THEN refused' = TRUE /\ emitted' = << >>
          ELSE refused' = FALSE /\ emitted' = Emitted(groups, codec)
    /\ UNCHANGED <<groups, next_dg_id, calls, source, report>>

WriterNext ==
    \/ AddGroup \/ AddGroupIn \/ AddChannel \/ RemoveGroup \/ RemoveChannel
    \/ SetTimes \/ SetChannel \/ Write

WriterSpec == WriterInit /\ [][WriterNext]_writerVars
-----------------------------------------------------------------------------
(* Where the blocks are expected that the links of a block point to.       *)
LinkKinds(kind) ==
    CASE kind = "HD" -> <<{"DG"}, {"FH"}>>
      [] kind = "FH" -> <<{}, {"TX"}>>
      [] kind = "DG" -> <<{"DG"}, {"CG"}, {"DT", "HL"}>>
      [] kind = "CG" -> <<{"CG"}, {"CN"}>>
      [] kind = "CN" -> <<{"CN"}, {"CA"}, {"TX"}, {"CC"}, {"SD"}, {"TX"}, {"TX"}>>
      [] kind = "CC" -> <<{"TX"}, {"TX"}, {"TX"}>>
      [] kind = "HL" -> <<{"DL"}>>
      [] kind = "DL" -> <<{}, {"DZ"}>>
      [] OTHER -> << >>

(* The offsets of the first pass are those of the second: every link lands *)
(* on the first byte of a block of the kind it is for, and every block but *)
(* ID and HD is where exactly one link lands.                              *)
LinksLand ==
    LET starts == Starts(emitted)
        links  == UNION {{<<k, n>> : n \in {m \in DOMAIN emitted[k].links : emitted[k].links[m] # 0}} :
                            k \in DOMAIN emitted}
        lands(l, j) == emitted[l[1]].links[l[2]] = starts[j]
    IN  /\ \A l \in links : \E j \in DOMAIN emitted :
              lands(l, j) /\ emitted[j].kind \in LinkKinds(emitted[l[1]].kind)[l[2]]
        /\ \A j \in 3 .. Len(emitted) :
              \E l \in links : lands(l, j) /\ \A m \in links \ {l} : ~lands(m, j)

(* What a caller gave the writer, as far as the file can tell: of each     *)
(* group its samples by time, those of one time in the order he gave them. *)
Given(g) ==
    LET Rank(i) == Cardinality({j \in DOMAIN g.times :
                       g.times[j] < g.times[i] \/ (g.times[j] = g.times[i] /\ j <= i)})
        order == [k \in DOMAIN g.times |-> CHOOSE i \in DOMAIN g.times : Rank(i) = k]
    IN  [times |-> [k \in DOMAIN order |-> g.times[order[k]]],
         channels |-> [c \in DOMAIN g.channels |->
            LET ch == g.channels[c]
                cut(v) == IF ch.type = "array" /\ ~ch.shaped THEN SubSeq(v, 1, 1) ELSE v
                Text(which, len) == IF len = 0 THEN << >> ELSE <<<<ch.name, 0, which>>>>
            IN  [texts |-> <<Text(1, 1), Text(2, ch.unit), Text(3, ch.comment)>>,
                 refs  |-> [k \in DOMAIN ch.refs |-> Text(3 + k, ch.refs[k])],
                 samples |-> [k \in DOMAIN order |->
                    [value |-> cut(ch.values[order[k]]),
                     valid |-> ~ch.masked \/ ch.valid[order[k]]]]]]]

(* A file that is written reads back as what was given: every group in its *)
(* data group, every channel with its texts, every sample with its time,   *)
(* its value and its validity, whatever edits came before.  The value is   *)
(* whole, except that of an array no shape was declared for only the first *)
(* element can be found.                                                   *)
ReadsBackWhole ==
    emitted # << >> =>
        ReadBack(emitted) =
            [d \in DOMAIN DataGroups(groups) |->
                [k \in DOMAIN DataGroups(groups)[d] |-> Given(DataGroups(groups)[d][k])]]

(* "Reporting every omitted channel": a channel of the file imported from  *)
(* is in the writer or in the report.  Checked before any edit.            *)
NothingDroppedInSilence ==
    groups = ImportedGroups(source) =>
        \A d \in DOMAIN source : \A g \in DOMAIN source[d] :
            \A c \in DOMAIN source[d][g].channels :
                \/ <<d, g, c>> \in report
                \/ \E k \in DOMAIN groups : \E ch \in ToSet(groups[k].channels) :
                      /\ ch.name = NameOf(d, g, c)
                      /\ Len(groups[k].times) = Len(ch.values)
=============================================================================

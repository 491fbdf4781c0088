----------------------------- MODULE PlotPanel -----------------------------
(***************************************************************************)
(* The computed channels of the plot panel (gui/src/panels/plot.rs and     *)
(* computed.rs): formulas over the channels of the file that is active,    *)
(* whose operands threads decode while frames go on being drawn.           *)
(*                                                                         *)
(* Every frame (Show) takes what the threads have sent, starts the decodes *)
(* that are missing, evaluates what has all its operands, and draws it     *)
(* from what the last frames left: results by definition, the points drawn *)
(* by place in the list.                                                   *)
(*                                                                         *)
(* A value stands for the samples it was made of: the file and place of    *)
(* each channel the formula names.  What is kept is told to be of a file   *)
(* by the address the file lies at (Arc::as_ptr), and a file that is       *)
(* closed leaves its address to another: the allocator may give any that   *)
(* is free.  The first file stays open as long as the panel lives          *)
(* (start_load makes a new panel).  Two definitions of one text under      *)
(* different names count as equal: they have the same value.               *)
(***************************************************************************)
EXTENDS Naturals, SequencesExt

CONSTANTS
    FirstFile,       \* the measurement that is open
    SecondFiles,     \* those that may be opened beside it
    NoSecond,
    FileHolds,       \* the channels of each: [name, kind, size]
    Dated,           \* the files whose header has a start time
    Addresses,       \* where the allocator may put a file
    FirstAddress,    \* where it has put the first
    NoAddress,
    Texts,           \* what may stand for an expression: [kind, names]
    MaxDefinitions

ASSUME PlotPanelAssumption ==
    /\ NoSecond \notin SecondFiles \cup {FirstFile}
    /\ Dated \subseteq SecondFiles \cup {FirstFile}
    /\ FirstAddress \in Addresses /\ NoAddress \notin Addresses
    /\ \A text \in Texts :
        text.kind \in {"sound", "broken", "blank"} /\ text.names \in Seq(ToSet(text.names))
    /\ MaxDefinitions \in Nat

VARIABLES
    scope,         \* the active slot, "A" or "B"
    compared,      \* the second file
    address,       \* where that lies
    align,         \* "own" or "absolute"
    definitions,   \* computed_defs: [text, visible]
    fileId,        \* computed_file_id: the address of the file the next three are about
    operandSlots,  \* computed_operand_slots by place: [file, st]
    operands,      \* computed_operands by place: [file, got]
    results,       \* computed_results by definition: [file, operands, state]
    segments,      \* caches, the points of the definition at a place
    served,        \* a history: the files fileId has stood for since it is what it is
    disturbed      \* since segments were emptied the file or a text changed, or served is
                   \* of two files

plotVars == <<scope, compared, address, align, definitions, fileId, operandSlots, operands,
              results, segments, served, disturbed>>

Cleared == [i \in {} |-> 0]

PlotInit ==
    /\ scope = "A" /\ compared = NoSecond /\ address = NoAddress /\ align = "own"
    /\ definitions = <<>> /\ fileId = NoAddress
    /\ operandSlots = Cleared /\ operands = Cleared /\ results = Cleared
    /\ segments = Cleared /\ served = {} /\ disturbed = FALSE

ActiveFile == IF scope = "B" THEN compared ELSE FirstFile

\* file_id
ActiveAddress == IF scope = "B" THEN address ELSE FirstAddress

\* find_channel_loc: the first channel of exactly that name, or of that name in other case.
FirstNamed(channels, name) ==
    LET exact == {i \in DOMAIN channels : channels[i].name = name}
        folded == {i \in DOMAIN channels : channels[i].name.text = name.text}
    IN  IF exact # {} THEN Min(exact) ELSE IF folded # {} THEN Min(folded) ELSE 0

NamesUsed == UNION {ToSet(text.names) : text \in Texts}
FirstIn == [file \in DOMAIN FileHolds |-> [name \in NamesUsed |-> FirstNamed(FileHolds[file], name)]]

FindChannelLoc(file, name) == FirstIn[file][name]

\* decode_channel: an array, a channel that does not read and one whose times are not as
\* many as its samples all fail.
DecodeChannel(file, loc) == IF FileHolds[file][loc].kind = "numbers" THEN "signal" ELSE "failed"

Evaluated(d) == d.visible /\ d.text.kind # "blank"

\* visible_operand_locs
VisibleOperandLocs(defs, file) ==
    LET sound == {d \in ToSet(defs) : Evaluated(d) /\ d.text.kind = "sound"}
        named == UNION {ToSet(d.text.names) : d \in sound}
    IN  {FindChannelLoc(file, name) : name \in named} \ {0}

\* HashMap::retain
Retained(f, keys) == Restrict(f, keys \cap DOMAIN f)

-----------------------------------------------------------------------------
\* sync_computed_operands: a decode for every place that has none, and none for the others.
SyncedOperands(slots, landed, file, needed) ==
    [loc \in needed \ (DOMAIN landed \ DOMAIN slots) |->
        IF loc \in DOMAIN slots THEN slots[loc]
        ELSE [file |-> file,
              st |-> IF FileHolds[file][loc].kind = "unreadable" THEN "unreadable" ELSE "loading"]]

\* poll_computed_operands: what has been sent, or cannot be sent any more.
Landing(slots) == {loc \in DOMAIN slots : slots[loc].st \in {"signal", "failed", "ended"}}

PollOperands(slots, landed) ==
    [loc \in DOMAIN landed \cup Landing(slots) |->
        IF loc \in Landing(slots) THEN [file |-> slots[loc].file, got |-> slots[loc].st] ELSE landed[loc]]

Waiting == [kind |-> "waiting"]

\* One definition that no cached result stands for; the first operand in its way tells why.
EvaluateDef(d, file, landed) ==
    LET locs == [i \in DOMAIN d.text.names |-> FindChannelLoc(file, d.text.names[i])]
        InTheWay(i) == locs[i] = 0 \/ (locs[i] \in DOMAIN landed /\ landed[locs[i]].got # "signal")
        failures == {i \in DOMAIN locs : InTheWay(i)}
        at == Min(failures)
    IN  IF d.text.kind = "broken" THEN [kind |-> "error", why |-> "broken"]
        ELSE IF failures # {} THEN
            [kind |-> "error", why |-> IF locs[at] = 0 THEN "unknown" ELSE landed[locs[at]].got,
             of |-> d.text.names[at]]
        ELSE IF \E i \in DOMAIN locs : locs[i] \notin DOMAIN landed THEN Waiting
        ELSE [kind |-> "ready", of |-> [i \in DOMAIN locs |-> <<landed[locs[i]].file, locs[i]>>]]

SizeOf(landed, loc) == FileHolds[landed[loc].file][loc].size

\* A result is used again for the file it is of, with the operands it had.
StillGood(entry, id, landed) ==
    /\ entry.file = id
    /\ \A o \in entry.operands :
        /\ o[1] \in DOMAIN landed /\ landed[o[1]].got = "signal"
        /\ SizeOf(landed, o[1]) = o[2]

\* evaluate_visible_defs: the results it leaves.  One still good is used again, one that
\* waits for an operand is not kept.
EvaluateVisibleDefs(defs, file, id, landed, cache) ==
    LET kept == Retained(cache, ToSet(defs))
        again == {d \in DOMAIN kept : ~Evaluated(d) \/ StillGood(kept[d], id, landed)}
        state == [d \in {d \in ToSet(defs) : Evaluated(d)} \ again |-> EvaluateDef(d, file, landed)]
        decided == {d \in DOMAIN state : state[d] # Waiting}
        Sizes(d) ==
            IF state[d].kind = "ready" THEN {<<o[2], SizeOf(landed, o[2])>> : o \in ToSet(state[d].of)} ELSE {}
    IN  [d \in decided \cup DOMAIN kept |->
            IF d \in decided THEN [file |-> id, operands |-> Sizes(d), state |-> state[d]] ELSE kept[d]]

-----------------------------------------------------------------------------
\* Add channel: the expression is empty, which does not parse.
NewText == [kind |-> "broken", names |-> <<>>]

\* show_computed_controls: at most one of its widgets is used in a frame.
Edits ==
    {definitions}
    \cup {Append(definitions, [text |-> NewText, visible |-> TRUE])}
    \cup {[definitions EXCEPT ![i].visible = ~@] : i \in DOMAIN definitions}
    \cup {[definitions EXCEPT ![i].text = t] : i \in DOMAIN definitions, t \in Texts}

Deletions == {RemoveAt(definitions, i) : i \in DOMAIN definitions}

Retexted(defs) == \E i \in DOMAIN definitions \cap DOMAIN defs : defs[i].text # definitions[i].text

\* show_alignment_controls: absolute falls back to each file's own zero by itself.
AbsoluteOk == {FirstFile, compared} \subseteq Dated

FallenBack == IF compared # NoSecond /\ ~AbsoluteOk THEN "own" ELSE align

Alignments == {FallenBack} \cup IF compared = NoSecond THEN {} ELSE {"own"} \cup IF AbsoluteOk THEN {"absolute"} ELSE {}

\* alignment_offset_seconds of a series of the active file.
Shifted == scope = "B" /\ align' = "absolute" /\ AbsoluteOk

\* segments_for: what is kept of the places drawn, and what is made anew.
Redrawn(cache, drawn, anew) ==
    [i \in DOMAIN cache \cup drawn |->
        IF i \in anew \cup (drawn \ DOMAIN cache)
        THEN [of |-> results'[definitions'[i]].state.of, shifted |-> Shifted] ELSE cache[i]]

\* The decodes and results of the frames before, which are keyed by place, are dropped when
\* the file has another address; or, wrongly, never.
KeptAcrossFiles(id) == TRUE
KeepsDecodes(id) == fileId = id

\* The rest of a frame, view the places whose points are of another view.
Evaluate(emptied) ==
    LET file == ActiveFile
        id == ActiveAddress
        same == KeepsDecodes(id)
        needed == VisibleOperandLocs(definitions', file)
        slots == SyncedOperands(IF same THEN operandSlots ELSE Cleared, IF same THEN operands ELSE Cleared, file, needed)
        landed == PollOperands(slots, Retained(IF same THEN operands ELSE Cleared, needed))
        drawn == {i \in DOMAIN definitions' :
                    /\ Evaluated(definitions'[i]) /\ definitions'[i] \in DOMAIN results'
                    /\ results'[definitions'[i]].state.kind = "ready"
                    /\ StillGood(results'[definitions'[i]], id, landed)}
        points == IF emptied THEN Cleared ELSE Retained(segments, DOMAIN definitions)
    IN  /\ fileId' = id
        /\ served' = {file} \cup IF fileId = id THEN served ELSE {}
        /\ operandSlots' = Retained(slots, DOMAIN slots \ Landing(slots))
        /\ operands' = landed
        /\ results' = EvaluateVisibleDefs(definitions', file, id, landed, IF same THEN results ELSE Cleared)
        /\ \E view \in SUBSET drawn : segments' = Redrawn(points, drawn, view)

\* Without definitions, and nothing plotted, a frame ends before anything is evaluated.
Show ==
    /\ align' \in Alignments
    /\ definitions' \in Edits \cup Deletions
    /\ Len(definitions') <= MaxDefinitions
    /\ LET emptied == definitions = <<>> \/ align' # FallenBack \/ Len(definitions') < Len(definitions)
       IN  \/ /\ Evaluate(emptied)
              /\ disturbed' = \/ ~emptied /\ (disturbed \/ Retexted(definitions'))
                              \/ served' # {ActiveFile}
           \/ /\ definitions = <<>> /\ segments' = Cleared /\ disturbed' = FALSE
              /\ UNCHANGED <<fileId, operandSlots, operands, results, served>>
    /\ UNCHANGED <<scope, compared, address>>

\* set_computed_defs, from a stored session.
SetComputedDefs ==
    /\ definitions' \in {<<>>} \cup {<<[text |-> t, visible |-> TRUE]>> : t \in Texts}
    /\ operandSlots' = Cleared /\ operands' = Cleared /\ results' = Cleared
    /\ segments' = Cleared /\ served' = {} /\ disturbed' = FALSE
    /\ UNCHANGED <<scope, compared, address, align, fileId>>

\* spawn_signal_load: the thread sends what it decoded, or is gone without a result.
DecoderEnds ==
    \E loc \in DOMAIN operandSlots :
        /\ operandSlots[loc].st = "loading"
        /\ \E sent \in {DecodeChannel(operandSlots[loc].file, loc), "ended"} :
            operandSlots' = [operandSlots EXCEPT ![loc].st = sent]
        /\ UNCHANGED <<scope, compared, address, align, definitions, fileId, operands, results,
                       segments, served, disturbed>>

\* The addresses that are taken: the first file's, and that of a file a thread still decodes.
Taken ==
    {FirstAddress} \cup IF \E loc \in DOMAIN operandSlots : operandSlots[loc].st = "loading" THEN {fileId} ELSE {}

\* FalconApp::select_file, close_second, and a second file that has loaded.
ScopeChanges ==
    /\ \/ compared # NoSecond /\ scope' \in {"A", "B"} \ {scope} /\ UNCHANGED <<compared, address>>
       \/ compared # NoSecond /\ scope' = "A" /\ compared' = NoSecond /\ address' = NoAddress
       \/ /\ compared = NoSecond /\ compared' \in SecondFiles /\ address' \in Addresses \ Taken
          /\ UNCHANGED scope
    /\ disturbed' = (disturbed \/ scope' # scope)
    /\ UNCHANGED <<align, definitions, fileId, operandSlots, operands, results, segments, served>>

PlotNext == Show \/ SetComputedDefs \/ DecoderEnds \/ ScopeChanges

PlotSpec == PlotInit /\ [][PlotNext]_plotVars

-----------------------------------------------------------------------------
\* What the formula of d says of a file.
Meaning(d, file) == [i \in DOMAIN d.text.names |-> <<file, FindChannelLoc(file, d.text.names[i])>>]

\* What is shown of d stands on operands of these files, looked up in one of them.
Justified(d, files, state) ==
    \E file \in files :
        \/ /\ state.kind = "ready" /\ d.text.kind = "sound"
           /\ \E source \in [DOMAIN d.text.names -> files] :
                /\ state.of = [i \in DOMAIN d.text.names |-> <<source[i], FindChannelLoc(file, d.text.names[i])>>]
                /\ \A o \in ToSet(state.of) : o[2] # 0 /\ DecodeChannel(o[1], o[2]) = "signal"
        \/ state.kind = "error" /\ d.text.kind = "broken"
        \/ /\ state.kind = "error" /\ d.text.kind = "sound" /\ state.of \in ToSet(d.text.names)
           /\ LET loc == FindChannelLoc(file, state.of)
              IN  \/ loc = 0 /\ state.why = "unknown"
                  \/ loc # 0 /\ state.why = "failed" /\ \E source \in files : DecodeChannel(source, loc) = "failed"
                  \/ loc # 0 /\ state.why = "ended"

Fresh(drawn) ==
    \A i \in DOMAIN drawn :
        /\ i \in DOMAIN definitions
        /\ drawn[i].of = Meaning(definitions[i], ActiveFile)
        /\ drawn[i].shifted <=> scope = "B" /\ align = "absolute"

\* A computed channel is its formula over the file at the address that is active, whatever
\* the decodes and the edits, hidings and changes of file that cross them: no operand and
\* no result of a file at another address is used, nothing is evaluated before its operands
\* have landed, an error is one the file gives, and a channel that is not shown keeps no
\* decode.  That is one file, the first wherever it is the first's, unless a second file
\* came to lie where a closed one did; then what is kept may be of either, and of no other.
\* The points drawn are those of the definition at their place and of the active file, as
\* long as neither a text nor the file has changed, and no decode of a closed file been
\* kept, since points were last thrown away.
ComputedIsOfTheActiveFile ==
    /\ \A loc \in DOMAIN operands : operands[loc].file \in served
    /\ \A loc \in DOMAIN operandSlots : operandSlots[loc].file \in served
    /\ \A d \in DOMAIN results : results[d].file = fileId /\ Justified(d, served, results[d].state)
    /\ DOMAIN operands \cap DOMAIN operandSlots = {}
    /\ DOMAIN operands \cup DOMAIN operandSlots
          \subseteq UNION {VisibleOperandLocs(definitions, file) : file \in served}
    /\ fileId = FirstAddress => served \subseteq {FirstFile}
    /\ disturbed \/ Fresh(segments)

\* plot.rs:1189: the cache is only good for the file it was built against, and a different
\* file clears it before anything is looked up.  So a frame that evaluates leaves the value
\* of each formula over the active file, however the files were opened and closed before.
ClearedForADifferentFile ==
    [][Show /\ definitions # <<>> =>
        \A d \in DOMAIN results' :
            results'[d].state.kind = "ready" => results'[d].state.of = Meaning(d, ActiveFile)]_plotVars
=============================================================================

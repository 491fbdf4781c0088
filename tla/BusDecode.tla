----------------------------- MODULE BusDecode -----------------------------
(***************************************************************************)
(* Bus traffic: the frames a group of channels has logged (bus.rs, lin.rs, *)
(* eth.rs, flexray.rs), the signals a database finds in their payloads     *)
(* (candb.rs, dbc.rs), and the series made of them (Accumulator).          *)
(*                                                                         *)
(* An identifier is the record of the parts J1939 divides it into, and of  *)
(* a flag that is no part of it.  An optional column, reading or answer is *)
(* a sequence or set of at most one.  The signals of one message have      *)
(* distinct names, so the raw values decode_each keeps by name are the     *)
(* signals' own.                                                           *)
(***************************************************************************)
EXTENDS BitFields, FiniteSets, SequencesExt

CONSTANT MaxMuxDepth  \* MAX_MUX_DEPTH

Masked(id) == [id EXCEPT !.flag = FALSE]

\* j1939_pgn: whom a message is addressed to is no part of its group.
Group(id) == <<id.broadcast, IF id.broadcast THEN id.specific ELSE 0>>
Source(id) == id.source

MessageIndex(db, id) ==
    LET carrying == {i \in DOMAIN db.messages : Masked(db.messages[i].id) = Masked(id)}
        ofGroup == {i \in DOMAIN db.messages : Group(db.messages[i].id) = Group(id)}
        ofSource == {i \in ofGroup : Source(db.messages[i].id) = Source(id)}
    IN  CASE carrying # {} -> {Max(carrying)}
          [] db.matching = "exact" -> {}
          [] db.matching = "group and source" /\ ofSource # {} -> {Min(ofSource)}
          [] OTHER -> IF ofGroup = {} THEN {} ELSE {Min(ofGroup)}

-----------------------------------------------------------------------------
(***************************************************************************)
(* One payload.                                                            *)
(***************************************************************************)

RawValue(signal, payload) ==
    LET available == ByteBits * Len(payload)
        byte == signal.start \div ByteBits
        first == IF signal.bigEndian THEN byte * ByteBits + ByteBits - 1 - (signal.start % ByteBits)
                 ELSE signal.start
        from == IF signal.bigEndian THEN available - first - signal.size ELSE first
    IN  IF signal.size \notin 1..Word \/ first + signal.size > available THEN {}
        ELSE {Extract(payload, from, signal.size, ~signal.bigEndian)}

Scale(signal, raw) ==
    (IF signal.signed THEN SignExtend(raw, signal.size) ELSE raw) * signal.factor + signal.offset

Label(signal, raw) ==
    LET key == IF signal.signed THEN SignExtend(raw, signal.size) ELSE raw
        entries == {i \in DOMAIN signal.table : signal.table[i][1] = key}
    IN  IF entries = {} THEN <<>> ELSE <<signal.table[Min(entries)][2]>>

\* The first signal that is the switch, or that has the name given.
Multiplexor(signals, mux) ==
    LET those == {i \in DOMAIN signals : IF mux.kind = "selected" THEN signals[i].mux.kind = "switch"
                                          ELSE signals[i].name = mux.by}
    IN  IF those = {} THEN {} ELSE {signals[Min(those)]}

Holds(ranges, raw) == \E r \in ranges : r[1] <= raw /\ raw <= r[2]

\* is_selected: a name on the way back up is part of a cycle.
RECURSIVE IsSelected(_, _, _, _)
IsSelected(signals, signal, payload, visiting) ==
    /\ Cardinality(visiting) <= MaxMuxDepth
    /\ signal.name \notin visiting
    /\ \/ signal.mux.kind \in {"none", "switch"}
       \/ \E by \in Multiplexor(signals, signal.mux) :
              /\ IsSelected(signals, by, payload, visiting \cup {signal.name})
              /\ \E raw \in RawValue(by, payload) : Holds(signal.mux.ranges, raw)

Present(signals, signal, payload) == IsSelected(signals, signal, payload, {})

\* Whether a database with this message is read at all.
RECURSIVE Leads(_, _, _)
Leads(signals, mux, visited) ==
    \/ Cardinality(visited) > MaxMuxDepth
    \/ /\ mux.kind \notin {"none", "switch"}
       /\ \E by \in Multiplexor(signals, mux) :
              by.name \in visited \/ Leads(signals, by.mux, visited \cup {by.name})

IsValidGraph(signals) ==
    /\ \A i \in DOMAIN signals : ~Leads(signals, signals[i].mux, {})
    /\ \A i \in DOMAIN signals : signals[i].mux.kind = "range" => Multiplexor(signals, signals[i].mux) # {}

DecodeEach(db, id, payload) ==
    LET Reading(m, k) ==
            LET s == db.messages[m].signals[k]
                raw == CHOOSE v \in RawValue(s, payload) : TRUE
            IN  [message |-> m, signal |-> k, value |-> Scale(s, raw), text |-> Label(s, raw)]
        Read(m, k) == LET s == db.messages[m].signals[k]
                      IN  Present(db.messages[m].signals, s, payload) /\ RawValue(s, payload) # {}
        Readings(m) == [k \in DOMAIN db.messages[m].signals |-> IF Read(m, k) THEN <<Reading(m, k)>> ELSE <<>>]
    IN  IF MessageIndex(db, id) = {} THEN <<>> ELSE FlattenSeq(Readings(CHOOSE m \in MessageIndex(db, id) : TRUE))

-----------------------------------------------------------------------------
(***************************************************************************)
(* The frames of a group.                                                  *)
(***************************************************************************)

NoFrames == [read |-> FALSE, frames |-> <<>>]

\* Columns that have to be as long as the identifiers for a group to be read.
\* Marks are what else a protocol keeps of a frame.
Required(g) ==
    <<g.times, g.payloads>> \o (IF g.protocol = "can" THEN <<>> ELSE g.lengths)
        \o (IF g.protocol = "eth" THEN g.marks \o g.buses ELSE <<>>)

IsReadable(g) ==
    /\ g.hasMaster
    /\ g.protocol # "can" => g.lengths # <<>>
    /\ \A i \in DOMAIN Required(g) : Len(Required(g)[i]) = Len(g.ids)

Reaches(column, i) == column = <<>> \/ i \in DOMAIN column[1]

\* A frame whose logged length, or FlexRay cycle and flags, are not there is
\* left out; one without its bus is of bus 0, one without its mark unmarked.
FrameAt(g, i) ==
    IF ~Reaches(g.lengths, i) \/ (g.protocol = "flexray" /\ ~Reaches(g.marks, i)) THEN <<>>
    ELSE <<[time |-> g.times[i], id |-> Masked(g.ids[i]),
            bus |-> IF g.buses # <<>> /\ Reaches(g.buses, i) THEN g.buses[1][i] ELSE 0,
            mark |-> IF g.marks # <<>> /\ Reaches(g.marks, i) THEN <<g.marks[1][i]>> ELSE <<>>,
            data |-> IF g.lengths = <<>> THEN g.payloads[i]
                     ELSE SubSeq(g.payloads[i], 1, Min({g.lengths[1][i], Len(g.payloads[i])}))]>>

ReadFrames(g) ==
    IF IsReadable(g) THEN [read |-> TRUE, frames |-> FlattenSeq([i \in DOMAIN g.ids |-> FrameAt(g, i)])] ELSE NoFrames

-----------------------------------------------------------------------------
(***************************************************************************)
(* The series of a file.                                                   *)
(***************************************************************************)

Push(db, series, frame) ==
    LET Slot(all, r) == {k \in DOMAIN all : all[k].key = <<frame.bus, r.message, r.signal>>}
        Labelled(r) == db.messages[r.message].signals[r.signal].table # <<>>
        Extend(all, r) ==
            LET fresh == [key |-> <<frame.bus, r.message, r.signal>>, times |-> <<>>, values |-> <<>>,
                          texts |-> IF Labelled(r) THEN <<<<>>>> ELSE <<>>]
                known == IF Slot(all, r) = {} THEN Append(all, fresh) ELSE all
                slot == CHOOSE k \in Slot(known, r) : TRUE
            IN  [known EXCEPT ![slot].times = Append(@, frame.time), ![slot].values = Append(@, r.value),
                              ![slot].texts = IF @ = <<>> THEN @ ELSE <<Append(@[1], r.text)>>]
    IN  FoldLeft(Extend, series, DecodeEach(db, frame.id, frame.data))

\* decode_bus and decode_lin: one group after the other, the first that cannot
\* be read ends it.
DecodeSignals(db, groups, protocol) ==
    LET those == SelectSeq(groups, LAMBDA g : g.protocol = protocol)
        frames == FlattenSeq([i \in DOMAIN those |-> ReadFrames(those[i]).frames])
        OnePush(series, f) == Push(db, series, f)
    IN  IF \E i \in DOMAIN those : ~ReadFrames(those[i]).read THEN NoFrames
        ELSE [read |-> TRUE, frames |-> FoldLeft(OnePush, <<>>, frames)]
=============================================================================

------------------------------ MODULE WebFile ------------------------------
(***************************************************************************)
(* The file a web page has open (wasm/src/lib.rs, WasmMf4File): the        *)
(* channels of the measurement, those a CAN database decoded from its bus  *)
(* logs (bus), those the user computes from other channels (computed), and *)
(* the few decoded series it keeps (series_cache, oldest first).           *)
(*                                                                         *)
(* A channel's name is a tuple: of one part, or of a signal seen on more   *)
(* than one bus the message and signal with the bus.  A series is what it  *)
(* was decoded from: <<"file", name>>, <<"bus", database, signal, bus>> or *)
(* <<"computed", the series of its references>>.                           *)
(***************************************************************************)
EXTENDS Integers, SequencesExt

CONSTANTS
    FileChannels,  \* the measurement's channels by name: [name, kind]
    Databases,     \* what each database decodes: sequences of [base, bus, kind]
    DefinedNames,  \* names a user defines channels under
    Formulas,      \* the references of the expressions used
    SeriesBytes,   \* byte_size of the series of every name there may be
    WebCap,        \* SERIES_CACHE_CAP
    WebBudget      \* the bytes the cache may hold

AnyName == DOMAIN SeriesBytes

ASSUME WebFileAssumption ==
    /\ WebCap \in Nat \ {0}
    /\ WebBudget \in Nat
    /\ SeriesBytes \in [AnyName -> Nat]
    /\ FileChannels \in Seq([name : AnyName, kind : STRING])
    /\ \A db \in DOMAIN Databases : Databases[db] \in Seq(Range(Databases[db]))
    /\ DefinedNames \subseteq AnyName
    /\ Formulas \subseteq Seq(AnyName)

VARIABLES
    format,    \* "v3" or "v4"
    bus,       \* [name, kind, series]
    computed,  \* [name, refs]
    cached,    \* [name, series], the one used last at the end
    trapped,   \* a call ended in a panic or without end: the instance is lost
    uses,      \* names answered from the cache or into it, the last WebCap
    edited,    \* something was removed, attached or detached
    since      \* the same, since the cache was emptied

webVars == <<format, bus, computed, cached, trapped, uses, edited, since>>

NamesIn(s) == [i \in DOMAIN s |-> s[i].name]

\* iter().any, find, position: the first that has the name.
Named(s, name) == \E i \in DOMAIN s : s[i].name = name
IsFirst(names, i, name) == names[i] = name /\ \A k \in 1..(i - 1) : names[k] # name
Position(names, name) == CHOOSE i \in DOMAIN names : IsFirst(names, i, name)
Entry(s, name) == s[Position(NamesIn(s), name)]

\* is_mdf3, new, open_reader: the ninth byte tells the reader, and nothing is
\* attached, computed or decoded yet.
WebInit ==
    /\ format \in {"v3", "v4"}
    /\ bus = <<>> /\ computed = <<>> /\ cached = <<>> /\ uses = <<>>
    /\ trapped = FALSE /\ edited = FALSE /\ since = FALSE

(***************************************************************************)
(* A name's series: fetch_series, decode_computed.  A reference that comes *)
(* back to the channel itself has no end; without any reference there is   *)
(* no first to take the times of.                                          *)
(***************************************************************************)

Unknown == <<"unknown">>
Trap == <<"trap">>

\* decode_computed: the references in their order, as far as the first that fails.
Computed(refs, of) ==
    LET parts == [i \in DOMAIN refs |-> of[refs[i]]]
        Fails(i) == parts[i] \in {Unknown, Trap}
        First(i) == Fails(i) /\ \A k \in 1..(i - 1) : ~Fails(k)
    IN  IF refs = <<>> THEN Trap
        ELSE IF \E i \in DOMAIN refs : Fails(i) THEN parts[CHOOSE i \in DOMAIN refs : First(i)]
        ELSE <<"computed", parts>>

\* What every name gives with n computed channels at most one beneath another:
\* where there are more than have been defined, one of them is beneath itself.
Fetched ==
    LET fetched[n \in 0..Len(computed)] ==
          [name \in AnyName |->
             IF Named(bus, name) THEN Entry(bus, name).series
             ELSE IF Named(computed, name) THEN
               IF n = 0 THEN Trap ELSE Computed(Entry(computed, name).refs, fetched[n - 1])
             ELSE IF Named(FileChannels, name) THEN <<"file", name>>
             ELSE Unknown]
    IN  fetched

FetchSeries(name) == Fetched[Len(computed)][name]

(***************************************************************************)
(* decoded: a hit becomes the last; what is new is let in after the oldest *)
(* have made room.  A name nobody has changes nothing.                     *)
(***************************************************************************)

BytesOf(names) ==
    LET bytes[n \in 0..Len(names)] ==
          IF n = 0 THEN 0 ELSE bytes[n - 1] + SeriesBytes[names[n]]
    IN  bytes[Len(names)]

\* The last of the entries beside which as many bytes have room.
Enough(entries, n, bytes) ==
    \/ n = Len(entries)
    \/ /\ Len(entries) - n < WebCap
       /\ BytesOf(NamesIn(SubSeq(entries, n + 1, Len(entries)))) + bytes <= WebBudget
Dropped(entries, n, bytes) ==
    Enough(entries, n, bytes) /\ \A k \in 0..(n - 1) : ~Enough(entries, k, bytes)
MakesRoom(entries, bytes) ==
    LET n == CHOOSE k \in 0..Len(entries) : Dropped(entries, k, bytes)
    IN  SubSeq(entries, n + 1, Len(entries))

\* Vec::remove of the one that is found.
TakenOut(s, name) == IF Named(s, name) THEN RemoveAt(s, Position(NamesIn(s), name)) ELSE s

LastOf(s, n) == SubSeq(s, IF Len(s) > n THEN Len(s) - n + 1 ELSE 1, Len(s))
Others(names, name) ==
    IF \E i \in DOMAIN names : names[i] = name THEN RemoveAt(names, Position(names, name)) ELSE names
Used(name) == uses' = LastOf(Append(Others(uses, name), name), WebCap)

\* Mutant of Decoded: a hit stays in its place.
DecodedInPlace(name) ==
    LET series == IF Named(cached, name) THEN Entry(cached, name).series ELSE FetchSeries(name)
    IN  /\ ~trapped
        /\ series \notin {Unknown, Trap}
        /\ cached' = IF Named(cached, name) THEN cached
                     ELSE Append(MakesRoom(cached, SeriesBytes[name]), [name |-> name, series |-> series])
        /\ Used(name)
        /\ UNCHANGED <<format, bus, computed, trapped, edited, since>>

Decoded(name) ==
    LET series == IF Named(cached, name) THEN Entry(cached, name).series ELSE FetchSeries(name)
    IN  /\ ~trapped
        /\ series \notin {Unknown, Trap}
        /\ cached' = Append(MakesRoom(TakenOut(cached, name), SeriesBytes[name]), [name |-> name, series |-> series])
        /\ Used(name)
        /\ UNCHANGED <<format, bus, computed, trapped, edited, since>>

Traps(name) ==
    /\ ~trapped
    /\ ~Named(cached, name)
    /\ FetchSeries(name) = Trap
    /\ trapped' = TRUE
    /\ UNCHANGED <<format, bus, computed, cached, uses, edited, since>>

ClearDecodeCache ==
    /\ ~trapped
    /\ cached' = <<>>
    /\ uses' = <<>>
    /\ since' = FALSE
    /\ UNCHANGED <<format, bus, computed, trapped, edited>>

(***************************************************************************)
(* Computed channels and bus overlays come and go; the cache is not told.  *)
(***************************************************************************)

KnownName(name) == Named(FileChannels, name) \/ Named(bus, name) \/ Named(computed, name)

\* define_computed: a new name over known ones.
DefineComputed(name, refs) ==
    /\ ~trapped
    /\ ~KnownName(name)
    /\ \A i \in DOMAIN refs : KnownName(refs[i])
    /\ computed' = Append(computed, [name |-> name, refs |-> refs])
    /\ UNCHANGED <<format, bus, cached, trapped, uses, edited, since>>

\* Vec::retain of the others.
AllBut(s, name) ==
    LET upto[n \in 0..Len(s)] ==
          IF n = 0 THEN <<>>
          ELSE IF s[n].name = name THEN upto[n - 1] ELSE Append(upto[n - 1], s[n])
    IN  upto[Len(s)]

RemoveComputed(name) ==
    /\ ~trapped
    /\ Named(computed, name)
    /\ computed' = AllBut(computed, name)
    /\ edited' = TRUE /\ since' = TRUE
    /\ UNCHANGED <<format, bus, cached, trapped, uses>>

\* attach_dbc: takes the place of what was attached; a signal of more than one
\* bus is told apart by the bus.
Overlay(db) ==
    LET signals == Databases[db]
        Hits(s) == {i \in DOMAIN signals : signals[i].base = s.base}
        Of(s) == [name |-> IF Cardinality(Hits(s)) > 1 THEN Append(s.base, s.bus) ELSE s.base,
                  kind |-> s.kind, series |-> <<"bus", db, s.base, s.bus>>]
    IN  [i \in DOMAIN signals |-> Of(signals[i])]

AttachDbc(db) ==
    /\ ~trapped
    /\ format = "v4"
    /\ bus' = Overlay(db)
    /\ edited' = TRUE /\ since' = TRUE
    /\ UNCHANGED <<format, computed, cached, trapped, uses>>

DetachDbc ==
    /\ ~trapped
    /\ bus # <<>>
    /\ bus' = <<>>
    /\ edited' = TRUE /\ since' = TRUE
    /\ UNCHANGED <<format, computed, cached, trapped, uses>>

WebNext ==
    \/ \E name \in DOMAIN SeriesBytes : Decoded(name)
    \/ \E name \in DOMAIN SeriesBytes : Traps(name)
    \/ ClearDecodeCache
    \/ \E name \in DefinedNames, refs \in Formulas : DefineComputed(name, refs)
    \/ \E name \in DefinedNames : RemoveComputed(name)
    \/ \E db \in DOMAIN Databases : AttachDbc(db)
    \/ DetachDbc

WebSpec == WebInit /\ [][WebNext]_webVars

(***************************************************************************)
(* What the page is told of the channels.                                  *)
(***************************************************************************)

ChannelNames == NamesIn(FileChannels) \o NamesIn(bus) \o NamesIn(computed)
ChannelCount == Len(FileChannels) + Len(bus) + Len(computed)

\* info leaves the computed ones out, and so does search_channels.
InfoCount == Len(FileChannels) + Len(bus)
SearchChannels(matches) == SelectSeq(NamesIn(FileChannels) \o NamesIn(bus), LAMBDA n : n \in matches)

\* channels: the computed ones before those of a bus.
Listed(c, kind) == [name |-> c.name, kind |-> kind]
Channels ==
    [i \in DOMAIN FileChannels |-> Listed(FileChannels[i], FileChannels[i].kind)]
        \o [i \in DOMAIN computed |-> Listed(computed[i], "f64")]
        \o [i \in DOMAIN bus |-> Listed(bus[i], bus[i].kind)]

ChannelKind(name) ==
    IF Named(computed, name) THEN "f64"
    ELSE IF Named(bus, name) THEN Entry(bus, name).kind
    ELSE IF Named(FileChannels, name) THEN Entry(FileChannels, name).kind
    ELSE "none"

\* file_channel: names read from the file chunk by chunk.
FileChannel(name) ==
    format = "v4" /\ ~Named(bus, name) /\ ~Named(computed, name) /\ Named(FileChannels, name)

(***************************************************************************)
(* Properties.                                                             *)
(***************************************************************************)

Fits(names) == Len(names) <= WebCap /\ (BytesOf(names) <= WebBudget \/ Len(names) = 1)

\* What is kept are the series used last, in the order of their last use, and
\* as many of them as fit; one alone may be over the budget.
KeepsTheLastUsed ==
    LET kept == NamesIn(cached)
    IN  /\ kept = LastOf(uses, Len(kept))
        /\ Fits(kept) \/ kept = <<>>
        /\ Len(kept) < Len(uses) => ~Fits(LastOf(uses, Len(kept) + 1))

\* Defining a channel changes no other: until something is removed or attached,
\* what is kept is what its name stands for, and every channel listed answers,
\* unless its formula, or that of one it is computed from, has no reference.
DefiningIsSafe ==
    /\ ~since => \A i \in DOMAIN cached : cached[i].series = FetchSeries(cached[i].name)
    /\ ~edited =>
        /\ IsInjective(NamesIn(FileChannels)) => IsInjective(ChannelNames)
        /\ \A i \in DOMAIN ChannelNames : FetchSeries(ChannelNames[i]) # Unknown
        /\ (\A i \in DOMAIN computed : computed[i].refs # <<>>) => ~trapped

\* The listings say the same of a name that only one channel has.
ListingsAgree ==
    /\ Len(ChannelNames) = ChannelCount
    /\ \A i \in DOMAIN Channels :
        LET name == Channels[i].name
        IN  (\A j, k \in DOMAIN ChannelNames : ChannelNames[j] = name /\ ChannelNames[k] = name => j = k) =>
                /\ ChannelKind(name) = Channels[i].kind
                /\ FileChannel(name) => FetchSeries(name) = <<"file", name>>

\* However a page attaches databases, defines and removes channels and asks for
\* them, the decodes kept are the last used that fit (decoded), no definition
\* changes what another name answers (define_computed), and what is listed is
\* what is answered.
WebFileStaysTrue == KeepsTheLastUsed /\ DefiningIsSafe /\ ListingsAgree
=============================================================================

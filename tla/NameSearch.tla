----------------------------- MODULE NameSearch -----------------------------
(***************************************************************************)
(* Finding channels by name: the name index of a file and the scan that    *)
(* stands in for it when it is switched off (channels_db.rs, file.rs), and *)
(* what a name is matched with: the three matchers of patterns with * and  *)
(* ? (library, viewer, web binding) and the viewer's regular expressions   *)
(* (gui/src/search.rs).                                                    *)
(*                                                                         *)
(* A name, and a pattern, is a sequence of characters, in lower case where *)
(* a matcher ignores case.                                                 *)
(***************************************************************************)
EXTENDS Integers, FiniteSetsExt, SequencesExt

(***************************************************************************)
(* The index: for each name the places of its channels, in file order.     *)
(* channels is the sequence of names of a file.                            *)
(***************************************************************************)

NoIndex == <<>>

PlacesOf(channels, name) == SetToSortSeq({i \in DOMAIN channels : channels[i] = name}, LAMBDA a, b : a < b)

\* build_channel_indices: insert, channel after channel.
Insert(index, i, name) ==
    IF name \in DOMAIN index THEN [index EXCEPT ![name] = Append(@, i)]
    ELSE [n \in DOMAIN index \cup {name} |-> IF n = name THEN <<i>> ELSE index[n]]

BuildIndex(channels) ==
    FoldLeft(LAMBDA index, i : Insert(index, i, channels[i]), NoIndex, [i \in DOMAIN channels |-> i])

FindAll(index, name) == IF name \in DOMAIN index THEN index[name] ELSE <<>>

\* find_channels and find_channel_locations: with the index, or without.
FindChannels(channels, index, name) ==
    IF DOMAIN index = {} THEN PlacesOf(channels, name) ELSE FindAll(index, name)

\* find_channel: the first of them, or no place.
NoPlace == 0
FindChannel(channels, index, name) ==
    IF name \in DOMAIN index THEN index[name][1]
    ELSE IF DOMAIN index = {} /\ name \in ToSet(channels) THEN PlacesOf(channels, name)[1]
    ELSE NoPlace

HasChannel(channels, index, name) ==
    IF DOMAIN index = {} THEN \E i \in DOMAIN channels : channels[i] = name ELSE name \in DOMAIN index

ChannelNames(channels, index) == IF DOMAIN index = {} THEN ToSet(channels) ELSE DOMAIN index

\* resolve_v4 and resolve_v3 of the web binding: a name two channels have is
\* refused.
Resolve(channels, index, name) ==
    LET found == FindChannels(channels, index, name)
    IN  IF Len(found) = 1 THEN found[1] ELSE NoPlace

(***************************************************************************)
(* Wildcards.                                                              *)
(***************************************************************************)

\* channels_db.rs: every length a star may have, one after another.
RECURSIVE MatchAt(_, _, _, _)
MatchAt(text, pattern, i, j) ==
    IF j > Len(pattern) THEN i > Len(text)
    ELSE CASE pattern[j] = "*" -> \E k \in i..(Len(text) + 1) : MatchAt(text, pattern, k, j + 1)
           [] OTHER -> i <= Len(text) /\ pattern[j] \in {"?", text[i]} /\ MatchAt(text, pattern, i + 1, j + 1)

\* The viewer and the web binding go through once: where nothing fits, the
\* last star takes one character more.  The binding asks first whether the
\* pattern's character is the text's, the viewer whether it is a star.
NoStar == 0

\* Mutant of Restarted: it goes on behind what did not fit.
RestartedBehind(m) == [m EXCEPT !.p = m.star + 1, !.t = m.t + 1, !.mark = m.t + 1]

Restarted(m) == [m EXCEPT !.p = m.star + 1, !.t = m.mark + 1, !.mark = m.mark + 1]

RECURSIVE OnePass(_, _, _, _)
OnePass(text, pattern, starFirst, m) ==
    LET here == m.p <= Len(pattern)
        star == here /\ pattern[m.p] = "*" /\ (starFirst \/ text[m.t] # "*")
        fits == here /\ ~star /\ pattern[m.p] \in {"?", text[m.t]}
    IN  CASE m.t > Len(text) -> \A k \in m.p..Len(pattern) : pattern[k] = "*"
          [] m.t <= Len(text) /\ fits -> OnePass(text, pattern, starFirst, [m EXCEPT !.t = @ + 1, !.p = @ + 1])
          [] m.t <= Len(text) /\ star -> OnePass(text, pattern, starFirst, [m EXCEPT !.p = @ + 1, !.star = m.p, !.mark = m.t])
          [] OTHER -> /\ m.star # NoStar /\ m.mark <= Len(text)
                      /\ OnePass(text, pattern, starFirst, Restarted(m))

Begin == [t |-> 1, p |-> 1, star |-> NoStar, mark |-> 1]
WildcardViewer(text, pattern) == OnePass(text, pattern, TRUE, Begin)
WildcardWeb(text, pattern) == OnePass(text, pattern, FALSE, Begin)

(***************************************************************************)
(* Regular expressions: items, each an atom that is to be there once, at   *)
(* most once, any number of times, or at least once.                       *)
(***************************************************************************)

Quantifiers == {"*", "+", "?"}
Quote == "\\"
Item(atom, quant) == [atom |-> atom, quant |-> quant]
Lit(c) == [kind |-> "lit", members |-> {c}]
Dot == [kind |-> "dot", members |-> {}]
Class(negated, members) == [kind |-> IF negated THEN "not" ELSE "any", members |-> members]

Failed == [ok |-> FALSE, items |-> <<>>, start |-> FALSE, end |-> FALSE]

\* parse_class: from the character after the bracket to the one that closes.
RECURSIVE ParseClass(_, _, _)
ParseClass(pattern, j, members) ==
    CASE j > Len(pattern) -> [ok |-> FALSE, members |-> {}, next |-> 0]
      [] j <= Len(pattern) /\ pattern[j] = "]" -> [ok |-> TRUE, members |-> members, next |-> j + 1]
      [] j < Len(pattern) /\ pattern[j] = Quote -> ParseClass(pattern, j + 2, members \cup {pattern[j + 1]})
      [] j = Len(pattern) /\ pattern[j] = Quote -> ParseClass(pattern, j + 1, members)
      [] OTHER -> ParseClass(pattern, j + 1, members \cup {pattern[j]})

Peeked(c, pattern, i) == i <= Len(pattern) /\ pattern[i] = c

\* compile_regex.
RECURSIVE CompileFrom(_, _, _)
CompileFrom(pattern, i, r) ==
    LET c == pattern[i]
        n == Len(r.items)
        negated == Peeked("^", pattern, i + 1)
        class == ParseClass(pattern, i + (IF negated THEN 2 ELSE 1), {})
        With(item, next) == CompileFrom(pattern, next, [r EXCEPT !.items = Append(@, item)])
    IN  CASE i > Len(pattern) -> r
          [] i <= Len(pattern) /\ c = "^" /\ i = 1 -> CompileFrom(pattern, i + 1, [r EXCEPT !.start = TRUE])
          [] i <= Len(pattern) /\ c = "$" /\ i = Len(pattern) -> [r EXCEPT !.end = TRUE]
          [] i <= Len(pattern) /\ c \in Quantifiers ->
                 IF n > 0 /\ r.items[n].quant = "one"
                 THEN CompileFrom(pattern, i + 1, [r EXCEPT !.items[n].quant = c]) ELSE Failed
          [] i <= Len(pattern) /\ c = "." -> With(Item(Dot, "one"), i + 1)
          [] i <= Len(pattern) /\ c = Quote ->
                 IF i < Len(pattern) THEN With(Item(Lit(pattern[i + 1]), "one"), i + 2) ELSE Failed
          [] i <= Len(pattern) /\ c = "[" ->
                 IF class.ok THEN With(Item(Class(negated, class.members), "one"), class.next) ELSE Failed
          [] OTHER -> IF i <= Len(pattern) /\ c \in {"|", "(", ")"} THEN Failed ELSE With(Item(Lit(c), "one"), i + 1)

CompileRegex(pattern) == CompileFrom(pattern, 1, [ok |-> TRUE, items |-> <<>>, start |-> FALSE, end |-> FALSE])

AtomMatches(atom, text, i) ==
    i <= Len(text) /\ CASE atom.kind \in {"lit", "any"} -> text[i] \in atom.members
                        [] atom.kind = "not" -> text[i] \notin atom.members
                        [] OTHER -> TRUE

\* match_here and match_repeat: as many as there are, then fewer.
RECURSIVE MatchHere(_, _, _, _), MatchRepeat(_, _, _, _)
MatchHere(items, text, i, end) ==
    IF items = <<>> THEN ~end \/ i > Len(text)
    ELSE LET item == Head(items)
             once == AtomMatches(item.atom, text, i)
         IN  CASE item.quant = "one" -> once /\ MatchHere(Tail(items), text, i + 1, end)
               [] item.quant = "?" -> (once /\ MatchHere(Tail(items), text, i + 1, end)) \/ MatchHere(Tail(items), text, i, end)
               [] item.quant = "*" -> MatchRepeat(items, text, i, end)
               [] OTHER -> once /\ MatchRepeat(items, text, i + 1, end)
MatchRepeat(items, text, i, end) ==
    \/ AtomMatches(Head(items).atom, text, i) /\ MatchRepeat(items, text, i + 1, end)
    \/ MatchHere(Tail(items), text, i, end)

RegexSearch(r, text) ==
    IF r.start THEN MatchHere(r.items, text, 1, r.end)
    ELSE \E i \in 1..(Len(text) + 1) : MatchHere(r.items, text, i, r.end)

\* matches, in the mode of a substring.
Substring(text, part) == \E i \in 0..(Len(text) - Len(part)) : SubSeq(text, i + 1, i + Len(part)) = part
=============================================================================

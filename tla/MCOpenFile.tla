----------------------------- MODULE MCOpenFile -----------------------------
(***************************************************************************)
(* A file opened and then mapped.  The files are five families, each with  *)
(* some of its links free and the rest of the file as small as it gets.    *)
(***************************************************************************)
EXTENDS OpenFile, BlockMap

Block(kind, next, down, more) ==
    [kind |-> kind, next |-> next, down |-> down, more |-> more, size |-> 0,
     storage |-> "cn", starts |-> <<>>, inval |-> <<>>]
Sized(kind, size) == [Block(kind, 0, 0, <<>>) EXCEPT !.size = size]

HD(dg, at, ev, ch, fh) == Block("HD", 0, dg, <<at, ev, ch, fh>>)
OneGroup(cn, data) ==
    2 :> Block("DG", 0, 3, <<data>>) @@ 3 :> Block("CG", 0, cn, <<0>>)

\* Three channels and two arrays, every composition and two of the chains free.
ChannelFiles ==
    {1 :> HD(2, 0, 0, 0, 0) @@ OneGroup(4, 0)
       @@ 4 :> Block("CN", n4, d4, <<0>>) @@ 5 :> Block("CN", n5, d5, <<0>>)
       @@ 6 :> Block("CN", 0, d6, <<0>>)
       @@ 7 :> [Block("CA", 0, d7, <<>>) EXCEPT !.storage = s7]
       @@ 8 :> [Block("CA", 0, 7, <<>>) EXCEPT !.storage = "cn"] :
         n4 \in {0, 4, 5}, n5 \in {4, 6}, d4 \in {0, 5, 6, 8}, d5 \in {0, 4, 6, 7},
         d6 \in {0, 4, 7, 9}, d7 \in {0, 6, 8, 2, 10},
         s7 \in {"cn", "cg", "dynamic", "dynamic cg"}}

\* Three nodes of a hierarchy, every link free.
HierarchyFiles ==
    {1 :> HD(0, 0, 0, 2, 0)
       @@ 2 :> Block("CH", n2, d2, <<>>) @@ 3 :> Block("CH", n3, d3, <<>>)
       @@ 4 :> Block("CH", n4, d4, <<>>) :
         n2 \in {0, 2, 3}, d2 \in {0, 2, 3, 4}, n3 \in {0, 2, 4}, d3 \in {0, 2, 3, 4},
         n4 \in {0, 2, 5}, d4 \in {0, 3}}

\* Two data groups, two channel groups and the flat lists.
GroupFiles ==
    {1 :> HD(2, at, 6, 0, 8)
       @@ 2 :> Block("DG", n2, 4, <<0>>) @@ 3 :> Block("DG", n3, d3, <<0>>)
       @@ 4 :> Block("CG", n4, 9, <<sr>>) @@ 5 :> Block("CG", n5, 9, <<0>>)
       @@ 6 :> Block("EV", n6, 0, <<>>) @@ 7 :> Block("SR", n7, 0, <<>>)
       @@ 8 :> [Block("FH", 0, 0, <<>>) EXCEPT !.size = 2] @@ 9 :> Block("CN", 0, 0, <<10>>)
       @@ 10 :> Block("CC", 0, 0, <<10, cc, 0>>) @@ 12 :> Block("CC", 0, 0, <<12, 10, 6>>) :
         at \in {0, 6}, n2 \in {0, 3}, n3 \in {0, 2}, d3 \in {0, 4, 5}, n4 \in {0, 5},
         n5 \in {0, 4}, sr \in {0, 7}, n6 \in {0, 6}, n7 \in {0, 7}, cc \in {6, 12, 20}}

\* The records in lists of data blocks, empty ones among them.
DataFiles ==
    {1 :> [HD(2, 0, 0, 0, 0) EXCEPT !.storage = u] @@ OneGroup(0, d)
       @@ 4 :> Block("DL", n4, 0, <<a, b, 7>>) @@ 5 :> Block("DL", n5, 0, <<6, 0, c>>)
       @@ 6 :> Sized("DT", 0) @@ 7 :> Sized("DZ", 2) @@ 10 :> Sized("DV", 1)
       @@ 12 :> Block("HL", 0, h, <<>>) :
         u \in {"cn", "unfinished"}, d \in {0, 1, 4, 6, 7, 12}, n4 \in {0, 4, 5}, n5 \in {0, 4},
         a \in {0, 6, 7}, b \in {6, 10, 3}, c \in {6, 10}, h \in {0, 4, 14}}

\* Lists of data with their invalidation blocks.
ListFiles ==
    {1 :> HD(2, 0, 0, 0, 0) @@ 2 :> Block("DG", 0, 3, <<d>>) @@ 3 :> Block("CG", 12, 0, <<0>>)
       @@ 12 :> [Block("CG", 0, 0, <<0>>) EXCEPT !.storage = layout]
       @@ 4 :> [Block("LD", n4, 0, <<a, 7, b>>) EXCEPT !.starts = starts, !.inval = inval]
       @@ 5 :> Block("HL", 0, 4, <<>>)
       @@ 6 :> Sized("DT", 0) @@ 7 :> Sized("DZ", 2) @@ 10 :> Sized(di, 1) :
         d \in {4, 5}, layout \in {"cn", "other"}, n4 \in {0, 4}, a \in {0, 6, 7}, b \in {7, 10},
         starts \in {<<>>, <<0, 0, 2>>, <<3, 5, 7>>, <<4, 2, 4>>},
         inval \in {<<>>, <<0, 0, 0>>, <<10, 10>>, <<0, 10, 10>>}, di \in {"DV", "DI"}}

\* Nothing, or another block, where the header should be.
HeadlessFiles == {2 :> Block("FH", 0, 0, <<>>), 1 :> Block("DG", 0, 0, <<0>>)}

MCFiles == HeadlessFiles \cup ChannelFiles \cup HierarchyFiles \cup GroupFiles \cup DataFiles \cup ListFiles

VARIABLE task   \* what is done with the file

Init ==
    /\ file \in Files
    /\ task \in {"open", "map"}
    /\ OpenInit
    /\ MapInit

Next ==
    /\ UNCHANGED task
    /\ \/ task = "open" /\ OpenNext /\ UNCHANGED mapVars
       \/ task = "map" /\ MapNext /\ UNCHANGED openVars

vars == <<file, task, openVars, mapVars>>
Spec == Init /\ [][Next]_vars /\ WF_vars(Next)

\* Whatever the links of a file, opening and mapping it come to an end.
ReadingEnds == <>(open \notin {"closed", "opening"} \/ scan # "walking")
=============================================================================

------------------------------ MODULE OpenFile ------------------------------
(***************************************************************************)
(* Opening a file (file.rs): every chain of blocks walked, the channels of *)
(* every group with the members of their compositions, the conversions,    *)
(* the channel hierarchy, and the list of the blocks the records are in.   *)
(*                                                                         *)
(* The recursion of the code is a stack of walks.  A walk is at a link of  *)
(* the chain it follows and remembers the offsets it has seen (LinkChain); *)
(* what its blocks hold is walked before its next block.  Names, texts and *)
(* values are left out: a channel is the path of CN blocks that leads to   *)
(* it, which is what qualify_channel_name makes of their names.            *)
(***************************************************************************)
EXTENDS BlockGraph

CONSTANTS
    MaxCompositionDepth,    \* MAX_COMPOSITION_DEPTH
    MaxConversionDepth      \* MAX_CONVERSION_DEPTH

\* The parsers of these read that many links, whatever number a block declares.
ASSUME OpenFileAssumption ==
    /\ MaxCompositionDepth \in Nat
    /\ MaxConversionDepth \in Nat
    /\ \A f \in Files : \A o \in DOMAIN f :
          /\ f[o].kind = "HD" => Len(f[o].more) >= 4
          /\ f[o].kind \in {"DG", "CG", "CN"} => Len(f[o].more) >= 1

VARIABLES
    open,       \* "closed", "opening", "opened", or why not
    stack,      \* the walks in progress, innermost first
    channels,   \* the channels so far: [path, array, unreadable], the path from its DG
    tree,       \* the hierarchy so far: [at, level], a node before its children
    listed,     \* what the flat chains gave: SR, AT, EV, FH blocks
    index       \* the data block index of the group being read

openVars == <<open, stack, channels, tree, listed, index>>

Walk(walk, at, level, path) ==
    [walk |-> walk, at |-> at, seen |-> {}, level |-> level, path |-> path]

OpenInit ==
    /\ open = "closed"
    /\ stack = <<>>
    /\ channels = <<>>
    /\ tree = <<>>
    /\ listed = {}
    /\ index = <<>>

Fail(why) ==
    /\ open' = why
    /\ stack' = <<>>
    /\ UNCHANGED <<file, channels, tree, listed, index>>

\* from_backend_with_options: data groups first, then the lists of the header.
OpenHeader ==
    /\ open = "closed"
    /\ IF Kind(Header) # "HD" THEN Fail("bad block")
       ELSE /\ open' = "opening"
            /\ LET hd == file[Header]
               IN  stack' = <<Walk("DG", hd.down, 0, <<>>), Walk("AT", hd.more[1], 0, <<>>),
                              Walk("EV", hd.more[2], 0, <<>>), Walk("CH", hd.more[3], 0, <<>>),
                              Walk("FH", hd.more[4], 0, <<>>)>>
            /\ UNCHANGED <<file, channels, tree, listed, index>>

Top == stack[1]
block == file[Top.at]

\* Mutant of Seen: one set for a chain and those it is walked under.
SeenAbove(walk) == \E i \in DOMAIN stack : walk.at \in stack[i].seen

\* LinkChain::visit.
Seen(walk) == walk.at \in walk.seen

\* The walk with its block done, under what that block holds.
Advance(held) ==
    stack' = held \o <<[Top EXCEPT !.at = Next1(@), !.seen = @ \cup {Top.at}]>> \o Tail(stack)

\* A step of the walks named: a chain that returns to a block, or a block that
\* does not parse as what is expected there, or is refused, fails the open.
Step(walks, kinds, accepted, Parsed) ==
    /\ open = "opening"
    /\ stack # <<>>
    /\ Top.walk \in walks
    /\ Top.at # 0
    /\ IF Seen(Top) THEN Fail("cyclic")
       ELSE IF Kind(Top.at) \notin kinds \/ ~accepted THEN Fail("bad block")
       ELSE Parsed /\ UNCHANGED <<file, open>>

\* The end of a chain, and of the last one.
WalkEnds ==
    /\ open = "opening"
    /\ stack # <<>>
    /\ Top.at = 0
    /\ stack' = Tail(stack)
    /\ open' = IF Len(stack) = 1 THEN "opened" ELSE open
    /\ UNCHANGED <<file, channels, tree, listed, index>>

-----------------------------------------------------------------------------
(* Groups and flat lists. *)

\* parse_data_groups.  The record index of the group is RecordIndex's.
DataGroup ==
    Step({"DG"}, {"DG"}, TRUE,
         /\ Advance(<<Walk("CG", block.down, 0, <<Top.at>>), Walk("data", block.more[1], 0, <<Top.at>>)>>)
         /\ index' = <<>>
         /\ UNCHANGED <<channels, tree, listed>>)

\* parse_channel_groups.
ChannelGroup ==
    Step({"CG"}, {"CG"}, TRUE,
         /\ Advance(<<Walk("CN", block.down, 0, <<Top.path[1], Top.at>>), Walk("SR", block.more[1], 0, <<>>)>>)
         /\ UNCHANGED <<channels, tree, listed, index>>)

\* parse_attachments, parse_events, parse_sample_reductions, parse_file_history.
FlatList ==
    Step({"SR", "AT", "EV", "FH"}, {Top.walk}, TRUE,
         /\ Advance(<<>>)
         /\ listed' = listed \cup {Top.at}
         /\ UNCHANGED <<channels, tree, index>>)

-----------------------------------------------------------------------------
(* Channels. *)

\* Mutant of NewChannel: a member is named without the channel it is a member of.
UnqualifiedChannel ==
    [path |-> SubSeq(Top.path, 1, 2) \o <<Top.at>>, array |-> "no", unreadable |-> FALSE]

NewChannel ==
    [path |-> Top.path \o <<Top.at>>, array |-> "no", unreadable |-> FALSE]

\* build_channel with the expansion it is followed by: the conversion and the
\* composition of a channel at the level its composition is at.
Members(level) ==
    <<Walk("CC", block.more[1], 0, <<>>),
      Walk("composition", block.down, level, Top.path \o <<Top.at>>)>>

\* parse_channels.  The chain's offsets are collected before any of its blocks
\* is built; which of two errors a broken chain gives is left out.
TopChannel ==
    Step({"CN"}, {"CN"}, TRUE,
         /\ Advance(Members(0))
         /\ channels' = Append(channels, NewChannel)
         /\ UNCHANGED <<tree, listed, index>>)

\* The CN arm of expand_composition_channels, in a chain of its own.
StructMember ==
    Step({"struct"}, {"CN"}, TRUE,
         /\ Advance(Members(Top.level + 1))
         /\ channels' = Append(channels, NewChannel)
         /\ UNCHANGED <<tree, listed, index>>)

\* resolve_ca_chain: what describes an element, through the CA blocks an array
\* is composed with; nothing where one of them is no template of this record,
\* or where the levels run out.
Element(ca) ==
    LET element[n \in 0..MaxCompositionDepth, o \in DOMAIN file] ==
          LET down == file[o].down
          IN  CASE n = 0 -> "none"
                [] n > 0 /\ (down = 0 \/ Kind(down) = "CN") -> "found"
                [] n > 0 /\ down # 0 /\ ~IsBlock(down) -> "error"
                [] n > 0 /\ Kind(down) = "CA" /\ file[down].storage = "cn" -> element[n - 1, down]
                [] OTHER -> "none"
    IN  element[MaxCompositionDepth, ca]

\* The CA arm of expand_composition_channels.
Array(o) ==
    IF \/ file[o].storage = "dynamic cg"
       \/ (Kind(file[o].down) = "CA" /\ file[o].storage # "cn")
      THEN "none" ELSE Element(o)

\* What becomes of the outcome: parse_channels marks the channel it expanded, the
\* recursive call drops it.
Marked(level) == level = 0

\* expand_composition_channels, for the channel last built.
Composition ==
    /\ open = "opening"
    /\ stack # <<>>
    /\ Top.walk = "composition"
    /\ Top.at # 0
    /\ IF Top.level >= MaxCompositionDepth THEN Fail("cyclic")
       ELSE IF ~IsBlock(Top.at) \/ (Kind(Top.at) = "CA" /\ Array(Top.at) = "error")
         THEN Fail("bad block")
       ELSE /\ stack' = (IF Kind(Top.at) = "CN" THEN <<[Top EXCEPT !.walk = "struct"]>> ELSE <<>>)
                            \o Tail(stack)
            /\ channels' =
                 IF Kind(Top.at) # "CA" THEN channels
                 ELSE [channels EXCEPT
                         ![Len(channels)].array = Array(Top.at),
                         ![Len(channels)].unreadable = Array(Top.at) = "none" /\ Marked(Top.level)]
            /\ UNCHANGED <<file, open, tree, listed, index>>

\* How deep the conversions a table refers to are.
Nested(level) == level + 1

\* table_entry and bitfield_entry: a reference to a conversion is followed, another
\* kind is a label or nothing.
Referred ==
    LET links == block.more
        referred[n \in 0..Len(links)] ==
          IF n = 0 THEN <<>>
          ELSE IF Kind(links[n]) # "CC" THEN referred[n - 1]
          ELSE Append(referred[n - 1], Walk("CC", links[n], Nested(Top.level), <<>>))
    IN  referred[Len(links)]

\* build_conversion_at_depth, down to the depth allowed.
Conversion ==
    Step({"CC"}, {"CC"}, TRUE,
         /\ stack' = (IF Top.level >= MaxConversionDepth THEN <<>> ELSE Referred) \o Tail(stack)
         /\ UNCHANGED <<channels, tree, listed, index>>)

-----------------------------------------------------------------------------
(* The hierarchy and the data block index. *)

InTree(o) == \E i \in DOMAIN tree : tree[i].at = o

\* parse_hierarchy's visited set, which spans its levels.
Known(o) == InTree(o)

\* parse_hierarchy: a node known from elsewhere ends the chain that reaches it.
HierarchyNode ==
    Step({"CH"}, {"CH"}, TRUE,
         IF Known(Top.at)
           THEN stack' = Tail(stack) /\ UNCHANGED <<channels, tree, listed, index>>
           ELSE /\ Advance(<<Walk("CH", block.down, Top.level + 1, <<>>)>>)
                /\ tree' = Append(tree, [at |-> Top.at, level |-> Top.level])
                /\ UNCHANGED <<channels, listed, index>>)

DataKinds == {"DT", "SD", "RD", "DV", "DI", "DZ"}
InvalidationKinds == {"DI", "DT", "DV", "DZ"}

Entry(o, inval) == [at |-> o, size |-> file[o].size, inval |-> inval]
Entries(links, inval) ==
    LET entries[n \in 0..Len(links)] ==
          IF n = 0 THEN <<>>
          ELSE IF links[n] = 0 THEN entries[n - 1]
          ELSE Append(entries[n - 1], Entry(links[n], inval[n]))
    IN  entries[Len(links)]

Unfinished == file[Header].storage = "unfinished"

\* build_data_block_index.  An empty block of an unfinished file reaches to the
\* file's end.
DataBlock ==
    /\ open = "opening"
    /\ stack # <<>>
    /\ Top.walk = "data"
    /\ Top.at # 0
    /\ LET first == IF Kind(Top.at) = "HL" THEN block.down ELSE Top.at
       IN  IF Kind(Top.at) \in DataKinds
             THEN /\ stack' = Tail(stack)
                  /\ index' = <<IF Unfinished /\ block.size = 0 /\ Kind(Top.at) # "DZ"
                                  THEN [Entry(Top.at, 0) EXCEPT !.size = FileSize - Top.at - 1]
                                  ELSE Entry(Top.at, 0)>>
                  /\ UNCHANGED <<file, open, channels, tree, listed>>
           ELSE IF Kind(Top.at) \in {"DL", "LD", "HL"} /\ (first = 0 \/ IsBlock(first))
             THEN /\ stack' = <<Walk(IF Kind(first) = "LD" THEN "LD" ELSE "DL", first, 0, Top.path)>>
                                 \o Tail(stack)
                  /\ UNCHANGED <<file, open, channels, tree, listed, index>>
           ELSE Fail("bad block")

\* build_data_list_index.
DataList ==
    Step({"DL"}, {"DL"}, \A i \in DOMAIN block.more : block.more[i] # 0 => Kind(block.more[i]) \in DataKinds,
         /\ Advance(<<>>)
         /\ index' = index \o Entries(block.more, [i \in DOMAIN block.more |-> 0])
         /\ UNCHANGED <<channels, tree, listed>>)

\* The offsets a list declares are those of its blocks one after the other.
Contiguous(ld) ==
    \A i \in DOMAIN ld.starts :
        i > 1 /\ ld.more[i] # 0 /\ ld.more[i - 1] # 0
            => ld.starts[i] = ld.starts[i - 1] + file[ld.more[i - 1]].size

\* build_list_data_index.  Invalidation blocks need one layout of the records.
ListData ==
    LET layouts == {file[cg].storage : cg \in Chain(file[Top.path[1]].down)}
    IN  Step({"LD"}, {"LD"},
             /\ \A i \in DOMAIN block.more :
                   block.more[i] # 0 => Kind(block.more[i]) \in DataKinds \ {"DI"}
             /\ Contiguous(block)
             /\ \A i \in DOMAIN block.inval :
                   block.more[i] # 0 /\ block.inval[i] # 0 =>
                      Cardinality(layouts) <= 1 /\ Kind(block.inval[i]) \in InvalidationKinds,
             /\ Advance(<<>>)
             /\ index' = index \o Entries(block.more, [i \in DOMAIN block.more |->
                             IF i \in DOMAIN block.inval THEN block.inval[i] ELSE 0])
             /\ UNCHANGED <<channels, tree, listed>>)

OpenNext ==
    \/ OpenHeader
    \/ WalkEnds
    \/ DataGroup \/ ChannelGroup \/ FlatList
    \/ TopChannel \/ StructMember \/ Composition \/ Conversion
    \/ HierarchyNode
    \/ DataBlock \/ DataList \/ ListData

OpenSpec == file \in Files /\ OpenInit /\ [][OpenNext]_<<file, openVars>>

-----------------------------------------------------------------------------
(* Reading a range of the records (data_index.rs, read_data_index_range). *)

\* effective_size, and the cumulative offsets push keeps.
Size(e) == e.size + (IF e.inval = 0 THEN 0 ELSE file[e.inval].size)
Starts ==
    LET starts[n \in 0..Len(index)] == IF n = 0 THEN 0 ELSE starts[n - 1] + Size(index[n])
    IN  starts
StartOf(i) == Starts[i - 1]
TotalSize == Starts[Len(index)]

\* Mutant of BlockForOffset: of several blocks that begin at an offset, the first.
FirstForOffset(offset) ==
    CHOOSE i \in DOMAIN index :
        /\ StartOf(i) <= offset
        /\ \A j \in DOMAIN index : StartOf(j) <= offset => StartOf(j) < StartOf(i) \/ j >= i

\* block_for_offset.  Blocks may be empty, so several may begin at an offset; the
\* binary search of the toolchain the repository pins ends at the last of them.
BlockForOffset(offset) ==
    CHOOSE i \in DOMAIN index :
        /\ StartOf(i) <= offset
        /\ \A j \in DOMAIN index : StartOf(j) <= offset => j <= i

\* A block's bytes with its invalidation bytes, each told apart.
Content(e) == [k \in 1..Size(e) |-> <<e.at, k>>]

\* read_data_index_range: block by block, through read_block_range.
Less(m, n) == IF m < n THEN m ELSE n
ReadRange(start, len) ==
    LET end == Less(start + len, TotalSize)
        read[at \in 0..TotalSize] ==
          IF at >= end THEN <<>>
          ELSE LET i == BlockForOffset(at)
                   local == at - StartOf(i)
                   here == Less(Size(index[i]) - local, end - at)
               IN  IF here = 0 THEN <<>>
                   ELSE SubSeq(Content(index[i]), local + 1, local + here) \o read[at + here]
    IN  IF len = 0 \/ start >= TotalSize THEN <<>> ELSE read[start]

-----------------------------------------------------------------------------
(* Properties. *)

\* The paths of links to the channels of a file, by how many compositions they
\* go through.
Groups == {g \in Chain(file[Header].down) \X DOMAIN file : g[2] \in Chain(Down(g[1]))}
Structs(cn) == IF Kind(Down(cn)) = "CN" THEN Chain(Down(cn)) ELSE {}
Paths ==
    LET paths[n \in 0..MaxCompositionDepth] ==
          IF n = 0
            THEN UNION {{g \o <<cn>> : cn \in Chain(Down(g[2]))} : g \in Groups}
            ELSE UNION {{p \o <<cn>> : cn \in Structs(Last(p))} : p \in paths[n - 1]}
    IN  paths

\* The channel list is the file's tree: every path of links gives one channel, and
\* the members of a composition follow the channel they are of, before its next.
ChannelsAreTheTree ==
    open = "opened" =>
        /\ {channels[i].path : i \in DOMAIN channels}
              = UNION {Paths[n] : n \in 0..MaxCompositionDepth}
        /\ \A i, j \in DOMAIN channels : channels[i].path = channels[j].path => i = j
        /\ \A i \in 2..Len(channels) :
              Len(channels[i].path) > 3 => IsPrefix(Front(channels[i].path), channels[i - 1].path)

\* The first list of data a group names, directly or through an HL.
ListHead(dg) ==
    LET data == file[dg].more[1]
    IN  CASE Kind(data) = "HL" -> Down(data)
          [] Kind(data) \in {"DL", "LD"} -> data
          [] OTHER -> 0

\* The chains an open follows, by their first links, without the hierarchy's.
GroupHeads == UNION {{Down(g[2]), file[g[2]].more[1]} : g \in Groups}
MembersOf(n) == {Down(Last(p)) : p \in {q \in Paths[n] : Structs(Last(q)) # {}}}
MemberHeads == UNION {MembersOf(n) : n \in 0..MaxCompositionDepth - 1}
Heads ==
    LET hd == file[Header]
    IN  {hd.down, hd.more[1], hd.more[2], hd.more[4]}
          \cup {Down(dg) : dg \in Chain(hd.down)} \cup {ListHead(dg) : dg \in Chain(hd.down)}
          \cup GroupHeads \cup MemberHeads

NestsTooDeep == \E p \in Paths[MaxCompositionDepth] : Down(Last(p)) # 0

\* A file whose chains return to a block, or whose compositions nest without end,
\* is never opened, and none is refused for a cycle without having one: sharing
\* a block between chains is not a cycle.
CyclesAreTold ==
    LET cyclic(heads) == \E h \in heads : \E x \in Chain(h) : x \in Chain(Next1(x))
    IN  /\ open = "opened" => ~cyclic(Heads) /\ ~NestsTooDeep
        /\ open = "cyclic" =>
              \/ NestsTooDeep
              \/ cyclic(Heads \cup {file[Header].more[3]} \cup {Down(tree[i].at) : i \in DOMAIN tree})

\* A range of the records is that slice of the blocks' bytes one after the other,
\* wherever blocks of no bytes lie among them.
RangeIsTheSlice ==
    LET whole == FlattenSeq([i \in DOMAIN index |-> Content(index[i])])
    IN  open = "opened" => \A start, len \in 0..TotalSize + 1 :
            ReadRange(start, len) =
                SubSeq(whole, start + 1, Less(start + len, Len(whole)))

=============================================================================

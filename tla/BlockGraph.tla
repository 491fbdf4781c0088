----------------------------- MODULE BlockGraph -----------------------------
(***************************************************************************)
(* An MF4 file as its readers see it: blocks that name each other by       *)
(* offset.  A block is                                                     *)
(*    kind     its two letters; "XX" where a link names something else       *)
(*    next     the link that continues the chain it is in, 0 at its end      *)
(*    down     the link to what it holds: DG to CG, CG to CN, CN to its      *)
(*             composition, CA to its template, CH to its children, HL to    *)
(*             its list                                                      *)
(*    more     its other links, in order                                     *)
(*    size     its bytes after the header, which counts for one              *)
(*    storage  of a CA, where its elements are: "cn" in the channel's own    *)
(*             record, "cg" elsewhere, "dynamic" of a size in the record,    *)
(*             "dynamic cg" of sizes that cannot be found                    *)
(*    starts   of an LD that has them, the offsets its blocks begin at       *)
(*    inval    of an LD, the links to its invalidation blocks                *)
(* An offset that is no block's is past the end of the file, as is a block   *)
(* that runs past it: reading either is an error.                            *)
(***************************************************************************)
EXTENDS Naturals, Sequences, FiniteSets, SequencesExt

CONSTANTS
    Files,          \* the files to read: functions from offsets to blocks
    Header,         \* the offset of the HD block, 64 in every file
    FileSize

BlockType ==
    [kind : STRING, next : Nat, down : Nat, more : Seq(Nat), size : Nat, storage : STRING,
     starts : Seq(Nat), inval : Seq(Nat)]

\* The ID block is at 0, where no link leads; a block's header is in the file.
ASSUME BlockGraphAssumption ==
    /\ Header \in Nat \ {0} /\ FileSize \in Nat
    /\ \A f \in Files :
          /\ IsFiniteSet(DOMAIN f) /\ DOMAIN f \subseteq 1..FileSize - 1
          /\ \A o \in DOMAIN f : f[o] \in BlockType

VARIABLE file

IsBlock(o) == o \in DOMAIN file
Kind(o) == IF IsBlock(o) THEN file[o].kind ELSE "none"
Next1(o) == IF IsBlock(o) THEN file[o].next ELSE 0
Down(o) == IF IsBlock(o) THEN file[o].down ELSE 0

\* A block's links in the order of its link section.
Links(o) == <<file[o].next, file[o].down>> \o file[o].more \o file[o].inval

End(o) == o + 1 + file[o].size

\* The offsets a set of offsets leads to, where next says where each leads.
Closure(from, next) ==
    LET reach[n \in 0..Cardinality(DOMAIN file)] ==
          IF n = 0 THEN from
          ELSE LET before == reach[n - 1] IN before \cup UNION {next[o] : o \in before}
    IN  reach[Cardinality(DOMAIN file)]

\* The chain that starts at a link.
Chain(o) == Closure({o}, [x \in Nat |-> {Next1(x)}]) \ {0}
=============================================================================

------------------------------ MODULE BlockMap ------------------------------
(***************************************************************************)
(* The block map of a file (inspect.rs, BlockMap::scan): every block the   *)
(* links lead to from the header, breadth first, with who refers to it,    *)
(* and the bytes no block covers.  Warnings are left out, except that the  *)
(* walk stopped early.                                                     *)
(***************************************************************************)
EXTENDS BlockGraph

CONSTANTS
    MaxBlocks       \* MAX_BLOCKS

ASSUME BlockMapAssumption == MaxBlocks \in Nat

VARIABLES
    found,      \* the blocks so far: from addresses to referenced_by
    queue,      \* links to follow: [to, from]
    scan        \* "walking", "done" or "stopped"

mapVars == <<found, queue, scan>>

\* read_id_block, and the link the walk starts with.
MapInit ==
    /\ found = [o \in {0} |-> <<>>]
    /\ queue = <<[to |-> Header, from |-> 0]>>
    /\ scan = "walking"

\* Mutant of Referrers: a block met before is passed over.
FirstReferrer(link) == found[link.to]

\* What is known of who refers to a block, once a link to it is met again.
Referrers(link) ==
    IF link.from = 0 \/ Contains(found[link.to], link.from)
      THEN found[link.to] ELSE Append(found[link.to], link.from)

\* And when it is met for the first time.
Met(link) == IF link.from = 0 THEN <<>> ELSE <<link.from>>

\* The links of a block to follow; one to itself is only warned of.
ToFollow(o) ==
    LET links == Links(o)
        follow[n \in 0..Len(links)] ==
          IF n = 0 THEN <<>>
          ELSE IF links[n] \in {0, o} THEN follow[n - 1]
          ELSE Append(follow[n - 1], [to |-> links[n], from |-> o])
    IN  follow[Len(links)]

\* Mutant of MetAgain: its link is looked at and left in the queue.
StaysQueued(link) ==
    /\ link.to \in DOMAIN found
    /\ found' = [found EXCEPT ![link.to] = Referrers(link)]
    /\ UNCHANGED <<queue, scan>>

\* run and visit: a block met again, one too many, one that is new.
MetAgain(link) ==
    /\ link.to \in DOMAIN found
    /\ found' = [found EXCEPT ![link.to] = Referrers(link)]
    /\ queue' = Tail(queue)
    /\ UNCHANGED scan

TooMany(link) ==
    /\ link.to \notin DOMAIN found
    /\ Cardinality(DOMAIN found) >= MaxBlocks
    /\ scan' = "stopped"
    /\ UNCHANGED <<found, queue>>

Visit(link) ==
    /\ link.to \notin DOMAIN found
    /\ Cardinality(DOMAIN found) < MaxBlocks
    /\ IF IsBlock(link.to)
         THEN /\ found' = [o \in DOMAIN found \cup {link.to} |->
                             IF o = link.to THEN Met(link) ELSE found[o]]
              /\ queue' = Tail(queue) \o ToFollow(link.to)
         ELSE /\ queue' = Tail(queue)
              /\ UNCHANGED found
    /\ UNCHANGED scan

MapStep ==
    /\ scan = "walking"
    /\ queue # <<>>
    /\ LET link == Head(queue) IN MetAgain(link) \/ TooMany(link) \/ Visit(link)
    /\ UNCHANGED file

MapEnds ==
    /\ scan = "walking"
    /\ queue = <<>>
    /\ scan' = "done"
    /\ UNCHANGED <<file, found, queue>>

MapNext == MapStep \/ MapEnds

MapSpec == file \in Files /\ MapInit /\ [][MapNext]_<<file, mapVars>>

\* The ID block is one address long here, the others a header and their bytes.
EndOf(o) == IF o = 0 THEN 1 ELSE End(o)

\* How far the blocks swept so far reach.
Cursor(cursor, o) == IF EndOf(o) > cursor THEN EndOf(o) ELSE cursor

Sweep(s, o) ==
    [cursor |-> Cursor(s.cursor, o),
     gaps   |-> IF o > s.cursor THEN Append(s.gaps, [at |-> s.cursor, size |-> o - s.cursor]) ELSE s.gaps]

\* finish: the stretches before, between and after the blocks, in address order.
Swept ==
    LET swept[n \in 0..FileSize] ==
          IF n = 0 THEN [cursor |-> 0, gaps |-> <<>>]
          ELSE IF n - 1 \in DOMAIN found THEN Sweep(swept[n - 1], n - 1) ELSE swept[n - 1]
    IN  swept

Gaps ==
    LET s == Swept[FileSize]
    IN  IF s.cursor < FileSize
          THEN Append(s.gaps, [at |-> s.cursor, size |-> FileSize - s.cursor]) ELSE s.gaps

-----------------------------------------------------------------------------
(* Properties. *)

LinkedFrom(o) == IF IsBlock(o) THEN ToSet(Links(o)) ELSE {}
Reachable == {o \in Closure({Header}, [o \in Nat |-> LinkedFrom(o)]) : IsBlock(o)}

\* The blocks found that link to a block.
Refers(o) == {b \in DOMAIN found \ {0, o} : o \in ToSet(Links(b))}

InGap(byte, gaps) == \E i \in DOMAIN gaps : byte \in gaps[i].at..gaps[i].at + gaps[i].size - 1
Covered(byte) == \E o \in DOMAIN found : byte \in o..EndOf(o) - 1

\* "Every block reachable from the header block is listed, once", with "every
\* referrer"; a walk that stopped early lists only such blocks.  The gaps are the
\* bytes of the file that no listed block covers, whatever lies inside what.
MapIsTheGraph ==
    /\ scan # "walking" => DOMAIN found \subseteq {0} \cup Reachable
    /\ scan = "done" =>
          /\ DOMAIN found = {0} \cup Reachable
          /\ \A o \in DOMAIN found \ {0} : ToSet(found[o]) = Refers(o) /\ IsInjective(found[o])
    /\ scan # "walking" => \A byte \in 0..FileSize - 1 : InGap(byte, Gaps) <=> ~Covered(byte)

=============================================================================

--------------------------- MODULE MCRangeSource ---------------------------
(***************************************************************************)
(* A seven-byte file in windows of three, the last of them short, with a   *)
(* cache of two windows: one range of five bytes spans more windows than   *)
(* the cache keeps.  A byte is named by its place.                         *)
(***************************************************************************)
EXTENDS RangeSource

MCFile == [i \in 1..7 |-> i]

Range(offset, len) == [offset |-> offset, len |-> len]

MCRequests ==
    {Range(1, 2),      \* inside one window
     Range(2, 5),      \* three windows, more than are kept
     Range(6, 1),      \* the short window
     Range(0, 6),      \* as long as the cache
     Range(4, 0), Range(7, 0), Range(6, 2)}
=============================================================================

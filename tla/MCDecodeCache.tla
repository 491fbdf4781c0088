--------------------------- MODULE MCDecodeCache ---------------------------
(***************************************************************************)
(* Files of two or three data groups over caches of two entries, so that   *)
(* entries are evicted by number and by size, alone and together.          *)
(***************************************************************************)
EXTENDS DecodeCache

Unsorted(bytes, records) ==
    [unsorted |-> TRUE, total |-> bytes, bytes |-> bytes, records |-> records]

Sorted(bytes) ==
    [unsorted |-> FALSE, total |-> bytes, bytes |-> bytes, records |-> <<bytes>>]

MCFiles ==
    {<<Unsorted(4, <<2, 2>>), Sorted(3)>>,     \* streams evict each other by size
     <<Sorted(2), Unsorted(3, <<1, 2>>)>>,     \* records by number
     <<Unsorted(9, <<1>>), Sorted(7)>>,        \* larger than the budget
     <<Unsorted(4, <<1>>), Unsorted(4, <<1>>), Unsorted(4, <<1>>)>>}  \* more seeds than the budget
=============================================================================

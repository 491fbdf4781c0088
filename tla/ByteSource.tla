----------------------------- MODULE ByteSource -----------------------------
(***************************************************************************)
(* What ByteSource::read_bytes promises the threads that share a source:   *)
(* a read is answered with exactly the bytes of its range or refused, a    *)
(* range past the end of the file is always refused, and every read is     *)
(* answered.  Which file it is never changes.                              *)
(***************************************************************************)
EXTENDS Naturals, Sequences

CONSTANTS
    Readers,    \* the threads that share the source
    File,       \* the bytes of the file
    Requests    \* the ranges they may ask for: [offset, len]

VARIABLES
    waiting,    \* the readers inside read_bytes
    request,    \* what each reader asked last
    answer      \* what it was given

sourceVars == <<waiting, request, answer>>

Refusal == [ok |-> FALSE, bytes |-> <<>>]

Given(bytes) == [ok |-> TRUE, bytes |-> bytes]

\* A read at the very end of the file is refused even when it asks for nothing.
InFile(q) == q.offset < Len(File) /\ q.offset + q.len <= Len(File)

BytesOf(q) == SubSeq(File, q.offset + 1, q.offset + q.len)

Init ==
    /\ waiting = {}
    /\ request = [r \in Readers |-> CHOOSE q \in Requests : TRUE]
    /\ answer = [r \in Readers |-> Refusal]

Ask(r) ==
    /\ r \notin waiting
    /\ waiting' = waiting \cup {r}
    /\ \E q \in Requests : request' = [request EXCEPT ![r] = q]
    /\ UNCHANGED answer

Serve(r) ==
    /\ r \in waiting
    /\ InFile(request[r])
    /\ waiting' = waiting \ {r}
    /\ answer' = [answer EXCEPT ![r] = Given(BytesOf(request[r]))]
    /\ UNCHANGED request

\* The bytes are not there, or the storage behind the source failed.
Refuse(r) ==
    /\ r \in waiting
    /\ InFile(request[r]) => request[r].len > 0
    /\ waiting' = waiting \ {r}
    /\ answer' = [answer EXCEPT ![r] = Refusal]
    /\ UNCHANGED request

Next == \E r \in Readers : Ask(r) \/ Serve(r) \/ Refuse(r)

SafeSpec == Init /\ [][Next]_sourceVars

Spec ==
    /\ SafeSpec
    /\ \A r \in Readers : WF_sourceVars(Serve(r) \/ Refuse(r))
=============================================================================

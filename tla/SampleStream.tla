---------------------------- MODULE SampleStream ----------------------------
(***************************************************************************)
(* What reading a channel in chunks promises: "the chunks together cover   *)
(* the same samples, in the same order, as signal() returns in one piece"  *)
(* (SignalChunks in stream.rs).  Opening a file fixes the samples; every   *)
(* chunk delivers the next few of them; a read error ends the promise, and *)
(* an iterator that ends without one has delivered them all.               *)
(***************************************************************************)
EXTENDS Naturals, Sequences

VARIABLES
    status,     \* "closed", "reading", "failed" or "ended"
    samples,    \* what signal() returns
    delivered   \* what the chunks have held so far, concatenated

streamVars == <<status, samples, delivered>>

Init ==
    /\ status = "closed"
    /\ samples = <<>>
    /\ delivered = <<>>

Open ==
    /\ status = "closed"
    /\ status' = "reading"
    /\ UNCHANGED delivered   \* samples' is whatever the file holds

Deliver ==
    /\ status = "reading"
    /\ \E n \in 1..(Len(samples) - Len(delivered)) :
           delivered' = SubSeq(samples, 1, Len(delivered) + n)
    /\ UNCHANGED <<status, samples>>

Fail ==
    /\ status \in {"closed", "reading"}
    /\ status' = "failed"
    /\ UNCHANGED <<samples, delivered>>

End ==
    /\ status = "reading"
    /\ delivered = samples
    /\ status' = "ended"
    /\ UNCHANGED <<samples, delivered>>

Next == Open \/ Deliver \/ Fail \/ End

Spec == Init /\ [][Next]_streamVars
=============================================================================

--------------------------- MODULE FrontEndProofs ---------------------------
(***************************************************************************)
(* Proofs about the programs around the library, part by part.             *)
(*                                                                         *)
(* BatchRun, for any queue, operation and folder, whether the worker may   *)
(* panic or not: what the panel has been told is a beginning of what       *)
(* happened, all of it when a run that nothing stopped is over, and no     *)
(* success is told of an output that is not there.                         *)
(*                                                                         *)
(* Viewer, however frames, loads, clicks and restarts interleave: what is  *)
(* plotted and what is on the X-Y axes are channels of files that are      *)
(* open; and a session that is remembered names the second file its        *)
(* channels are of, and is put back with no channel twice.  The inductive  *)
(* invariant is Viewer's ViewerInv.                                        *)
(*                                                                         *)
(* PlotPanel, for any files, formulas and number of computed channels:     *)
(* whatever edits and changes of file cross the decodes, what the panel    *)
(* shows is the formula over the file that is active.                      *)
(*                                                                         *)
(* WebFile, for any file, databases, formulas, sizes and bounds of the     *)
(* cache: however a page attaches, defines, removes and asks, the series   *)
(* kept are those used last that fit, no definition changes what another   *)
(* name answers, and the listings agree.                                   *)
(***************************************************************************)
EXTENDS Viewer, BatchRun, PlotPanel, WebFile, InductionFacts, SequenceTheorems, TLAPS

(***************************************************************************)
(* The batch.                                                              *)
(***************************************************************************)

(***************************************************************************)
(* The invariant.                                                          *)
(***************************************************************************)

Steps == {"check", "open", "write", "report", "closing", "exited", "dead"}

\* Reports of files, whichever files these are.
Reported == [file : Files, ok : BOOLEAN]

Messages ==
    [kind : {"started"}, item : Nat]
    \cup [kind : {"finished"}, outcome : Reported]
    \cup [kind : {"done"}]

BatchTypeOK ==
    /\ queue \in Queues
    /\ worker \in Steps
    /\ item \in 1..(Len(queue) + 1)
    /\ result \in BOOLEAN
    /\ done \in Seq(Reported)
    /\ chan \in Seq(Messages)
    /\ cancel \in BOOLEAN
    /\ outcomes \in Seq(Reported)
    /\ finished \in BOOLEAN
    /\ panel \in {"rest", "polling"}

\* The worker reports the files of the queue one by one, from the first.
InOrder ==
    /\ worker \in {"open", "write", "report", "dead"} => item <= Len(queue)
    /\ Len(done) = item - 1
    /\ \A k \in 1..(item - 1) : done[k].file = queue[k]

Over == worker \in {"closing", "exited"}

\* The messages are numbered: file k is started by number 2k - 1 and finished
\* by number 2k, and the end comes after these.
Sent == 2 * (item - 1) + IF worker = "check" THEN 0 ELSE 1
Received == Sent - Len(chan)

InTransit ==
    /\ Len(chan) <= Sent
    /\ \A i \in 1..Len(chan) :
          /\ (Over /\ i = Len(chan)) => chan[i].kind = "done"
          /\ ~(Over /\ i = Len(chan)) =>
                \A k \in 1..item :
                    /\ Received + i = 2 * k - 1 => chan[i].kind = "started"
                    /\ Received + i = 2 * k =>
                          chan[i].kind = "finished" /\ chan[i].outcome = done[k]

\* The panel has the outcomes of the messages it has received.
Told ==
    /\ 2 * Len(outcomes) <= Received
    /\ Received <= 2 * Len(outcomes) + 1
    /\ \A k \in 1..Len(outcomes) : outcomes[k] = done[k]

\* It takes the run to be over only when nothing more will come.
OverWhenTold ==
    /\ finished => chan = <<>> /\ worker \in {"closing", "exited", "dead"}
    /\ Over => cancel \/ item = Len(queue) + 1

Replaced(k) == \E j \in (k + 1)..item : j \in DOMAIN queue /\ OutputPath(queue[j]) = OutputPath(queue[k])

\* The outputs of the successes are there.
Written ==
    /\ \A k \in 1..(item - 1) : done[k].ok /\ ~Replaced(k) => OutputPath(queue[k]) \in complete
    /\ worker = "report" /\ result => OutputPath(queue[item]) \in complete

BatchInv == BatchTypeOK /\ InOrder /\ InTransit /\ Told /\ OverWhenTold /\ Written

(***************************************************************************)
(* Lemmas.                                                                 *)
(***************************************************************************)

\* A queue is a sequence of its files.
LEMMA QueueType ==
    ASSUME queue \in Queues
    PROVE  queue \in Seq(Files) /\ Len(queue) \in Nat /\ DOMAIN queue = 1..Len(queue)
<1>1. queue \in Seq(Files)
  BY BatchAssumption DEF Files
<1> QED
  BY <1>1, LenProperties

\* The three kinds of message.
LEMMA MessageKinds ==
    /\ \A k \in Nat : [kind |-> "started", item |-> k] \in Messages
    /\ \A o \in Reported : [kind |-> "finished", outcome |-> o] \in Messages
    /\ [kind |-> "done"] \in Messages
    /\ \A m \in Messages : m.kind = "finished" => m.outcome \in Reported
  BY DEF Messages

\* What the worker does with nothing but itself and the outputs leaves the
\* rest of the invariant as it is, when it is as far with its messages.
LEMMA IdleStep ==
    ASSUME BatchInv, UNCHANGED <<queue, item, done, chan, cancel, outcomes, finished, panel>>,
           worker' \in Steps, result' \in BOOLEAN,
           worker # "check", worker' # "check", worker \notin {"closing"},
           worker' \notin {"closing", "exited"} \/ worker' = worker,
           worker = "exited" => worker' = "exited",
           worker = "dead" => worker' = "dead"
    PROVE  BatchTypeOK' /\ InOrder' /\ InTransit' /\ Told' /\ OverWhenTold'
<1>1. UNCHANGED <<Files, Reported, Messages>>
  BY DEF Files, Reported, Messages
<1>2. BatchTypeOK'
  BY <1>1 DEF BatchInv, BatchTypeOK
<1>3. InOrder'
  BY DEF BatchInv, InOrder, BatchTypeOK, Steps
<1>4. (Over' <=> Over) /\ Sent' = Sent /\ Received' = Received
  BY DEF BatchInv, BatchTypeOK, Over, Sent, Received, Steps
<1>5. InTransit'
  BY <1>4 DEF BatchInv, InTransit
<1>6. Told'
  BY <1>4 DEF BatchInv, Told
<1>7. OverWhenTold'
  BY <1>4 DEF BatchInv, OverWhenTold, BatchTypeOK, Steps, Over
<1> QED
  BY <1>2, <1>3, <1>5, <1>6, <1>7

\* A longer sequence of messages, or of reports.
LEMMA Longer ==
    ASSUME NEW S, NEW s \in Seq(S), NEW m \in S
    PROVE  /\ Append(s, m) \in Seq(S)
           /\ Len(s) \in Nat
           /\ Len(Append(s, m)) = Len(s) + 1
           /\ \A i \in 1..Len(s) : Append(s, m)[i] = s[i]
           /\ Append(s, m)[Len(s) + 1] = m
  BY AppendProperties, LenProperties

\* A message that is sent comes behind those in transit.
LEMMA SentBehind ==
    ASSUME BatchInv, NEW m \in Messages,
           chan' = Append(chan, m),
           Sent' = Sent + 1,
           ~Over,
           item' \in 1..(Len(queue) + 1), item <= item',
           \A k \in 1..(item - 1) : done'[k] = done[k],
           Over' => m.kind = "done",
           ~Over' => \A k \in 1..item' :
                        /\ Sent + 1 = 2 * k - 1 => m.kind = "started"
                        /\ Sent + 1 = 2 * k => m.kind = "finished" /\ m.outcome = done'[k]
    PROVE  InTransit'
<1>1. /\ chan \in Seq(Messages) /\ Len(chan) \in Nat /\ item \in Nat
      /\ Sent \in Nat /\ Sent <= 2 * item - 1
  BY LenProperties, QueueType DEF BatchInv, BatchTypeOK, Sent, Steps
<1>2. /\ Len(chan') = Len(chan) + 1
      /\ \A i \in 1..Len(chan) : chan'[i] = chan[i]
      /\ chan'[Len(chan) + 1] = m
  BY <1>1, Longer
<1>3. Received' = Received /\ Received = Sent - Len(chan)
  BY <1>1, <1>2 DEF Received
<1>4. Len(chan') <= Sent'
  BY <1>1, <1>2 DEF BatchInv, InTransit
<1>5. ASSUME NEW i \in 1..Len(chan')
      PROVE  /\ (Over' /\ i = Len(chan')) => chan'[i].kind = "done"
             /\ ~(Over' /\ i = Len(chan')) =>
                   \A k \in 1..item' :
                       /\ Received' + i = 2 * k - 1 => chan'[i].kind = "started"
                       /\ Received' + i = 2 * k =>
                             chan'[i].kind = "finished" /\ chan'[i].outcome = done'[k]
  <2>1. CASE i = Len(chan) + 1
    <3>1. Received' + i = Sent + 1
      BY <1>1, <1>3, <2>1
    <3> QED
      BY <3>1, <2>1, <1>2
  <2>2. CASE i \in 1..Len(chan)
    <3>1. chan'[i] = chan[i] /\ i # Len(chan')
      BY <2>2, <1>1, <1>2
    <3>2. ASSUME NEW k \in 1..item'
          PROVE  /\ Received' + i = 2 * k - 1 => chan'[i].kind = "started"
                 /\ Received' + i = 2 * k =>
                       chan'[i].kind = "finished" /\ chan'[i].outcome = done'[k]
      <4>1. CASE k \in 1..item
        <5>1. Received + i <= Sent
          BY <1>1, <1>3, <2>2
        <5>2. Received + i = 2 * k => k \in 1..(item - 1)
          BY <5>1, <1>1, <4>1
        <5> QED
          BY <5>2, <4>1, <3>1, <1>3, <2>2 DEF BatchInv, InTransit
      <4>2. CASE k > item
        <5>1. Received + i <= Sent
          BY <1>1, <1>3, <2>2
        <5>3. 2 * k - 1 > Sent
          BY <4>2, <1>1
        <5> QED
          BY <5>1, <5>3, <1>1, <1>3, <2>2
      <4> QED
        BY <4>1, <4>2, <1>1
    <3> QED
      BY <3>1, <3>2
  <2>3. i = Len(chan) + 1 \/ i \in 1..Len(chan)
    BY <1>1, <1>2
  <2> QED
    BY <2>1, <2>2, <2>3
<1> QED
  BY <1>4, <1>5 DEF InTransit

(***************************************************************************)
(* Every step keeps the invariant.                                         *)
(***************************************************************************)

LEMMA BatchBegins == BatchInit => BatchInv
<1> SUFFICES ASSUME BatchInit
             PROVE  BatchInv
  OBVIOUS
<1>1. Len(queue) \in Nat /\ item = 1
  BY QueueType DEF BatchInit
<1>2. Len(done) = 0 /\ Len(chan) = 0 /\ Len(outcomes) = 0
  BY DEF BatchInit
<1>3. BatchTypeOK
  <2>1. done \in Seq(Reported) /\ chan \in Seq(Messages) /\ outcomes \in Seq(Reported)
    BY DEF BatchInit
  <2> QED
    <3>1. item \in 1..(Len(queue) + 1)
      BY <1>1
    <3> QED
      BY ONLY <3>1, <2>1, BatchInit DEF BatchInit, BatchTypeOK, Steps
<1>4. InOrder
  BY <1>1, <1>2 DEF BatchInit, InOrder
<1>5. InTransit /\ Told
  <2>1. Sent = 0
    BY <1>1 DEF BatchInit, Sent
  <2>2. Received = 0
    BY <2>1, <1>2 DEF Received
  <2> QED
    BY <2>1, <2>2, <1>2 DEF InTransit, Told
<1>6. OverWhenTold
  BY DEF BatchInit, OverWhenTold, Over
<1>7. Written
  BY <1>1 DEF BatchInit, Written
<1> QED
  BY <1>3, <1>4, <1>5, <1>6, <1>7 DEF BatchInv

\* The outputs are judged by these variables only.
LEMMA WrittenStays ==
    ASSUME Written, UNCHANGED <<job, item, done, complete>>,
           worker' = "report" /\ result' =>
               worker = "report" /\ result
    PROVE  Written'
<1>1. /\ \A k : OutputPath(queue[k])' = OutputPath(queue[k])
      /\ \A k : Replaced(k)' = Replaced(k)
      /\ OutputPath(queue[item])' = OutputPath(queue[item])
  BY DEF OutputPath, Replaced, job
<1> QED
  BY <1>1 DEF Written, job

LEMMA WorkerKeeps ==
    ASSUME BatchInv, FileFails \/ CreateOutput \/ WriteOutput \/ WriteFails \/ Panic
    PROVE  BatchInv'
<1> USE DEF job, panelVars
<1>1. BatchTypeOK' /\ InOrder' /\ InTransit' /\ Told' /\ OverWhenTold'
  <2>1. /\ UNCHANGED <<queue, item, done, chan, cancel, outcomes, finished, panel>>
        /\ worker' \in Steps /\ result' \in BOOLEAN
        /\ worker \in {"open", "write"} /\ worker' \in {"write", "report", "dead"}
    BY DEF FileFails, CreateOutput, WriteOutput, WriteFails, Panic, BatchInv, BatchTypeOK, Steps
  <2> QED
    BY <2>1, IdleStep
<1>2. Written'
  <2>1. CASE FileFails \/ WriteFails \/ Panic
    BY <2>1, WrittenStays DEF FileFails, WriteFails, Panic, BatchInv
  <2>2. CASE CreateOutput
    <3>1. /\ UNCHANGED <<queue, op, outDir, item, done>>
          /\ worker' = "write"
          /\ complete' = complete \ {OutputPath(queue[item])}
      BY <2>2 DEF CreateOutput
    <3>2. item \in DOMAIN queue /\ item \in Nat
      BY <2>2, QueueType DEF CreateOutput, BatchInv, BatchTypeOK, InOrder
    <3>3. ASSUME NEW k \in 1..(item' - 1), done'[k].ok, ~Replaced(k)'
          PROVE  OutputPath(queue[k])' \in complete'
      <4>1. OutputPath(queue[k])' = OutputPath(queue[k]) /\ ~Replaced(k)
        BY <3>1, <3>3 DEF OutputPath, Replaced
      <4>2. OutputPath(queue[k]) # OutputPath(queue[item])
        <5>1. item \in (k + 1)..item /\ item \in DOMAIN queue
          BY <3>1, <3>2, <3>3
        <5> QED
          BY <5>1, <4>1 DEF Replaced
      <4>3. OutputPath(queue[k]) \in complete
        BY <4>1, <3>1, <3>3 DEF BatchInv, Written
      <4> QED
        BY <4>1, <4>2, <4>3, <3>1
    <3> QED
      BY <3>1, <3>3 DEF Written
  <2>3. CASE WriteOutput
    <3>1. /\ UNCHANGED <<queue, op, outDir, item, done>>
          /\ complete' = complete \cup {OutputPath(queue[item])}
      BY <2>3 DEF WriteOutput
    <3>2. /\ \A k : OutputPath(queue[k])' = OutputPath(queue[k])
          /\ \A k : Replaced(k)' = Replaced(k)
          /\ OutputPath(queue[item])' = OutputPath(queue[item])
      BY <3>1 DEF OutputPath, Replaced
    <3> QED
      BY <3>1, <3>2 DEF Written, BatchInv
  <2> QED
    BY <2>1, <2>2, <2>3
<1> QED
  BY <1>1, <1>2 DEF BatchInv

\* Neither the worker nor the channel: the repaint, the frames, the Cancel
\* button and the end of a poll.
LEMMA PanelKeeps ==
    ASSUME BatchInv,
           UNCHANGED <<job, workerVars, chan, outcomes>>,
           cancel' \in BOOLEAN, finished' \in BOOLEAN, panel' \in {"rest", "polling"},
           cancel => cancel',
           finished' => finished \/ (chan = <<>> /\ Hungup)
    PROVE  BatchInv'
<1> USE DEF job, workerVars
<1>1. UNCHANGED <<Files, Reported, Messages, Over, Sent, Received>>
  BY DEF Files, Reported, Messages, Over, Sent, Received
<1>2. BatchTypeOK'
  BY <1>1 DEF BatchInv, BatchTypeOK
<1>3. InOrder' /\ InTransit' /\ Told'
  BY <1>1 DEF BatchInv, InOrder, InTransit, Told
<1>4. OverWhenTold'
  BY <1>1 DEF BatchInv, OverWhenTold, Hungup
<1>5. Written'
  BY WrittenStays DEF BatchInv
<1> QED
  BY <1>2, <1>3, <1>4, <1>5 DEF BatchInv

LEMMA ExitKeeps == BatchInv /\ Exit => BatchInv'
<1> SUFFICES ASSUME BatchInv, Exit
             PROVE  BatchInv'
  OBVIOUS
<1> USE DEF job, panelVars
<1>1. /\ UNCHANGED <<queue, item, done, chan, cancel, outcomes, finished, panel>>
      /\ UNCHANGED <<job, complete, result>>
      /\ worker = "closing" /\ worker' = "exited"
  BY DEF Exit
<1>2. UNCHANGED <<Files, Reported, Messages, Over, Sent, Received>>
  BY <1>1 DEF Files, Reported, Messages, Over, Sent, Received
<1>3. BatchTypeOK'
  BY <1>1, <1>2 DEF BatchInv, BatchTypeOK, Steps
<1>4. InOrder' /\ InTransit' /\ Told' /\ OverWhenTold'
  BY <1>1, <1>2 DEF BatchInv, InOrder, InTransit, Told, OverWhenTold
<1>5. Written'
  BY <1>1, WrittenStays DEF BatchInv
<1> QED
  BY <1>3, <1>4, <1>5 DEF BatchInv

\* A message is sent: the worker goes on, the panel knows nothing of it yet.
LEMMA SendKeeps ==
    ASSUME BatchInv, InTransit', InOrder',
           NEW m \in Messages, chan' = Append(chan, m), Sent' = Sent + 1,
           worker \notin {"closing", "exited", "dead"}, worker' \in Steps,
           item' \in 1..(Len(queue) + 1), done' \in Seq(Reported),
           \A k \in 1..Len(done) : done'[k] = done[k],
           Over' => cancel \/ item' = Len(queue) + 1,
           UNCHANGED <<job, result, cancel, panel, outcomes, finished>>
    PROVE  BatchTypeOK' /\ Told' /\ OverWhenTold'
<1> USE DEF job
<1>1. UNCHANGED <<Files, Reported, Messages>>
  BY DEF Files, Reported, Messages
<1>2. /\ chan \in Seq(Messages) /\ Len(chan) \in Nat /\ Len(outcomes) \in Nat
      /\ Len(done) \in Nat /\ Len(queue) \in Nat
  BY LenProperties, QueueType DEF BatchInv, BatchTypeOK
<1>3. chan' \in Seq(Messages) /\ Len(chan') = Len(chan) + 1
  BY <1>2, Longer
<1>4. BatchTypeOK'
  BY <1>1, <1>3 DEF BatchInv, BatchTypeOK
<1>5. Told'
  <2>1. Sent \in Nat /\ Sent <= 2 * Len(done) + 1
    BY <1>2 DEF Sent, BatchInv, InOrder, BatchTypeOK
  <2>2. Received' = Received /\ Received = Sent - Len(chan)
    BY <2>1, <1>2, <1>3 DEF Received
  <2>3. Len(outcomes) <= Len(done)
    BY <2>1, <2>2, <1>2 DEF BatchInv, Told
  <2>4. \A k \in 1..Len(outcomes) : done'[k] = done[k]
    BY <2>3, <1>2
  <2> QED
    BY <2>2, <2>4 DEF BatchInv, Told
<1>6. OverWhenTold'
  BY DEF BatchInv, OverWhenTold
<1> QED
  BY <1>4, <1>5, <1>6

LEMMA StartFileKeeps == BatchInv /\ StartFile => BatchInv'
<1> SUFFICES ASSUME BatchInv, StartFile
             PROVE  BatchInv'
  OBVIOUS
<1> DEFINE m == [kind |-> "started", item |-> item]
<1>1. /\ chan' = Append(chan, m)
      /\ worker = "check" /\ worker' = "open" /\ item <= Len(queue)
      /\ UNCHANGED <<job, item, result, done, complete, cancel, panel, outcomes, finished>>
      /\ UNCHANGED queue
  BY DEF StartFile, Send, panelVars, job
<1>2. item \in 1..(Len(queue) + 1) /\ Len(queue) \in Nat /\ item \in Nat
  BY QueueType DEF BatchInv, BatchTypeOK
<1>3. m \in Messages /\ m.kind = "started"
  BY <1>2, MessageKinds
<1> HIDE DEF m
<1>4. ~Over /\ ~Over'
  BY <1>1 DEF Over
<1>5. Sent = 2 * (item - 1) /\ Sent' = Sent + 1
  BY <1>1, <1>2 DEF Sent
<1>6. InOrder'
  BY <1>1 DEF BatchInv, InOrder
<1>7. InTransit'
  <2>1. \A k \in 1..item' :
            /\ Sent + 1 = 2 * k - 1 => m.kind = "started"
            /\ Sent + 1 = 2 * k => m.kind = "finished" /\ m.outcome = done'[k]
    BY <1>1, <1>2, <1>3, <1>5
  <2> QED
    BY <2>1, <1>1, <1>2, <1>3, <1>4, <1>5, SentBehind
<1>8. BatchTypeOK' /\ Told' /\ OverWhenTold'
  <2>1. done' \in Seq(Reported)
    BY <1>1 DEF BatchInv, BatchTypeOK
  <2> QED
    BY <2>1, <1>1, <1>2, <1>3, <1>4, <1>5, <1>6, <1>7, SendKeeps DEF Steps
<1>9. Written'
  BY <1>1, WrittenStays DEF BatchInv
<1> QED
  BY <1>6, <1>7, <1>8, <1>9 DEF BatchInv

LEMMA EndOfQueueKeeps == BatchInv /\ EndOfQueue => BatchInv'
<1> SUFFICES ASSUME BatchInv, EndOfQueue
             PROVE  BatchInv'
  OBVIOUS
<1> DEFINE m == [kind |-> "done"]
<1>1. /\ chan' = Append(chan, m)
      /\ worker = "check" /\ worker' = "closing" /\ (item > Len(queue) \/ cancel)
      /\ UNCHANGED <<job, item, result, done, complete, cancel, panel, outcomes, finished>>
      /\ UNCHANGED queue
  BY DEF EndOfQueue, Send, panelVars, job
<1>2. item \in 1..(Len(queue) + 1) /\ Len(queue) \in Nat /\ item \in Nat
  BY QueueType DEF BatchInv, BatchTypeOK
<1>3. m \in Messages /\ m.kind = "done"
  BY MessageKinds
<1> HIDE DEF m
<1>4. ~Over /\ Over'
  BY <1>1 DEF Over
<1>5. Sent = 2 * (item - 1) /\ Sent' = Sent + 1
  BY <1>1, <1>2 DEF Sent
<1>6. InOrder'
  BY <1>1 DEF BatchInv, InOrder
<1>7. InTransit'
  BY <1>1, <1>2, <1>3, <1>4, <1>5, SentBehind
<1>8. BatchTypeOK' /\ Told' /\ OverWhenTold'
  <2>1. done' \in Seq(Reported)
    BY <1>1 DEF BatchInv, BatchTypeOK
  <2>2. cancel \/ item' = Len(queue) + 1
    BY <1>1, <1>2
  <2> QED
    BY <2>1, <2>2, <1>1, <1>2, <1>3, <1>4, <1>5, <1>6, <1>7, SendKeeps DEF Steps
<1>9. Written'
  BY <1>1, WrittenStays DEF BatchInv
<1> QED
  BY <1>6, <1>7, <1>8, <1>9 DEF BatchInv

LEMMA ReportKeeps == BatchInv /\ Report => BatchInv'
<1> SUFFICES ASSUME BatchInv, Report
             PROVE  BatchInv'
  OBVIOUS
<1> DEFINE o == Outcome(item, result)
           m == [kind |-> "finished", outcome |-> o]
<1>1. /\ chan' = Append(chan, m)
      /\ done' = Append(done, o)
      /\ item' = item + 1
      /\ worker = "report" /\ worker' = "check"
      /\ UNCHANGED <<job, result, complete, cancel, panel, outcomes, finished>>
      /\ UNCHANGED <<queue, op, outDir>>
  BY DEF Report, Send, NextItem, panelVars, job
<1>2. /\ item \in 1..Len(queue) /\ Len(queue) \in Nat /\ item \in Nat
      /\ DOMAIN queue = 1..Len(queue)
  BY <1>1, QueueType DEF BatchInv, BatchTypeOK, InOrder
<1>3. o \in Reported /\ o.file = queue[item] /\ o.ok = result
  <2>1. queue[item] \in Files /\ result \in BOOLEAN
    BY <1>2 DEF Files, BatchInv, BatchTypeOK
  <2> QED
    BY <2>1 DEF Outcome, Reported
<1> HIDE DEF o
<1>4. m \in Messages /\ m.kind = "finished" /\ m.outcome = o
  BY <1>3, MessageKinds
<1> HIDE DEF m
<1>5. /\ done' \in Seq(Reported) /\ Len(done) = item - 1 /\ Len(done') = item
      /\ \A k \in 1..(item - 1) : done'[k] = done[k]
      /\ done'[item] = o
  <2>1. done \in Seq(Reported) /\ Len(done) = item - 1
    BY DEF BatchInv, BatchTypeOK, InOrder
  <2> QED
    BY <2>1, <1>1, <1>2, <1>3, Longer
<1>6. ~Over /\ ~Over'
  BY <1>1 DEF Over
<1>7. Sent = 2 * (item - 1) + 1 /\ Sent' = Sent + 1
  BY <1>1, <1>2 DEF Sent
<1>8. InOrder'
  <2>1. \A k \in 1..(item' - 1) : done'[k].file = queue'[k]
    <3>1. \A k \in 1..(item - 1) : done'[k].file = queue[k]
      BY <1>5 DEF BatchInv, InOrder
    <3> QED
      BY <3>1, <1>1, <1>2, <1>3, <1>5
  <2> QED
    BY <2>1, <1>1, <1>2, <1>5 DEF InOrder
<1>9. InTransit'
  <2>1. \A k \in 1..item' :
            /\ Sent + 1 = 2 * k - 1 => m.kind = "started"
            /\ Sent + 1 = 2 * k => m.kind = "finished" /\ m.outcome = done'[k]
    <3>1. ASSUME NEW k \in 1..item'
          PROVE  Sent + 1 # 2 * k - 1 /\ (Sent + 1 = 2 * k => k = item)
      BY <1>1, <1>2, <1>7
    <3> QED
      BY <3>1, <1>4, <1>5
  <2>2. item' \in 1..(Len(queue) + 1) /\ item <= item'
    BY <1>1, <1>2
  <2> QED
    BY <2>1, <2>2, <1>1, <1>4, <1>5, <1>6, <1>7, SentBehind
<1>10. BatchTypeOK' /\ Told' /\ OverWhenTold'
  <2>1. item' \in 1..(Len(queue) + 1)
    BY <1>1, <1>2
  <2> QED
    BY <2>1, <1>1, <1>4, <1>5, <1>6, <1>7, <1>8, <1>9, SendKeeps DEF Steps
<1>11. Written'
  <2>1. ASSUME NEW k \in 1..(item' - 1), done'[k].ok, ~Replaced(k)'
        PROVE  OutputPath(queue[k])' \in complete'
    <3>1. OutputPath(queue[k])' = OutputPath(queue[k])
      BY <1>1 DEF OutputPath
    <3>2. CASE k = item
      BY <3>1, <3>2, <2>1, <1>1, <1>3, <1>5 DEF BatchInv, Written
    <3>3. CASE k # item
      <4>1. k \in 1..(item - 1)
        BY <3>3, <1>1, <1>2
      <4>2. ~Replaced(k)
        <5>1. SUFFICES ASSUME NEW j \in (k + 1)..item, j \in DOMAIN queue,
                              OutputPath(queue[j]) = OutputPath(queue[k])
                       PROVE  FALSE
          BY DEF Replaced
        <5>2. j \in (k + 1)..item'
          BY <1>1, <1>2
        <5> QED
          BY <5>1, <5>2, <2>1, <1>1 DEF Replaced, OutputPath
      <4> QED
        BY <4>1, <4>2, <3>1, <2>1, <1>1, <1>5 DEF BatchInv, Written
    <3> QED
      BY <3>2, <3>3
  <2> QED
    BY <2>1, <1>1 DEF Written
<1> QED
  BY <1>8, <1>9, <1>10, <1>11 DEF BatchInv

\* The message the panel takes is the next one: a start when it has as many
\* outcomes as starts, else the end of the file under way.
LEMMA NextMessage ==
    ASSUME BatchInv, chan # <<>>
    PROVE  /\ Received = 2 * Len(outcomes) =>
                  chan[1].kind = IF Over /\ Len(chan) = 1 THEN "done" ELSE "started"
           /\ Received = 2 * Len(outcomes) + 1 =>
                  /\ ~(Over /\ Len(chan) = 1)
                  /\ chan[1].kind = "finished"
                  /\ chan[1].outcome = done[Len(outcomes) + 1]
<1>1. /\ chan \in Seq(Messages) /\ Len(chan) \in Nat \ {0} /\ Len(outcomes) \in Nat
      /\ item \in Nat /\ 1 \in 1..Len(chan)
  <2>1. chan \in Seq(Messages) /\ outcomes \in Seq(Reported) /\ item \in Nat
    BY QueueType DEF BatchInv, BatchTypeOK
  <2>2. Len(chan) # 0
    BY <2>1, EmptySeq
  <2> QED
    BY <2>1, <2>2, LenProperties
<1>2. /\ Sent = 2 * item - 1 \/ Sent = 2 * item - 2
      /\ Over => Sent = 2 * item - 1
      /\ Received = Sent - Len(chan)
  BY <1>1 DEF Sent, Received, Over
<1>3. CASE Received = 2 * Len(outcomes)
  <2> DEFINE k == Len(outcomes) + 1
  <2>1. k \in 1..item /\ Received + 1 = 2 * k - 1
    BY <1>1, <1>2, <1>3
  <2> HIDE DEF k
  <2>2. ~(Over /\ 1 = Len(chan)) => chan[1].kind = "started"
    BY <2>1, <1>1 DEF BatchInv, InTransit
  <2>3. (Over /\ 1 = Len(chan)) => chan[1].kind = "done"
    BY <1>1 DEF BatchInv, InTransit
  <2> QED
    BY <2>2, <2>3, <1>3, <1>1
<1>4. CASE Received = 2 * Len(outcomes) + 1
  <2> DEFINE k == Len(outcomes) + 1
  <2>1. k \in 1..item /\ Received + 1 = 2 * k
    BY <1>1, <1>2, <1>4
  <2>3. ~(Over /\ 1 = Len(chan))
    <3>1. SUFFICES ASSUME Over, Len(chan) = 1
                   PROVE  FALSE
      OBVIOUS
    <3>2. Received = 2 * (item - 1)
      BY <3>1, <1>1, <1>2
    <3> QED
      BY <3>2, <1>4, <1>1
  <2>2. chan[1].kind = "finished" /\ chan[1].outcome = done[k]
    <3> HIDE DEF k
    <3> QED
      BY <2>1, <2>3, <1>1 DEF BatchInv, InTransit
  <2> QED
    BY <2>2, <2>3, <1>4, <1>1
<1> QED
  BY <1>3, <1>4

LEMMA ReceiveKeeps == BatchInv /\ Receive => BatchInv'
<1> SUFFICES ASSUME BatchInv, Receive
             PROVE  BatchInv'
  OBVIOUS
<1> USE DEF job, workerVars
<1>1. /\ chan # <<>> /\ chan' = Tail(chan)
      /\ outcomes' = OutcomesAfter(Head(chan))
      /\ finished' = (finished \/ Head(chan).kind = "done")
      /\ UNCHANGED <<job, workerVars, cancel, panel>>
  BY DEF Receive
<1>2. UNCHANGED <<Files, Reported, Messages, Over, Sent>>
  BY <1>1 DEF Files, Reported, Messages, Over, Sent
<1>3. /\ chan \in Seq(Messages) /\ outcomes \in Seq(Reported) /\ done \in Seq(Reported)
      /\ item \in Nat
  BY QueueType DEF BatchInv, BatchTypeOK
<1>4. /\ Len(chan) \in Nat \ {0} /\ Len(outcomes) \in Nat /\ Head(chan) = chan[1]
      /\ chan[1] \in Messages
      /\ Tail(chan) \in Seq(Messages) /\ Len(Tail(chan)) = Len(chan) - 1
      /\ \A i \in 1..Len(Tail(chan)) : i + 1 \in 1..Len(chan) /\ Tail(chan)[i] = chan[i + 1]
  <2>1. Len(chan) # 0 /\ Len(chan) \in Nat /\ Len(outcomes) \in Nat
    BY <1>1, <1>3, EmptySeq, LenProperties
  <2>2. 1 \in 1..Len(chan) /\ Head(chan) = chan[1]
    BY <2>1, <1>3
  <2>3. chan[1] \in Messages
    BY <2>2, <1>3, ElementOfSeq
  <2> QED
    BY <2>1, <2>2, <2>3, <1>1, <1>3, HeadTailProperties
<1>5. Sent \in Nat /\ Received = Sent - Len(chan) /\ Received' = Received + 1
  <2>1. item \in Nat \ {0}
    BY <1>3 DEF BatchInv, BatchTypeOK
  <2>2. Sent \in Nat
    BY <2>1 DEF Sent
  <2>3. Len(chan') = Len(chan) - 1
    BY <1>1, <1>4
  <2> QED
    BY <2>2, <2>3, <1>2, <1>4 DEF Received
<1>6. \/ Received = 2 * Len(outcomes)
      \/ Received = 2 * Len(outcomes) + 1
  BY <1>4, <1>5 DEF BatchInv, Told
<1>7. InTransit'
  <2>1. Len(chan') <= Sent'
    <3>1. Len(chan) <= Sent
      BY DEF BatchInv, InTransit
    <3> QED
      BY <3>1, <1>1, <1>2, <1>4, <1>5
  <2>2. ASSUME NEW i \in 1..Len(chan')
        PROVE  /\ i + 1 \in 1..Len(chan) /\ chan'[i] = chan[i + 1]
               /\ Received' + i = Received + (i + 1)
               /\ i = Len(chan') <=> i + 1 = Len(chan)
    BY <1>1, <1>4, <1>5
  <2>3. ASSUME NEW j \in 1..Len(chan)
        PROVE  /\ (Over /\ j = Len(chan)) => chan[j].kind = "done"
               /\ ~(Over /\ j = Len(chan)) =>
                     \A k \in 1..item :
                         /\ Received + j = 2 * k - 1 => chan[j].kind = "started"
                         /\ Received + j = 2 * k =>
                               chan[j].kind = "finished" /\ chan[j].outcome = done[k]
    BY DEF BatchInv, InTransit
  <2>4. ASSUME NEW i \in 1..Len(chan')
        PROVE  /\ (Over' /\ i = Len(chan')) => chan'[i].kind = "done"
               /\ ~(Over' /\ i = Len(chan')) =>
                     \A k \in 1..item' :
                         /\ Received' + i = 2 * k - 1 => chan'[i].kind = "started"
                         /\ Received' + i = 2 * k =>
                               chan'[i].kind = "finished" /\ chan'[i].outcome = done'[k]
    <3> DEFINE j == i + 1
    <3>1. /\ j \in 1..Len(chan) /\ chan'[i] = chan[j] /\ Received' + i = Received + j
          /\ i = Len(chan') <=> j = Len(chan)
      BY <2>2
    <3> HIDE DEF j
    <3> QED
      BY <3>1, <2>3, <1>1, <1>2
  <2> QED
    BY <2>1, <2>4 DEF InTransit
<1>8. /\ outcomes' \in Seq(Reported)
      /\ 2 * Len(outcomes') <= Received' /\ Received' <= 2 * Len(outcomes') + 1
      /\ \A k \in 1..Len(outcomes') : outcomes'[k] = done[k]
  <2>1. CASE Received = 2 * Len(outcomes)
    <3>1. outcomes' = outcomes
      BY <2>1, <1>1, <1>4, NextMessage DEF OutcomesAfter
    <3> QED
      BY <3>1, <2>1, <1>3, <1>4, <1>5 DEF BatchInv, Told
  <2>2. CASE Received = 2 * Len(outcomes) + 1
    <3>1. outcomes' = Append(outcomes, chan[1].outcome) /\ chan[1].outcome = done[Len(outcomes) + 1]
      BY <2>2, <1>1, <1>4, NextMessage DEF OutcomesAfter
    <3>2. chan[1].outcome \in Reported
      <4>1. chan[1].kind = "finished"
        BY <2>2, <1>1, NextMessage
      <4> QED
        BY <4>1, <1>4, MessageKinds
    <3>3. /\ outcomes' \in Seq(Reported) /\ Len(outcomes') = Len(outcomes) + 1
          /\ \A k \in 1..Len(outcomes) : outcomes'[k] = outcomes[k]
          /\ outcomes'[Len(outcomes) + 1] = done[Len(outcomes) + 1]
      BY <3>1, <3>2, <1>3, Longer
    <3>4. \A k \in 1..Len(outcomes') : outcomes'[k] = done[k]
      <4>1. \A k \in 1..Len(outcomes) : outcomes'[k] = done[k]
        BY <3>3 DEF BatchInv, Told
      <4> QED
        BY <4>1, <3>3, <1>4
    <3> QED
      BY <3>3, <3>4, <2>2, <1>4, <1>5
  <2> QED
    BY <2>1, <2>2, <1>6
<1>9. OverWhenTold'
  <2>1. ~finished
    BY <1>1 DEF BatchInv, OverWhenTold
  <2>2. ASSUME chan[1].kind = "done"
        PROVE  Over /\ Len(chan) = 1
    BY <2>2, <1>1, <1>6, NextMessage
  <2>3. Len(chan) = 1 => chan' = <<>>
    BY <1>1, <1>4, EmptySeq
  <2> QED
    BY <2>1, <2>2, <2>3, <1>1, <1>2, <1>4 DEF BatchInv, OverWhenTold, Over
<1>10. BatchTypeOK'
  <2>1. finished' \in BOOLEAN
    BY <1>1 DEF BatchInv, BatchTypeOK
  <2> QED
    BY <2>1, <1>1, <1>2, <1>4, <1>8 DEF BatchInv, BatchTypeOK
<1>11. InOrder' /\ Written' /\ Told'
  <2>1. InOrder'
    BY <1>1 DEF BatchInv, InOrder
  <2>2. Written'
    BY <1>1, WrittenStays DEF BatchInv
  <2>3. Told'
    BY <1>1, <1>8 DEF Told
  <2> QED
    BY <2>1, <2>2, <2>3
<1> QED
  BY <1>7, <1>9, <1>10, <1>11 DEF BatchInv

\* A step of the worker, of the panel, or neither.
LEMMA BatchStepKeeps == BatchInv /\ [BatchNext]_batchVars => BatchInv'
<1> SUFFICES ASSUME BatchInv, [BatchNext]_batchVars
             PROVE  BatchInv'
  OBVIOUS
<1>1. cancel \in BOOLEAN /\ finished \in BOOLEAN /\ panel \in {"rest", "polling"}
  BY DEF BatchInv, BatchTypeOK
<1>2. CASE RequestRepaint
  BY <1>1, <1>2, PanelKeeps DEF RequestRepaint, panelVars
<1>3. CASE StartFile \/ EndOfQueue \/ Exit \/ Report
  BY <1>3, StartFileKeeps, EndOfQueueKeeps, ExitKeeps, ReportKeeps
<1>4. CASE FileFails \/ CreateOutput \/ WriteOutput \/ WriteFails \/ Panic
  BY <1>4, WorkerKeeps
<1>5. CASE WokenFrame \/ IdleFrame
  BY <1>1, <1>5, PanelKeeps DEF WokenFrame, IdleFrame, BeginFrame
<1>6. CASE Receive
  BY <1>6, ReceiveKeeps
<1>7. CASE NothingYet
  BY <1>1, <1>7, PanelKeeps DEF NothingYet
<1>8. CASE Disconnected
  BY <1>1, <1>8, PanelKeeps DEF Disconnected
<1>9. CASE Cancel
  BY <1>1, <1>9, PanelKeeps DEF Cancel, panelVars
<1>10. CASE UNCHANGED batchVars
  BY <1>1, <1>10, PanelKeeps DEF batchVars, panelVars
<1> QED
  BY <1>2, <1>3, <1>4, <1>5, <1>6, <1>7, <1>8, <1>9, <1>10 DEF BatchNext, Work, Poll

(***************************************************************************)
(* The theorems.                                                           *)
(***************************************************************************)

\* Where worker and panel are, the messages between them are the next of one
\* fixed sequence, and what has been written is what has been told of.
THEOREM BatchInvariant == BatchSpec => []BatchInv
<1>1. BatchInit => BatchInv
  BY BatchBegins
<1>2. BatchInv /\ [BatchNext]_batchVars => BatchInv'
  BY BatchStepKeeps
<1> QED
  BY <1>1, <1>2, PTL DEF BatchSpec

\* A run that nothing stopped tells of every file of its queue, and tells of no
\* success whose output is not there ("the run continues": run_all).
THEOREM BatchTellsTheTruth == BatchSpec => []OutcomesAreTrue
<1>1. BatchInv => OutcomesAreTrue
  <2> SUFFICES ASSUME BatchInv
               PROVE  OutcomesAreTrue
    OBVIOUS
  <2>1. /\ item \in Nat \ {0} /\ Len(queue) \in Nat /\ Len(outcomes) \in Nat
        /\ Len(done) = item - 1 /\ DOMAIN done = 1..(item - 1)
    <3>1. outcomes \in Seq(Reported) /\ done \in Seq(Reported) /\ Len(done) = item - 1
      BY DEF BatchInv, BatchTypeOK, InOrder
    <3> QED
      BY <3>1, LenProperties, QueueType DEF BatchInv, BatchTypeOK
  <2>2. ASSUME finished, ~cancel, worker # "dead"
        PROVE  Len(outcomes) = Len(queue)
    <3>1. chan = <<>> /\ Over /\ item = Len(queue) + 1
      BY <2>2 DEF BatchInv, OverWhenTold, Over
    <3>2. Len(chan) = 0 /\ worker # "check"
      BY <3>1 DEF Over
    <3>3. Received = 2 * Len(queue) + 1
      BY <3>1, <3>2, <2>1 DEF Received, Sent
    <3> QED
      BY <3>3, <2>1 DEF BatchInv, Told
  <2>3. ASSUME NEW k \in DOMAIN done, done[k].ok,
               \A j \in (k + 1)..item : j \in DOMAIN queue =>
                   OutputPath(queue[j]) # OutputPath(queue[k])
        PROVE  OutputPath(queue[k]) \in complete
    <3>1. ~Replaced(k)
      BY <2>3 DEF Replaced
    <3> QED
      BY <3>1, <2>1, <2>3 DEF BatchInv, Written
  <2> QED
    BY <2>2, <2>3 DEF OutcomesAreTrue
<1> QED
  BY <1>1, BatchInvariant, PTL

\* What the panel shows at any time is what happened so far, file by file in
\* the order of the queue, cancelled or not, whatever failed (BatchRun::poll).
OutcomesInOrder ==
    /\ Len(outcomes) <= Len(queue)
    /\ \A k \in 1..Len(outcomes) : outcomes[k] = done[k] /\ outcomes[k].file = queue[k]

THEOREM BatchTellsInOrder == BatchSpec => []OutcomesInOrder
<1>1. BatchInv => OutcomesInOrder
  <2> SUFFICES ASSUME BatchInv
               PROVE  OutcomesInOrder
    OBVIOUS
  <2>1. /\ item \in 1..(Len(queue) + 1) /\ Len(queue) \in Nat /\ Len(outcomes) \in Nat
        /\ Len(chan) \in Nat
    <3>1. outcomes \in Seq(Reported) /\ chan \in Seq(Messages)
      BY DEF BatchInv, BatchTypeOK
    <3> QED
      BY <3>1, LenProperties, QueueType DEF BatchInv, BatchTypeOK
  <2>2. Sent <= 2 * item - 1 /\ Sent \in Nat /\ Received <= Sent
    <3>1. Sent <= 2 * item - 1 /\ Sent \in Nat
      BY <2>1 DEF Sent
    <3> QED
      BY <3>1, <2>1 DEF Received
  <2>3. Len(outcomes) <= item - 1
    <3>1. 2 * Len(outcomes) <= Received /\ Received \in Int
      BY <2>1, <2>2 DEF BatchInv, Told, Received
    <3> QED
      BY <3>1, <2>1, <2>2
  <2>4. ASSUME NEW k \in 1..Len(outcomes)
        PROVE  outcomes[k] = done[k] /\ done[k].file = queue[k]
    <3>1. k \in 1..(item - 1)
      BY <2>1, <2>3
    <3> QED
      BY <3>1 DEF BatchInv, Told, InOrder
  <2> QED
    BY <2>1, <2>3, <2>4 DEF OutcomesInOrder
<1> QED
  BY <1>1, BatchInvariant, PTL

(***************************************************************************)
(* The window.                                                             *)
(***************************************************************************)

(***************************************************************************)
(* What Vec::retain leaves.                                                *)
(***************************************************************************)

\* g says where in list each element of s was.
Picked(s, list, places, g) ==
    /\ g \in [1..Len(s) -> 1..Len(list)]
    /\ \A k \in 1..Len(s) : g[k] \in places /\ s[k] = list[g[k]]
    /\ \A j, k \in 1..Len(s) : g[j] = g[k] => j = k

Chosen(s, S, list, places, n) ==
    /\ s \in Seq(S)
    /\ \E g : Picked(s, list, places, g) /\ \A k \in 1..Len(s) : g[k] <= n

\* One more element, kept or not.
LEMMA OneMoreChosen ==
    ASSUME NEW S, NEW list \in Seq(S), NEW places, NEW s, NEW n \in Nat,
           n + 1 <= Len(list), Chosen(s, S, list, places, n)
    PROVE  Chosen(IF n + 1 \in places THEN Append(s, list[n + 1]) ELSE s, S, list, places, n + 1)
<1>1. s \in Seq(S) /\ Len(s) \in Nat /\ Len(list) \in Nat
  BY LenProperties DEF Chosen
<1>2. PICK g : Picked(s, list, places, g) /\ \A k \in 1..Len(s) : g[k] <= n
  BY DEF Chosen
<1>3. \A k \in 1..Len(s) : g[k] \in 1..Len(list) /\ g[k] <= n
  BY <1>2 DEF Picked
<1>4. CASE n + 1 \notin places
  <2>1. \A k \in 1..Len(s) : g[k] <= n + 1
    BY <1>3
  <2> QED
    BY <2>1, <1>1, <1>2, <1>4 DEF Chosen
<1>5. CASE n + 1 \in places
  <2> DEFINE t == Append(s, list[n + 1])
             h == [k \in 1..Len(s) + 1 |-> IF k <= Len(s) THEN g[k] ELSE n + 1]
  <2>1. n + 1 \in 1..Len(list) /\ list[n + 1] \in S
    BY <1>1, ElementOfSeq
  <2>2. /\ t \in Seq(S)
        /\ Len(t) = Len(s) + 1
        /\ \A k \in 1..Len(s) : t[k] = s[k]
        /\ t[Len(s) + 1] = list[n + 1]
    BY <2>1, <1>1, AppendProperties
  <2> HIDE DEF t
  <2>3. h \in [1..Len(t) -> 1..Len(list)] /\ \A k \in 1..Len(t) : h[k] <= n + 1
    BY <2>1, <2>2, <1>1, <1>3
  <2>4. ASSUME NEW k \in 1..Len(t)
        PROVE  h[k] \in places /\ t[k] = list[h[k]]
    <3>1. CASE k <= Len(s)
      <4>1. k \in 1..Len(s) /\ h[k] = g[k]
        BY <3>1, <2>2, <1>1
      <4> QED
        BY <4>1, <2>2, <1>2 DEF Picked
    <3>2. CASE ~(k <= Len(s))
      <4>1. k = Len(s) + 1 /\ h[k] = n + 1
        BY <3>2, <2>2, <1>1
      <4> QED
        BY <4>1, <2>2, <1>5
    <3> QED
      BY <3>1, <3>2
  <2>5. ASSUME NEW j \in 1..Len(t), NEW k \in 1..Len(t), h[j] = h[k]
        PROVE  j = k
    <3>1. ASSUME NEW i \in 1..Len(t)
          PROVE  \/ i \in 1..Len(s) /\ h[i] = g[i] /\ h[i] <= n
                 \/ i = Len(s) + 1 /\ h[i] = n + 1
      BY <2>2, <1>1, <1>3
    <3>2. CASE j \in 1..Len(s) /\ k \in 1..Len(s)
      <4>1. h[j] = g[j] /\ h[k] = g[k]
        BY <3>2
      <4> HIDE DEF h
      <4> QED
        BY <4>1, <3>2, <2>5, <1>2 DEF Picked
    <3>3. CASE ~(j \in 1..Len(s) /\ k \in 1..Len(s))
      <4> HIDE DEF h
      <4> QED
        BY <3>1, <3>3, <2>5, <1>1
    <3> QED
      BY <3>2, <3>3
  <2>6. Picked(t, list, places, h)
    <3> HIDE DEF h
    <3> QED
      BY <2>3, <2>4, <2>5 DEF Picked
  <2>7. Chosen(t, S, list, places, n + 1)
    <3> HIDE DEF h
    <3> QED
      BY <2>2, <2>3, <2>6 DEF Chosen
  <2> QED
    BY <2>7, <1>5 DEF t
<1> QED
  BY <1>4, <1>5

LEMMA ThoseAreChosen ==
    ASSUME NEW S, NEW list \in Seq(S), NEW places
    PROVE  Chosen(Those(list, places), S, list, places, Len(list))
<1> DEFINE N == Len(list)
           Next1(n) == [s \in Seq(S) |-> IF n \in places THEN Append(s, list[n]) ELSE s]
           F == [n \in 1..N |-> Next1(n)]
           Upto == CHOOSE f : f = [n \in 0..N |->
                        IF n = 0 THEN <<>>
                        ELSE IF n \in places THEN Append(f[n - 1], list[n]) ELSE f[n - 1]]
<1>1. N \in Nat /\ \A n \in 1..N : list[n] \in S
  BY LenProperties, ElementOfSeq
<1>2. F \in [1..N -> [Seq(S) -> Seq(S)]]
  <2>1. ASSUME NEW n \in 1..N
        PROVE  Next1(n) \in [Seq(S) -> Seq(S)]
    <3>1. list[n] \in S
      BY <1>1
    <3>2. ASSUME NEW s \in Seq(S)
          PROVE  Append(s, list[n]) \in Seq(S)
      BY <3>1, AppendProperties
    <3> QED
      BY <3>2
  <2> HIDE DEF Next1
  <2> QED
    BY <2>1
<1>3. PICK f : IsRecursion(f, N, Seq(S), <<>>, F)
  <2>1. <<>> \in Seq(S)
    OBVIOUS
  <2> HIDE DEF F, N
  <2> QED
    BY <1>1, <1>2, <2>1, Recursion
<1>4. f = [n \in 0..N |->
                IF n = 0 THEN <<>>
                ELSE IF n \in places THEN Append(f[n - 1], list[n]) ELSE f[n - 1]]
  <2>1. ASSUME NEW n \in 0..N
        PROVE  f[n] = IF n = 0 THEN <<>>
                      ELSE IF n \in places THEN Append(f[n - 1], list[n]) ELSE f[n - 1]
    <3>1. CASE n = 0
      BY <3>1, <1>3 DEF IsRecursion
    <3>2. CASE n # 0
      <4>1. n \in 1..N /\ n - 1 \in 0..N
        BY <3>2, <1>1
      <4>2. f[n - 1] \in Seq(S) /\ f[n] = F[n][f[n - 1]]
        <5> HIDE DEF F
        <5> QED
          BY <4>1, <3>2, <1>3 DEF IsRecursion
      <4> QED
        BY <4>1, <4>2, <3>2
    <3> QED
      BY <3>1, <3>2
  <2>2. f = [n \in 0..N |-> f[n]]
    BY <1>3 DEF IsRecursion
  <2> QED
    BY <2>1, <2>2
<1>5. Upto = [n \in 0..N |->
                  IF n = 0 THEN <<>>
                  ELSE IF n \in places THEN Append(Upto[n - 1], list[n]) ELSE Upto[n - 1]]
  BY <1>4
<1>6. \A n \in 0..N : Chosen(Upto[n], S, list, places, n)
  <2> HIDE DEF Upto
  <2> DEFINE T == {n \in Nat : n <= N => Chosen(Upto[n], S, list, places, n)}
  <2>1. 0 \in T
    <3>1. Upto[0] = <<>>
      BY <1>5, <1>1
    <3>2. Picked(<<>>, list, places, [k \in {} |-> 0])
      BY DEF Picked
    <3>3. Chosen(<<>>, S, list, places, 0)
      BY <3>2 DEF Chosen
    <3> QED
      BY <3>1, <3>3
  <2>2. \A n \in T : n + 1 \in T
    <3> SUFFICES ASSUME NEW n \in T, n + 1 <= N
                 PROVE  Chosen(Upto[n + 1], S, list, places, n + 1)
      OBVIOUS
    <3>0. n + 1 \in 0..N /\ n + 1 # 0 /\ (n + 1) - 1 = n
      BY <1>1
    <3>1. Upto[n + 1] = IF n + 1 \in places THEN Append(Upto[n], list[n + 1]) ELSE Upto[n]
      <4> HIDE DEF T
      <4> QED
        BY ONLY <3>0, <1>5
    <3>2. Chosen(Upto[n], S, list, places, n)
      BY <1>1
    <3> QED
      BY <3>1, <3>2, OneMoreChosen
  <2> HIDE DEF T
  <2>3. T = Nat
    <3>1. T \in SUBSET Nat
      BY DEF T
    <3> QED
      BY <3>1, <2>1, <2>2, NumberInduction
  <2> QED
    BY <2>3, <1>1 DEF T
<1>7. Those(list, places) = Upto[N]
  BY DEF Those
<1> HIDE DEF Upto
<1> QED
  BY <1>1, <1>6, <1>7

(***************************************************************************)
(* The invariant in pieces that do not name the variables.                 *)
(***************************************************************************)

Shown == [file : Slots, loc : Locs, of : Paths \cup {NoPath}]

AreOf(list, slot, f) ==
    \A i \in DOMAIN list : list[i].file = slot =>
        f.st = "loaded" /\ list[i].of = f.path /\ list[i].loc \in f.locs

Once(list) == \A i, j \in DOMAIN list : RefOf(list[i]) = RefOf(list[j]) => i = j

PlottedOK(list, a, b) ==
    list \in Seq(Shown) /\ AreOf(list, "A", a) /\ AreOf(list, "B", b) /\ Once(list)

NoneOf(list, slot) == \A i \in DOMAIN list : list[i].file # slot

AxesFit(refs, slot, f) ==
    \A r \in refs : r.file = slot => f.st = "loaded" /\ r.loc \in f.locs

AxesOK(refs, a, b) == refs \subseteq Refs /\ AxesFit(refs, "A", a) /\ AxesFit(refs, "B", b)

Entries == [path : Paths, session : Sessions]

StoreOK(store) == store \in Seq(Entries) /\ \A i \in DOMAIN store : Whole(store[i].session)

PendingOK(session) ==
    session \in Sessions \cup {NoSession} /\ (session # NoSession => Whole(session))

Waits(session, list, f, ph) ==
    session # NoSession => (f.st = "loading" \/ ph = "restore") /\ NoneOf(list, "B")

Pieces ==
    /\ disk \in [Paths -> SUBSET Locs]
    /\ Opened(first) /\ Opened(second)
    /\ active \in Slots /\ (active = "B" => second.st = "loaded")
    /\ tab \in Tabs
    /\ restored \in BOOLEAN
    /\ StoreOK(sessions)
    /\ PendingOK(pending)
    /\ PlottedOK(plotted, first, second)
    /\ AxesOK(axes, first, second)
    /\ Waits(pending, plotted, second, phase)
    /\ NothingBeforeTheFirst

LEMMA InvOfPieces == ViewerInv <=> Pieces
<1>1. ASSUME plotted \in Seq(Shown)
      PROVE  \A i \in DOMAIN plotted : plotted[i].file \in Slots
  <2>1. \A i \in DOMAIN plotted : plotted[i] \in Shown
    BY <1>1, LenProperties, ElementOfSeq
  <2> QED
    BY <2>1 DEF Shown
<1>2. ASSUME plotted \in Seq(Shown)
      PROVE  /\ NoneOf(plotted, "B") <=> \A i \in DOMAIN plotted : plotted[i].file = "A"
             /\ (AreOf(plotted, "A", first) /\ AreOf(plotted, "B", second))
                  <=> \A i \in DOMAIN plotted :
                        LET f == FileIn(plotted[i].file)
                        IN  f.st = "loaded" /\ plotted[i].of = f.path /\ plotted[i].loc \in f.locs
  <2>1. NoneOf(plotted, "B") <=> \A i \in DOMAIN plotted : plotted[i].file = "A"
    BY <1>1, <1>2 DEF NoneOf, Slots
  <2>2. \A i \in DOMAIN plotted :
            \/ plotted[i].file = "A" /\ FileIn(plotted[i].file) = first
            \/ plotted[i].file = "B" /\ FileIn(plotted[i].file) = second
    BY <1>1, <1>2 DEF Slots, FileIn
  <2> QED
    BY <2>1, <2>2 DEF AreOf
<1>3. ASSUME axes \subseteq Refs
      PROVE  (AxesFit(axes, "A", first) /\ AxesFit(axes, "B", second))
                <=> \A r \in axes : FileIn(r.file).st = "loaded" /\ r.loc \in FileIn(r.file).locs
  <2>1. \A r \in axes : \/ r.file = "A" /\ FileIn(r.file) = first
                        \/ r.file = "B" /\ FileIn(r.file) = second
    BY <1>3 DEF Refs, Slots, FileIn
  <2> QED
    BY <2>1 DEF AxesFit
<1>4. StoreOK(sessions) =>
        \A i \in DOMAIN sessions :
          LET s == sessions[i].session
          IN  ((\E j \in DOMAIN s.plotted : s.plotted[j].file = "B") \/ \E r \in s.axes : r.file = "B")
                  => s.second # NoPath
  <2> SUFFICES ASSUME NEW i \in DOMAIN sessions, Whole(sessions[i].session)
               PROVE  LET s == sessions[i].session
                      IN  ((\E j \in DOMAIN s.plotted : s.plotted[j].file = "B")
                            \/ \E r \in s.axes : r.file = "B") => s.second # NoPath
    BY DEF StoreOK
  <2> QED
    BY DEF Whole
<1>5. ASSUME ViewerInv
      PROVE  Pieces
  <2>1. plotted \in Seq(Shown) /\ axes \subseteq Refs
    BY <1>5 DEF ViewerInv, ViewerTypeOK, Shown
  <2>2. PlottedOK(plotted, first, second)
    BY <2>1, <1>2, <1>5 DEF ViewerInv, NothingPointsAtAClosedFile, SessionsComeBackWhole, PlottedOK, Once
  <2>3. AxesOK(axes, first, second)
    BY <2>1, <1>3, <1>5 DEF ViewerInv, NothingPointsAtAClosedFile, AxesOK
  <2>4. Waits(pending, plotted, second, phase)
    BY <2>1, <1>2, <1>5 DEF ViewerInv, PendingWaits, Waits
  <2>5. StoreOK(sessions) /\ PendingOK(pending)
    BY <1>5 DEF ViewerInv, ViewerTypeOK, StoreOK, PendingOK, Entries
  <2> QED
    BY <2>2, <2>3, <2>4, <2>5, <1>5 DEF ViewerInv, ViewerTypeOK, NothingPointsAtAClosedFile, Pieces
<1>6. ASSUME Pieces
      PROVE  ViewerInv
  <2>1. plotted \in Seq(Shown) /\ axes \subseteq Refs
    BY <1>6 DEF Pieces, PlottedOK, AxesOK
  <2>2. NothingPointsAtAClosedFile
    BY <2>1, <1>2, <1>3, <1>6 DEF Pieces, PlottedOK, AxesOK, NothingPointsAtAClosedFile
  <2>3. SessionsComeBackWhole
    <3>1. \A i, j \in DOMAIN plotted : RefOf(plotted[i]) = RefOf(plotted[j]) => i = j
      BY <1>6 DEF Pieces, PlottedOK, Once
    <3>2. StoreOK(sessions)
      BY <1>6 DEF Pieces
    <3> QED
      BY <3>1, <3>2, <1>4 DEF SessionsComeBackWhole
  <2>4. PendingWaits
    BY <2>1, <1>2, <1>6 DEF Pieces, Waits, PendingWaits
  <2>5. ViewerTypeOK
    BY <2>1, <1>6 DEF Pieces, ViewerTypeOK, StoreOK, PendingOK, Entries, Shown
  <2> QED
    BY <2>2, <2>3, <2>4, <2>5, <1>6 DEF Pieces, StoreOK, PendingOK, ViewerInv
<1> QED
  BY <1>5, <1>6

(***************************************************************************)
(* What is plotted and what is on the axes, as files come and go.          *)
(***************************************************************************)

LEMMA NothingPlotted ==
    ASSUME NEW a, NEW b
    PROVE  PlottedOK(<<>>, a, b) /\ AxesOK({}, a, b) /\ NoneOf(<<>>, "A") /\ NoneOf(<<>>, "B")
  BY DEF PlottedOK, AxesOK, AreOf, Once, AxesFit, NoneOf

\* Of a file that is not open nothing is plotted, so another may come in its place.
LEMMA OtherFirst ==
    ASSUME NEW list, NEW refs, NEW a, NEW b, NEW c, a.st # "loaded",
           PlottedOK(list, a, b), AxesOK(refs, a, b)
    PROVE  PlottedOK(list, c, b) /\ AxesOK(refs, c, b) /\ NoneOf(list, "A")
  BY DEF PlottedOK, AxesOK, AreOf, AxesFit, NoneOf

LEMMA OtherSecond ==
    ASSUME NEW list, NEW refs, NEW a, NEW b, NEW c, b.st # "loaded",
           PlottedOK(list, a, b), AxesOK(refs, a, b)
    PROVE  PlottedOK(list, a, c) /\ AxesOK(refs, a, c) /\ NoneOf(list, "B")
  BY DEF PlottedOK, AxesOK, AreOf, AxesFit, NoneOf

\* What is retained of what is plotted.
RetainedOf(list, places, a, b) ==
    /\ PlottedOK(Those(list, places), a, b)
    /\ \A k \in DOMAIN Those(list, places) :
          \E i \in DOMAIN list : i \in places /\ Those(list, places)[k] = list[i]

LEMMA ThoseStayPlotted ==
    ASSUME NEW a, NEW b, NEW list, PlottedOK(list, a, b), NEW places
    PROVE  RetainedOf(list, places, a, b)
<1> DEFINE s == Those(list, places)
<1>1. list \in Seq(Shown) /\ DOMAIN list = 1..Len(list)
  BY LenProperties DEF PlottedOK
<1>2. Chosen(s, Shown, list, places, Len(list))
  BY <1>1, ThoseAreChosen
<1> HIDE DEF s
<1>3. s \in Seq(Shown) /\ DOMAIN s = 1..Len(s)
  BY <1>2, LenProperties DEF Chosen
<1>4. PICK g : Picked(s, list, places, g)
  BY <1>2 DEF Chosen
<1>5. \A k \in DOMAIN s : g[k] \in DOMAIN list /\ g[k] \in places /\ s[k] = list[g[k]]
  BY <1>1, <1>3, <1>4 DEF Picked
<1>6. AreOf(s, "A", a) /\ AreOf(s, "B", b)
  BY <1>5 DEF AreOf, PlottedOK
<1>7. Once(s)
  <2> SUFFICES ASSUME NEW i \in DOMAIN s, NEW j \in DOMAIN s, RefOf(s[i]) = RefOf(s[j])
               PROVE  i = j
    BY DEF Once
  <2>1. g[i] = g[j]
    BY <1>5 DEF Once, PlottedOK
  <2> QED
    BY <2>1, <1>3, <1>4 DEF Picked
<1>8. PlottedOK(s, a, b)
  BY <1>3, <1>6, <1>7 DEF PlottedOK
<1> QED
  BY <1>5, <1>8 DEF RetainedOf, s

LEMMA OfFirstOnly ==
    ASSUME NEW a, NEW b, NEW c, NEW list, PlottedOK(list, a, b)
    PROVE  PlottedOK(OfFirst(list), a, c) /\ NoneOf(OfFirst(list), "B")
<1>1. RetainedOf(list, {i \in DOMAIN list : list[i].file = "A"}, a, b)
  BY ThoseStayPlotted
<1>2. PlottedOK(OfFirst(list), a, b) /\ NoneOf(OfFirst(list), "B")
  BY <1>1 DEF RetainedOf, OfFirst, NoneOf
<1> QED
  BY <1>2 DEF PlottedOK, NoneOf, AreOf

\* One more channel of an open file.
LEMMA OneMorePlotted ==
    ASSUME NEW a, NEW b, NEW list, PlottedOK(list, a, b), NEW x \in Shown,
           LET f == IF x.file = "A" THEN a ELSE b
           IN  f.st = "loaded" /\ x.of = f.path /\ x.loc \in f.locs,
           \A i \in DOMAIN list : RefOf(list[i]) # RefOf(x)
    PROVE  PlottedOK(Append(list, x), a, b)
<1> DEFINE s == Append(list, x)
           N == Len(list)
<1>1. list \in Seq(Shown) /\ N \in Nat /\ DOMAIN list = 1..N
  BY LenProperties DEF PlottedOK
<1>2. /\ s \in Seq(Shown) /\ DOMAIN s = 1..N + 1
      /\ \A i \in 1..N : s[i] = list[i]
      /\ s[N + 1] = x
  BY <1>1, AppendProperties, LenProperties
<1> HIDE DEF s, N
<1>3. \A i \in DOMAIN s : \/ i \in DOMAIN list /\ s[i] = list[i]
                          \/ i = N + 1 /\ s[i] = x
  BY <1>1, <1>2
<1>4. AreOf(s, "A", a) /\ AreOf(s, "B", b)
  BY <1>3 DEF AreOf, PlottedOK
<1>5. Once(s)
  BY <1>3 DEF Once, PlottedOK
<1> QED
  BY <1>2, <1>4, <1>5 DEF PlottedOK, s

(***************************************************************************)
(* Sessions: what is put back of one, and what is stored.                  *)
(***************************************************************************)

PutBackOf(session, slot, f, back) ==
    /\ back \in Seq(Shown)
    /\ Once(back)
    /\ \A i \in DOMAIN back : back[i].file = slot /\ back[i].of = f.path /\ back[i].loc \in f.locs

\* What prune_to_file leaves of a session is of the one file, and no channel twice.
LEMMA PrunedIsOfTheFile ==
    ASSUME NEW session, Whole(session), NEW slot \in Slots, NEW f, f.path \in Paths
    PROVE  PutBackOf(session, slot, f, PruneToFile(session, slot, f))
<1> DEFINE list == session.plotted
           places == {i \in DOMAIN list : list[i].file = slot /\ list[i].loc \in f.locs}
           there == Those(list, places)
           N == Len(there)
           back == [i \in 1..N |-> [file |-> slot, loc |-> there[i].loc, of |-> f.path]]
<1>1. list \in Seq(Refs) /\ DOMAIN list = 1..Len(list)
  <2>1. list \in Seq(Refs)
    BY DEF Whole, Sessions
  <2> QED
    BY <2>1, LenProperties
<1>2. \A i, j \in DOMAIN list : list[i] = list[j] => i = j
  BY DEF Whole
<1> HIDE DEF list, places
<1>3. Chosen(there, Refs, list, places, Len(list))
  BY <1>1, ThoseAreChosen
<1> HIDE DEF there
<1>4. there \in Seq(Refs) /\ N \in Nat /\ DOMAIN there = 1..N
  BY <1>3, LenProperties DEF Chosen
<1>5. PICK g : Picked(there, list, places, g)
  BY <1>3 DEF Chosen
<1>6. \A k \in 1..N : /\ g[k] \in DOMAIN list /\ there[k] = list[g[k]] /\ there[k] \in Refs
                      /\ there[k].file = slot /\ there[k].loc \in f.locs
  <2>1. \A k \in 1..N : g[k] \in DOMAIN list /\ there[k] = list[g[k]] /\ g[k] \in places
    BY <1>1, <1>5 DEF Picked
  <2>2. \A k \in 1..N : there[k] \in Refs
    BY <1>4, ElementOfSeq
  <2> QED
    BY <2>1, <2>2 DEF places
<1>7. ASSUME NEW i \in 1..N
      PROVE  [file |-> slot, loc |-> there[i].loc, of |-> f.path] \in Shown
  <2>1. there[i].loc \in Locs
    BY <1>6 DEF Refs
  <2> QED
    BY <2>1 DEF Shown
<1>8. back \in Seq(Shown) /\ DOMAIN back = 1..N
  BY <1>4, <1>7, SeqDef
<1>9. \A i \in DOMAIN back :
          back[i].file = slot /\ back[i].of = f.path /\ back[i].loc \in f.locs
  BY <1>6, <1>8
<1>10. Once(back)
  <2> SUFFICES ASSUME NEW i \in 1..N, NEW j \in 1..N, RefOf(back[i]) = RefOf(back[j])
               PROVE  i = j
    BY <1>8 DEF Once
  <2>1. RefOf(back[i]).loc = there[i].loc /\ RefOf(back[j]).loc = there[j].loc
    BY DEF RefOf
  <2>2. there[i].loc = there[j].loc
    BY <2>1
  <2>3. there[i] = there[j]
    BY <2>2, <1>6 DEF Refs
  <2>4. g[i] = g[j]
    BY <2>3, <1>6, <1>2
  <2> QED
    BY <2>4, <1>5 DEF Picked
<1>11. PruneToFile(session, slot, f) = back
  BY DEF PruneToFile, back, there, places, list
<1> HIDE DEF back
<1> QED
  BY <1>8, <1>9, <1>10, <1>11 DEF PutBackOf

\* Put behind what is plotted, of the other file.
LEMMA PutBackFits ==
    ASSUME NEW a, NEW b, NEW list, PlottedOK(list, a, b), NEW slot \in Slots, NoneOf(list, slot),
           NEW f, f = (IF slot = "A" THEN a ELSE b), f.st = "loaded",
           NEW session, NEW back, PutBackOf(session, slot, f, back)
    PROVE  PlottedOK(list \o back, a, b)
<1> DEFINE s == list \o back
           M == Len(list)
           N == Len(back)
<1>1. /\ list \in Seq(Shown) /\ M \in Nat /\ DOMAIN list = 1..M
      /\ back \in Seq(Shown) /\ N \in Nat /\ DOMAIN back = 1..N
  BY LenProperties DEF PlottedOK, PutBackOf
<1>2. /\ s \in Seq(Shown) /\ DOMAIN s = 1..M + N
      /\ \A i \in 1..M : s[i] = list[i]
      /\ \A i \in M + 1..M + N : s[i] = back[i - M]
  <2>1. s \in Seq(Shown) /\ Len(s) = M + N
    BY <1>1, ConcatProperties
  <2>2. \A i \in 1..M + N : s[i] = IF i <= M THEN list[i] ELSE back[i - M]
    BY <1>1, ConcatProperties
  <2>3. DOMAIN s = 1..M + N
    BY <2>1, LenProperties
  <2> HIDE DEF s, M, N
  <2> QED
    BY <1>1, <2>1, <2>2, <2>3
<1> HIDE DEF s, M, N
<1>3. ASSUME NEW i \in DOMAIN s
      PROVE  \/ i \in DOMAIN list /\ s[i] = list[i]
             \/ i - M \in DOMAIN back /\ s[i] = back[i - M]
  BY <1>1, <1>2
<1>4. AreOf(s, "A", a) /\ AreOf(s, "B", b)
  <2>1. \A i \in DOMAIN back : back[i].file = slot /\ back[i].of = f.path /\ back[i].loc \in f.locs
    BY DEF PutBackOf
  <2>2. AreOf(back, "A", a) /\ AreOf(back, "B", b)
    BY <2>1 DEF AreOf, Slots
  <2> QED
    BY <1>3, <2>2 DEF AreOf, PlottedOK
<1>5. Once(s)
  <2> SUFFICES ASSUME NEW i \in DOMAIN s, NEW j \in DOMAIN s, RefOf(s[i]) = RefOf(s[j])
               PROVE  i = j
    BY DEF Once
  <2>1. i \in Int /\ j \in Int
    BY <1>2
  <2>2. CASE i \in DOMAIN list /\ s[i] = list[i] /\ j \in DOMAIN list /\ s[j] = list[j]
    BY <2>2 DEF PlottedOK, Once
  <2>3. CASE i - M \in DOMAIN back /\ s[i] = back[i - M] /\ j - M \in DOMAIN back /\ s[j] = back[j - M]
    <3>1. i - M = j - M
      BY <2>3 DEF PutBackOf, Once
    <3> QED
      BY <3>1, <2>1, <1>1
  <2>4. ASSUME NEW m \in DOMAIN list, NEW n \in DOMAIN back
        PROVE  RefOf(list[m]) # RefOf(back[n])
    <3>1. list[m].file # back[n].file
      BY DEF NoneOf, PutBackOf
    <3> QED
      BY <3>1 DEF RefOf
  <2> QED
    BY <2>2, <2>3, <2>4, <1>3
<1> QED
  BY <1>2, <1>4, <1>5 DEF PlottedOK, s

LEMMA PrunedAxesFit ==
    ASSUME NEW session, Whole(session), NEW a, NEW b,
           a.st = "loaded", b.st = "loaded" \/ b.locs = {}
    PROVE  AxesOK(PruneXy(session, a, b), a, b)
<1>1. session.axes \subseteq Refs
  BY DEF Whole, Sessions
<1> QED
  BY <1>1 DEF PruneXy, AxesOK, AxesFit, Refs, Slots

\* What a window remembers of itself.
LEMMA CurrentIsWhole ==
    ASSUME Pieces
    PROVE  Whole(CurrentSession)
<1> DEFINE N == Len(plotted)
           list == [i \in 1..N |-> RefOf(plotted[i])]
<1>1. plotted \in Seq(Shown) /\ N \in Nat /\ DOMAIN plotted = 1..N
  BY LenProperties DEF Pieces, PlottedOK
<1>2. \A i \in 1..N : RefOf(plotted[i]) \in Refs /\ plotted[i].file \in Slots
  <2>1. \A i \in 1..N : plotted[i] \in Shown
    BY <1>1, ElementOfSeq
  <2> QED
    BY <2>1 DEF Shown, Refs, RefOf
<1>3. list \in Seq(Refs) /\ DOMAIN list = 1..N
  BY <1>1, <1>2, SeqDef
<1>4. SecondPath \in Paths \cup {NoPath} /\ (SecondPath = NoPath => second.st # "loaded")
  BY ViewerAssumption DEF SecondPath, Pieces, Opened
<1>5. axes \subseteq Refs /\ tab \in Tabs
  BY DEF Pieces, AxesOK
<1>6. /\ CurrentSession \in Sessions
      /\ CurrentSession.plotted = list /\ CurrentSession.second = SecondPath
      /\ CurrentSession.axes = axes
  BY <1>3, <1>4, <1>5 DEF CurrentSession, Sessions
<1>7. \A i, j \in DOMAIN list : list[i] = list[j] => i = j
  <2>1. Once(plotted)
    BY DEF Pieces, PlottedOK
  <2> QED
    BY <2>1, <1>1 DEF Once
<1>8. ASSUME SecondPath = NoPath
      PROVE  (\A i \in DOMAIN list : list[i].file = "A") /\ \A r \in axes : r.file = "A"
  <2>1. AreOf(plotted, "B", second) /\ AxesFit(axes, "B", second)
    BY DEF Pieces, PlottedOK, AxesOK
  <2>2. \A i \in 1..N : plotted[i].file # "B"
    BY <2>1, <1>8, <1>4, <1>1 DEF AreOf
  <2>3. \A r \in axes : r.file # "B" /\ r.file \in Slots
    BY <2>1, <1>8, <1>4, <1>5 DEF AxesFit, Refs
  <2> QED
    BY <2>2, <2>3, <1>2 DEF RefOf, Slots
<1> HIDE DEF list
<1> QED
  BY <1>6, <1>7, <1>8 DEF Whole

\* Sessions::insert.
LEMMA StoreStaysSound ==
    ASSUME Pieces
    PROVE  StoreOK(WithCurrent)
<1> SUFFICES ASSUME first.st = "loaded"
             PROVE  StoreOK(Inserted(first.path, CurrentSession))
  BY DEF WithCurrent, Pieces
<1> DEFINE places == DOMAIN sessions \ Remembered(first.path)
           others == Those(sessions, places)
           new == [path |-> first.path, session |-> CurrentSession]
           all == Append(others, new)
           N == Len(others)
<1>1. sessions \in Seq(Entries) /\ DOMAIN sessions = 1..Len(sessions)
  BY LenProperties DEF Pieces, StoreOK
<1>2. Whole(CurrentSession) /\ new \in Entries
  <2>1. CurrentSession \in Sessions /\ first.path \in Paths
    BY CurrentIsWhole DEF Whole, Pieces, Opened
  <2> QED
    BY <2>1, CurrentIsWhole DEF Entries
<1> HIDE DEF places
<1>3. Chosen(others, Entries, sessions, places, Len(sessions))
  BY <1>1, ThoseAreChosen
<1> HIDE DEF others
<1>4. others \in Seq(Entries) /\ N \in Nat /\ DOMAIN others = 1..N
  BY <1>3, LenProperties DEF Chosen
<1>5. \A i \in 1..N : Whole(others[i].session)
  <2>1. PICK g : Picked(others, sessions, places, g)
    BY <1>3 DEF Chosen
  <2>2. \A i \in 1..N : g[i] \in DOMAIN sessions /\ others[i] = sessions[g[i]]
    BY <2>1, <1>1 DEF Picked
  <2> QED
    BY <2>2 DEF Pieces, StoreOK
<1>6. /\ all \in Seq(Entries) /\ Len(all) = N + 1
      /\ \A i \in 1..N : all[i] = others[i]
      /\ all[N + 1] = new
  <2> HIDE DEF new
  <2> QED
    BY <1>2, <1>4, AppendProperties
<1>7. new.session = CurrentSession
  OBVIOUS
<1> HIDE DEF all, new, N
<1>8. DOMAIN all = 1..N + 1 /\ \A i \in DOMAIN all : Whole(all[i].session)
  <2>1. DOMAIN all = 1..N + 1
    BY <1>6, LenProperties
  <2>2. \A i \in 1..N + 1 : i \in 1..N \/ i = N + 1
    BY <1>4
  <2> QED
    BY <2>1, <2>2, <1>2, <1>5, <1>6, <1>7
<1>9. StoreOK(all) /\ StoreOK(Tail(all))
  <2>1. StoreOK(all)
    BY <1>6, <1>8 DEF StoreOK
  <2>2. /\ Tail(all) \in Seq(Entries) /\ Len(Tail(all)) = N
        /\ \A i \in 1..N : Tail(all)[i] = all[i + 1]
    <3>1. all # <<>> /\ Len(all) - 1 = N
      BY <1>4, <1>6, EmptySeq
    <3> QED
      BY <3>1, <1>6, HeadTailProperties
  <2>3. DOMAIN Tail(all) = 1..N
    BY <2>2, LenProperties
  <2>4. \A i \in 1..N : i + 1 \in DOMAIN all
    BY <1>4, <1>8
  <2> QED
    BY <2>1, <2>2, <2>3, <2>4, <1>8 DEF StoreOK
<1> QED
  BY <1>9 DEF Inserted, all, new, others, places

(***************************************************************************)
(* The steps of a frame.                                                   *)
(***************************************************************************)

\* A file as a poll leaves it.
PolledFrom(f, g) ==
    /\ Opened(g)
    /\ \/ g = f
       \/ f.st = "loading" /\ g.path = f.path /\ g.locs = f.locs

LEMMA OpenedFiles ==
    /\ Opened(Idle)
    /\ \A p \in Paths : Opened(Loading(p))
    /\ \A f : Opened(f) => PolledFrom(f, PollOne(f))
<1>1. Opened(Idle) /\ \A p \in Paths : Opened(Loading(p))
  BY DEF Opened, Idle, Loading
<1>2. ASSUME NEW f, Opened(f)
      PROVE  PolledFrom(f, PollOne(f))
  <2>1. CASE f.st # "loading" \/ f.answer = "none"
    BY <2>1, <1>2 DEF PollOne, PolledFrom
  <2>2. CASE ~(f.st # "loading" \/ f.answer = "none")
    <3>1. PICK st \in {"loaded", "failed"} : PollOne(f) = [f EXCEPT !.st = st, !.answer = "none"]
      <4>1. PICK st : st = IF f.answer = "ok" THEN "loaded" ELSE "failed"
        OBVIOUS
      <4> QED
        BY <4>1, <2>2 DEF PollOne
    <3>2. /\ PollOne(f).path = f.path /\ PollOne(f).locs = f.locs
          /\ Opened(PollOne(f))
      BY <3>1, <1>2, <2>2 DEF Opened
    <3> QED
      BY <3>2, <2>2 DEF PolledFrom
  <2> QED
    BY <2>1, <2>2
<1> QED
  BY <1>1, <1>2

\* What fits the files still fits them when they have been polled.
LEMMA PolledStillFits ==
    ASSUME NEW a, NEW b, NEW c, NEW d, PolledFrom(a, c), PolledFrom(b, d),
           NEW list, NEW refs, PlottedOK(list, a, b), AxesOK(refs, a, b)
    PROVE  PlottedOK(list, c, d) /\ AxesOK(refs, c, d)
<1>1. PlottedOK(list, c, b) /\ AxesOK(refs, c, b)
  <2>1. c = a \/ a.st # "loaded"
    BY DEF PolledFrom
  <2> QED
    BY <2>1, OtherFirst
<1>2. d = b \/ b.st # "loaded"
  BY DEF PolledFrom
<1> QED
  BY <1>1, <1>2, OtherSecond

LEMMA PollLoadStep == Pieces /\ PollLoad => Pieces'
<1> SUFFICES ASSUME Pieces, PollLoad
             PROVE  Pieces'
  OBVIOUS
<1>1. PolledFrom(first, first') /\ Opened(first') /\ Opened(PollOne(second))
      /\ PolledFrom(second, PollOne(second))
  BY OpenedFiles DEF PollLoad, Pieces, PolledFrom
<1>2. /\ restored' \in BOOLEAN
      /\ restored' <=> first'.st = "loaded"
      /\ restored' = (restored \/ Lands(first'))
  BY <1>1 DEF PollLoad, Pieces, NothingBeforeTheFirst, Lands, PolledFrom
<1>3. StoreOK(sessions') /\ disk' \in [Paths -> SUBSET Locs] /\ phase' = "restore"
  BY DEF PollLoad, Pieces, kept
<1>4. PollOne(Idle) = Idle
  BY DEF PollOne, Idle
<1>5. ASSUME second' = PollOne(second), UNCHANGED <<pending, browse, panels>>
      PROVE  Pieces'
  <2>1. Opened(second')
    BY <1>1, <1>5
  <2>2. PlottedOK(plotted', first', second') /\ AxesOK(axes', first', second')
    BY <1>1, <1>5, PolledStillFits DEF Pieces, panels
  <2>3. active' \in Slots /\ (active' = "B" => second'.st = "loaded") /\ tab' \in Tabs
    BY <1>1, <1>5 DEF Pieces, browse, PolledFrom
  <2>4. PendingOK(pending') /\ Waits(pending', plotted', second', phase')
    BY <1>3, <1>5 DEF Pieces, panels, Waits
  <2>5. NothingBeforeTheFirst'
    BY <1>2, <1>4, <1>5 DEF Pieces, NothingBeforeTheFirst, browse, panels
  <2> QED
    BY <1>1, <1>2, <1>3, <2>1, <2>2, <2>3, <2>4, <2>5 DEF Pieces
<1>6. ASSUME Lands(first'), NEW i \in Remembered(first'.path),
             RestoreSession(first', sessions[i].session)
      PROVE  Pieces'
  <2>1. PICK session : session = sessions[i].session
    OBVIOUS
  <2>2. Whole(session) /\ session \in Sessions
    BY <2>1, <1>6 DEF Pieces, StoreOK, Remembered, Whole
  <2>3. /\ first'.st = "loaded" /\ first'.path \in Paths
        /\ second = Idle /\ active = "A" /\ plotted = <<>> /\ axes = {} /\ pending = NoSession
    BY <1>1, <1>6 DEF Lands, Opened, Pieces, NothingBeforeTheFirst
  <2>4. RestoreSession(first', session)
    BY <1>6, <2>1
  <2>5. PlottedOK(plotted', first', second') /\ NoneOf(plotted', "B")
    <3>1. PICK back : back = PruneToFile(session, "A", first')
      OBVIOUS
    <3>2. PutBackOf(session, "A", first', back)
      BY <2>2, <2>3, <3>1, PrunedIsOfTheFile DEF Slots
    <3>3. PlottedOK(plotted, first', Idle) /\ NoneOf(plotted, "A") /\ AxesOK({}, first', Idle)
      BY <2>3, NothingPlotted
    <3>4. PlottedOK(plotted \o back, first', Idle)
      BY <2>3, <3>2, <3>3, PutBackFits DEF Slots
    <3>5. plotted' = plotted \o back
      BY <2>4, <3>1 DEF RestoreSession
    <3>6. Idle.st # "loaded"
      BY DEF Idle
    <3> QED
      BY <3>3, <3>4, <3>5, <3>6, OtherSecond
  <2>6. /\ tab' \in Tabs /\ active' = "A"
        /\ Opened(second') /\ PendingOK(pending') /\ AxesOK(axes', first', second')
    <3>1. tab' = session.tab /\ active' = active
      BY <2>4 DEF RestoreSession
    <3>2. CASE session.second = NoPath
      <4>1. axes' = PruneXy(session, first', Idle) /\ second' = Idle /\ pending' = pending
        BY <2>3, <2>4, <3>2, <1>4 DEF RestoreSession
      <4>2. AxesOK(PruneXy(session, first', Idle), first', Idle)
        BY <2>2, <2>3, PrunedAxesFit DEF Idle
      <4> QED
        BY <2>2, <2>3, <3>1, <4>1, <4>2, OpenedFiles DEF Pieces, Sessions
    <3>3. CASE session.second # NoPath
      <4>1. axes' = {} /\ second' = Loading(session.second) /\ pending' = session
        BY <2>3, <2>4, <3>3 DEF RestoreSession
      <4>2. session.second \in Paths
        BY <2>2, <3>3 DEF Sessions
      <4> QED
        BY <2>2, <2>3, <3>1, <4>1, <4>2, OpenedFiles, NothingPlotted DEF PendingOK, Sessions
    <3> QED
      BY <3>2, <3>3
  <2>7. Waits(pending', plotted', second', phase')
    BY <1>3, <2>5 DEF Waits
  <2>8. NothingBeforeTheFirst'
    BY <1>2, <2>3 DEF NothingBeforeTheFirst
  <2> QED
    BY <1>1, <1>2, <1>3, <2>5, <2>6, <2>7, <2>8 DEF Pieces, Slots
<1> QED
  BY <1>5, <1>6 DEF PollLoad

LEMMA RestoreSecondStep == Pieces /\ RestoreSecond => Pieces'
<1> SUFFICES ASSUME Pieces, RestoreSecond
             PROVE  Pieces'
  OBVIOUS
<1>1. UNCHANGED <<disk, first, second, active, tab, restored, sessions>>
  BY DEF RestoreSecond, kept, browse
<1>2. PlottedOK(plotted', first, second) /\ AxesOK(axes', first, second)
      /\ (~restored => plotted' = <<>> /\ axes' = {})
  <2>1. CASE ~(pending # NoSession /\ second.st = "loaded")
    <3>1. plotted' = plotted /\ axes' = axes
      BY <2>1 DEF RestoreSecond, panels
    <3> QED
      BY <3>1 DEF Pieces, NothingBeforeTheFirst
  <2>2. CASE pending # NoSession /\ second.st = "loaded"
    <3>1. PICK back : back = PruneToFile(pending, "B", second)
      OBVIOUS
    <3>2. restored /\ first.st = "loaded"
      BY <2>2 DEF Pieces, NothingBeforeTheFirst
    <3>3. plotted' = plotted \o back /\ axes' = PruneXy(pending, first, second)
      BY <2>2, <3>1, <3>2 DEF RestoreSecond
    <3>4. Whole(pending) /\ NoneOf(plotted, "B") /\ second.path \in Paths
      BY <2>2 DEF Pieces, PendingOK, Waits, Opened
    <3>5. PutBackOf(pending, "B", second, back)
      BY <3>1, <3>4, PrunedIsOfTheFile DEF Slots
    <3>6. PlottedOK(plotted \o back, first, second)
      <4>1. PlottedOK(plotted, first, second)
        BY DEF Pieces
      <4> QED
        BY <2>2, <3>4, <3>5, <4>1, PutBackFits DEF Slots
    <3>7. AxesOK(PruneXy(pending, first, second), first, second)
      BY <2>2, <3>2, <3>4, PrunedAxesFit
    <3> QED
      BY <3>2, <3>3, <3>6, <3>7
  <2> QED
    BY <2>1, <2>2
<1>3. pending' = IF second.st = "loading" THEN pending ELSE NoSession
  BY DEF RestoreSecond
<1>4. PendingOK(pending')
  BY <1>3 DEF Pieces, PendingOK
<1>5. Waits(pending', plotted', second', phase')
  <2>1. second.st = "loading" => NoneOf(plotted', "B")
    BY <1>2, OtherSecond
  <2> QED
    BY <1>1, <1>3, <2>1 DEF Waits
<1>6. NothingBeforeTheFirst'
  BY <1>1, <1>2, <1>3 DEF Pieces, NothingBeforeTheFirst
<1> QED
  BY <1>1, <1>2, <1>4, <1>5, <1>6 DEF Pieces

(***************************************************************************)
(* The steps of the user, of the threads and of the process.               *)
(***************************************************************************)

\* A step that changes at most what is browsed, the tab and the axes.
LEMMA BrowsingStep ==
    ASSUME Pieces,
           UNCHANGED <<disk, first, second, restored, pending, sessions, plotted>>,
           phase # "restore" \/ phase' = phase,
           active' \in Slots, active' = "B" => second.st = "loaded",
           tab' \in Tabs,
           AxesOK(axes', first, second),
           restored \/ (active' = "A" /\ axes' = {})
    PROVE  Pieces'
<1>1. Waits(pending', plotted', second', phase')
  BY DEF Pieces, Waits
<1>2. NothingBeforeTheFirst'
  BY DEF Pieces, NothingBeforeTheFirst
<1> QED
  BY <1>1, <1>2 DEF Pieces

\* The same where none of these change either.
LEMMA QuietStep ==
    ASSUME Pieces,
           UNCHANGED <<disk, first, second, restored, pending, sessions, plotted, active, tab, axes>>,
           phase # "restore" \/ phase' = phase
    PROVE  Pieces'
<1>1. restored \/ (active = "A" /\ axes = {})
  BY DEF Pieces, NothingBeforeTheFirst
<1> QED
  BY <1>1, BrowsingStep DEF Pieces

LEMMA LoadedIsRestored == Pieces /\ first.st = "loaded" => restored
  BY DEF Pieces, NothingBeforeTheFirst

LEMMA StartLoadStep ==
    ASSUME Pieces, NEW p \in Paths, StartLoad(p), disk' = disk
    PROVE  Pieces'
<1>1. /\ second' = Idle /\ active' = "A" /\ plotted' = <<>> /\ axes' = {} /\ restored' = FALSE
      /\ pending' = NoSession /\ first' = Loading(p) /\ tab' = "Details" /\ sessions' = WithCurrent
  BY DEF StartLoad, ResetViews
<1>2. StoreOK(sessions')
  BY <1>1, StoreStaysSound
<1>3. Opened(first') /\ Opened(second') /\ first'.st # "loaded"
  BY <1>1, OpenedFiles DEF Loading
<1>4. PlottedOK(plotted', first', second') /\ AxesOK(axes', first', second')
  BY <1>1, NothingPlotted
<1>5. NothingBeforeTheFirst'
  BY <1>1, <1>3 DEF NothingBeforeTheFirst
<1>6. PendingOK(pending') /\ Waits(pending', plotted', second', phase')
  BY <1>1 DEF PendingOK, Waits
<1> QED
  BY <1>1, <1>2, <1>3, <1>4, <1>5, <1>6 DEF Pieces, Slots, Tabs

LEMMA CloseSecondStep ==
    ASSUME Pieces, NEW f, Opened(f), CloseSecond(f), first.st = "loaded",
           UNCHANGED <<disk, first, restored, pending, sessions>>,
           pending # NoSession => f.st = "loading"
    PROVE  Pieces'
<1>1. second' = f /\ plotted' = OfFirst(plotted)
  BY DEF CloseSecond
<1>2. PlottedOK(plotted', first', second') /\ NoneOf(plotted', "B")
  BY <1>1, OfFirstOnly DEF Pieces
<1>3. AxesOK(axes', first', second')
  BY <1>1 DEF CloseSecond, Pieces, AxesOK, AxesFit
<1>4. active' = "A" /\ tab' \in Tabs
  BY DEF CloseSecond, SelectFile, ResetViews, browse, Pieces, Tabs
<1>5. NothingBeforeTheFirst'
  BY LoadedIsRestored DEF Pieces, NothingBeforeTheFirst
<1>6. Waits(pending', plotted', second', phase')
  BY <1>1, <1>2 DEF Waits
<1> QED
  BY <1>1, <1>2, <1>3, <1>4, <1>5, <1>6 DEF Pieces, Slots

LEMMA ToggleStep ==
    ASSUME Pieces, NEW loc \in Locs, Toggle(loc)
    PROVE  Pieces'
<1> DEFINE ref == [file |-> active, loc |-> loc]
           f == FileIn(active)
           x == [file |-> active, loc |-> loc, of |-> f.path]
<1>1. /\ UNCHANGED <<disk, first, second, active, tab, restored, pending, sessions, axes>>
      /\ phase = "input" /\ first.st = "loaded" /\ loc \in f.locs
  BY DEF Toggle, Input, browse
<1>2. /\ \/ active = "A" /\ f = first
         \/ active = "B" /\ f = second /\ second.st = "loaded"
      /\ f.st = "loaded" /\ f.path \in Paths
  BY <1>1 DEF Pieces, Slots, FileIn, Opened
<1>3. PlottedOK(plotted, first, second)
  BY DEF Pieces
<1>4. PlottedOK(plotted', first, second)
  <2>1. CASE Plotted(ref)
    <3>1. PICK places : plotted' = Those(plotted, places)
      BY <2>1 DEF Toggle
    <3> QED
      BY <1>3, <3>1, ThoseStayPlotted DEF RetainedOf
  <2>2. CASE ~Plotted(ref)
    <3>1. plotted' = Append(plotted, x)
      BY <2>2 DEF Toggle
    <3>2. x \in Shown /\ RefOf(x) = ref
      BY <1>2 DEF Shown, Slots, RefOf
    <3>3. \A i \in DOMAIN plotted : RefOf(plotted[i]) # RefOf(x)
      BY <2>2, <3>2 DEF Plotted
    <3>4. LET g == IF x.file = "A" THEN first ELSE second
          IN  g.st = "loaded" /\ x.of = g.path /\ x.loc \in g.locs
      BY <1>1, <1>2
    <3> HIDE DEF x
    <3> QED
      BY <1>3, <3>1, <3>2, <3>3, <3>4, OneMorePlotted
  <2> QED
    BY <2>1, <2>2
<1>5. Waits(pending', plotted', second', phase')
  <2>1. pending = NoSession \/ second.st = "loading"
    BY <1>1 DEF Pieces, Waits
  <2>2. second.st = "loading" => NoneOf(plotted', "B")
    BY <1>4, OtherSecond DEF Pieces
  <2> QED
    BY <1>1, <2>1, <2>2 DEF Waits
<1>6. NothingBeforeTheFirst'
  BY <1>1, LoadedIsRestored DEF Pieces, NothingBeforeTheFirst
<1> QED
  BY <1>1, <1>4, <1>5, <1>6 DEF Pieces

\* The axes stay plotted, or are picked among what is.
LEMMA AxesOfThePlotted ==
    ASSUME Pieces, NEW refs, \A r \in refs : Plotted(r)
    PROVE  AxesOK(refs, first, second)
<1>1. plotted \in Seq(Shown) /\ AreOf(plotted, "A", first) /\ AreOf(plotted, "B", second)
  BY DEF Pieces, PlottedOK
<1>2. ASSUME NEW r \in refs
      PROVE  /\ r \in Refs
             /\ r.file = "A" => first.st = "loaded" /\ r.loc \in first.locs
             /\ r.file = "B" => second.st = "loaded" /\ r.loc \in second.locs
  <2>1. PICK i \in DOMAIN plotted : RefOf(plotted[i]) = r
    BY DEF Plotted
  <2>2. plotted[i] \in Shown
    BY <1>1, LenProperties, ElementOfSeq
  <2>3. r \in Refs /\ r.file = plotted[i].file /\ r.loc = plotted[i].loc
    BY <2>1, <2>2 DEF RefOf, Shown, Refs
  <2> QED
    BY <1>1, <2>3 DEF AreOf
<1> QED
  BY <1>2 DEF AxesOK, AxesFit

LEMMA AxesShownAreOK ==
    ASSUME Pieces, NEW refs \in AxesShown
    PROVE  AxesOK(refs, first, second)
<1>1. CASE refs = IF \A r \in axes : Plotted(r) THEN axes ELSE {}
  BY <1>1, AxesOfThePlotted
<1>2. ASSUME NEW i \in DOMAIN plotted, NEW j \in DOMAIN plotted,
             refs = {RefOf(plotted[i]), RefOf(plotted[j])}
      PROVE  \A r \in refs : Plotted(r)
  BY <1>2 DEF Plotted
<1> QED
  BY <1>1, <1>2, AxesOfThePlotted DEF AxesShown

LEMMA DrawStep == Pieces /\ Draw => Pieces'
<1> SUFFICES ASSUME Pieces, Draw
             PROVE  Pieces'
  OBVIOUS
<1>1. UNCHANGED <<disk, first, second, restored, pending, sessions, plotted, active, tab>>
      /\ phase = "draw"
  BY DEF Draw, kept
<1>2. CASE first.st = "loaded"
  <2>1. axes' = axes \/ axes' \in AxesShown
    BY <1>2 DEF Draw, DrawPanels
  <2>2. AxesOK(axes', first, second)
    BY <2>1, AxesShownAreOK DEF Pieces
  <2> QED
    BY <1>1, <1>2, <2>2, LoadedIsRestored, BrowsingStep DEF Pieces
<1>3. CASE first.st # "loaded"
  <2>1. axes' = axes
    BY <1>3 DEF Draw
  <2> QED
    BY <1>1, <2>1, QuietStep
<1> QED
  BY <1>2, <1>3

LEMMA UserStep == Pieces /\ UserInput => Pieces'
<1> SUFFICES ASSUME Pieces, UserInput
             PROVE  Pieces'
  OBVIOUS
<1>1. phase # "restore" /\ disk' = disk
  BY DEF UserInput, Nothing, Open, Compare, Close, ChooseFile, ChooseTab, Toggle, Select, Back,
         Forward, PickAxes, Input
<1>2. pending # NoSession => second.st = "loading"
  BY <1>1 DEF Pieces, Waits
<1>3. CASE Nothing
  BY <1>1, <1>3, QuietStep DEF Nothing, Input, browse, panels
<1>4. ASSUME NEW p \in Paths, Open(p)
      PROVE  Pieces'
  BY <1>1, <1>4, StartLoadStep DEF Open, Input
<1>5. ASSUME NEW p \in Paths, Compare(p)
      PROVE  Pieces'
  <2>1. Opened(Loading(p)) /\ Loading(p).st = "loading"
    BY OpenedFiles DEF Loading
  <2> QED
    BY <1>1, <1>5, <2>1, CloseSecondStep DEF Compare, Input
<1>6. CASE Close
  <2>1. Opened(Idle) /\ pending = NoSession
    BY <1>2, <1>6, OpenedFiles DEF Close
  <2> QED
    BY <1>1, <1>6, <2>1, CloseSecondStep DEF Close, Input
<1>7. ASSUME NEW slot \in Slots, ChooseFile(slot)
      PROVE  Pieces'
  <2>1. /\ UNCHANGED <<disk, first, second, restored, pending, sessions, plotted, axes>>
        /\ first.st = "loaded" /\ second.st = "loaded" /\ SelectFile(slot)
    BY <1>7 DEF ChooseFile, Input, panels
  <2>2. active' \in Slots /\ tab' \in Tabs
    BY <2>1 DEF SelectFile, ResetViews, browse, Pieces, Tabs
  <2> QED
    BY <1>1, <2>1, <2>2, LoadedIsRestored, BrowsingStep DEF Pieces
<1>8. ASSUME NEW t \in Tabs, ChooseTab(t)
      PROVE  Pieces'
  BY <1>1, <1>8, LoadedIsRestored, BrowsingStep DEF ChooseTab, Input, panels, Pieces
<1>9. ASSUME NEW loc \in Locs, Toggle(loc)
      PROVE  Pieces'
  BY <1>9, ToggleStep
<1>10. ASSUME NEW loc \in Locs, Select(loc)
       PROVE  Pieces'
  BY <1>1, <1>10, QuietStep DEF Select, Input, panels
<1>11. CASE Back \/ Forward
  BY <1>1, <1>11, QuietStep DEF Back, Forward, Input, panels
<1>12. ASSUME NEW x \in Refs, NEW y \in Refs, PickAxes(x, y)
       PROVE  Pieces'
  <2>1. UNCHANGED <<disk, first, second, restored, pending, sessions, plotted, active, tab>>
        /\ first.st = "loaded" /\ axes' = {x, y} /\ Plotted(x) /\ Plotted(y)
    BY <1>12 DEF PickAxes, Input, browse
  <2>2. AxesOK(axes', first, second)
    BY <2>1, AxesOfThePlotted
  <2> QED
    BY <1>1, <2>1, <2>2, LoadedIsRestored, BrowsingStep DEF Pieces
<1> QED
  BY <1>3, <1>4, <1>5, <1>6, <1>7, <1>8, <1>9, <1>10, <1>11, <1>12 DEF UserInput

\* A file whose thread has ended, as the next poll will find it.
LEMMA AnsweredFile ==
    ASSUME Pieces, NEW f, Opened(f), f.st = "loading", NEW answer \in {"ok", "err"}
    PROVE  Opened(Answered(f, answer)) /\ Answered(f, answer).st = "loading"
<1>1. PICK locs \in SUBSET Locs : Answered(f, answer) = [f EXCEPT !.answer = answer, !.locs = locs]
  <2>1. f.path \in Paths
    BY DEF Opened
  <2>2. (IF answer = "ok" THEN disk[f.path] ELSE {}) \in SUBSET Locs
    BY <2>1 DEF Pieces
  <2> QED
    BY <2>2 DEF Answered
<1> QED
  BY <1>1 DEF Opened

LEMMA LoaderStep == Pieces /\ LoaderEnds => Pieces'
<1> SUFFICES ASSUME Pieces, LoaderEnds
             PROVE  Pieces'
  OBVIOUS
<1>1. UNCHANGED <<disk, active, tab, restored, sessions, pending, plotted, axes, phase>>
  BY DEF LoaderEnds, kept, browse, panels
<1>2. PlottedOK(plotted, first, second) /\ AxesOK(axes, first, second)
  BY DEF Pieces
<1>3. ASSUME NEW answer \in {"ok", "err"}, first.st = "loading",
             first' = Answered(first, answer), second' = second
      PROVE  Pieces'
  <2>1. Opened(first') /\ first'.st = "loading"
    BY <1>3, AnsweredFile DEF Pieces
  <2>2. PlottedOK(plotted, first', second) /\ AxesOK(axes, first', second)
    BY <1>2, <1>3, OtherFirst
  <2>3. NothingBeforeTheFirst'
    BY <1>1, <1>3, <2>1 DEF Pieces, NothingBeforeTheFirst
  <2> QED
    BY <1>1, <1>3, <2>1, <2>2, <2>3 DEF Pieces
<1>4. ASSUME NEW answer \in {"ok", "err"}, second.st = "loading",
             second' = Answered(second, answer), first' = first
      PROVE  Pieces'
  <2>1. Opened(second') /\ second'.st = "loading"
    BY <1>4, AnsweredFile DEF Pieces
  <2>2. PlottedOK(plotted, first, second') /\ AxesOK(axes, first, second') /\ NoneOf(plotted, "B")
    BY <1>2, <1>4, OtherSecond
  <2>3. restored
    BY <1>4 DEF Pieces, NothingBeforeTheFirst, Idle
  <2>4. NothingBeforeTheFirst' /\ Waits(pending', plotted', second', phase')
    BY <1>1, <1>4, <2>1, <2>2, <2>3 DEF Pieces, NothingBeforeTheFirst, Waits
  <2> QED
    BY <1>1, <1>4, <2>1, <2>2, <2>4 DEF Pieces
<1> QED
  BY <1>3, <1>4 DEF LoaderEnds

LEMMA RestartStep == Pieces /\ Restart => Pieces'
<1> SUFFICES ASSUME Pieces, Restart
             PROVE  Pieces'
  OBVIOUS
<1>1. /\ first' = Idle /\ second' = Idle /\ active' = "A" /\ plotted' = <<>> /\ axes' = {}
      /\ restored' = FALSE /\ pending' = NoSession /\ tab' = "Details"
      /\ sessions' = WithCurrent /\ disk' = disk
  BY DEF Restart, ResetViews
<1>2. StoreOK(sessions')
  BY <1>1, StoreStaysSound
<1>3. Opened(first') /\ Opened(second') /\ first'.st # "loaded"
  BY <1>1, OpenedFiles DEF Idle
<1>4. PlottedOK(plotted', first', second') /\ AxesOK(axes', first', second')
  BY <1>1, NothingPlotted
<1>5. NothingBeforeTheFirst' /\ PendingOK(pending') /\ Waits(pending', plotted', second', phase')
  BY <1>1, <1>3 DEF NothingBeforeTheFirst, PendingOK, Waits
<1> QED
  BY <1>1, <1>2, <1>3, <1>4, <1>5 DEF Pieces, Slots, Tabs

LEMMA FirstWindow == ViewerInit => Pieces
<1> SUFFICES ASSUME ViewerInit
             PROVE  Pieces
  OBVIOUS
<1>1. disk \in [Paths -> SUBSET Locs] /\ StoreOK(sessions)
  BY ViewerAssumption DEF ViewerInit, StoreOK, Entries
<1>2. Opened(first) /\ Opened(second) /\ first.st # "loaded"
  BY OpenedFiles DEF ViewerInit, Blank, Idle
<1>3. PlottedOK(plotted, first, second) /\ AxesOK(axes, first, second)
  BY NothingPlotted DEF ViewerInit, Blank
<1>4. NothingBeforeTheFirst /\ PendingOK(pending) /\ Waits(pending, plotted, second, phase)
  BY <1>2 DEF ViewerInit, Blank, NothingBeforeTheFirst, PendingOK, Waits
<1> QED
  BY <1>1, <1>2, <1>3, <1>4 DEF ViewerInit, Blank, Pieces, Slots, Tabs

LEMMA WindowStep == Pieces /\ [ViewerNext]_viewerVars => Pieces'
<1> SUFFICES ASSUME Pieces, [ViewerNext]_viewerVars
             PROVE  Pieces'
  OBVIOUS
<1>1. CASE UNCHANGED viewerVars
  BY <1>1, QuietStep DEF viewerVars, browse, panels
<1> QED
  BY <1>1, PollLoadStep, RestoreSecondStep, UserStep, DrawStep, LoaderStep, RestartStep DEF ViewerNext

(***************************************************************************)
(* Theorems.                                                               *)
(***************************************************************************)

\* The invariant of the window: nothing precedes the first file, a session
\* waits only while its second file is on the way, sessions are whole.
THEOREM WindowInvariant == ViewerSpec => []ViewerInv
<1>1. ViewerSpec => []Pieces
  BY FirstWindow, WindowStep, PTL DEF ViewerSpec
<1> QED
  BY <1>1, InvOfPieces, PTL

\* close_second: what is plotted, on the axes and browsed is of files that are
\* open, for any files, channels and stored sessions.
THEOREM WindowPointsAtOpenFiles == ViewerSpec => []NothingPointsAtAClosedFile
<1>1. ViewerInv => NothingPointsAtAClosedFile
  BY DEF ViewerInv
<1> QED
  BY <1>1, WindowInvariant, PTL

\* restore_session and restore_second_session: a session with a channel of the
\* compared file names it, and no channel is plotted twice.
THEOREM WindowRestoresWhole == ViewerSpec => []SessionsComeBackWhole
<1>1. ViewerInv => SessionsComeBackWhole
  BY DEF ViewerInv
<1> QED
  BY <1>1, WindowInvariant, PTL

(***************************************************************************)
(* The computed channels.                                                  *)
(***************************************************************************)

PlotFiles == SecondFiles \cup {FirstFile, NoSecond}

Definition == [text : Texts \cup {NewText}, visible : BOOLEAN]

Decode == [file : PlotFiles, st : {"loading", "unreadable", "signal", "failed", "ended"}]

Landed == [file : PlotFiles, got : {"signal", "failed", "ended"}]

(***************************************************************************)
(* The inductive invariant.                                                *)
(***************************************************************************)

\* What a decode says of a place of the file: how it ends, if not by itself.
Tells(said, file, loc) ==
    /\ said = "signal" => DecodeChannel(file, loc) = "signal"
    /\ said = "failed" => DecodeChannel(file, loc) = "failed"

\* The decodes under way are of these files, and those landed too.
AreSlots(slots, files) ==
    /\ slots = [loc \in DOMAIN slots |-> slots[loc]]
    /\ \A loc \in DOMAIN slots :
           /\ slots[loc] \in Decode /\ slots[loc].file \in files
           /\ Tells(slots[loc].st, slots[loc].file, loc)

AreLanded(landed, files) ==
    \A loc \in DOMAIN landed :
        /\ landed[loc] \in Landed /\ landed[loc].file \in files
        /\ Tells(landed[loc].got, landed[loc].file, loc)

AreResults(cache, id, files) ==
    \A d \in DOMAIN cache : cache[d].file = id /\ Justified(d, files, cache[d].state)

\* A second file lies somewhere else than the first.
PlotTypes ==
    /\ scope \in {"A", "B"}
    /\ compared \in SecondFiles \cup {NoSecond}
    /\ compared # NoSecond => address \in Addresses \ {FirstAddress}
    /\ scope = "B" => compared # NoSecond
    /\ align \in {"own", "absolute"}
    /\ definitions \in Seq(Definition)
    /\ fileId \in Addresses \cup {NoAddress}
    /\ served \in SUBSET PlotFiles

\* Points are shifted only between files that have a start time.
ShiftedByClocks ==
    disturbed \/ \A i \in DOMAIN segments : segments[i].shifted => AbsoluteOk

PlotInv ==
    /\ PlotTypes
    /\ AreSlots(operandSlots, served)
    /\ AreLanded(operands, served)
    /\ ShiftedByClocks
    /\ ComputedIsOfTheActiveFile

(***************************************************************************)
(* Decodes.                                                                *)
(***************************************************************************)

\* A decode ends as a signal or fails.
LEMMA DecodeEnds ==
    ASSUME NEW file, NEW loc
    PROVE  DecodeChannel(file, loc) \in {"signal", "failed"}
PROOF
  BY DEF DecodeChannel

\* Starting what is missing leaves decodes of these files, none of them of a
\* place that has landed or that nothing needs.
LEMMA SyncedAreSlots ==
    ASSUME NEW slots, NEW landed, NEW needed,
           NEW files \in SUBSET PlotFiles, NEW file \in files, AreSlots(slots, files), DOMAIN landed \cap DOMAIN slots = {}
    PROVE  LET after == SyncedOperands(slots, landed, file, needed)
           IN  /\ AreSlots(after, files)
               /\ DOMAIN after \subseteq needed
               /\ DOMAIN landed \cap DOMAIN after = {}
PROOF
<1> DEFINE Begun(loc) == [file |-> file,
                          st |-> IF FileHolds[file][loc].kind = "unreadable" THEN "unreadable"
                                 ELSE "loading"]
           places == needed \ (DOMAIN landed \ DOMAIN slots)
           after == [loc \in places |-> IF loc \in DOMAIN slots THEN slots[loc] ELSE Begun(loc)]
<1>1. SyncedOperands(slots, landed, file, needed) = after
  BY DEF SyncedOperands
<1>2. ASSUME NEW loc \in places
      PROVE  /\ after[loc] \in Decode /\ after[loc].file \in files
             /\ Tells(after[loc].st, after[loc].file, loc)
  <2>1. CASE loc \in DOMAIN slots
    BY <2>1 DEF AreSlots
  <2>2. CASE loc \notin DOMAIN slots
    <3>1. after[loc] = Begun(loc)
      BY <2>2
    <3>2. Begun(loc) \in Decode /\ Begun(loc).file = file
          /\ Begun(loc).st \in {"unreadable", "loading"}
      BY DEF Decode
    <3> QED
      BY <3>1, <3>2 DEF Tells
  <2> QED
    BY <2>1, <2>2
<1>3. DOMAIN after = places /\ after = [loc \in places |-> after[loc]]
  OBVIOUS
<1> HIDE DEF after
<1>4. AreSlots(after, files)
  BY <1>2, <1>3 DEF AreSlots
<1>5. places \subseteq needed /\ DOMAIN landed \cap places = {}
  OBVIOUS
<1> QED
  BY <1>1, <1>3, <1>4, <1>5

\* Dropping places leaves what is kept as it was.
LEMMA RetainedSlots ==
    ASSUME NEW slots, NEW files, NEW keys, AreSlots(slots, files)
    PROVE  AreSlots(Retained(slots, keys), files)
PROOF
<1> DEFINE spared == Retained(slots, keys)
<1>1. /\ DOMAIN spared \subseteq DOMAIN slots
      /\ spared = [x \in DOMAIN spared |-> spared[x]]
      /\ \A x \in DOMAIN spared : spared[x] = slots[x]
  BY DEF Retained, Restrict
<1> HIDE DEF spared
<1>2. AreSlots(spared, files)
  BY <1>1 DEF AreSlots
<1> QED
  BY <1>2 DEF spared

LEMMA RetainedLanded ==
    ASSUME NEW landed, NEW files, NEW keys, AreLanded(landed, files)
    PROVE  AreLanded(Retained(landed, keys), files)
PROOF
<1> DEFINE spared == Retained(landed, keys)
<1>1. /\ DOMAIN spared \subseteq DOMAIN landed
      /\ \A x \in DOMAIN spared : spared[x] = landed[x]
  BY DEF Retained, Restrict
<1> HIDE DEF spared
<1>2. AreLanded(spared, files)
  BY <1>1 DEF AreLanded
<1> QED
  BY <1>2 DEF spared

\* What has landed is of the files the decodes were of.
LEMMA PolledAreLanded ==
    ASSUME NEW slots, NEW landed, NEW files, AreSlots(slots, files), AreLanded(landed, files)
    PROVE  /\ AreLanded(PollOperands(slots, landed), files)
           /\ DOMAIN PollOperands(slots, landed) = DOMAIN landed \cup Landing(slots)
PROOF
<1> DEFINE places == DOMAIN landed \cup Landing(slots)
           after == [loc \in places |->
                        IF loc \in Landing(slots)
                        THEN [file |-> slots[loc].file, got |-> slots[loc].st] ELSE landed[loc]]
<1>1. PollOperands(slots, landed) = after
  BY DEF PollOperands
<1>2. ASSUME NEW loc \in places
      PROVE  /\ after[loc] \in Landed /\ after[loc].file \in files
             /\ Tells(after[loc].got, after[loc].file, loc)
  <2>1. CASE loc \in Landing(slots)
    <3>1. /\ loc \in DOMAIN slots /\ slots[loc] \in Decode /\ slots[loc].file \in files
          /\ slots[loc].st \in {"signal", "failed", "ended"}
          /\ Tells(slots[loc].st, slots[loc].file, loc)
      BY <2>1 DEF Landing, AreSlots
    <3>2. after[loc] = [file |-> slots[loc].file, got |-> slots[loc].st]
      BY <2>1
    <3>3. slots[loc].file \in PlotFiles
      BY <3>1 DEF Decode
    <3>4. after[loc] \in Landed /\ after[loc].file = slots[loc].file /\ after[loc].got = slots[loc].st
      BY <3>1, <3>2, <3>3 DEF Landed
    <3> QED
      BY <3>1, <3>4
  <2>2. CASE loc \notin Landing(slots)
    <3>1. loc \in DOMAIN landed /\ after[loc] = landed[loc]
      BY <2>2
    <3> QED
      BY <3>1 DEF AreLanded
  <2> QED
    BY <2>1, <2>2
<1>3. DOMAIN after = places
  OBVIOUS
<1> HIDE DEF after
<1>4. AreLanded(after, files)
  BY <1>2, <1>3 DEF AreLanded
<1> QED
  BY <1>1, <1>3, <1>4

(***************************************************************************)
(* Results.                                                                *)
(***************************************************************************)

\* The least of a set of numbers is one of them.
LEMMA LeastIsOne ==
    ASSUME NEW S \in SUBSET Nat, S # {}
    PROVE  Min(S) \in S
PROOF
<1>1. \E n \in S : \A m \in S : n <= m
  BY LeastNumber
<1> QED
  BY <1>1 DEF Min

\* The names of a text have places.
LEMMA NamesHavePlaces ==
    ASSUME NEW text \in Texts \cup {NewText}
    PROVE  /\ DOMAIN text.names \in SUBSET Nat
           /\ text.kind \in {"sound", "broken", "blank"}
PROOF
<1>1. text.names \in Seq(ToSet(text.names))
  <2>1. CASE text \in Texts
    BY <2>1, PlotPanelAssumption
  <2>2. CASE text = NewText
    BY <2>2, EmptySeq DEF NewText
  <2> QED
    BY <2>1, <2>2
<1>2. DOMAIN text.names = 1..Len(text.names) /\ Len(text.names) \in Nat
  BY <1>1, LenProperties
<1>3. text.kind \in {"sound", "broken", "blank"}
  BY PlotPanelAssumption DEF NewText
<1> QED
  BY <1>2, <1>3

\* What is decided of a definition is what its formula says, looked up in
\* the file, of the files that operands have come from.
LEMMA DecidedIsJustified ==
    ASSUME NEW d \in Definition, NEW files, NEW file \in files, NEW landed,
           Evaluated(d), AreLanded(landed, files), EvaluateDef(d, file, landed) # Waiting
    PROVE  Justified(d, files, EvaluateDef(d, file, landed))
PROOF
<1> DEFINE names == d.text.names
           locs == [i \in DOMAIN names |-> FindChannelLoc(file, names[i])]
           InTheWay(i) == locs[i] = 0 \/ (locs[i] \in DOMAIN landed /\ landed[locs[i]].got # "signal")
           failures == {i \in DOMAIN locs : InTheWay(i)}
           at == Min(failures)
           state == EvaluateDef(d, file, landed)
<1>1. DOMAIN names \in SUBSET Nat /\ d.text.kind \in {"sound", "broken"}
  BY NamesHavePlaces DEF Definition, Evaluated
<1>2. CASE d.text.kind = "broken"
  BY <1>2 DEF EvaluateDef, Justified
<1>3. CASE d.text.kind # "broken" /\ failures # {}
  <2>1. at \in failures
    <3>1. failures \in SUBSET Nat
      BY <1>1
    <3> HIDE DEF failures
    <3> QED
      BY <1>3, <3>1, LeastIsOne
  <2> DEFINE loc == FindChannelLoc(file, names[at])
             why == IF locs[at] = 0 THEN "unknown" ELSE landed[locs[at]].got
  <2>2. state = [kind |-> "error", why |-> why, of |-> names[at]]
    BY <1>3 DEF EvaluateDef
  <2> HIDE DEF state, at
  <2>3. at \in DOMAIN names /\ locs[at] = loc /\ (loc = 0 \/ (loc \in DOMAIN landed /\ landed[loc].got # "signal"))
    BY <2>1
  <2>4. names[at] \in ToSet(names)
    BY <2>3 DEF ToSet
  <2>5. why = IF loc = 0 THEN "unknown" ELSE landed[loc].got
    BY <2>3
  <2> HIDE DEF why
  <2>6. state.kind = "error" /\ state.why = why /\ state.of = names[at]
    BY <2>2
  <2> HIDE DEF loc
  <2>7. \/ loc = 0 /\ why = "unknown"
        \/ loc # 0 /\ why = "failed" /\ \E source \in files : DecodeChannel(source, loc) = "failed"
        \/ loc # 0 /\ why = "ended"
    <3>1. CASE loc = 0
      BY <2>5, <3>1
    <3>2. CASE loc # 0
      <4>1. /\ why = landed[loc].got /\ why # "signal"
            /\ landed[loc] \in Landed /\ landed[loc].file \in files
            /\ Tells(landed[loc].got, landed[loc].file, loc)
        BY <2>3, <2>5, <3>2 DEF AreLanded
      <4>2. why \in {"failed", "ended"}
        BY <4>1 DEF Landed
      <4> QED
        BY <3>2, <4>1, <4>2 DEF Tells
    <3> QED
      BY <3>1, <3>2
  <2>8. d.text.kind = "sound"
    BY <1>1, <1>3
  <2>9. FindChannelLoc(file, state.of) = loc
    BY <2>6 DEF loc
  <2>10. Justified(d, files, state)
    BY <2>4, <2>6, <2>7, <2>8, <2>9 DEF Justified
  <2> QED
    BY <2>10 DEF state
<1>4. CASE d.text.kind # "broken" /\ failures = {}
  <2>1. CASE \E i \in DOMAIN locs : locs[i] \notin DOMAIN landed
    BY <1>4, <2>1 DEF EvaluateDef
  <2>2. CASE \A i \in DOMAIN locs : locs[i] \in DOMAIN landed
    <3> DEFINE made == [i \in DOMAIN locs |-> <<landed[locs[i]].file, locs[i]>>]
    <3>1. state = [kind |-> "ready", of |-> made]
      BY <1>4, <2>2 DEF EvaluateDef
    <3> DEFINE source == [i \in DOMAIN names |-> landed[locs[i]].file]
    <3>2. ASSUME NEW i \in DOMAIN names
          PROVE  /\ locs[i] = FindChannelLoc(file, names[i]) /\ locs[i] # 0
                 /\ source[i] = landed[locs[i]].file /\ source[i] \in files
                 /\ DecodeChannel(source[i], locs[i]) = "signal"
      <4>1. locs[i] # 0 /\ locs[i] \in DOMAIN landed /\ landed[locs[i]].got = "signal"
        BY <1>4, <2>2
      <4>2. source[i] = landed[locs[i]].file
        OBVIOUS
      <4>3. locs[i] = FindChannelLoc(file, names[i])
        OBVIOUS
      <4> HIDE DEF locs, source
      <4>4. landed[locs[i]].file \in files /\ Tells("signal", landed[locs[i]].file, locs[i])
        BY <4>1 DEF AreLanded
      <4>5. DecodeChannel(source[i], locs[i]) = "signal"
        BY <4>2, <4>4 DEF Tells
      <4> QED
        BY <4>1, <4>2, <4>3, <4>4, <4>5
    <3>3. made = [i \in DOMAIN names |-> <<source[i], FindChannelLoc(file, names[i])>>]
      BY <3>2
    <3>4. ASSUME NEW o \in ToSet(made)
          PROVE  o[2] # 0 /\ DecodeChannel(o[1], o[2]) = "signal"
      <4>1. PICK i \in DOMAIN made : o = made[i]
        BY DEF ToSet
      <4>2. o[1] = source[i] /\ o[2] = locs[i] /\ i \in DOMAIN names
        BY <4>1, <3>2
      <4> QED
        BY <3>2, <4>2
    <3>7. source \in [DOMAIN names -> files]
      BY <3>2
    <3> HIDE DEF made, state, source
    <3>5. state.kind = "ready" /\ state.of = made /\ d.text.kind = "sound"
      BY <1>1, <1>4, <3>1
    <3>6. Justified(d, files, state)
      BY <3>3, <3>4, <3>5, <3>7 DEF Justified
    <3> QED
      BY <3>6 DEF state
  <2> QED
    BY <2>1, <2>2
<1> QED
  BY <1>2, <1>3, <1>4

\* More files justify no less.
LEMMA MoreFilesJustify ==
    ASSUME NEW d, NEW state, NEW files, NEW more, files \subseteq more, Justified(d, files, state)
    PROVE  Justified(d, more, state)
PROOF
<1>1. [DOMAIN d.text.names -> files] \subseteq [DOMAIN d.text.names -> more]
  OBVIOUS
<1> QED
  BY <1>1 DEF Justified

\* Of one file, the value of a formula is what it says of it.
LEMMA OfOneFileIsItsMeaning ==
    ASSUME NEW d, NEW state, NEW file, Justified(d, {file}, state), state.kind = "ready"
    PROVE  state.of = Meaning(d, file)
PROOF
<1>1. PICK source \in [DOMAIN d.text.names -> {file}] :
          state.of = [i \in DOMAIN d.text.names |-> <<source[i], FindChannelLoc(file, d.text.names[i])>>]
  BY DEF Justified
<1>2. \A i \in DOMAIN d.text.names : source[i] = file
  OBVIOUS
<1> QED
  BY <1>1, <1>2 DEF Meaning

\* The results a frame leaves stand on operands of these files.
LEMMA EvaluatedAreResults ==
    ASSUME NEW defs \in Seq(Definition), NEW files, NEW file \in files,
           NEW id, NEW landed, NEW cache,
           AreLanded(landed, files), AreResults(cache, id, files)
    PROVE  AreResults(EvaluateVisibleDefs(defs, file, id, landed, cache), id, files)
PROOF
<1> DEFINE spared == Retained(cache, ToSet(defs))
           again == {d \in DOMAIN spared : ~Evaluated(d) \/ StillGood(spared[d], id, landed)}
           anew == {d \in ToSet(defs) : Evaluated(d)} \ again
           state == [d \in anew |-> EvaluateDef(d, file, landed)]
           decided == {d \in DOMAIN state : state[d] # Waiting}
           Sizes(d) ==
               IF state[d].kind = "ready" THEN {<<o[2], SizeOf(landed, o[2])>> : o \in ToSet(state[d].of)} ELSE {}
           after == [d \in decided \cup DOMAIN spared |->
               IF d \in decided THEN [file |-> id, operands |-> Sizes(d), state |-> state[d]] ELSE spared[d]]
<1>1. EvaluateVisibleDefs(defs, file, id, landed, cache) = after
  BY DEF EvaluateVisibleDefs
<1>2. \A d \in DOMAIN spared : d \in DOMAIN cache /\ spared[d] = cache[d]
  BY DEF Retained, Restrict
<1>3. \A d \in anew : d \in Definition /\ Evaluated(d)
  <2>1. \A d \in ToSet(defs) : d \in Definition
    BY LenProperties, ElementOfSeq DEF ToSet
  <2> QED
    BY <2>1
<1> HIDE DEF spared, anew, Sizes
<1>4. ASSUME NEW d \in DOMAIN after
      PROVE  after[d].file = id /\ Justified(d, files, after[d].state)
  <2>1. CASE d \in decided
    <3>1. d \in anew /\ state[d] = EvaluateDef(d, file, landed) /\ state[d] # Waiting
      BY <2>1
    <3>2. after[d] = [file |-> id, operands |-> Sizes(d), state |-> state[d]]
      BY <2>1
    <3>3. Justified(d, files, state[d])
      BY <1>3, <3>1, DecidedIsJustified
    <3> HIDE DEF after, state
    <3> QED
      BY <3>2, <3>3
  <2>2. CASE d \notin decided
    <3>1. d \in DOMAIN spared /\ after[d] = spared[d]
      BY <2>2
    <3> QED
      BY <1>2, <3>1 DEF AreResults
  <2> QED
    BY <2>1, <2>2
<1> HIDE DEF after
<1> QED
  BY <1>1, <1>4 DEF AreResults

(***************************************************************************)
(* A frame.                                                                *)
(***************************************************************************)

\* An edit leaves definitions; a deletion leaves one fewer.
LEMMA EditsAreDefinitions ==
    ASSUME definitions \in Seq(Definition), NEW defs \in Edits
    PROVE  defs \in Seq(Definition)
PROOF
<1>1. Len(definitions) \in Nat /\ DOMAIN definitions = 1..Len(definitions)
  BY LenProperties
<1>2. CASE defs = definitions
  BY <1>2
<1>3. CASE defs = Append(definitions, [text |-> NewText, visible |-> TRUE])
  <2>1. [text |-> NewText, visible |-> TRUE] \in Definition
    BY DEF Definition
  <2> QED
    BY <1>3, <2>1, AppendProperties
<1>4. ASSUME NEW i \in DOMAIN definitions, defs = [definitions EXCEPT ![i].visible = ~@]
      PROVE  defs \in Seq(Definition)
  <2> DEFINE e == [definitions[i] EXCEPT !.visible = ~definitions[i].visible]
  <2>1. definitions[i] \in Definition
    BY <1>1, ElementOfSeq
  <2>2. e \in Definition
    BY <2>1 DEF Definition
  <2>3. defs = [definitions EXCEPT ![i] = e]
    BY <1>4
  <2> HIDE DEF e
  <2> QED
    BY <2>2, <2>3, ExceptSeq
<1>5. ASSUME NEW i \in DOMAIN definitions, NEW t \in Texts,
             defs = [definitions EXCEPT ![i].text = t]
      PROVE  defs \in Seq(Definition)
  <2> DEFINE e == [definitions[i] EXCEPT !.text = t]
  <2>1. definitions[i] \in Definition
    BY <1>1, ElementOfSeq
  <2>2. e \in Definition
    BY <2>1 DEF Definition
  <2>3. defs = [definitions EXCEPT ![i] = e]
    BY <1>5
  <2> HIDE DEF e
  <2> QED
    BY <2>2, <2>3, ExceptSeq
<1> QED
  BY <1>2, <1>3, <1>4, <1>5 DEF Edits

LEMMA DeletionsAreShorter ==
    ASSUME definitions \in Seq(Definition), NEW defs \in Deletions
    PROVE  defs \in Seq(Definition) /\ Len(defs) < Len(definitions)
PROOF
<1>1. Len(definitions) \in Nat /\ DOMAIN definitions = 1..Len(definitions)
  BY LenProperties
<1>2. PICK i \in 1..Len(definitions) :
          defs = SubSeq(definitions, 1, i - 1) \o SubSeq(definitions, i + 1, Len(definitions))
  BY <1>1 DEF Deletions, RemoveAt
<1> DEFINE before == SubSeq(definitions, 1, i - 1)
           behind == SubSeq(definitions, i + 1, Len(definitions))
<1>3. \A k \in 1..Len(definitions) : definitions[k] \in Definition
  BY <1>1, ElementOfSeq
<1>4. before \in Seq(Definition) /\ Len(before) = i - 1
  <2>1. 1 \in Nat /\ i - 1 \in Nat /\ \A k \in 1..(i - 1) : definitions[k] \in Definition
    BY <1>1, <1>3
  <2>2. /\ before \in Seq(Definition)
        /\ Len(before) = IF 1 <= i - 1 THEN (i - 1) - 1 + 1 ELSE 0
    BY <2>1, SubSeqProperties
  <2> HIDE DEF before
  <2> QED
    BY <2>1, <2>2
<1>5. behind \in Seq(Definition) /\ Len(behind) = Len(definitions) - i
  <2>1. i + 1 \in Nat /\ \A k \in (i + 1)..Len(definitions) : definitions[k] \in Definition
    BY <1>1, <1>3
  <2>2. /\ behind \in Seq(Definition)
        /\ Len(behind) = IF i + 1 <= Len(definitions) THEN Len(definitions) - (i + 1) + 1 ELSE 0
    BY <1>1, <2>1, SubSeqProperties
  <2> DEFINE n == Len(definitions)
  <2>3. n \in Nat /\ i \in 1..n
    BY <1>1
  <2> HIDE DEF behind, n
  <2>4. (IF i + 1 <= n THEN n - (i + 1) + 1 ELSE 0) = n - i
    BY <2>3
  <2> QED
    BY <2>2, <2>4 DEF n
<1> HIDE DEF before, behind
<1>6. before \o behind \in Seq(Definition) /\ Len(before \o behind) = Len(before) + Len(behind)
  BY <1>4, <1>5, ConcatProperties
<1>7. defs = before \o behind
  BY <1>2 DEF before, behind
<1> QED
  BY <1>1, <1>4, <1>5, <1>6, <1>7

\* Absolute times are chosen beside a second file only when both have them.
LEMMA AbsoluteIsAllowed ==
    ASSUME PlotTypes, NEW a \in Alignments, a = "absolute", compared # NoSecond
    PROVE  AbsoluteOk
PROOF
  BY DEF Alignments, FallenBack

\* A frame evaluates over the active file, with what is kept of those its
\* address has stood for.
LEMMA FrameOfItsFiles ==
    ASSUME PlotInv, definitions' \in Seq(Definition),
           UNCHANGED <<scope, compared, address>>, Evaluate(FALSE) \/ Evaluate(TRUE)
    PROVE  /\ fileId' \in Addresses \cup {NoAddress}
           /\ served' \in SUBSET PlotFiles /\ ActiveFile \in served'
           /\ AreSlots(operandSlots', served')
           /\ AreLanded(operands', served')
           /\ AreResults(results', fileId', served')
           /\ DOMAIN operands' \cap DOMAIN operandSlots' = {}
           /\ DOMAIN operands' \cup DOMAIN operandSlots'
                  \subseteq VisibleOperandLocs(definitions', ActiveFile)
           /\ fileId' = FirstAddress => served' \subseteq {FirstFile}
PROOF
<1> DEFINE file == ActiveFile
           id == ActiveAddress
           same == KeepsDecodes(id)
           old == IF same THEN operandSlots ELSE Cleared
           had == IF same THEN operands ELSE Cleared
           cache == IF same THEN results ELSE Cleared
           needed == VisibleOperandLocs(definitions', file)
           slots == SyncedOperands(old, had, file, needed)
           stay == Retained(had, needed)
           landed == PollOperands(slots, stay)
           files == {file} \cup IF fileId = id THEN served ELSE {}
<1>1. /\ fileId' = id /\ served' = files
      /\ operandSlots' = Retained(slots, DOMAIN slots \ Landing(slots))
      /\ operands' = landed
      /\ results' = EvaluateVisibleDefs(definitions', file, id, landed, cache)
  BY DEF Evaluate
<1>2. /\ file \in PlotFiles /\ id \in Addresses
      /\ id = FirstAddress => file = FirstFile
  BY PlotPanelAssumption DEF ActiveFile, ActiveAddress, PlotInv, PlotTypes, PlotFiles
<1>3. files \in SUBSET PlotFiles /\ file \in files
  BY <1>2 DEF PlotInv, PlotTypes
<1>4. AreSlots(old, files) /\ AreLanded(had, files) /\ AreResults(cache, id, files)
      /\ DOMAIN had \cap DOMAIN old = {}
  <2>1. CASE same
    <3>1. fileId = id /\ old = operandSlots /\ had = operands /\ cache = results
      BY <2>1 DEF KeepsDecodes
    <3>2. served \subseteq files
      BY <3>1
    <3> HIDE DEF files, old, had, cache
    <3>3. AreSlots(old, files)
      BY <3>1, <3>2 DEF PlotInv, AreSlots
    <3>4. AreLanded(had, files)
      BY <3>1, <3>2 DEF PlotInv, AreLanded
    <3>5. ASSUME NEW d \in DOMAIN cache
          PROVE  cache[d].file = id /\ Justified(d, files, cache[d].state)
      <4>1. cache[d].file = id /\ Justified(d, served, cache[d].state)
        BY <3>1 DEF PlotInv, ComputedIsOfTheActiveFile
      <4> QED
        BY <3>2, <4>1, MoreFilesJustify
    <3>6. AreResults(cache, id, files)
      BY <3>5 DEF AreResults
    <3>7. DOMAIN had \cap DOMAIN old = {}
      BY <3>1 DEF PlotInv, ComputedIsOfTheActiveFile
    <3> QED
      BY <3>3, <3>4, <3>6, <3>7
  <2>2. CASE ~same
    BY <2>2 DEF Cleared, AreSlots, AreLanded, AreResults
  <2> QED
    BY <2>1, <2>2
<1>5. fileId' = FirstAddress => files \subseteq {FirstFile}
  BY <1>1, <1>2 DEF PlotInv, ComputedIsOfTheActiveFile
<1> HIDE DEF file, id, old, had, cache, needed, files
<1>6. AreSlots(slots, files) /\ DOMAIN slots \subseteq needed /\ DOMAIN had \cap DOMAIN slots = {}
  BY <1>3, <1>4, SyncedAreSlots
<1>7. AreLanded(stay, files) /\ DOMAIN stay = needed \cap DOMAIN had
  <2>1. DOMAIN stay = needed \cap DOMAIN had
    BY DEF Retained, Restrict
  <2> QED
    BY <1>4, <2>1, RetainedLanded
<1> HIDE DEF slots, stay
<1>8. AreLanded(landed, files) /\ DOMAIN landed = DOMAIN stay \cup Landing(slots)
  BY <1>6, <1>7, PolledAreLanded
<1> HIDE DEF landed
<1>9. /\ AreSlots(operandSlots', files)
      /\ DOMAIN operandSlots' = DOMAIN slots \ Landing(slots)
  <2>1. DOMAIN operandSlots' = DOMAIN slots \ Landing(slots)
    BY <1>1 DEF Retained, Restrict
  <2>2. AreSlots(Retained(slots, DOMAIN slots \ Landing(slots)), files)
    BY <1>6, RetainedSlots
  <2> QED
    BY <1>1, <2>1, <2>2
<1>10. AreResults(results', id, files)
  BY <1>1, <1>3, <1>4, <1>8, EvaluatedAreResults
<1>11. Landing(slots) \subseteq DOMAIN slots
  BY DEF Landing
<1>12. DOMAIN operands' \cap DOMAIN operandSlots' = {}
  BY <1>1, <1>6, <1>7, <1>8, <1>9, <1>11
<1>13. DOMAIN operands' \cup DOMAIN operandSlots' \subseteq needed
  BY <1>1, <1>6, <1>7, <1>8, <1>9, <1>11
<1> QED
  BY <1>1, <1>2, <1>3, <1>5, <1>8, <1>9, <1>10, <1>12, <1>13 DEF file, needed

\* What a frame draws is what it evaluated, or was drawn before and not thrown
\* away.
LEMMA FrameDraws ==
    ASSUME PlotInv, definitions' \in Seq(Definition),
           UNCHANGED <<scope, compared, address>>, served' = {ActiveFile},
           NEW emptied \in BOOLEAN, Evaluate(emptied), NEW i \in DOMAIN segments'
    PROVE  \/ /\ i \in DOMAIN definitions'
              /\ segments'[i].of = Meaning(definitions'[i], ActiveFile)
              /\ segments'[i].shifted = Shifted
           \/ /\ ~emptied
              /\ i \in DOMAIN segments /\ i \in DOMAIN definitions
              /\ segments'[i] = segments[i]
PROOF
<1> DEFINE file == ActiveFile
           id == ActiveAddress
           same == KeepsDecodes(id)
           needed == VisibleOperandLocs(definitions', file)
           slots == SyncedOperands(IF same THEN operandSlots ELSE Cleared, IF same THEN operands ELSE Cleared, file, needed)
           landed == PollOperands(slots, Retained(IF same THEN operands ELSE Cleared, needed))
           drawn == {k \in DOMAIN definitions' :
                       /\ Evaluated(definitions'[k]) /\ definitions'[k] \in DOMAIN results'
                       /\ results'[definitions'[k]].state.kind = "ready"
                       /\ StillGood(results'[definitions'[k]], id, landed)}
           points == IF emptied THEN Cleared ELSE Retained(segments, DOMAIN definitions)
<1>1. PICK view \in SUBSET drawn : segments' = Redrawn(points, drawn, view)
  BY DEF Evaluate
<1>2. ASSUME NEW k \in drawn
      PROVE  /\ k \in DOMAIN definitions'
             /\ results'[definitions'[k]].state.of = Meaning(definitions'[k], file)
  <2>1. /\ k \in DOMAIN definitions' /\ definitions'[k] \in DOMAIN results'
        /\ results'[definitions'[k]].state.kind = "ready"
    OBVIOUS
  <2>2. AreResults(results', fileId', {file})
    <3>1. Evaluate(FALSE) \/ Evaluate(TRUE)
      <4>1. CASE emptied
        BY <4>1
      <4>2. CASE ~emptied
        BY <4>2
      <4> QED
        BY <4>1, <4>2
    <3> QED
      BY <3>1, FrameOfItsFiles
  <2> HIDE DEF file, drawn
  <2>3. Justified(definitions'[k], {file}, results'[definitions'[k]].state)
    BY <2>1, <2>2 DEF AreResults
  <2> QED
    BY <2>1, <2>3, OfOneFileIsItsMeaning
<1> HIDE DEF drawn, points
<1>3. segments' = [k \in DOMAIN points \cup drawn |->
          IF k \in view \cup (drawn \ DOMAIN points)
          THEN [of |-> results'[definitions'[k]].state.of, shifted |-> Shifted] ELSE points[k]]
  BY <1>1 DEF Redrawn
<1>4. CASE i \in drawn /\ i \in view \cup (drawn \ DOMAIN points)
  <2>1. segments'[i] = [of |-> results'[definitions'[i]].state.of, shifted |-> Shifted]
    BY <1>3, <1>4
  <2> QED
    BY <1>2, <1>4, <2>1 DEF file
<1>5. CASE i \in DOMAIN points /\ i \notin view
  <2>1. segments'[i] = points[i]
    BY <1>3, <1>5
  <2>2. ~emptied
    BY <1>5 DEF points, Cleared
  <2>3. i \in DOMAIN segments /\ i \in DOMAIN definitions /\ points[i] = segments[i]
    BY <1>5, <2>2 DEF points, Retained, Restrict
  <2> QED
    BY <2>1, <2>2, <2>3
<1> QED
  BY <1>1, <1>3, <1>4, <1>5

(***************************************************************************)
(* Every step.                                                             *)
(***************************************************************************)

\* The points drawn stay those of the definition at their place.
LEMMA FrameStaysFresh ==
    ASSUME PlotInv, Show
    PROVE  ShiftedByClocks' /\ (disturbed \/ Fresh(segments))'
PROOF
<1>1. /\ PlotTypes /\ align' \in Alignments /\ definitions' \in Edits \cup Deletions
      /\ UNCHANGED <<scope, compared, address>>
  BY DEF PlotInv, Show
<1>2. definitions' \in Seq(Definition) /\ definitions \in Seq(Definition)
  BY <1>1, EditsAreDefinitions, DeletionsAreShorter DEF PlotTypes
<1>3. /\ Len(definitions) \in Nat /\ DOMAIN definitions = 1..Len(definitions)
      /\ Len(definitions') \in Nat /\ DOMAIN definitions' = 1..Len(definitions')
  BY <1>2, LenProperties
<1>4. ActiveFile' = ActiveFile /\ AbsoluteOk' = AbsoluteOk
  BY <1>1 DEF ActiveFile, AbsoluteOk
<1> DEFINE thrown == definitions = <<>> \/ align' # FallenBack \/ Len(definitions') < Len(definitions)
<1>5. PICK emptied \in BOOLEAN : emptied = thrown
  OBVIOUS
<1>6. CASE segments' = Cleared
  BY <1>6 DEF Cleared, ShiftedByClocks, Fresh
<1>7. CASE /\ Evaluate(emptied)
           /\ disturbed' = \/ ~emptied /\ (disturbed \/ Retexted(definitions'))
                           \/ served' # {ActiveFile}
  <2>1. ~disturbed' => served' = {ActiveFile} /\ (emptied \/ (~disturbed /\ ~Retexted(definitions')))
    BY <1>7
  <2>2. ASSUME ~disturbed', NEW i \in DOMAIN segments'
        PROVE  /\ i \in DOMAIN definitions'
               /\ segments'[i].of = Meaning(definitions'[i], ActiveFile)
               /\ segments'[i].shifted <=> scope = "B" /\ align' = "absolute"
               /\ segments'[i].shifted => AbsoluteOk
    <3>1. CASE /\ i \in DOMAIN definitions'
               /\ segments'[i].of = Meaning(definitions'[i], ActiveFile)
               /\ segments'[i].shifted = Shifted
      <4>1. scope = "B" /\ align' = "absolute" => AbsoluteOk
        BY <1>1, AbsoluteIsAllowed DEF PlotTypes
      <4>2. Shifted <=> scope = "B" /\ align' = "absolute"
        BY <4>1 DEF Shifted
      <4>3. Shifted => AbsoluteOk
        BY DEF Shifted
      <4> QED
        BY <3>1, <4>2, <4>3
    <3>2. CASE /\ ~emptied
               /\ i \in DOMAIN segments /\ i \in DOMAIN definitions
               /\ segments'[i] = segments[i]
      <4>1. /\ ~(Len(definitions') < Len(definitions)) /\ align' = FallenBack
            /\ ~disturbed /\ ~Retexted(definitions')
        BY <1>5, <2>1, <2>2, <3>2
      <4>2. i \in DOMAIN definitions'
        BY <1>3, <3>2, <4>1
      <4>3. definitions'[i].text = definitions[i].text
        BY <3>2, <4>1, <4>2 DEF Retexted
      <4>4. /\ segments[i].of = Meaning(definitions[i], ActiveFile)
            /\ segments[i].shifted <=> scope = "B" /\ align = "absolute"
            /\ segments[i].shifted => AbsoluteOk
        BY <3>2, <4>1 DEF PlotInv, ComputedIsOfTheActiveFile, Fresh, ShiftedByClocks
      <4>5. Meaning(definitions'[i], ActiveFile) = Meaning(definitions[i], ActiveFile)
        BY <4>3 DEF Meaning
      <4>6. scope = "B" => (align' = "absolute" <=> align = "absolute")
        BY <1>1, <4>1, <4>4 DEF FallenBack, PlotTypes
      <4>7. segments'[i].shifted <=> scope = "B" /\ align' = "absolute"
        BY <3>2, <4>4, <4>6
      <4> QED
        BY <3>2, <4>2, <4>4, <4>5, <4>7
    <3> QED
      BY <1>1, <1>2, <1>7, <2>1, <2>2, <3>1, <3>2, FrameDraws
  <2>3. (disturbed \/ Fresh(segments))'
    <3> SUFFICES ASSUME ~disturbed'
                 PROVE  Fresh(segments)'
      OBVIOUS
    <3>1. \A i \in DOMAIN segments' :
              /\ i \in DOMAIN definitions'
              /\ segments'[i].of = Meaning(definitions'[i], ActiveFile)
              /\ segments'[i].shifted <=> scope = "B" /\ align' = "absolute"
      BY <2>2
    <3> QED
      BY <1>1, <1>4, <3>1 DEF Fresh, Meaning, FindChannelLoc
  <2>4. ShiftedByClocks'
    BY <1>4, <2>2 DEF ShiftedByClocks
  <2> QED
    BY <2>3, <2>4
<1> QED
  BY <1>5, <1>6, <1>7 DEF Show

\* Results that are kept are as justified as they were.
LEMMA ResultsKept ==
    ASSUME ComputedIsOfTheActiveFile, UNCHANGED <<results, served, fileId>>
    PROVE  (\A d \in DOMAIN results :
               results[d].file = fileId /\ Justified(d, served, results[d].state))'
PROOF
<1>1. \A d \in DOMAIN results' :
          results'[d].file = fileId' /\ Justified(d, served', results'[d].state)
  BY DEF ComputedIsOfTheActiveFile
<1> QED
  BY <1>1 DEF Justified, FindChannelLoc, DecodeChannel

\* And what is decoded is as much of what is shown.
LEMMA NeededKept ==
    ASSUME ComputedIsOfTheActiveFile, UNCHANGED <<definitions, served, operands>>,
           DOMAIN operandSlots' = DOMAIN operandSlots
    PROVE  (DOMAIN operands \cup DOMAIN operandSlots
               \subseteq UNION {VisibleOperandLocs(definitions, file) : file \in served})'
PROOF
<1>1. DOMAIN operands' \cup DOMAIN operandSlots'
          \subseteq UNION {VisibleOperandLocs(definitions', file) : file \in served'}
  BY DEF ComputedIsOfTheActiveFile
<1> QED
  BY <1>1 DEF VisibleOperandLocs, Evaluated, FindChannelLoc

\* A frame keeps the invariant.
LEMMA ShowStep ==
    ASSUME PlotInv, Show
    PROVE  PlotInv'
PROOF
<1>1. /\ PlotTypes /\ align' \in Alignments /\ definitions' \in Edits \cup Deletions
      /\ UNCHANGED <<scope, compared, address>>
  BY DEF PlotInv, Show
<1>2. definitions' \in Seq(Definition)
  BY <1>1, EditsAreDefinitions, DeletionsAreShorter DEF PlotTypes
<1>3. align' \in {"own", "absolute"}
  BY <1>1 DEF Alignments, FallenBack, PlotTypes
<1>4. ShiftedByClocks' /\ (disturbed \/ Fresh(segments))'
  BY FrameStaysFresh
<1>5. CASE \E emptied \in BOOLEAN : Evaluate(emptied)
  <2>1. Evaluate(FALSE) \/ Evaluate(TRUE)
    BY <1>5
  <2>2. /\ fileId' \in Addresses \cup {NoAddress}
        /\ served' \in SUBSET PlotFiles /\ ActiveFile \in served'
        /\ AreSlots(operandSlots', served')
        /\ AreLanded(operands', served')
        /\ AreResults(results', fileId', served')
        /\ DOMAIN operands' \cap DOMAIN operandSlots' = {}
        /\ DOMAIN operands' \cup DOMAIN operandSlots'
               \subseteq VisibleOperandLocs(definitions', ActiveFile)
        /\ fileId' = FirstAddress => served' \subseteq {FirstFile}
    BY <1>1, <1>2, <2>1, FrameOfItsFiles
  <2>3. PlotTypes'
    BY <1>1, <1>2, <1>3, <2>2 DEF PlotTypes, PlotFiles
  <2>4. AreSlots(operandSlots, served)' /\ AreLanded(operands, served)'
    BY <2>2 DEF AreSlots, AreLanded, Tells, DecodeChannel
  <2>5. ComputedIsOfTheActiveFile'
    <3>1. \A loc \in DOMAIN operands' : operands'[loc].file \in served'
      BY <2>2 DEF AreLanded
    <3>2. \A loc \in DOMAIN operandSlots' : operandSlots'[loc].file \in served'
      BY <2>2 DEF AreSlots
    <3>3. \A d \in DOMAIN results' :
              results'[d].file = fileId' /\ Justified(d, served', results'[d].state)
      BY <2>2 DEF AreResults
    <3>4. DOMAIN operands' \cup DOMAIN operandSlots'
              \subseteq UNION {VisibleOperandLocs(definitions', file) : file \in served'}
      BY <2>2
    <3> QED
      BY <1>4, <2>2, <3>1, <3>2, <3>3, <3>4
         DEF ComputedIsOfTheActiveFile, Justified, FindChannelLoc, DecodeChannel,
             VisibleOperandLocs, Evaluated
  <2> QED
    BY <1>4, <2>3, <2>4, <2>5 DEF PlotInv
<1>6. CASE /\ definitions = <<>> /\ segments' = Cleared
           /\ UNCHANGED <<fileId, operandSlots, operands, results, served>>
  <2>1. PlotTypes'
    BY <1>1, <1>2, <1>3, <1>6 DEF PlotTypes, PlotFiles
  <2>2. DOMAIN operands = {} /\ DOMAIN operandSlots = {}
    <3>1. \A file \in served : VisibleOperandLocs(definitions, file) = {}
      <4>1. ToSet(definitions) = {}
        BY <1>6 DEF ToSet
      <4> QED
        BY <4>1 DEF VisibleOperandLocs
    <3> QED
      BY <3>1 DEF PlotInv, ComputedIsOfTheActiveFile
  <2>3. AreSlots(operandSlots, served)' /\ AreLanded(operands, served)'
    BY <1>6 DEF PlotInv, AreSlots, AreLanded, Tells, DecodeChannel
  <2>4. ComputedIsOfTheActiveFile'
    <3>1. (\A d \in DOMAIN results :
               results[d].file = fileId /\ Justified(d, served, results[d].state))'
      BY <1>6, ResultsKept DEF PlotInv
    <3> QED
      BY <1>4, <1>6, <2>2, <3>1 DEF PlotInv, ComputedIsOfTheActiveFile
  <2> QED
    BY <1>4, <2>1, <2>3, <2>4 DEF PlotInv
<1>7. (\E emptied \in BOOLEAN : Evaluate(emptied))
          \/ /\ definitions = <<>> /\ segments' = Cleared
             /\ UNCHANGED <<fileId, operandSlots, operands, results, served>>
  <2> DEFINE thrown == definitions = <<>> \/ align' # FallenBack \/ Len(definitions') < Len(definitions)
  <2>1. PICK emptied \in BOOLEAN : emptied = thrown
    OBVIOUS
  <2> QED
    BY <2>1 DEF Show
<1> QED
  BY <1>5, <1>6, <1>7

\* A stored session begins with nothing decoded.
LEMMA SetStep ==
    ASSUME PlotInv, SetComputedDefs
    PROVE  PlotInv'
PROOF
<1>1. definitions' \in Seq(Definition)
  <2>1. CASE definitions' = <<>>
    BY <2>1, EmptySeq
  <2>2. ASSUME NEW t \in Texts, definitions' = <<[text |-> t, visible |-> TRUE]>>
        PROVE  definitions' \in Seq(Definition)
    <3>1. [text |-> t, visible |-> TRUE] \in Definition
      BY DEF Definition
    <3> QED
      BY <2>2, <3>1
  <2> QED
    BY <2>1, <2>2 DEF SetComputedDefs
<1>2. PlotTypes'
  BY <1>1 DEF PlotInv, PlotTypes, SetComputedDefs, PlotFiles
<1>3. AreSlots(operandSlots, served)' /\ AreLanded(operands, served)' /\ ShiftedByClocks'
  BY DEF SetComputedDefs, Cleared, AreSlots, AreLanded, ShiftedByClocks
<1>4. ComputedIsOfTheActiveFile'
  BY DEF SetComputedDefs, Cleared, ComputedIsOfTheActiveFile, Fresh
<1> QED
  BY <1>2, <1>3, <1>4 DEF PlotInv

\* A thread's answer, or its end, is about the place it was started for.
LEMMA DecoderStep ==
    ASSUME PlotInv, DecoderEnds
    PROVE  PlotInv'
PROOF
<1>1. PICK loc \in DOMAIN operandSlots, sent \in {"signal", "failed", "ended"} :
          /\ sent \in {DecodeChannel(operandSlots[loc].file, loc), "ended"}
          /\ operandSlots[loc].st = "loading"
          /\ operandSlots' = [operandSlots EXCEPT ![loc].st = sent]
          /\ UNCHANGED <<scope, compared, address, align, definitions, fileId, operands, results,
                         segments, served, disturbed>>
  BY DecodeEnds DEF DecoderEnds
<1> DEFINE of == operandSlots[loc].file
           e == [operandSlots[loc] EXCEPT !.st = sent]
<1>2. /\ operandSlots = [l \in DOMAIN operandSlots |-> operandSlots[l]]
      /\ operandSlots[loc] \in Decode /\ of \in served
  BY DEF PlotInv, AreSlots
<1>3. sent \in {"signal", "failed", "ended"} /\ Tells(sent, of, loc)
  <2>1. sent = DecodeChannel(of, loc) \/ sent = "ended"
    BY <1>1, <1>2
  <2> QED
    BY <2>1, DecodeEnds DEF Tells
<1>4. e \in Decode /\ e.file = of /\ e.st = sent
  BY <1>2, <1>3 DEF Decode
<1> HIDE DEF e, of
<1>5. /\ DOMAIN operandSlots' = DOMAIN operandSlots
      /\ operandSlots' = [l \in DOMAIN operandSlots |-> operandSlots'[l]]
      /\ \A l \in DOMAIN operandSlots : operandSlots'[l] = IF l = loc THEN e ELSE operandSlots[l]
  BY <1>1, <1>2 DEF e, of
<1>6. ASSUME NEW l \in DOMAIN operandSlots
      PROVE  /\ operandSlots'[l] \in Decode /\ operandSlots'[l].file \in served
             /\ Tells(operandSlots'[l].st, operandSlots'[l].file, l)
  BY <1>2, <1>3, <1>4, <1>5 DEF PlotInv, AreSlots
<1>7. AreSlots(operandSlots, served)'
  BY <1>1, <1>5, <1>6 DEF AreSlots, Tells, DecodeChannel
<1>8. AreLanded(operands, served)'
  BY <1>1 DEF PlotInv, AreLanded, Tells, DecodeChannel
<1>9. PlotTypes' /\ ShiftedByClocks'
  BY <1>1 DEF PlotInv, PlotTypes, ShiftedByClocks, AbsoluteOk
<1>10. ComputedIsOfTheActiveFile'
  <2>1. \A l \in DOMAIN operandSlots' : operandSlots'[l].file \in served'
    BY <1>1, <1>5, <1>6
  <2>2. Fresh(segments)' = Fresh(segments)
    BY <1>1 DEF Fresh, Meaning, FindChannelLoc, ActiveFile
  <2>3. (\A d \in DOMAIN results :
          results[d].file = fileId /\ Justified(d, served, results[d].state))'
    BY <1>1, ResultsKept DEF PlotInv
  <2>4. (DOMAIN operands \cup DOMAIN operandSlots
          \subseteq UNION {VisibleOperandLocs(definitions, file) : file \in served})'
    BY <1>1, <1>5, NeededKept DEF PlotInv
  <2> QED
    BY <1>1, <1>5, <2>1, <2>2, <2>3, <2>4 DEF PlotInv, ComputedIsOfTheActiveFile
<1> QED
  BY <1>7, <1>8, <1>9, <1>10 DEF PlotInv

\* A change of file leaves the decodes of the file before, which the next
\* frame drops.
LEMMA ScopeStep ==
    ASSUME PlotInv, ScopeChanges
    PROVE  PlotInv'
PROOF
<1>1. /\ disturbed' = (disturbed \/ scope' # scope)
      /\ UNCHANGED <<align, definitions, fileId, operandSlots, operands, results, segments, served>>
  BY DEF ScopeChanges
<1>2. PlotTypes'
  BY <1>1 DEF PlotInv, PlotTypes, ScopeChanges, Taken, PlotFiles
<1>3. AreSlots(operandSlots, served)' /\ AreLanded(operands, served)'
  BY <1>1 DEF PlotInv, AreSlots, AreLanded, Tells, DecodeChannel
<1>4. disturbed' \/ (scope' = scope /\ scope = "A")
  BY DEF ScopeChanges, PlotInv, PlotTypes
<1>5. (disturbed \/ Fresh(segments))'
  <2> SUFFICES ASSUME ~disturbed'
               PROVE  Fresh(segments)'
    OBVIOUS
  <2>1. ~disturbed /\ scope' = scope /\ scope = "A"
    BY <1>1, <1>4
  <2>2. ActiveFile' = ActiveFile
    BY <2>1 DEF ActiveFile
  <2>3. Fresh(segments)
    BY <2>1 DEF PlotInv, ComputedIsOfTheActiveFile
  <2> QED
    BY <1>1, <2>1, <2>2, <2>3 DEF Fresh, Meaning, FindChannelLoc
<1>6. ShiftedByClocks'
  <2> SUFFICES ASSUME ~disturbed', NEW i \in DOMAIN segments
               PROVE  ~segments[i].shifted
    BY <1>1 DEF ShiftedByClocks
  <2>1. ~disturbed /\ scope = "A"
    BY <1>1, <1>4
  <2> QED
    BY <2>1 DEF PlotInv, ComputedIsOfTheActiveFile, Fresh
<1>7. ComputedIsOfTheActiveFile'
  <2>1. (\A d \in DOMAIN results :
          results[d].file = fileId /\ Justified(d, served, results[d].state))'
    BY <1>1, ResultsKept DEF PlotInv
  <2>2. (DOMAIN operands \cup DOMAIN operandSlots
          \subseteq UNION {VisibleOperandLocs(definitions, file) : file \in served})'
    BY <1>1, NeededKept DEF PlotInv
  <2> QED
    BY <1>1, <1>5, <2>1, <2>2 DEF PlotInv, ComputedIsOfTheActiveFile
<1> QED
  BY <1>2, <1>3, <1>6, <1>7 DEF PlotInv

LEMMA PlotInvStep == PlotInv /\ [PlotNext]_plotVars => PlotInv'
PROOF
<1>1. ASSUME PlotInv, UNCHANGED plotVars
      PROVE  PlotInv'
  <2> USE <1>1 DEF plotVars
  <2>1. PlotTypes' /\ ShiftedByClocks'
    BY DEF PlotInv, PlotTypes, ShiftedByClocks, AbsoluteOk
  <2>2. AreSlots(operandSlots, served)' /\ AreLanded(operands, served)'
    BY DEF PlotInv, AreSlots, AreLanded, Tells, DecodeChannel
  <2>3. Fresh(segments)' = Fresh(segments)
    BY DEF Fresh, Meaning, FindChannelLoc, ActiveFile
  <2>4. ComputedIsOfTheActiveFile'
    <3>1. (\A d \in DOMAIN results :
            results[d].file = fileId /\ Justified(d, served, results[d].state))'
      BY ResultsKept DEF PlotInv
    <3>2. (DOMAIN operands \cup DOMAIN operandSlots
            \subseteq UNION {VisibleOperandLocs(definitions, file) : file \in served})'
      BY NeededKept DEF PlotInv
    <3> QED
      BY <2>3, <3>1, <3>2 DEF PlotInv, ComputedIsOfTheActiveFile
  <2> QED
    BY <2>1, <2>2, <2>4 DEF PlotInv
<1> QED
  BY <1>1, ShowStep, SetStep, DecoderStep, ScopeStep DEF PlotNext

\* The panel before anything is opened beside its file.
LEMMA PlotInvInit == PlotInit => PlotInv
PROOF
<1> SUFFICES ASSUME PlotInit
             PROVE  PlotInv
  OBVIOUS
<1>1. PlotTypes
  BY EmptySeq DEF PlotInit, PlotTypes, PlotFiles
<1>2. AreSlots(operandSlots, served) /\ AreLanded(operands, served) /\ ShiftedByClocks
  BY DEF PlotInit, Cleared, AreSlots, AreLanded, ShiftedByClocks
<1>3. ComputedIsOfTheActiveFile
  BY DEF PlotInit, Cleared, ComputedIsOfTheActiveFile, Fresh
<1> QED
  BY <1>1, <1>2, <1>3 DEF PlotInv

\* The decodes, the results and the points drawn keep belonging together
\* through every frame, edit, answer of a thread and change of file, at
\* whatever address a file is put.
THEOREM PlotInvariant == PlotSpec => []PlotInv
PROOF
  BY PlotInvInit, PlotInvStep, PTL DEF PlotSpec

\* A computed channel is its formula over the files its address has stood for:
\* the active one alone unless it came to lie where a closed one did.  No
\* operand, result or error of a file at another address is ever used, and
\* the points drawn are those of the definition at their place until a text
\* or the file changes.
THEOREM PlotComputesTheActiveFile == PlotSpec => []ComputedIsOfTheActiveFile
PROOF
<1>1. PlotInv => ComputedIsOfTheActiveFile
  BY DEF PlotInv
<1> QED
  BY <1>1, PlotInvariant, PTL

\* What plot.rs:1189 promises of every frame, of every frame it is true of: one
\* over the first file, and one over a second file whose address stood for no
\* other since the panel took it up.
THEOREM PlotClearsUnlessAddressesRecur ==
    PlotSpec =>
        [][Show /\ definitions # <<>> /\ (scope = "A" \/ served' = {ActiveFile}) =>
            \A d \in DOMAIN results' :
                results'[d].state.kind = "ready" =>
                    results'[d].state.of = Meaning(d, ActiveFile)]_plotVars
PROOF
<1> DEFINE Cleared1 == Show /\ definitions # <<>> /\ (scope = "A" \/ served' = {ActiveFile}) =>
               \A d \in DOMAIN results' :
                   results'[d].state.kind = "ready" =>
                       results'[d].state.of = Meaning(d, ActiveFile)
<1>1. PlotInv /\ [PlotNext]_plotVars => [Cleared1]_plotVars
  <2> SUFFICES ASSUME PlotInv, Show, definitions # <<>>,
                      scope = "A" \/ served' = {ActiveFile},
                      NEW d \in DOMAIN results', results'[d].state.kind = "ready"
               PROVE  results'[d].state.of = Meaning(d, ActiveFile)
    OBVIOUS
  <2>1. /\ PlotTypes /\ definitions' \in Edits \cup Deletions
        /\ UNCHANGED <<scope, compared, address>>
    BY DEF PlotInv, Show
  <2>2. definitions' \in Seq(Definition)
    BY <2>1, EditsAreDefinitions, DeletionsAreShorter DEF PlotTypes
  <2>3. Evaluate(FALSE) \/ Evaluate(TRUE)
    <3> DEFINE thrown == definitions = <<>> \/ align' # FallenBack \/ Len(definitions') < Len(definitions)
    <3>1. PICK emptied \in BOOLEAN : emptied = thrown
      OBVIOUS
    <3>2. Evaluate(emptied)
      BY <3>1 DEF Show
    <3>3. CASE emptied
      BY <3>2, <3>3
    <3>4. CASE ~emptied
      BY <3>2, <3>4
    <3> QED
      BY <3>3, <3>4
  <2>4. /\ ActiveFile \in served' /\ AreResults(results', fileId', served')
        /\ fileId' = FirstAddress => served' \subseteq {FirstFile}
    BY <2>1, <2>2, <2>3, FrameOfItsFiles
  <2>5. fileId' = ActiveAddress
    BY <2>3 DEF Evaluate
  <2>6. served' = {ActiveFile}
    BY <2>4, <2>5 DEF ActiveFile, ActiveAddress
  <2>7. Justified(d, {ActiveFile}, results'[d].state)
    BY <2>4, <2>6 DEF AreResults
  <2> QED
    BY <2>7, OfOneFileIsItsMeaning
<1> QED
  BY <1>1, PlotInvariant, PTL DEF PlotSpec

(***************************************************************************)
(* The web reader.                                                         *)
(***************************************************************************)

\* A sequence, of whatever it is of.
IsList(s) == s \in Seq(Range(s))

LEMMA ListIs ==
    ASSUME NEW s, IsList(s)
    PROVE  Len(s) \in Nat /\ DOMAIN s = 1..Len(s)
BY LenProperties DEF IsList

LEMMA ListsAre ==
    ASSUME NEW S, NEW s \in Seq(S)
    PROVE  IsList(s)
<1>1. Len(s) \in Nat /\ s \in [1..Len(s) -> S] /\ DOMAIN s = 1..Len(s)
  BY LenProperties
<1>2. s = [i \in 1..Len(s) |-> s[i]]
  BY <1>1
<1>3. s \in [1..Len(s) -> Range(s)]
  BY <1>1, <1>2 DEF Range
<1> QED
  BY <1>1, <1>3 DEF IsList

LEMMA MadeLists ==
    ASSUME NEW n \in Nat, NEW f, f = [i \in 1..n |-> f[i]]
    PROVE  IsList(f) /\ Len(f) = n
<1>1. f \in [1..n -> Range(f)]
  BY DEF Range
<1>2. f \in Seq(Range(f))
  BY <1>1, IsASeq
<1> QED
  BY <1>1, <1>2, LenProperties DEF IsList

\* The names of a list, in its order.
LEMMA NamesAre ==
    ASSUME NEW s, IsList(s)
    PROVE  /\ IsList(NamesIn(s))
           /\ Len(NamesIn(s)) = Len(s)
           /\ \A i \in 1..Len(s) : NamesIn(s)[i] = s[i].name
<1>1. Len(s) \in Nat /\ DOMAIN s = 1..Len(s)
  BY ListIs
<1>2. NamesIn(s) = [i \in 1..Len(s) |-> s[i].name]
  BY <1>1 DEF NamesIn
<1>3. NamesIn(s) = [i \in 1..Len(s) |-> NamesIn(s)[i]]
  BY <1>2
<1> QED
  BY <1>1, <1>2, <1>3, MadeLists

\* The first place that has a name.
LEMMA FirstPlace ==
    ASSUME NEW names, IsList(names), NEW name, \E i \in DOMAIN names : names[i] = name
    PROVE  /\ Position(names, name) \in 1..Len(names)
           /\ IsFirst(names, Position(names, name), name)
           /\ \A i \in 1..Len(names) : IsFirst(names, i, name) => i = Position(names, name)
<1> DEFINE T == {i \in 1..Len(names) : names[i] = name}
<1>1. Len(names) \in Nat /\ DOMAIN names = 1..Len(names)
  BY ListIs
<1>2. T # {} /\ T \in SUBSET Nat
  BY <1>1
<1>3. PICK j \in T : \A i \in T : j <= i
  <2> HIDE DEF T
  <2> QED
    BY <1>2, LeastNumber
<1>4. j \in DOMAIN names /\ IsFirst(names, j, name)
  BY <1>1, <1>3 DEF IsFirst
<1>5. Position(names, name) \in DOMAIN names /\ IsFirst(names, Position(names, name), name)
  BY <1>4 DEF Position
<1>6. ASSUME NEW i \in 1..Len(names), NEW k \in 1..Len(names),
             IsFirst(names, i, name), IsFirst(names, k, name)
      PROVE  i = k
  BY <1>1, <1>6 DEF IsFirst
<1> QED
  BY <1>1, <1>5, <1>6

\* A sequence without one of its places.
IsWithout(r, s, p) ==
    /\ IsList(r)
    /\ Len(r) = Len(s) - 1
    /\ \A i \in 1..Len(r) : r[i] = IF i < p THEN s[i] ELSE s[i + 1]

LEMMA RemovedAt ==
    ASSUME NEW s, IsList(s), NEW p \in 1..Len(s)
    PROVE  IsWithout(RemoveAt(s, p), s, p)
<1>1. s \in Seq(Range(s)) /\ Len(s) \in Nat
  BY ListIs DEF IsList
<1>2. PICK a : a = SubSeq(s, 1, p - 1)
  OBVIOUS
<1>3. PICK b : b = SubSeq(s, p + 1, Len(s))
  OBVIOUS
<1>4. a \in Seq(Range(s)) /\ Len(a) = p - 1 /\ \A i \in 1..(p - 1) : a[i] = s[i]
  BY <1>1, <1>2, SubSeqProperties
<1>5. b \in Seq(Range(s)) /\ Len(b) = Len(s) - p /\ \A i \in 1..(Len(s) - p) : b[i] = s[p + i]
  BY <1>1, <1>3, SubSeqProperties
<1>6. PICK r : r = a \o b
  OBVIOUS
<1>7. /\ r \in Seq(Range(s)) /\ Len(r) = Len(a) + Len(b)
      /\ \A i \in 1..Len(a) + Len(b) : r[i] = IF i <= Len(a) THEN a[i] ELSE b[i - Len(a)]
  BY <1>4, <1>5, <1>6, ConcatProperties
<1>10. Len(r) = Len(s) - 1 /\ Len(a) = p - 1
  BY <1>1, <1>4, <1>5, <1>7
<1>8. ASSUME NEW i \in 1..Len(r)
      PROVE  r[i] = IF i < p THEN s[i] ELSE s[i + 1]
  <2>1. r[i] = IF i <= Len(a) THEN a[i] ELSE b[i - Len(a)]
    BY <1>7
  <2>2. CASE i < p
    BY <1>1, <1>4, <1>10, <2>1, <2>2
  <2>3. CASE i >= p
    <3>1. i - (p - 1) \in 1..(Len(s) - p) /\ p + (i - (p - 1)) = i + 1
      BY <1>1, <1>10, <2>3
    <3>2. b[i - (p - 1)] = s[i + 1]
      BY <1>5, <3>1
    <3> QED
      BY <1>1, <1>10, <2>1, <2>3, <3>2
  <2> QED
    BY <1>1, <1>10, <2>2, <2>3
<1>9. RemoveAt(s, p) = r
  BY <1>2, <1>3, <1>6 DEF RemoveAt
<1> QED
  BY <1>7, <1>8, <1>9, <1>10, ListsAre DEF IsWithout

\* The last n of a sequence.
IsLast(r, s, n) ==
    /\ IsList(r)
    /\ Len(r) = n
    /\ \A i \in 1..n : r[i] = s[Len(s) - n + i]

LEMMA LastOnes ==
    ASSUME NEW s, IsList(s), NEW n \in 0..Len(s)
    PROVE  IsLast(LastOf(s, n), s, n)
<1>1. s \in Seq(Range(s)) /\ Len(s) \in Nat
  BY ListIs DEF IsList
<1>2. PICK m : m = Len(s) - n + 1
  OBVIOUS
<1>3. LastOf(s, n) = SubSeq(s, m, Len(s))
  <2>1. PICK k : k = IF Len(s) > n THEN Len(s) - n + 1 ELSE 1
    OBVIOUS
  <2>2. LastOf(s, n) = SubSeq(s, k, Len(s))
    BY <2>1 DEF LastOf
  <2>3. k = m
    BY <1>1, <1>2, <2>1
  <2> QED
    BY <2>2, <2>3
<1>4. PICK r : r = SubSeq(s, m, Len(s))
  OBVIOUS
<1>5. m \in 1..(Len(s) + 1) /\ Len(s) - m + 1 = n
  BY <1>1, <1>2
<1>6. r \in Seq(Range(s)) /\ Len(r) = n /\ \A i \in 1..n : r[i] = s[m + i - 1]
  BY <1>1, <1>4, <1>5, SubSeqProperties
<1>7. IsList(r)
  BY <1>6, ListsAre
<1>8. \A i \in 1..n : r[i] = s[Len(s) - n + i]
  <2>1. \A i \in 1..n : m + i - 1 = Len(s) - n + i
    BY <1>1, <1>2
  <2> QED
    BY <1>6, <2>1
<1>9. LastOf(s, n) = r
  BY <1>3, <1>4
<1> QED
  BY <1>6, <1>7, <1>8, <1>9 DEF IsLast

LEMMA AllOfThem ==
    ASSUME NEW s, IsList(s), NEW n \in Nat, Len(s) <= n
    PROVE  LastOf(s, n) = s
<1>1. s \in Seq(Range(s)) /\ Len(s) \in Nat
  BY ListIs DEF IsList
<1>2. LastOf(s, n) = SubSeq(s, 1, Len(s))
  <2>1. ~(Len(s) > n)
    BY <1>1
  <2> QED
    BY <2>1 DEF LastOf
<1> QED
  BY <1>1, <1>2, SubSeqFull

\* Lists are the same when their lengths and places are.
LEMMA SameList ==
    ASSUME NEW s, NEW t, IsList(s), IsList(t), Len(s) = Len(t),
           \A i \in 1..Len(s) : s[i] = t[i]
    PROVE  s = t
<1>1. s = [i \in 1..Len(s) |-> s[i]] /\ t = [i \in 1..Len(t) |-> t[i]]
  <2>1. s \in [1..Len(s) -> Range(s)] /\ t \in [1..Len(t) -> Range(t)]
    BY LenProperties DEF IsList
  <2> QED
    BY <2>1
<1> QED
  BY <1>1

LEMMA Appended ==
    ASSUME NEW s, IsList(s), NEW e
    PROVE  /\ IsList(Append(s, e))
           /\ Len(Append(s, e)) = Len(s) + 1
           /\ Append(s, e)[Len(s) + 1] = e
           /\ \A i \in 1..Len(s) : Append(s, e)[i] = s[i]
<1> DEFINE S == Range(s) \cup {e}
<1>1. s \in Seq(Range(s)) /\ Len(s) \in Nat
  BY ListIs DEF IsList
<1>2. s \in Seq(S) /\ e \in S
  BY <1>1, SeqMonotonic
<1> HIDE DEF S
<1>3. PICK t : t = Append(s, e)
  OBVIOUS
<1>4. /\ t \in Seq(S) /\ Len(t) = Len(s) + 1 /\ t[Len(s) + 1] = e
      /\ \A i \in 1..Len(s) : t[i] = s[i]
  BY <1>2, <1>3, AppendProperties
<1>5. IsList(t)
  BY <1>4, ListsAre
<1> QED
  BY <1>3, <1>4, <1>5

(***************************************************************************)
(* How many bytes the series of some names have.                           *)
(***************************************************************************)

\* The bytes of the first n of them.
IsBytes(b, names) ==
    /\ b \in [0..Len(names) -> Nat]
    /\ b[0] = 0
    /\ \A n \in 1..Len(names) : b[n] = b[n - 1] + SeriesBytes[names[n]]

LEMMA BytesAre ==
    ASSUME NEW names \in Seq(AnyName)
    PROVE  \E b : IsBytes(b, names) /\ BytesOf(names) = b[Len(names)]
<1> DEFINE N == Len(names)
           F == [n \in 1..N |-> [k \in Nat |-> k + SeriesBytes[names[n]]]]
           Body(g) == [n \in 0..N |-> IF n = 0 THEN 0 ELSE g[n - 1] + SeriesBytes[names[n]]]
<1>1. N \in Nat /\ \A n \in 1..N : SeriesBytes[names[n]] \in Nat
  BY WebFileAssumption, LenProperties, ElementOfSeq
<1> HIDE DEF N
<1>2. F \in [1..N -> [Nat -> Nat]]
  BY <1>1
<1>3. PICK f : IsRecursion(f, N, Nat, 0, F)
  <2> HIDE DEF F
  <2> QED
    BY <1>1, <1>2, Recursion
<1>4. f \in [0..N -> Nat] /\ f = [n \in 0..N |-> IF n = 0 THEN 0 ELSE F[n][f[n - 1]]]
  BY <1>3 DEF IsRecursion
<1>5. ASSUME NEW n \in 1..N
      PROVE  F[n][f[n - 1]] = f[n - 1] + SeriesBytes[names[n]]
  <2>1. n - 1 \in 0..N
    BY <1>1
  <2>2. PICK k \in Nat : k = f[n - 1]
    BY <1>4, <2>1
  <2>3. F[n] = [j \in Nat |-> j + SeriesBytes[names[n]]]
    OBVIOUS
  <2>4. F[n][k] = k + SeriesBytes[names[n]]
    BY <2>3
  <2> QED
    BY <2>2, <2>4
<1>6. f = Body(f)
  <2>1. \A n \in 0..N : n # 0 => n \in 1..N
    BY <1>1
  <2>2. [n \in 0..N |-> IF n = 0 THEN 0 ELSE F[n][f[n - 1]]] = Body(f)
    <3> HIDE DEF F
    <3> QED
      BY <1>5, <2>1
  <2> HIDE DEF F, Body
  <2> QED
    BY <1>4, <2>2
<1>7. PICK b : b = CHOOSE g : g = Body(g)
  OBVIOUS
<1>8. b = Body(b)
  <2> HIDE DEF Body
  <2> QED
    BY <1>6, <1>7
<1>9. BytesOf(names) = b[N]
  BY <1>7 DEF BytesOf, N
<1>10. \A n \in 0..N : b[n] = IF n = 0 THEN 0 ELSE b[n - 1] + SeriesBytes[names[n]]
  BY <1>8
<1>11. DOMAIN b = 0..N /\ b[0] = 0 /\ \A n \in 1..N : b[n] = b[n - 1] + SeriesBytes[names[n]]
  BY <1>1, <1>8, <1>10
<1> DEFINE T == {n \in 0..N : b[n] \in Nat}
<1>12. \A n \in 0..N : n \in T
  <2>1. 0 \in T
    BY <1>1, <1>11
  <2>2. ASSUME NEW n \in 1..N, n - 1 \in T
        PROVE  n \in T
    <3>1. b[n - 1] \in Nat /\ SeriesBytes[names[n]] \in Nat /\ n \in 0..N
      BY <1>1, <2>2
    <3>2. b[n] = b[n - 1] + SeriesBytes[names[n]]
      BY <1>11
    <3> QED
      BY <3>1, <3>2
  <2> HIDE DEF T
  <2> QED
    BY <1>1, <2>1, <2>2, UpToInduction
<1>13. b \in [0..N -> Nat]
  <2>1. b = [n \in 0..N |-> b[n]]
    BY <1>8
  <2> QED
    BY <1>12, <2>1
<1> QED
  BY <1>9, <1>11, <1>13 DEF IsBytes, N

LEMMA SameBytes ==
    ASSUME NEW s \in Seq(AnyName), NEW t \in Seq(AnyName), NEW b, NEW c, IsBytes(b, s), IsBytes(c, t),
           NEW n \in Nat, n <= Len(s), n <= Len(t), \A i \in 1..n : s[i] = t[i]
    PROVE  b[n] = c[n]
<1> DEFINE T == {k \in 0..n : b[k] = c[k]}
<1>1. Len(s) \in Nat /\ Len(t) \in Nat
  BY LenProperties
<1>2. 0 \in T
  BY DEF IsBytes
<1>3. ASSUME NEW k \in 1..n, k - 1 \in T
      PROVE  k \in T
  <2>1. k \in 1..Len(s) /\ k \in 1..Len(t) /\ k \in 0..n
    BY <1>1
  <2>2. b[k] = b[k - 1] + SeriesBytes[s[k]] /\ c[k] = c[k - 1] + SeriesBytes[t[k]]
    BY <2>1 DEF IsBytes
  <2>3. b[k - 1] = c[k - 1] /\ s[k] = t[k]
    BY <1>3
  <2> QED
    BY <2>1, <2>2, <2>3
<1>4. \A k \in 0..n : k \in T
  <2> HIDE DEF T
  <2> QED
    BY <1>2, <1>3, UpToInduction
<1> QED
  BY <1>4

\* One more name, its bytes more.
LEMMA BytesOfAppended ==
    ASSUME NEW s \in Seq(AnyName), NEW e \in AnyName
    PROVE  /\ BytesOf(s) \in Nat /\ SeriesBytes[e] \in Nat
           /\ BytesOf(Append(s, e)) = BytesOf(s) + SeriesBytes[e]
<1>1. PICK t : t = Append(s, e)
  OBVIOUS
<1>2. /\ t \in Seq(AnyName) /\ Len(t) = Len(s) + 1 /\ t[Len(s) + 1] = e
      /\ \A i \in 1..Len(s) : t[i] = s[i]
  BY <1>1, AppendProperties
<1>3. PICK b : IsBytes(b, s) /\ BytesOf(s) = b[Len(s)]
  BY BytesAre
<1>4. PICK c : IsBytes(c, t) /\ BytesOf(t) = c[Len(t)]
  BY <1>2, BytesAre
<1>5. Len(s) \in Nat
  BY LenProperties
<1>6. b[Len(s)] = c[Len(s)]
  BY <1>2, <1>3, <1>4, <1>5, SameBytes
<1>7. b[Len(s)] \in Nat /\ c[Len(t)] = c[Len(t) - 1] + SeriesBytes[t[Len(t)]]
  BY <1>2, <1>3, <1>4, <1>5 DEF IsBytes
<1>8. SeriesBytes[e] \in Nat
  BY WebFileAssumption
<1> QED
  BY <1>1, <1>2, <1>3, <1>4, <1>5, <1>6, <1>7, <1>8

\* Taken out of its place, a name takes its bytes with it.
LEMMA BytesOfWithout ==
    ASSUME NEW s \in Seq(AnyName), NEW p \in 1..Len(s), NEW r \in Seq(AnyName), IsWithout(r, s, p)
    PROVE  BytesOf(s) = BytesOf(r) + SeriesBytes[s[p]]
<1>1. Len(s) \in Nat /\ Len(r) \in Nat /\ Len(r) = Len(s) - 1
  BY LenProperties DEF IsWithout
<1>2. \A i \in 1..Len(r) : r[i] = IF i < p THEN s[i] ELSE s[i + 1]
  BY DEF IsWithout
<1>3. PICK b : IsBytes(b, s) /\ BytesOf(s) = b[Len(s)]
  BY BytesAre
<1>4. PICK c : IsBytes(c, r) /\ BytesOf(r) = c[Len(r)]
  BY BytesAre
<1>5. b[p - 1] = c[p - 1]
  <2>1. p - 1 \in Nat /\ p - 1 <= Len(s) /\ p - 1 <= Len(r) /\ \A i \in 1..(p - 1) : s[i] = r[i]
    BY <1>1, <1>2
  <2> QED
    BY <1>3, <1>4, <2>1, SameBytes
<1>6. PICK x : x = SeriesBytes[s[p]]
  OBVIOUS
<1>7. x \in Nat
  BY <1>1, <1>6, WebFileAssumption, ElementOfSeq
<1> DEFINE T == {k \in 0..Len(r) : k >= p - 1 => b[k + 1] = c[k] + x}
<1>8. ASSUME NEW k \in 0..Len(r), k >= p, b[k] = c[k - 1] + x
      PROVE  b[k + 1] = c[k] + x
  <2>1. k \in 1..Len(r) /\ k + 1 \in 1..Len(s) /\ r[k] = s[k + 1]
    BY <1>1, <1>2, <1>8
  <2>2. b[k + 1] = b[k] + SeriesBytes[s[k + 1]] /\ c[k] = c[k - 1] + SeriesBytes[r[k]]
    <3>1. \A n \in 1..Len(s) : b[n] = b[n - 1] + SeriesBytes[s[n]]
      BY <1>3 DEF IsBytes
    <3>2. \A n \in 1..Len(r) : c[n] = c[n - 1] + SeriesBytes[r[n]]
      BY <1>4 DEF IsBytes
    <3>3. b[k + 1] = b[k + 1 - 1] + SeriesBytes[s[k + 1]]
      BY <2>1, <3>1
    <3> QED
      BY <2>1, <3>2, <3>3
  <2>3. c[k - 1] \in Nat /\ SeriesBytes[r[k]] \in Nat
    <3>1. k - 1 \in 0..Len(r)
      BY <1>1, <2>1
    <3>2. r[k] \in AnyName
      BY <2>1, ElementOfSeq
    <3> QED
      BY <1>4, <3>1, <3>2, WebFileAssumption DEF IsBytes
  <2> QED
    BY <1>7, <1>8, <2>1, <2>2, <2>3
<1>9. b[p] = c[p - 1] + x
  <2>1. b[p] = b[p - 1] + SeriesBytes[s[p]]
    BY <1>1, <1>3 DEF IsBytes
  <2> QED
    BY <1>5, <1>6, <2>1
<1>10. 0 \in T
  <2>1. 0 >= p - 1 => p = 1
    BY <1>1
  <2> QED
    BY <1>1, <1>9, <2>1
<1>11. ASSUME NEW k \in 1..Len(r), k - 1 \in T
       PROVE  k \in T
  <2>1. k \in 0..Len(r)
    BY <1>1
  <2>2. CASE k >= p
    <3>1. b[k - 1 + 1] = c[k - 1] + x
      BY <1>1, <1>11, <2>2
    <3>2. b[k] = c[k - 1] + x
      BY <1>1, <3>1
    <3> QED
      BY <1>8, <2>1, <2>2, <3>2
  <2>3. CASE k = p - 1
    <3>1. k + 1 = p /\ p - 1 = k
      BY <1>1, <2>3
    <3> QED
      BY <1>9, <2>1, <3>1
  <2>4. CASE k < p - 1
    BY <1>1, <2>1, <2>4
  <2> QED
    BY <1>1, <2>2, <2>3, <2>4
<1>12. \A k \in 0..Len(r) : k \in T
  <2> HIDE DEF T
  <2> QED
    BY <1>1, <1>10, <1>11, UpToInduction
<1>13. b[Len(r) + 1] = c[Len(r)] + x
  BY <1>1, <1>12
<1> QED
  BY <1>1, <1>3, <1>4, <1>6, <1>13

(***************************************************************************)
(* The series kept are the last used.                                      *)
(***************************************************************************)

\* A part of a sequence is of what the sequence is of.
LEMMA PartsAreOf ==
    ASSUME NEW S, NEW s \in Seq(S), NEW r, IsList(r),
           \A i \in 1..Len(r) : \E k \in 1..Len(s) : r[i] = s[k]
    PROVE  r \in Seq(S)
<1>1. Len(r) \in Nat /\ DOMAIN r = 1..Len(r)
  BY ListIs
<1>2. r = [i \in 1..Len(r) |-> r[i]]
  <2>1. r \in [1..Len(r) -> Range(r)]
    BY LenProperties DEF IsList
  <2> QED
    BY <2>1
<1>3. \A i \in 1..Len(r) : r[i] \in S
  BY ElementOfSeq
<1>4. r \in [1..Len(r) -> S]
  BY <1>2, <1>3
<1> QED
  BY <1>1, <1>4, IsASeq

LEMMA WithoutIsOf ==
    ASSUME NEW S, NEW s \in Seq(S), NEW p \in 1..Len(s), NEW r, IsWithout(r, s, p)
    PROVE  r \in Seq(S)
<1>1. Len(s) \in Nat /\ IsList(r) /\ Len(r) = Len(s) - 1
  BY LenProperties DEF IsWithout
<1>2. ASSUME NEW i \in 1..Len(r)
      PROVE  \E k \in 1..Len(s) : r[i] = s[k]
  <2>1. i \in 1..Len(s) /\ i + 1 \in 1..Len(s)
    BY <1>1
  <2>2. r[i] = IF i < p THEN s[i] ELSE s[i + 1]
    BY DEF IsWithout
  <2> QED
    BY <2>1, <2>2
<1> QED
  BY <1>1, <1>2, PartsAreOf

LEMMA LastIsOf ==
    ASSUME NEW S, NEW s \in Seq(S), NEW n \in 0..Len(s)
    PROVE  /\ LastOf(s, n) \in Seq(S)
           /\ Len(LastOf(s, n)) = n
           /\ \A i \in 1..n : LastOf(s, n)[i] = s[Len(s) - n + i]
<1>1. Len(s) \in Nat /\ IsList(s)
  BY LenProperties, ListsAre
<1>2. PICK r : r = LastOf(s, n)
  OBVIOUS
<1>3. IsLast(r, s, n)
  BY <1>1, <1>2, LastOnes
<1>4. IsList(r) /\ Len(r) = n /\ \A i \in 1..n : r[i] = s[Len(s) - n + i]
  BY <1>3 DEF IsLast
<1>5. ASSUME NEW i \in 1..Len(r)
      PROVE  \E k \in 1..Len(s) : r[i] = s[k]
  <2>1. Len(s) - n + i \in 1..Len(s)
    BY <1>1, <1>4
  <2> QED
    BY <1>4, <2>1
<1>6. r \in Seq(S)
  BY <1>4, <1>5, PartsAreOf
<1> QED
  BY <1>2, <1>4, <1>6

\* Sequences are the same when their places are.
LEMMA SamePlaces ==
    ASSUME NEW S, NEW s \in Seq(S), NEW t \in Seq(S), Len(s) = Len(t),
           \A i \in 1..Len(s) : s[i] = t[i]
    PROVE  s = t
BY ListsAre, SameList

\* What is last with one more behind it.
LEMMA LastWithOneMore ==
    ASSUME NEW S, NEW s \in Seq(S), NEW e \in S, NEW n \in 0..Len(s)
    PROVE  LastOf(Append(s, e), n + 1) = Append(LastOf(s, n), e)
<1>1. Len(s) \in Nat
  BY LenProperties
<1>2. PICK t : t = Append(s, e)
  OBVIOUS
<1>3. t \in Seq(S) /\ Len(t) = Len(s) + 1 /\ t[Len(s) + 1] = e /\ \A i \in 1..Len(s) : t[i] = s[i]
  BY <1>2, AppendProperties
<1>4. PICK a : a = LastOf(s, n)
  OBVIOUS
<1>5. a \in Seq(S) /\ Len(a) = n /\ \A i \in 1..n : a[i] = s[Len(s) - n + i]
  BY <1>4, LastIsOf
<1>6. PICK b : b = Append(a, e)
  OBVIOUS
<1>7. b \in Seq(S) /\ Len(b) = n + 1 /\ b[n + 1] = e /\ \A i \in 1..n : b[i] = a[i]
  BY <1>5, <1>6, AppendProperties
<1>8. PICK c : c = LastOf(t, n + 1)
  OBVIOUS
<1>9. c \in Seq(S) /\ Len(c) = n + 1 /\ \A i \in 1..n + 1 : c[i] = t[Len(t) - (n + 1) + i]
  <2>1. n + 1 \in 0..Len(t)
    BY <1>1, <1>3
  <2> QED
    BY <1>3, <1>8, <2>1, LastIsOf
<1>10. ASSUME NEW i \in 1..n + 1
       PROVE  c[i] = b[i]
  <2>1. Len(t) - (n + 1) + i = Len(s) - n + i
    BY <1>1, <1>3
  <2>2. c[i] = t[Len(s) - n + i]
    BY <1>9, <2>1
  <2>3. CASE i = n + 1
    <3>1. Len(s) - n + i = Len(s) + 1
      BY <1>1, <2>3
    <3> QED
      BY <1>3, <1>7, <2>2, <2>3, <3>1
  <2>4. CASE i # n + 1
    <3>1. i \in 1..n /\ Len(s) - n + i \in 1..Len(s)
      BY <1>1, <2>4
    <3> QED
      BY <1>3, <1>5, <1>7, <2>2, <3>1
  <2> QED
    BY <2>3, <2>4
<1>11. c = b
  BY <1>7, <1>9, <1>10, SamePlaces
<1> QED
  BY <1>2, <1>4, <1>6, <1>8, <1>11

\* The last of the last are the last.
LEMMA LastOfTheLast ==
    ASSUME NEW S, NEW s \in Seq(S), NEW m \in 0..Len(s), NEW n \in 0..m
    PROVE  LastOf(LastOf(s, m), n) = LastOf(s, n)
<1>1. Len(s) \in Nat
  BY LenProperties
<1>2. PICK a : a = LastOf(s, m)
  OBVIOUS
<1>3. a \in Seq(S) /\ Len(a) = m /\ \A i \in 1..m : a[i] = s[Len(s) - m + i]
  BY <1>2, LastIsOf
<1>4. PICK b : b = LastOf(a, n)
  OBVIOUS
<1>5. b \in Seq(S) /\ Len(b) = n /\ \A i \in 1..n : b[i] = a[m - n + i]
  BY <1>3, <1>4, LastIsOf
<1>6. PICK c : c = LastOf(s, n)
  OBVIOUS
<1>7. c \in Seq(S) /\ Len(c) = n /\ \A i \in 1..n : c[i] = s[Len(s) - n + i]
  <2>1. n \in 0..Len(s)
    BY <1>1
  <2> QED
    BY <1>6, <2>1, LastIsOf
<1>8. ASSUME NEW i \in 1..n
      PROVE  b[i] = c[i]
  <2>1. m - n + i \in 1..m /\ Len(s) - m + (m - n + i) = Len(s) - n + i
    BY <1>1
  <2>2. a[m - n + i] = s[Len(s) - m + (m - n + i)]
    BY <1>3, <2>1
  <2> QED
    BY <1>5, <1>7, <2>1, <2>2
<1>9. b = c
  BY <1>5, <1>7, <1>8, SamePlaces
<1> QED
  BY <1>2, <1>4, <1>6, <1>9

\* What is left without the first few.
LEMMA RestIsLast ==
    ASSUME NEW S, NEW s \in Seq(S), NEW n \in 0..Len(s)
    PROVE  SubSeq(s, n + 1, Len(s)) = LastOf(s, Len(s) - n)
<1>1. Len(s) \in Nat
  BY LenProperties
<1>2. PICK k : k = IF Len(s) > Len(s) - n THEN Len(s) - (Len(s) - n) + 1 ELSE 1
  OBVIOUS
<1>3. LastOf(s, Len(s) - n) = SubSeq(s, k, Len(s))
  BY <1>2 DEF LastOf
<1>4. k = n + 1
  BY <1>1, <1>2
<1> QED
  BY <1>3, <1>4

\* The names besides one.
LEMMA OthersAre ==
    ASSUME NEW s \in Seq(AnyName), IsInjective(s), NEW name
    PROVE  /\ \A p \in 1..Len(s) : s[p] = name => IsWithout(Others(s, name), s, p)
           /\ (\A p \in 1..Len(s) : s[p] # name) => Others(s, name) = s
           /\ Others(s, name) \in Seq(AnyName)
<1>1. IsList(s) /\ Len(s) \in Nat /\ DOMAIN s = 1..Len(s)
  BY ListsAre, LenProperties
<1>2. ASSUME NEW p \in 1..Len(s), s[p] = name
      PROVE  IsWithout(Others(s, name), s, p)
  <2>1. \E i \in DOMAIN s : s[i] = name
    BY <1>1, <1>2
  <2>2. Position(s, name) \in 1..Len(s) /\ IsFirst(s, Position(s, name), name)
    BY <1>1, <2>1, FirstPlace
  <2>3. Position(s, name) = p
    BY <1>1, <1>2, <2>2 DEF IsFirst, IsInjective
  <2>4. Others(s, name) = RemoveAt(s, p)
    BY <2>1, <2>3 DEF Others
  <2> QED
    BY <1>1, <2>4, RemovedAt
<1>3. (\A p \in 1..Len(s) : s[p] # name) => Others(s, name) = s
  BY <1>1 DEF Others
<1>4. Others(s, name) \in Seq(AnyName)
  BY <1>2, <1>3, WithoutIsOf
<1> QED
  BY <1>2, <1>3, <1>4

\* A name taken out of a sequence and out of its last few, and put behind: the
\* last few are the same names again, of the same bytes.
LEMMA PutBehind ==
    ASSUME NEW u \in Seq(AnyName), IsInjective(u), NEW name \in AnyName,
           NEW m \in 1..Len(u), NEW p \in 1..m, LastOf(u, m)[p] = name
    PROVE  /\ m - 1 \in 0..Len(Others(u, name))
           /\ Len(Others(u, name)) = Len(u) - 1
           /\ IsWithout(LastOf(Others(u, name), m - 1), LastOf(u, m), p)
           /\ LastOf(Append(Others(u, name), name), m) = Append(LastOf(Others(u, name), m - 1), name)
           /\ BytesOf(LastOf(Append(Others(u, name), name), m)) = BytesOf(LastOf(u, m))
           /\ Len(LastOf(Append(Others(u, name), name), m)) = m
<1>1. Len(u) \in Nat
  BY LenProperties
<1>2. PICK x : x = LastOf(u, m)
  OBVIOUS
<1>3. x \in Seq(AnyName) /\ Len(x) = m /\ \A i \in 1..m : x[i] = u[Len(u) - m + i]
  BY <1>2, LastIsOf
<1>4. PICK q : q = Len(u) - m + p
  OBVIOUS
<1>5. q \in 1..Len(u) /\ u[q] = name
  BY <1>1, <1>2, <1>3, <1>4
<1>6. PICK o : o = Others(u, name)
  OBVIOUS
<1>7. o \in Seq(AnyName) /\ IsWithout(o, u, q)
  BY <1>5, <1>6, OthersAre
<1>8. Len(o) = Len(u) - 1 /\ \A i \in 1..Len(o) : o[i] = IF i < q THEN u[i] ELSE u[i + 1]
  BY <1>7 DEF IsWithout
<1>9. m - 1 \in 0..Len(o)
  BY <1>1, <1>8
<1>10. PICK z : z = LastOf(o, m - 1)
  OBVIOUS
<1>11. z \in Seq(AnyName) /\ Len(z) = m - 1 /\ \A i \in 1..m - 1 : z[i] = o[Len(o) - (m - 1) + i]
  BY <1>7, <1>9, <1>10, LastIsOf
<1>12. ASSUME NEW i \in 1..Len(z)
       PROVE  z[i] = IF i < p THEN x[i] ELSE x[i + 1]
  <2>1. PICK k : k = Len(u) - m + i
    OBVIOUS
  <2>2. Len(o) - (m - 1) + i = k /\ k \in 1..Len(o) /\ (k < q <=> i < p)
    BY <1>1, <1>4, <1>8, <1>11, <2>1
  <2>3. z[i] = IF i < p THEN u[k] ELSE u[k + 1]
    BY <1>8, <1>11, <2>2
  <2>4. i \in 1..m /\ i + 1 \in 1..m /\ Len(u) - m + (i + 1) = k + 1
    BY <1>1, <1>11, <2>1
  <2>5. x[i] = u[k] /\ x[i + 1] = u[k + 1]
    BY <1>3, <2>1, <2>4
  <2> QED
    BY <2>3, <2>5
<1>13. IsWithout(z, x, p)
  BY <1>3, <1>11, <1>12, ListsAre DEF IsWithout
<1>14. LastOf(Append(o, name), m - 1 + 1) = Append(z, name)
  BY <1>7, <1>9, <1>10, LastWithOneMore
<1>15. m - 1 + 1 = m
  OBVIOUS
<1>16. BytesOf(x) = BytesOf(z) + SeriesBytes[name]
  <2>1. p \in 1..Len(x) /\ x[p] = name
    BY <1>2, <1>3
  <2>2. BytesOf(x) = BytesOf(z) + SeriesBytes[x[p]]
    <3> HIDE DEF IsWithout, BytesOf
    <3> QED
      BY <1>3, <1>11, <1>13, <2>1, BytesOfWithout
  <2> QED
    BY <2>1, <2>2
<1>17. BytesOf(Append(z, name)) = BytesOf(z) + SeriesBytes[name]
  BY <1>11, BytesOfAppended
<1>18. Len(Append(z, name)) = m
  BY <1>11, AppendProperties
<1> QED
  BY <1>2, <1>6, <1>8, <1>9, <1>10, <1>13, <1>14, <1>15, <1>16, <1>17, <1>18

\* A name that is not among the last few, taken out, leaves these the last.
LEMMA TakenFromBefore ==
    ASSUME NEW u \in Seq(AnyName), IsInjective(u), NEW name,
           NEW m \in 0..Len(u), \A p \in 1..m : LastOf(u, m)[p] # name
    PROVE  m \in 0..Len(Others(u, name)) /\ LastOf(Others(u, name), m) = LastOf(u, m)
<1>1. Len(u) \in Nat
  BY LenProperties
<1>2. PICK x : x = LastOf(u, m)
  OBVIOUS
<1>3. x \in Seq(AnyName) /\ Len(x) = m /\ \A i \in 1..m : x[i] = u[Len(u) - m + i]
  BY <1>2, LastIsOf
<1>4. CASE \A p \in 1..Len(u) : u[p] # name
  BY <1>4, OthersAre
<1>5. CASE \E p \in 1..Len(u) : u[p] = name
  <2>1. PICK q \in 1..Len(u) : u[q] = name
    BY <1>5
  <2>2. PICK o : o = Others(u, name)
    OBVIOUS
  <2>3. o \in Seq(AnyName) /\ IsWithout(o, u, q)
    BY <2>1, <2>2, OthersAre
  <2>4. Len(o) = Len(u) - 1 /\ \A i \in 1..Len(o) : o[i] = IF i < q THEN u[i] ELSE u[i + 1]
    BY <2>3 DEF IsWithout
  <2>5. q <= Len(u) - m
    <3> SUFFICES ASSUME q > Len(u) - m
                 PROVE  FALSE
      BY <1>1
    <3>1. q - (Len(u) - m) \in 1..m /\ Len(u) - m + (q - (Len(u) - m)) = q
      BY <1>1
    <3> QED
      BY <1>2, <1>3, <2>1, <3>1
  <2>6. m \in 0..Len(o)
    BY <1>1, <2>4, <2>5
  <2>7. PICK z : z = LastOf(o, m)
    OBVIOUS
  <2>8. z \in Seq(AnyName) /\ Len(z) = m /\ \A i \in 1..m : z[i] = o[Len(o) - m + i]
    BY <2>3, <2>6, <2>7, LastIsOf
  <2>9. ASSUME NEW i \in 1..m
        PROVE  z[i] = x[i]
    <3>1. PICK k : k = Len(o) - m + i
      OBVIOUS
    <3>2. k \in 1..Len(o) /\ ~(k < q) /\ k + 1 = Len(u) - m + i
      BY <1>1, <2>4, <2>5, <2>6, <3>1
    <3>3. z[i] = u[k + 1]
      BY <2>4, <2>8, <3>1, <3>2
    <3> QED
      BY <1>3, <3>2, <3>3
  <2>10. z = x
    BY <1>3, <2>8, <2>9, SamePlaces
  <2> QED
    BY <1>2, <2>2, <2>6, <2>7, <2>10
<1> QED
  BY <1>4, <1>5

\* What does not fit does not fit with one more.
LEMMA StillDoesNotFit ==
    ASSUME NEW s \in Seq(AnyName), NEW e \in AnyName, Len(s) >= 1, ~Fits(s)
    PROVE  ~Fits(Append(s, e))
<1>1. Len(s) \in Nat /\ Len(Append(s, e)) = Len(s) + 1
  BY LenProperties, AppendProperties
<1>2. /\ BytesOf(s) \in Nat /\ SeriesBytes[e] \in Nat
      /\ BytesOf(Append(s, e)) = BytesOf(s) + SeriesBytes[e]
  BY BytesOfAppended
<1>3. WebCap \in Nat /\ WebBudget \in Nat
  BY WebFileAssumption
<1> QED
  BY <1>1, <1>2, <1>3 DEF Fits

\* KeepsTheLastUsed, of the names kept and those used.
KeptOf(names, used) ==
    /\ names = LastOf(used, Len(names))
    /\ Fits(names) \/ names = <<>>
    /\ Len(names) < Len(used) => ~Fits(LastOf(used, Len(names) + 1))

\* The names used last, each once.
UsedOK(used) == used \in Seq(AnyName) /\ IsInjective(used) /\ Len(used) <= WebCap

\* Enough and Dropped, of the names.
EnoughNames(names, n, bytes) ==
    \/ n = Len(names)
    \/ /\ Len(names) - n < WebCap
       /\ BytesOf(LastOf(names, Len(names) - n)) + bytes <= WebBudget
DroppedNames(names, n, bytes) ==
    EnoughNames(names, n, bytes) /\ \A k \in 0..(n - 1) : ~EnoughNames(names, k, bytes)

\* Without what is kept the names used are none.
LEMMA NothingKept ==
    ASSUME NEW used, UsedOK(used), KeptOf(<<>>, used)
    PROVE  Len(used) = 0
<1> SUFFICES ASSUME Len(used) # 0
             PROVE  FALSE
  OBVIOUS
<1>1. used \in Seq(AnyName) /\ Len(used) \in Nat /\ Len(<<>>) = 0 /\ WebCap \in Nat \ {0}
  BY WebFileAssumption, LenProperties, EmptySeq DEF UsedOK
<1>2. PICK n : n = Len(<<>>) + 1
  OBVIOUS
<1>3. n \in 0..Len(used) /\ n = 1
  BY <1>1, <1>2
<1>4. PICK x : x = LastOf(used, n)
  OBVIOUS
<1>5. ~Fits(x)
  BY <1>1, <1>2, <1>4 DEF KeptOf
<1>6. Len(x) = n
  <2>1. used \in Seq(AnyName) /\ n \in 0..Len(used)
    BY <1>1, <1>3
  <2>2. Len(LastOf(used, n)) = n
    BY <2>1, LastIsOf
  <2> QED
    BY <1>4, <2>2
<1> QED
  BY <1>1, <1>3, <1>5, <1>6 DEF Fits

\* The names kept are names.
LEMMA KeptAreNames ==
    ASSUME NEW names, NEW used, UsedOK(used), KeptOf(names, used), IsList(names)
    PROVE  /\ names \in Seq(AnyName) /\ Len(names) \in 0..Len(used)
           /\ Len(used) \in Nat /\ names = LastOf(used, Len(names))
<1>1. used \in Seq(AnyName) /\ Len(used) \in Nat
  BY LenProperties DEF UsedOK
<1>2. Len(names) \in Nat
  BY ListIs
<1>3. Len(names) <= Len(used)
  <2> SUFFICES ASSUME Len(names) > Len(used)
               PROVE  FALSE
    BY <1>1, <1>2
  <2>1. LastOf(used, Len(names)) = used
    BY <1>1, <1>2, ListsAre, AllOfThem
  <2>2. names = used
    BY <2>1 DEF KeptOf
  <2> QED
    BY <1>1, <2>2
<1>4. names = LastOf(used, Len(names))
  BY DEF KeptOf
<1> QED
  BY <1>1, <1>2, <1>3, <1>4, LastIsOf

\* Used: the name becomes the last of those used.
LEMMA UsedStaysOK ==
    ASSUME NEW used, UsedOK(used), NEW name \in AnyName
    PROVE  UsedOK(LastOf(Append(Others(used, name), name), WebCap))
<1>1. used \in Seq(AnyName) /\ IsInjective(used) /\ Len(used) \in Nat /\ WebCap \in Nat
  BY WebFileAssumption, LenProperties DEF UsedOK
<1>2. PICK o : o = Others(used, name)
  OBVIOUS
<1>3. o \in Seq(AnyName) /\ Len(o) \in Nat
  BY <1>1, <1>2, OthersAre, LenProperties
<1>4. /\ \A i, j \in 1..Len(o) : o[i] = o[j] => i = j
      /\ \A i \in 1..Len(o) : o[i] # name
  <2>1. DOMAIN used = 1..Len(used)
    BY <1>1, LenProperties
  <2>2. \A i, j \in 1..Len(used) : used[i] = used[j] => i = j
    BY <1>1, <2>1 DEF IsInjective
  <2>3. CASE \A p \in 1..Len(used) : used[p] # name
    <3>1. o = used
      BY <1>1, <1>2, <2>3, OthersAre
    <3> QED
      BY <2>2, <2>3, <3>1
  <2>4. CASE \E p \in 1..Len(used) : used[p] = name
    <3>1. PICK p \in 1..Len(used) : used[p] = name
      BY <2>4
    <3>2. IsWithout(o, used, p)
      BY <1>1, <1>2, <3>1, OthersAre
    <3>3. Len(o) = Len(used) - 1 /\ \A i \in 1..Len(o) : o[i] = IF i < p THEN used[i] ELSE used[i + 1]
      BY <3>2 DEF IsWithout
    <3>4. \A i \in 1..Len(o) : \E k \in 1..Len(used) : o[i] = used[k] /\ k = (IF i < p THEN i ELSE i + 1)
      BY <1>1, <3>3
    <3>5. \A i, j \in 1..Len(o) : o[i] = o[j] => i = j
      <4> SUFFICES ASSUME NEW i \in 1..Len(o), NEW j \in 1..Len(o), o[i] = o[j]
                   PROVE  i = j
        OBVIOUS
      <4>1. PICK k \in 1..Len(used) : o[i] = used[k] /\ k = (IF i < p THEN i ELSE i + 1)
        BY <3>4
      <4>2. PICK m \in 1..Len(used) : o[j] = used[m] /\ m = (IF j < p THEN j ELSE j + 1)
        BY <3>4
      <4>3. k = m
        BY <2>2, <4>1, <4>2
      <4> QED
        BY <1>3, <4>1, <4>2, <4>3
    <3>6. \A i \in 1..Len(o) : o[i] # name
      <4> SUFFICES ASSUME NEW i \in 1..Len(o), o[i] = name
                   PROVE  FALSE
        OBVIOUS
      <4>1. PICK k \in 1..Len(used) : o[i] = used[k] /\ k = (IF i < p THEN i ELSE i + 1)
        BY <3>4
      <4>2. k = p
        BY <2>2, <3>1, <4>1
      <4> QED
        BY <1>3, <4>1, <4>2
    <3> QED
      BY <3>5, <3>6
  <2> QED
    BY <2>3, <2>4
<1>5. PICK a : a = Append(o, name)
  OBVIOUS
<1>6. a \in Seq(AnyName) /\ Len(a) = Len(o) + 1 /\ a[Len(o) + 1] = name /\ \A i \in 1..Len(o) : a[i] = o[i]
  BY <1>3, <1>5, AppendProperties
<1>7. \A i, j \in 1..Len(a) : a[i] = a[j] => i = j
  <2> SUFFICES ASSUME NEW i \in 1..Len(a), NEW j \in 1..Len(a), a[i] = a[j]
               PROVE  i = j
    OBVIOUS
  <2>1. CASE i \in 1..Len(o) /\ j \in 1..Len(o)
    BY <1>4, <1>6, <2>1
  <2>2. CASE i = Len(o) + 1 \/ j = Len(o) + 1
    BY <1>3, <1>4, <1>6, <2>2
  <2> QED
    BY <1>3, <1>6, <2>1, <2>2
<1>8. PICK r : r = LastOf(a, WebCap)
  OBVIOUS
<1>9. /\ r \in Seq(AnyName) /\ Len(r) <= WebCap
      /\ \A i, j \in 1..Len(r) : r[i] = r[j] => i = j
  <2>1. CASE Len(a) <= WebCap
    <3>1. r = a
      BY <1>1, <1>6, <1>8, <2>1, ListsAre, AllOfThem
    <3> QED
      BY <1>6, <1>7, <2>1, <3>1
  <2>2. CASE Len(a) > WebCap
    <3>1. WebCap \in 0..Len(a)
      BY <1>1, <1>3, <1>6, <2>2
    <3>2. r \in Seq(AnyName) /\ Len(r) = WebCap /\ \A i \in 1..WebCap : r[i] = a[Len(a) - WebCap + i]
      BY <1>6, <1>8, <3>1, LastIsOf
    <3>3. ASSUME NEW i \in 1..Len(r), NEW j \in 1..Len(r), r[i] = r[j]
          PROVE  i = j
      <4>1. PICK k \in 1..Len(a) : k = Len(a) - WebCap + i /\ r[i] = a[k]
        <5>1. Len(a) - WebCap + i \in 1..Len(a)
          BY <1>1, <1>3, <1>6, <3>1, <3>2
        <5> QED
          BY <3>2, <5>1
      <4>2. PICK m \in 1..Len(a) : m = Len(a) - WebCap + j /\ r[j] = a[m]
        <5>1. Len(a) - WebCap + j \in 1..Len(a)
          BY <1>1, <1>3, <1>6, <3>1, <3>2
        <5> QED
          BY <3>2, <5>1
      <4>3. k = m
        BY <1>7, <3>3, <4>1, <4>2
      <4> QED
        BY <1>1, <1>3, <1>6, <3>2, <4>1, <4>2, <4>3
    <3> QED
      BY <1>1, <3>2, <3>3
  <2> QED
    BY <1>1, <1>3, <1>6, <2>1, <2>2
<1>10. IsInjective(r)
  <2>1. DOMAIN r = 1..Len(r)
    BY <1>9, LenProperties
  <2> QED
    BY <1>9, <2>1 DEF IsInjective
<1> QED
  BY <1>2, <1>5, <1>8, <1>9, <1>10 DEF UsedOK

\* A hit: the name becomes the last of those kept, and all the others stay.
LEMMA HitKeeps ==
    ASSUME NEW names, NEW used, UsedOK(used), IsList(names), KeptOf(names, used),
           NEW p \in 1..Len(names), NEW name \in AnyName, names[p] = name,
           NEW rest \in Seq(AnyName), IsWithout(rest, names, p)
    PROVE  /\ EnoughNames(rest, 0, SeriesBytes[name])
           /\ KeptOf(Append(rest, name), LastOf(Append(Others(used, name), name), WebCap))
<1>1. /\ names \in Seq(AnyName) /\ Len(names) \in 0..Len(used) /\ Len(used) \in Nat
      /\ names = LastOf(used, Len(names))
  BY KeptAreNames
<1>2. /\ used \in Seq(AnyName) /\ IsInjective(used) /\ Len(used) <= WebCap
      /\ WebCap \in Nat \ {0} /\ WebBudget \in Nat
  BY WebFileAssumption DEF UsedOK
<1>3. PICK k \in Nat : k = Len(names)
  BY <1>1
<1>4. k \in 1..Len(used) /\ p \in 1..k
  BY <1>1, <1>3
<1>5. PICK o : o = Others(used, name)
  OBVIOUS
<1>6. PICK a : a = Append(o, name)
  OBVIOUS
<1>7. /\ k - 1 \in 0..Len(o) /\ Len(o) = Len(used) - 1
      /\ IsWithout(LastOf(o, k - 1), names, p)
      /\ LastOf(a, k) = Append(LastOf(o, k - 1), name)
      /\ BytesOf(LastOf(a, k)) = BytesOf(names)
      /\ Len(LastOf(a, k)) = k
  <2>1. LastOf(used, k)[p] = name /\ LastOf(used, k) = names
    BY <1>1, <1>3
  <2> QED
    BY <1>2, <1>4, <1>5, <1>6, <2>1, PutBehind
<1>8. o \in Seq(AnyName) /\ a \in Seq(AnyName) /\ Len(a) = Len(used)
  <2>1. o \in Seq(AnyName)
    BY <1>2, <1>5, OthersAre
  <2>2. Len(a) = Len(o) + 1 /\ a \in Seq(AnyName)
    BY <1>6, <2>1, AppendProperties
  <2> QED
    BY <1>1, <1>7, <2>1, <2>2
<1>9. rest = LastOf(o, k - 1)
  <2>1. PICK z : z = LastOf(o, k - 1)
    OBVIOUS
  <2>2. IsList(z) /\ IsList(rest) /\ Len(z) = Len(rest) /\ \A i \in 1..Len(rest) : rest[i] = z[i]
    BY <1>7, <2>1 DEF IsWithout
  <2>3. rest = z
    BY <2>2, SameList
  <2> QED
    BY <2>1, <2>3
<1>10. LastOf(a, WebCap) = a
  BY <1>2, <1>8, ListsAre, AllOfThem
<1>11. PICK new : new = Append(rest, name)
  OBVIOUS
<1>12. /\ new = LastOf(a, k) /\ Len(new) = k
       /\ BytesOf(new) = BytesOf(names)
       /\ BytesOf(new) = BytesOf(rest) + SeriesBytes[name]
       /\ Len(rest) = k - 1
  <2>1. BytesOf(Append(rest, name)) = BytesOf(rest) + SeriesBytes[name]
    BY BytesOfAppended
  <2>2. Len(rest) = Len(names) - 1
    BY DEF IsWithout
  <2> QED
    BY <1>3, <1>7, <1>9, <1>11, <2>1, <2>2
<1>13. Fits(names)
  <2>1. names # <<>>
    BY <1>3, <1>4
  <2> QED
    BY <2>1 DEF KeptOf
<1>14. Fits(new)
  BY <1>3, <1>12, <1>13 DEF Fits
<1>15. EnoughNames(rest, 0, SeriesBytes[name])
  <2>1. CASE k = 1
    BY <1>12, <2>1 DEF EnoughNames
  <2>2. CASE k # 1
    <3>1. BytesOf(names) <= WebBudget
      BY <1>3, <1>13, <2>2 DEF Fits
    <3>2. LastOf(rest, Len(rest) - 0) = rest
      <4>1. Len(rest) \in Nat /\ Len(rest) - 0 = Len(rest)
        BY LenProperties
      <4> QED
        BY <4>1, ListsAre, AllOfThem
    <3>3. Len(rest) - 0 < WebCap
      BY <1>1, <1>2, <1>3, <1>12
    <3> QED
      BY <1>12, <3>1, <3>2, <3>3 DEF EnoughNames
  <2> QED
    BY <2>1, <2>2
<1>16. ASSUME k < Len(a)
       PROVE  ~Fits(LastOf(a, k + 1))
  <2>1. PICK x : x = LastOf(used, k + 1)
    OBVIOUS
  <2>2. ~Fits(x)
    BY <1>3, <1>8, <1>16, <2>1 DEF KeptOf
  <2>3. k + 1 \in 1..Len(used) /\ k \in 0..(k + 1) /\ p + 1 \in 1..(k + 1) /\ k + 1 \in 0..Len(used)
    BY <1>1, <1>4, <1>8, <1>16
  <2>4. Len(x) = k + 1 /\ x[p + 1] = used[Len(used) - (k + 1) + (p + 1)]
    BY <1>2, <2>1, <2>3, LastIsOf
  <2>5. names[p] = used[Len(used) - k + p]
    <3>1. k \in 0..Len(used) /\ names = LastOf(used, k)
      BY <1>1, <1>3
    <3> QED
      BY <1>2, <1>4, <3>1, LastIsOf
  <2>6. x[p + 1] = name
    <3>1. Len(used) - (k + 1) + (p + 1) = Len(used) - k + p
      BY <1>1, <1>4
    <3> QED
      BY <2>4, <2>5, <3>1
  <2>7. BytesOf(LastOf(a, k + 1)) = BytesOf(x) /\ Len(LastOf(a, k + 1)) = k + 1
    BY <1>2, <1>5, <1>6, <2>1, <2>3, <2>6, PutBehind
  <2> QED
    BY <2>2, <2>4, <2>7 DEF Fits
<1>17. KeptOf(new, a)
  BY <1>12, <1>14, <1>16 DEF KeptOf
<1> QED
  BY <1>5, <1>6, <1>10, <1>11, <1>15, <1>17

\* What is new is let in when the oldest, and no more of them, have made room.
LEMMA MissKeeps ==
    ASSUME NEW names, NEW used, UsedOK(used), IsList(names), KeptOf(names, used),
           NEW name \in AnyName, \A i \in 1..Len(names) : names[i] # name,
           NEW d \in 0..Len(names), DroppedNames(names, d, SeriesBytes[name])
    PROVE  KeptOf(Append(LastOf(names, Len(names) - d), name),
                  LastOf(Append(Others(used, name), name), WebCap))
<1>1. /\ names \in Seq(AnyName) /\ Len(names) \in 0..Len(used) /\ Len(used) \in Nat
      /\ names = LastOf(used, Len(names))
  BY KeptAreNames
<1>2. /\ used \in Seq(AnyName) /\ IsInjective(used) /\ Len(used) <= WebCap
      /\ WebCap \in Nat \ {0} /\ WebBudget \in Nat
  BY WebFileAssumption DEF UsedOK
<1>3. PICK k \in Nat : k = Len(names)
  BY <1>1
<1>4. PICK o : o = Others(used, name)
  OBVIOUS
<1>5. o \in Seq(AnyName) /\ Len(o) \in Nat
  BY <1>2, <1>4, OthersAre, LenProperties
<1>6. k \in 0..Len(used) /\ k \in 0..Len(o) /\ LastOf(o, k) = names /\ names = LastOf(used, k)
  BY <1>1, <1>2, <1>3, <1>4, TakenFromBefore
<1>7. PICK a : a = Append(o, name)
  OBVIOUS
<1>8. a \in Seq(AnyName) /\ Len(a) = Len(o) + 1
  BY <1>5, <1>7, AppendProperties
<1>9. PICK u : u = LastOf(a, WebCap)
  OBVIOUS
<1>10. /\ u \in Seq(AnyName) /\ Len(u) <= Len(o) + 1 /\ Len(u) <= WebCap
       /\ Len(u) \in Nat
       /\ Len(u) = Len(o) + 1 \/ Len(u) = WebCap
       /\ \A n \in 0..Len(u) : LastOf(u, n) = LastOf(a, n)
  <2>1. CASE Len(a) <= WebCap
    <3>1. u = a
      BY <1>2, <1>8, <1>9, <2>1, ListsAre, AllOfThem
    <3> QED
      BY <1>5, <1>8, <2>1, <3>1
  <2>2. CASE Len(a) > WebCap
    <3>1. WebCap \in 0..Len(a)
      BY <1>2, <1>5, <1>8, <2>2
    <3>2. u \in Seq(AnyName) /\ Len(u) = WebCap
      BY <1>8, <1>9, <3>1, LastIsOf
    <3>3. \A n \in 0..WebCap : LastOf(u, n) = LastOf(a, n)
      BY <1>8, <1>9, <3>1, LastOfTheLast
    <3> QED
      BY <1>2, <1>5, <1>8, <2>2, <3>2, <3>3
  <2> QED
    BY <1>2, <1>5, <1>8, <2>1, <2>2
<1>11. PICK j \in Nat : j = k - d /\ j <= k /\ j \in 0..Len(o)
  <2>1. k \in Nat /\ k <= Len(o)
    BY <1>5, <1>6
  <2>2. d \in Nat /\ d <= k
    BY <1>3, <2>1
  <2>3. k - d \in Nat /\ k - d <= k
    BY <2>1, <2>2
  <2>4. k - d \in 0..Len(o)
    BY <1>5, <2>1, <2>2
  <2> QED
    BY <2>3, <2>4
<1>12. PICK t : t = LastOf(names, j)
  OBVIOUS
<1>13. t \in Seq(AnyName) /\ Len(t) = j /\ t = LastOf(o, j)
  <2>1. j \in 0..Len(names) /\ j \in 0..k
    BY <1>3, <1>11
  <2>2. t = LastOf(o, j)
    BY <1>5, <1>6, <1>12, <2>1, LastOfTheLast
  <2> QED
    BY <1>1, <1>12, <2>1, <2>2, LastIsOf
<1>14. PICK new : new = Append(t, name)
  OBVIOUS
<1>15. Len(new) = j + 1 /\ BytesOf(new) = BytesOf(t) + SeriesBytes[name] /\ new \in Seq(AnyName)
  BY <1>13, <1>14, BytesOfAppended, AppendProperties
<1>16. new = LastOf(a, j + 1)
  BY <1>5, <1>7, <1>11, <1>13, <1>14, LastWithOneMore
<1>17. /\ EnoughNames(names, d, SeriesBytes[name])
       /\ \A n \in 0..(d - 1) : ~EnoughNames(names, n, SeriesBytes[name])
  BY DEF DroppedNames
<1>18. j = 0 \/ (j < WebCap /\ BytesOf(t) + SeriesBytes[name] <= WebBudget)
  BY <1>3, <1>11, <1>12, <1>17 DEF EnoughNames
<1>19. j + 1 \in 0..Len(u) /\ new = LastOf(u, j + 1)
  <2>1. j + 1 <= WebCap
    BY <1>2, <1>18
  <2>2. j + 1 \in 0..Len(u)
    BY <1>2, <1>5, <1>10, <1>11, <2>1
  <2> QED
    BY <1>10, <1>16, <2>2
<1>20. Fits(new)
  <2>1. j + 1 <= WebCap
    BY <1>2, <1>18
  <2> QED
    BY <1>15, <1>18, <2>1 DEF Fits
<1>21. ASSUME j + 1 < Len(u)
       PROVE  ~Fits(LastOf(u, j + 2))
  <2>1. j + 2 \in 0..Len(u) /\ j + 1 \in 0..Len(o) /\ j + 2 <= WebCap
    BY <1>2, <1>5, <1>10, <1>21
  <2>2. PICK x : x = LastOf(o, j + 1)
    OBVIOUS
  <2>3. x \in Seq(AnyName) /\ Len(x) = j + 1
    BY <1>5, <2>1, <2>2, LastIsOf
  <2>4. LastOf(u, j + 2) = Append(x, name)
    <3>1. LastOf(a, j + 1 + 1) = Append(x, name)
      BY <1>5, <1>7, <2>1, <2>2, LastWithOneMore
    <3>2. j + 1 + 1 = j + 2
      OBVIOUS
    <3> QED
      BY <1>10, <2>1, <3>1, <3>2
  <2>5. /\ BytesOf(Append(x, name)) = BytesOf(x) + SeriesBytes[name]
        /\ Len(Append(x, name)) = j + 2
    BY <2>3, BytesOfAppended, AppendProperties
  <2>6. CASE d > 0
    <3>1. PICK n : n = d - 1
      OBVIOUS
    <3>2. n \in 0..(d - 1) /\ n # Len(names) /\ Len(names) - n = j + 1
      BY <1>3, <1>11, <2>6, <3>1
    <3>3. ~EnoughNames(names, n, SeriesBytes[name])
      BY <1>17, <3>2
    <3>4. ~(BytesOf(LastOf(names, j + 1)) + SeriesBytes[name] <= WebBudget)
      <4>1. j + 1 < WebCap
        BY <1>2, <2>1
      <4> QED
        BY <3>2, <3>3, <4>1 DEF EnoughNames
    <3>5. LastOf(names, j + 1) = x
      <4>1. j + 1 \in 0..k
        BY <1>3, <1>11, <2>6
      <4> QED
        BY <1>5, <1>6, <2>2, <4>1, LastOfTheLast
    <3>6. ~(BytesOf(Append(x, name)) <= WebBudget)
      BY <2>5, <3>4, <3>5
    <3>7. PICK z : z = Append(x, name)
      OBVIOUS
    <3>8. Len(z) # 1 /\ ~(BytesOf(z) <= WebBudget)
      BY <2>5, <3>6, <3>7
    <3>9. ~Fits(z)
      BY <3>8 DEF Fits
    <3> QED
      BY <2>4, <3>7, <3>9
  <2>7. CASE d = 0
    <3>1. j = k /\ t = names
      <4>1. j = k
        BY <1>3, <1>11, <2>7
      <4>2. LastOf(names, Len(names)) = names
        BY <1>1, <1>3, ListsAre, AllOfThem
      <4> QED
        BY <1>3, <1>12, <4>1, <4>2
    <3>2. k >= 1
      <4> SUFFICES ASSUME k = 0
                   PROVE  FALSE
        BY <1>3
      <4>1. names = <<>>
        BY <1>1, <1>3
      <4>2. Len(used) = 0
        BY <4>1, NothingKept
      <4>3. o = used
        <5>1. \A p \in 1..Len(used) : used[p] # name
          BY <4>2
        <5> QED
          BY <1>2, <1>4, <5>1, OthersAre
      <4> QED
        BY <2>1, <3>1, <4>2, <4>3
    <3>3. k + 1 \in 0..Len(used) /\ k + 1 \in 1..Len(used) /\ k < Len(used)
      <4>1. Len(o) <= Len(used)
        <5>1. CASE \A p \in 1..Len(used) : used[p] # name
          <6>1. o = used
            BY <1>2, <1>4, <5>1, OthersAre
          <6> QED
            BY <1>1, <6>1
        <5>2. CASE \E p \in 1..Len(used) : used[p] = name
          <6>1. PICK p \in 1..Len(used) : used[p] = name
            BY <5>2
          <6>2. Len(o) = Len(used) - 1
            BY <1>2, <1>4, <6>1, OthersAre DEF IsWithout
          <6> QED
            BY <1>1, <6>2
        <5> QED
          BY <5>1, <5>2
      <4> QED
        BY <1>1, <1>3, <1>5, <2>1, <3>1, <4>1
    <3>4. PICK y : y = LastOf(used, k + 1)
      OBVIOUS
    <3>5. /\ y \in Seq(AnyName) /\ Len(y) = k + 1
          /\ \A i \in 1..k + 1 : y[i] = used[Len(used) - (k + 1) + i]
      BY <1>2, <3>3, <3>4, LastIsOf
    <3>6. ~Fits(y)
      BY <1>3, <3>3, <3>4 DEF KeptOf
    <3>7. \A p \in 1..k + 1 : y[p] # name
      <4> SUFFICES ASSUME NEW p \in 1..k + 1, y[p] = name
                   PROVE  FALSE
        OBVIOUS
      <4>1. p = 1
        <5> SUFFICES ASSUME p # 1
                     PROVE  FALSE
          OBVIOUS
        <5>1. p - 1 \in 1..k
          OBVIOUS
        <5>2. names[p - 1] = used[Len(used) - k + (p - 1)]
          BY <1>2, <1>6, <5>1, LastIsOf
        <5>3. Len(used) - k + (p - 1) = Len(used) - (k + 1) + p
          BY <1>1
        <5>4. names[p - 1] = name
          BY <3>5, <5>2, <5>3
        <5> QED
          BY <1>3, <5>1, <5>4
      <4>2. /\ IsWithout(LastOf(o, k), y, 1)
        <5>1. IsWithout(LastOf(o, k + 1 - 1), y, p)
          BY <1>2, <1>4, <3>3, <3>4, PutBehind
        <5>2. k + 1 - 1 = k
          OBVIOUS
        <5> QED
          BY <4>1, <5>1, <5>2
      <4>3. BytesOf(y) = BytesOf(names) + SeriesBytes[name]
        <5>1. 1 \in 1..Len(y) /\ y[1] = name /\ IsWithout(names, y, 1)
          BY <1>6, <3>5, <4>1, <4>2
        <5>2. BytesOf(y) = BytesOf(names) + SeriesBytes[y[1]]
          BY <1>1, <3>5, <5>1, BytesOfWithout
        <5> QED
          BY <5>1, <5>2
      <4>4. k < WebCap /\ BytesOf(names) + SeriesBytes[name] <= WebBudget
        BY <1>18, <3>1, <3>2
      <4>5. k + 1 <= WebCap
        BY <1>2, <4>4
      <4> QED
        BY <3>5, <3>6, <4>3, <4>4, <4>5 DEF Fits
    <3>8. x = y
      <4>1. LastOf(o, k + 1) = LastOf(used, k + 1)
        BY <1>2, <1>4, <3>3, <3>4, <3>7, TakenFromBefore
      <4> QED
        BY <2>2, <3>1, <3>4, <4>1
    <3>9. Len(x) >= 1
      BY <2>3
    <3> QED
      BY <2>3, <2>4, <3>6, <3>8, <3>9, StillDoesNotFit
  <2> QED
    BY <2>6, <2>7
<1>22. KeptOf(new, u)
  <2>1. Len(new) + 1 = j + 2
    BY <1>15
  <2> QED
    BY <1>15, <1>19, <1>20, <1>21, <2>1 DEF KeptOf
<1>23. Len(names) - d = j
  BY <1>3, <1>11
<1> QED
  BY <1>4, <1>7, <1>9, <1>12, <1>14, <1>22, <1>23

\* Every place of r has what some place of s has.
IsFrom(r, s) == IsList(r) /\ \A i \in 1..Len(r) : \E k \in 1..Len(s) : r[i] = s[k]

\* A list without the one of a name.
LEMMA TakenOutIs ==
    ASSUME NEW s, IsList(s), NamesIn(s) \in Seq(AnyName), IsInjective(NamesIn(s)), NEW name
    PROVE  /\ IsFrom(TakenOut(s, name), s)
           /\ NamesIn(TakenOut(s, name)) = Others(NamesIn(s), name)
<1>1. Len(s) \in Nat /\ DOMAIN s = 1..Len(s)
  BY ListIs
<1>2. PICK n : n = NamesIn(s)
  OBVIOUS
<1>3. IsList(n) /\ Len(n) = Len(s) /\ \A i \in 1..Len(s) : n[i] = s[i].name
  BY <1>2, NamesAre
<1>4. DOMAIN n = 1..Len(s)
  BY <1>3, ListIs
<1>5. CASE \A i \in 1..Len(s) : s[i].name # name
  <2>1. TakenOut(s, name) = s
    BY <1>1, <1>5 DEF TakenOut, Named
  <2>2. Others(n, name) = n
    BY <1>3, <1>4, <1>5 DEF Others
  <2> QED
    BY <1>2, <2>1, <2>2 DEF IsFrom
<1>6. CASE \E i \in 1..Len(s) : s[i].name = name
  <2>1. PICK p : p = Position(n, name)
    OBVIOUS
  <2>2. (\E i \in DOMAIN n : n[i] = name) /\ Named(s, name)
    BY <1>1, <1>3, <1>4, <1>6 DEF Named
  <2>3. p \in 1..Len(s)
    BY <1>3, <2>1, <2>2, FirstPlace
  <2>4. PICK t : t = RemoveAt(s, p)
    OBVIOUS
  <2>5. TakenOut(s, name) = t
    BY <1>2, <2>1, <2>2, <2>4 DEF TakenOut
  <2>6. IsWithout(t, s, p)
    BY <2>3, <2>4, RemovedAt
  <2>7. IsList(t) /\ Len(t) = Len(s) - 1 /\ \A i \in 1..Len(t) : t[i] = IF i < p THEN s[i] ELSE s[i + 1]
    BY <2>6 DEF IsWithout
  <2>8. PICK o : o = Others(n, name)
    OBVIOUS
  <2>9. o = RemoveAt(n, p)
    BY <2>1, <2>2, <2>8 DEF Others
  <2>10. IsWithout(o, n, p)
    BY <1>3, <2>3, <2>9, RemovedAt
  <2>11. IsList(o) /\ Len(o) = Len(s) - 1 /\ \A i \in 1..Len(o) : o[i] = IF i < p THEN n[i] ELSE n[i + 1]
    BY <1>3, <2>10 DEF IsWithout
  <2>12. PICK m : m = NamesIn(t)
    OBVIOUS
  <2>13. IsList(m) /\ Len(m) = Len(t) /\ \A i \in 1..Len(t) : m[i] = t[i].name
    BY <2>7, <2>12, NamesAre
  <2>14. ASSUME NEW i \in 1..Len(m)
         PROVE  m[i] = o[i]
    <3>1. i \in 1..Len(s) /\ i + 1 \in 1..Len(s) /\ i \in 1..Len(t) /\ i \in 1..Len(o)
      BY <1>1, <2>7, <2>11, <2>13
    <3>2. n[i] = s[i].name /\ n[i + 1] = s[i + 1].name
      BY <1>3, <3>1
    <3> QED
      BY <2>7, <2>11, <2>13, <3>1, <3>2
  <2>15. m = o
    BY <2>7, <2>11, <2>13, <2>14, SameList
  <2>16. IsFrom(t, s)
    <3>1. ASSUME NEW i \in 1..Len(t)
          PROVE  \E k \in 1..Len(s) : t[i] = s[k]
      <4>1. i \in 1..Len(s) /\ i + 1 \in 1..Len(s)
        BY <1>1, <2>7
      <4> QED
        BY <2>7, <4>1
    <3> QED
      BY <2>7, <3>1 DEF IsFrom
  <2> QED
    BY <1>2, <2>5, <2>8, <2>12, <2>15, <2>16
<1> QED
  BY <1>5, <1>6

\* The last of a list, and their names.
LEMMA RestOfList ==
    ASSUME NEW s, IsList(s), NEW n \in 0..Len(s)
    PROVE  /\ IsFrom(SubSeq(s, n + 1, Len(s)), s)
           /\ NamesIn(SubSeq(s, n + 1, Len(s))) = LastOf(NamesIn(s), Len(s) - n)
<1>1. Len(s) \in Nat /\ s \in Seq(Range(s))
  BY ListIs DEF IsList
<1>2. PICK m : m = Len(s) - n
  OBVIOUS
<1>3. m \in 0..Len(s)
  BY <1>1, <1>2
<1>4. PICK t : t = LastOf(s, m)
  OBVIOUS
<1>5. SubSeq(s, n + 1, Len(s)) = t
  BY <1>1, <1>2, <1>4, RestIsLast
<1>6. IsLast(t, s, m)
  BY <1>3, <1>4, LastOnes
<1>7. IsList(t) /\ Len(t) = m /\ \A i \in 1..m : t[i] = s[Len(s) - m + i]
  BY <1>6 DEF IsLast
<1>8. PICK names : names = NamesIn(s)
  OBVIOUS
<1>9. IsList(names) /\ Len(names) = Len(s) /\ \A i \in 1..Len(s) : names[i] = s[i].name
  BY <1>8, NamesAre
<1>10. PICK a : a = NamesIn(t)
  OBVIOUS
<1>11. IsList(a) /\ Len(a) = m /\ \A i \in 1..m : a[i] = t[i].name
  BY <1>7, <1>10, NamesAre
<1>12. PICK b : b = LastOf(names, m)
  OBVIOUS
<1>13. IsLast(b, names, m)
  BY <1>3, <1>9, <1>12, LastOnes
<1>14. IsList(b) /\ Len(b) = m /\ \A i \in 1..m : b[i] = names[Len(s) - m + i]
  BY <1>9, <1>13 DEF IsLast
<1>15. \A i \in 1..m : Len(s) - m + i \in 1..Len(s)
  BY <1>1, <1>3
<1>16. \A i \in 1..m : a[i] = b[i]
  BY <1>7, <1>9, <1>11, <1>14, <1>15
<1>17. a = b
  BY <1>11, <1>14, <1>16, SameList
<1>18. IsFrom(t, s)
  BY <1>7, <1>15 DEF IsFrom
<1> QED
  BY <1>2, <1>5, <1>8, <1>10, <1>12, <1>17, <1>18

\* The oldest make room.
LEMMA MakesRoomIs ==
    ASSUME NEW s, IsList(s), NEW bytes \in Nat
    PROVE  \E d \in 0..Len(s) :
               /\ DroppedNames(NamesIn(s), d, bytes)
               /\ IsFrom(MakesRoom(s, bytes), s)
               /\ NamesIn(MakesRoom(s, bytes)) = LastOf(NamesIn(s), Len(s) - d)
<1>1. Len(s) \in Nat
  BY ListIs
<1>2. PICK names : names = NamesIn(s)
  OBVIOUS
<1>3. Len(names) = Len(s)
  BY <1>2, NamesAre
<1>4. ASSUME NEW n \in 0..Len(s)
      PROVE  Enough(s, n, bytes) <=> EnoughNames(names, n, bytes)
  <2>1. NamesIn(SubSeq(s, n + 1, Len(s))) = LastOf(names, Len(names) - n)
    BY <1>2, <1>3, RestOfList
  <2> QED
    BY <1>3, <2>1 DEF Enough, EnoughNames
<1> DEFINE T == {n \in 0..Len(s) : Enough(s, n, bytes)}
<1>5. Len(s) \in T
  BY <1>1 DEF Enough
<1>6. PICK e \in T : \A n \in T : e <= n
  <2>1. T \in SUBSET Nat /\ T # {}
    BY <1>1, <1>5
  <2> HIDE DEF T
  <2> QED
    BY <2>1, LeastNumber
<1>7. e \in 0..Len(s) /\ Dropped(s, e, bytes)
  <2>1. e \in 0..Len(s) /\ Enough(s, e, bytes)
    BY <1>6
  <2>2. ASSUME NEW k \in 0..(e - 1), Enough(s, k, bytes)
        PROVE  FALSE
    <3>1. k \in T
      BY <1>1, <2>1, <2>2
    <3>2. e <= k
      BY <1>6, <3>1
    <3> QED
      BY <1>1, <2>1, <3>2
  <2> QED
    BY <2>1, <2>2 DEF Dropped
<1>8. PICK d : d = CHOOSE k \in 0..Len(s) : Dropped(s, k, bytes)
  OBVIOUS
<1>9. d \in 0..Len(s) /\ Dropped(s, d, bytes)
  BY <1>7, <1>8
<1>10. MakesRoom(s, bytes) = SubSeq(s, d + 1, Len(s))
  BY <1>8 DEF MakesRoom
<1>11. DroppedNames(names, d, bytes)
  <2>1. \A k \in 0..(d - 1) : k \in 0..Len(s)
    BY <1>1, <1>9
  <2> QED
    BY <1>4, <1>9, <2>1 DEF Dropped, DroppedNames
<1> QED
  BY <1>2, <1>9, <1>10, <1>11, RestOfList

\* decoded: what is kept are still the last used, and but for what is asked for
\* nothing comes in.
LEMMA DecodedKeeps ==
    ASSUME NEW s, NEW used, UsedOK(used), IsList(s), KeptOf(NamesIn(s), used),
           NEW name \in AnyName, NEW e, e.name = name,
           NEW new, new = Append(MakesRoom(TakenOut(s, name), SeriesBytes[name]), e)
    PROVE  /\ IsList(new)
           /\ KeptOf(NamesIn(new), LastOf(Append(Others(used, name), name), WebCap))
           /\ \A i \in 1..Len(new) : new[i] = e \/ \E k \in 1..Len(s) : new[i] = s[k]
<1>1. PICK names : names = NamesIn(s)
  OBVIOUS
<1>2. IsList(names) /\ Len(names) = Len(s) /\ \A i \in 1..Len(s) : names[i] = s[i].name
  BY <1>1, NamesAre
<1>3. /\ names \in Seq(AnyName) /\ Len(names) \in 0..Len(used) /\ Len(used) \in Nat
      /\ names = LastOf(used, Len(names))
  BY <1>1, <1>2, KeptAreNames
<1>4. IsInjective(names)
  <2>1. used \in Seq(AnyName) /\ DOMAIN used = 1..Len(used) /\ DOMAIN names = 1..Len(names)
    BY <1>3, LenProperties DEF UsedOK
  <2>2. \A i \in 1..Len(names) : names[i] = used[Len(used) - Len(names) + i]
    BY <1>3, <2>1, LastIsOf
  <2>3. \A i, k \in 1..Len(used) : used[i] = used[k] => i = k
    BY <2>1 DEF UsedOK, IsInjective
  <2>4. \A i \in 1..Len(names) : Len(used) - Len(names) + i \in 1..Len(used)
    BY <1>3
  <2>5. ASSUME NEW i \in 1..Len(names), NEW k \in 1..Len(names), names[i] = names[k]
        PROVE  i = k
    <3>1. Len(used) - Len(names) + i = Len(used) - Len(names) + k
      BY <2>2, <2>3, <2>4, <2>5
    <3> QED
      BY <1>3, <3>1
  <2> QED
    BY <2>1, <2>5 DEF IsInjective
<1>5. PICK t : t = TakenOut(s, name)
  OBVIOUS
<1>6. IsFrom(t, s) /\ NamesIn(t) = Others(names, name)
  BY <1>1, <1>3, <1>4, <1>5, TakenOutIs
<1>7. PICK rest : rest = NamesIn(t)
  OBVIOUS
<1>8. IsList(t) /\ Len(rest) = Len(t) /\ rest \in Seq(AnyName) /\ Len(rest) \in Nat
  <2>1. IsList(t)
    BY <1>6 DEF IsFrom
  <2>2. rest \in Seq(AnyName)
    BY <1>3, <1>4, <1>6, <1>7, OthersAre
  <2> QED
    BY <1>7, <2>1, <2>2, NamesAre, LenProperties
<1>9. SeriesBytes[name] \in Nat
  BY WebFileAssumption
<1>10. PICK r : r = MakesRoom(t, SeriesBytes[name])
  OBVIOUS
<1>11. PICK d \in 0..Len(t) :
          /\ DroppedNames(rest, d, SeriesBytes[name])
          /\ IsFrom(r, t)
          /\ NamesIn(r) = LastOf(rest, Len(t) - d)
  BY <1>7, <1>8, <1>9, <1>10, MakesRoomIs
<1>12. IsList(r) /\ Len(r) \in Nat
  BY <1>11, ListIs DEF IsFrom
<1>13. new = Append(r, e)
  BY <1>5, <1>10
<1>14. /\ IsList(new) /\ Len(new) = Len(r) + 1
       /\ new[Len(r) + 1] = e /\ \A i \in 1..Len(r) : new[i] = r[i]
  BY <1>12, <1>13, Appended
<1>15. NamesIn(new) = Append(NamesIn(r), name)
  <2>1. PICK m : m = NamesIn(new)
    OBVIOUS
  <2>2. IsList(m) /\ Len(m) = Len(r) + 1 /\ \A i \in 1..Len(r) + 1 : m[i] = new[i].name
    BY <1>14, <2>1, NamesAre
  <2>3. PICK q : q = NamesIn(r)
    OBVIOUS
  <2>4. IsList(q) /\ Len(q) = Len(r) /\ \A i \in 1..Len(r) : q[i] = r[i].name
    BY <1>12, <2>3, NamesAre
  <2>5. PICK a : a = Append(q, name)
    OBVIOUS
  <2>6. IsList(a) /\ Len(a) = Len(r) + 1 /\ a[Len(r) + 1] = name /\ \A i \in 1..Len(r) : a[i] = q[i]
    BY <2>4, <2>5, Appended
  <2>7. \A i \in 1..Len(r) + 1 : m[i] = a[i]
    BY <1>12, <1>14, <2>2, <2>4, <2>6
  <2>8. m = a
    BY <2>2, <2>6, <2>7, SameList
  <2> QED
    BY <2>1, <2>3, <2>5, <2>8
<1>16. KeptOf(Append(LastOf(rest, Len(rest) - d), name), LastOf(Append(Others(used, name), name), WebCap))
  <2>1. CASE \E p \in 1..Len(names) : names[p] = name
    <3>1. PICK p \in 1..Len(names) : names[p] = name
      BY <2>1
    <3>2. IsWithout(rest, names, p)
      BY <1>3, <1>4, <1>6, <1>7, <3>1, OthersAre
    <3>3. /\ EnoughNames(rest, 0, SeriesBytes[name])
          /\ KeptOf(Append(rest, name), LastOf(Append(Others(used, name), name), WebCap))
      BY <1>1, <1>2, <1>8, <3>1, <3>2, HitKeeps
    <3>4. d = 0
      <4> SUFFICES ASSUME d # 0
                   PROVE  FALSE
        OBVIOUS
      <4>1. 0 \in 0..(d - 1)
        BY <1>8
      <4> QED
        BY <1>11, <3>3, <4>1 DEF DroppedNames
    <3>5. LastOf(rest, Len(rest) - d) = rest
      <4>1. Len(rest) - d = Len(rest)
        BY <1>8, <3>4
      <4> QED
        BY <1>8, <4>1, ListsAre, AllOfThem
    <3> QED
      BY <3>3, <3>5
  <2>2. CASE \A p \in 1..Len(names) : names[p] # name
    <3>1. rest = names
      BY <1>3, <1>4, <1>6, <1>7, <2>2, OthersAre
    <3>2. d \in 0..Len(names) /\ DroppedNames(names, d, SeriesBytes[name])
      BY <1>8, <1>11, <3>1
    <3>3. KeptOf(Append(LastOf(names, Len(names) - d), name), LastOf(Append(Others(used, name), name), WebCap))
      BY <1>1, <1>2, <2>2, <3>2, MissKeeps
    <3> QED
      BY <3>1, <3>3
  <2> QED
    BY <2>1, <2>2
<1>17. KeptOf(NamesIn(new), LastOf(Append(Others(used, name), name), WebCap))
  BY <1>8, <1>11, <1>15, <1>16
<1>18. ASSUME NEW i \in 1..Len(new)
       PROVE  new[i] = e \/ \E k \in 1..Len(s) : new[i] = s[k]
  <2>1. CASE i = Len(r) + 1
    BY <1>14, <2>1
  <2>2. CASE i # Len(r) + 1
    <3>1. i \in 1..Len(r)
      BY <1>12, <1>14, <2>2
    <3>2. PICK k \in 1..Len(t) : r[i] = t[k]
      BY <1>11, <3>1 DEF IsFrom
    <3>3. PICK j \in 1..Len(s) : t[k] = s[j]
      BY <1>6, <3>2 DEF IsFrom
    <3> QED
      BY <1>14, <3>1, <3>2, <3>3
  <2> QED
    BY <2>1, <2>2
<1> QED
  BY <1>14, <1>17, <1>18

(***************************************************************************)
(* What names give.                                                        *)
(***************************************************************************)

Failures == {Unknown, Trap}

\* The series of a name, with those that computed channels are made of.
Gives(b, c, name, n, below) ==
    IF Named(b, name) THEN Entry(b, name).series
    ELSE IF Named(c, name) THEN
      IF n = 0 THEN Trap ELSE Computed(Entry(c, name).refs, below)
    ELSE IF Named(FileChannels, name) THEN <<"file", name>>
    ELSE Unknown

\* Fetched, of the channels of a bus and the computed ones.
IsFetched(f, b, c) ==
    f = [n \in 0..Len(c) |-> [name \in AnyName |-> Gives(b, c, name, n, f[n - 1])]]
FetchedOf(b, c) == CHOOSE f : IsFetched(f, b, c)

LEMMA FetchedExists ==
    ASSUME NEW b, NEW c, Len(c) \in Nat
    PROVE  IsFetched(FetchedOf(b, c), b, c)
<1> DEFINE N == Len(c)
           Line(n, below) == [name \in AnyName |-> Gives(b, c, name, n, below)]
           Upto(g, n) == g = [k \in 0..n |-> Line(k, g[k - 1])]
           T == {n \in 0..N : \E g : Upto(g, n)}
<1>1. N \in Nat
  OBVIOUS
<1>2. \A x, y : Line(0, x) = Line(0, y)
  BY DEF Gives
<1> HIDE DEF Line
<1>3. 0 \in T
  <2>1. PICK g : g = [k \in 0..0 |-> Line(0, <<>>)]
    OBVIOUS
  <2>2. \A k \in 0..0 : Line(k, g[k - 1]) = Line(0, <<>>)
    <3>1. \A k \in 0..0 : k = 0
      OBVIOUS
    <3> QED
      BY <1>2, <3>1
  <2>3. g = [k \in 0..0 |-> Line(k, g[k - 1])]
    BY <2>1, <2>2
  <2> QED
    BY <1>1, <2>3
<1>4. ASSUME NEW n \in 1..N, n - 1 \in T
      PROVE  n \in T
  <2>1. PICK g : Upto(g, n - 1)
    BY <1>4
  <2>2. g = [k \in 0..(n - 1) |-> Line(k, g[k - 1])]
    BY <2>1
  <2>3. PICK h : h = [k \in 0..n |-> IF k < n THEN g[k] ELSE Line(n, g[n - 1])]
    OBVIOUS
  <2>4. ASSUME NEW k \in 0..n
        PROVE  h[k] = Line(k, h[k - 1])
    <3>1. CASE k = 0
      <4>1. h[k] = g[k] /\ g[k] = Line(k, g[k - 1])
        BY <2>2, <2>3, <3>1
      <4> QED
        BY <1>2, <3>1, <4>1
    <3>2. CASE k # 0
      <4>1. k - 1 \in 0..n /\ k - 1 < n
        BY <3>2
      <4>2. h[k - 1] = g[k - 1]
        BY <2>3, <4>1
      <4>3. CASE k < n
        <5>1. k \in 0..(n - 1)
          BY <4>3
        <5>2. g[k] = Line(k, g[k - 1])
          BY <2>2, <5>1
        <5> QED
          BY <2>3, <4>2, <4>3, <5>2
      <4>4. CASE k = n
        BY <2>3, <4>2, <4>4
      <4> QED
        BY <4>3, <4>4
    <3> QED
      BY <3>1, <3>2
  <2>5. h = [k \in 0..n |-> Line(k, h[k - 1])]
    BY <2>3, <2>4
  <2>6. Upto(h, n)
    BY <2>5
  <2>7. n \in 0..N
    BY <1>1
  <2> QED
    BY <2>6, <2>7
<1>5. N \in T
  <2> HIDE DEF T, N
  <2>1. \A n \in 0..N : n \in T
    BY <1>1, <1>3, <1>4, UpToInduction
  <2> QED
    BY <1>1, <2>1
<1>6. PICK f : Upto(f, N)
  BY <1>5
<1>7. IsFetched(f, b, c)
  BY <1>6 DEF IsFetched, Line
<1> QED
  BY <1>7 DEF FetchedOf

LEMMA FetchedNow ==
    /\ Fetched = FetchedOf(bus, computed)
    /\ Fetched' = FetchedOf(bus', computed')
<1>1. Fetched = FetchedOf(bus, computed)
  BY DEF Fetched, FetchedOf, IsFetched, Gives
<1>2. Fetched' = FetchedOf(bus', computed')
  BY DEF Fetched, FetchedOf, IsFetched, Gives
<1> QED
  BY <1>1, <1>2

LEMMA FetchedAt ==
    ASSUME NEW b, NEW c, NEW f, IsFetched(f, b, c), NEW n \in 0..Len(c), NEW name \in AnyName
    PROVE  f[n][name] = Gives(b, c, name, n, f[n - 1])
<1>1. f[n] = [x \in AnyName |-> Gives(b, c, x, n, f[n - 1])]
  BY DEF IsFetched
<1> QED
  BY <1>1

\* The failures are not series.
LEMMA NotFailures ==
    /\ Unknown # Trap
    /\ \A x : <<"computed", x>> \notin Failures /\ <<"file", x>> \notin Failures
BY DEF Unknown, Trap, Failures

\* decode_computed gives a failure of a reference, or a series of them all.
LEMMA ComputedOf ==
    ASSUME NEW refs \in Seq(AnyName), NEW of
    PROVE  LET parts == [i \in 1..Len(refs) |-> of[refs[i]]]
           IN  /\ \/ /\ Computed(refs, of) = Trap
                     /\ refs = <<>>
                  \/ /\ \E i \in 1..Len(refs) : parts[i] \in Failures /\ Computed(refs, of) = parts[i]
                     /\ refs # <<>>
                  \/ /\ refs # <<>>
                     /\ \A i \in 1..Len(refs) : parts[i] \notin Failures
                     /\ Computed(refs, of) = <<"computed", parts>>
<1> DEFINE parts == [i \in 1..Len(refs) |-> of[refs[i]]]
           Fails(i) == parts[i] \in Failures
           First(i) == Fails(i) /\ \A k \in 1..(i - 1) : ~Fails(k)
           T == {i \in 1..Len(refs) : Fails(i)}
<1>1. Len(refs) \in Nat /\ DOMAIN refs = 1..Len(refs)
  BY LenProperties
<1>2. Computed(refs, of) =
        IF refs = <<>> THEN Trap
        ELSE IF \E i \in 1..Len(refs) : Fails(i) THEN parts[CHOOSE i \in 1..Len(refs) : First(i)]
        ELSE <<"computed", parts>>
  BY <1>1 DEF Computed, Failures
<1>3. ASSUME \E i \in 1..Len(refs) : Fails(i)
      PROVE  \E i \in 1..Len(refs) : First(i)
  <2>1. T \in SUBSET Nat /\ T # {}
    BY <1>1, <1>3
  <2>2. PICK j \in T : \A i \in T : j <= i
    <3> HIDE DEF T
    <3> QED
      BY <2>1, LeastNumber
  <2>3. j \in 1..Len(refs) /\ Fails(j)
    BY <2>2
  <2>4. ASSUME NEW k \in 1..(j - 1), Fails(k)
        PROVE  FALSE
    <3>1. k \in T
      BY <1>1, <2>3, <2>4
    <3>2. j <= k
      BY <2>2, <3>1
    <3> QED
      BY <1>1, <2>3, <3>2
  <2> QED
    BY <2>3, <2>4
<1>4. ASSUME \E i \in 1..Len(refs) : Fails(i)
      PROVE  \E i \in 1..Len(refs) : Fails(i) /\ parts[i] = parts[CHOOSE k \in 1..Len(refs) : First(k)]
  <2>1. PICK i : i = CHOOSE k \in 1..Len(refs) : First(k)
    OBVIOUS
  <2>2. i \in 1..Len(refs) /\ First(i)
    <3>1. \E k \in 1..Len(refs) : First(k)
      BY <1>3, <1>4
    <3> HIDE DEF First
    <3> QED
      BY <2>1, <3>1
  <2>3. Fails(i)
    BY <2>2
  <2> QED
    BY <2>1, <2>2, <2>3
<1> QED
  BY <1>2, <1>4

\* find: an entry that has the name, and the same one with another at the end.
LEMMA EntryIs ==
    ASSUME NEW s, IsList(s), NEW name, Named(s, name)
    PROVE  \E k \in 1..Len(s) : Entry(s, name) = s[k] /\ s[k].name = name
<1>1. PICK n : n = NamesIn(s)
  OBVIOUS
<1>2. IsList(n) /\ Len(n) = Len(s) /\ \A i \in 1..Len(s) : n[i] = s[i].name
  BY <1>1, NamesAre
<1>3. \E i \in DOMAIN n : n[i] = name
  BY <1>2, ListIs DEF Named
<1>4. PICK p : p = Position(n, name)
  OBVIOUS
<1>5. p \in 1..Len(s) /\ IsFirst(n, p, name)
  BY <1>2, <1>3, <1>4, FirstPlace
<1> QED
  BY <1>1, <1>2, <1>4, <1>5 DEF Entry, IsFirst

LEMMA EntryStays ==
    ASSUME NEW s, IsList(s), NEW e, NEW name, Named(s, name)
    PROVE  Named(Append(s, e), name) /\ Entry(Append(s, e), name) = Entry(s, name)
<1>1. PICK n : n = NamesIn(s)
  OBVIOUS
<1>2. IsList(n) /\ Len(n) = Len(s) /\ Len(s) \in Nat /\ \A i \in 1..Len(s) : n[i] = s[i].name
  BY <1>1, NamesAre, ListIs
<1>3. \E i \in DOMAIN n : n[i] = name
  BY <1>2, ListIs DEF Named
<1>4. PICK p : p = Position(n, name)
  OBVIOUS
<1>5. p \in 1..Len(s) /\ IsFirst(n, p, name)
  BY <1>2, <1>3, <1>4, FirstPlace
<1>6. PICK t : t = Append(s, e)
  OBVIOUS
<1>7. IsList(t) /\ Len(t) = Len(s) + 1 /\ DOMAIN t = 1..Len(t) /\ \A i \in 1..Len(s) : t[i] = s[i]
  BY <1>6, Appended, ListIs
<1>8. PICK m : m = NamesIn(t)
  OBVIOUS
<1>9. IsList(m) /\ Len(m) = Len(t) /\ DOMAIN m = 1..Len(t) /\ \A i \in 1..Len(t) : m[i] = t[i].name
  BY <1>7, <1>8, NamesAre, ListIs
<1>10. \A i \in 1..Len(s) : m[i] = n[i] /\ i \in 1..Len(t)
  BY <1>2, <1>7, <1>9
<1>11. IsFirst(m, p, name)
  <2>1. \A k \in 1..(p - 1) : k \in 1..Len(s)
    BY <1>2, <1>5
  <2> QED
    BY <1>5, <1>10, <2>1 DEF IsFirst
<1>12. p = Position(m, name)
  <2>1. p \in DOMAIN m /\ m[p] = name /\ p \in 1..Len(m)
    BY <1>5, <1>9, <1>10, <1>11 DEF IsFirst
  <2> QED
    BY <1>9, <1>11, <2>1, FirstPlace
<1>13. Named(t, name)
  <2>1. p \in DOMAIN t /\ t[p].name = name
    BY <1>5, <1>7, <1>9, <1>10, <1>11 DEF IsFirst
  <2> QED
    BY <2>1 DEF Named
<1> QED
  BY <1>1, <1>4, <1>5, <1>6, <1>7, <1>8, <1>12, <1>13 DEF Entry

LEMMA NamedInMore ==
    ASSUME NEW s, IsList(s), NEW e, NEW name, ~Named(s, name)
    PROVE  Named(Append(s, e), name) <=> name = e.name
<1>1. Len(s) \in Nat /\ DOMAIN s = 1..Len(s)
  BY ListIs
<1>2. PICK t : t = Append(s, e)
  OBVIOUS
<1>3. /\ Len(t) = Len(s) + 1 /\ DOMAIN t = 1..Len(t) /\ t[Len(s) + 1] = e
      /\ \A i \in 1..Len(s) : t[i] = s[i]
  BY <1>2, Appended, ListIs
<1>4. \A i \in 1..Len(s) : t[i].name # name
  BY <1>1, <1>3 DEF Named
<1>5. ASSUME Named(t, name)
      PROVE  name = e.name
  <2>1. PICK i \in 1..Len(s) + 1 : t[i].name = name
    BY <1>3, <1>5 DEF Named
  <2>2. i = Len(s) + 1
    BY <1>1, <1>4, <2>1
  <2> QED
    BY <1>3, <2>1, <2>2
<1>6. ASSUME name = e.name
      PROVE  Named(t, name)
  <2>1. Len(s) + 1 \in DOMAIN t
    BY <1>1, <1>3
  <2> QED
    BY <1>3, <1>6, <2>1 DEF Named
<1> QED
  BY <1>2, <1>5, <1>6

\* The computed channels, as they are defined.
ComputedChannel == [name : AnyName, refs : Formulas]

\* What a definition's references are.
LEMMA DefinitionIs ==
    ASSUME NEW c \in Seq(ComputedChannel), NEW name, Named(c, name)
    PROVE  /\ IsList(c) /\ Len(c) \in Nat
           /\ \E k \in 1..Len(c) : Entry(c, name) = c[k] /\ c[k].name = name
           /\ Entry(c, name).refs \in Seq(AnyName)
<1>1. IsList(c) /\ Len(c) \in Nat
  BY ListsAre, LenProperties
<1>2. PICK k \in 1..Len(c) : Entry(c, name) = c[k] /\ c[k].name = name
  BY <1>1, EntryIs
<1>3. c[k] \in ComputedChannel
  BY ElementOfSeq
<1>4. c[k].refs \in Seq(AnyName)
  BY <1>3, WebFileAssumption DEF ComputedChannel
<1> QED
  BY <1>1, <1>2, <1>4

\* A definition of a new name leaves what the other names give.
LEMMA GivesTheSame ==
    ASSUME NEW b, NEW c \in Seq(ComputedChannel), NEW e,
           ~Named(b, e.name), ~Named(c, e.name), ~Named(FileChannels, e.name),
           NEW f, IsFetched(f, b, c), NEW g, IsFetched(g, b, Append(c, e))
    PROVE  \A n \in 0..Len(c), name \in AnyName :
              f[n][name] \notin Failures => \A m \in n..Len(c) + 1 : g[m][name] = f[n][name]
<1>1. IsList(c) /\ Len(c) \in Nat
  BY ListsAre, LenProperties
<1>2. PICK d : d = Append(c, e)
  OBVIOUS
<1>3. IsList(d) /\ Len(d) = Len(c) + 1 /\ IsFetched(g, b, d)
  BY <1>1, <1>2, Appended
<1> DEFINE Same(n) == \A name \in AnyName :
              f[n][name] \notin Failures => \A m \in n..Len(c) + 1 : g[m][name] = f[n][name]
           T == {n \in 0..Len(c) : Same(n)}
<1>4. ASSUME NEW n \in 0..Len(c), n # 0 => Same(n - 1)
      PROVE  Same(n)
  <2> SUFFICES ASSUME NEW name \in AnyName, f[n][name] \notin Failures, NEW m \in n..Len(c) + 1
               PROVE  g[m][name] = f[n][name]
    OBVIOUS
  <2>1. m \in 0..Len(d) /\ m \in Nat /\ n \in Nat /\ m >= n
    BY <1>1, <1>3
  <2>2. f[n][name] = Gives(b, c, name, n, f[n - 1])
    BY FetchedAt
  <2>3. g[m][name] = Gives(b, d, name, m, g[m - 1])
    BY <1>3, <2>1, FetchedAt
  <2>4. CASE Named(b, name)
    BY <2>2, <2>3, <2>4 DEF Gives
  <2>5. CASE ~Named(b, name) /\ Named(c, name)
    <3>1. Named(d, name) /\ Entry(d, name) = Entry(c, name)
      BY <1>1, <1>2, <2>5, EntryStays
    <3>2. PICK refs \in Seq(AnyName) : refs = Entry(c, name).refs
      BY <2>5, DefinitionIs
    <3>3. n # 0
      <4>1. n = 0 => f[n][name] = Trap
        BY <2>2, <2>5 DEF Gives
      <4> QED
        BY <4>1 DEF Failures
    <3>4. m # 0 /\ m - 1 \in (n - 1)..Len(c) + 1
      BY <1>1, <2>1, <3>3
    <3>5. f[n][name] = Computed(refs, f[n - 1]) /\ g[m][name] = Computed(refs, g[m - 1])
      BY <2>2, <2>3, <2>5, <3>1, <3>2, <3>3, <3>4 DEF Gives
    <3>6. PICK p : p = [i \in 1..Len(refs) |-> f[n - 1][refs[i]]]
      OBVIOUS
    <3>7. PICK q : q = [i \in 1..Len(refs) |-> g[m - 1][refs[i]]]
      OBVIOUS
    <3>8. /\ refs # <<>>
          /\ \A i \in 1..Len(refs) : p[i] \notin Failures
          /\ f[n][name] = <<"computed", p>>
      <4>1. Trap \in Failures
        BY DEF Failures
      <4> QED
        BY <3>5, <3>6, <4>1, ComputedOf
    <3>9. \A i \in 1..Len(refs) : q[i] = p[i]
      <4> SUFFICES ASSUME NEW i \in 1..Len(refs)
                   PROVE  q[i] = p[i]
        OBVIOUS
      <4>1. refs[i] \in AnyName /\ f[n - 1][refs[i]] \notin Failures
        BY <3>6, <3>8, ElementOfSeq
      <4>2. g[m - 1][refs[i]] = f[n - 1][refs[i]]
        BY <1>4, <3>3, <3>4, <4>1
      <4> QED
        BY <3>6, <3>7, <4>2
    <3>10. p = q
      BY <3>6, <3>7, <3>9
    <3>11. g[m][name] = <<"computed", q>>
      BY <3>5, <3>7, <3>8, <3>9, ComputedOf
    <3> QED
      BY <3>8, <3>10, <3>11
  <2>6. CASE ~Named(b, name) /\ ~Named(c, name)
    <3>1. Named(FileChannels, name) /\ f[n][name] = <<"file", name>>
      BY <2>2, <2>6 DEF Gives, Failures
    <3>2. ~Named(d, name)
      BY <1>1, <1>2, <2>6, <3>1, NamedInMore
    <3> QED
      BY <2>3, <2>6, <3>1, <3>2 DEF Gives
  <2> QED
    BY <2>4, <2>5, <2>6
<1> HIDE DEF Same
<1>5. 0 \in T
  BY <1>1, <1>4
<1>6. ASSUME NEW n \in 1..Len(c), n - 1 \in T
      PROVE  n \in T
  BY <1>1, <1>4, <1>6
<1>7. \A n \in 0..Len(c) : n \in T
  <2> HIDE DEF T
  <2> QED
    BY <1>1, <1>5, <1>6, UpToInduction
<1>8. \A n \in 0..Len(c) : Same(n)
  BY <1>7
<1> QED
  BY <1>8 DEF Same

\* The computed channels of a file that nothing was removed from or attached to:
\* each has a name of its own, and refers to the file's and those before it.
SoundDefinitions(c) ==
    /\ \A i, k \in 1..Len(c) : c[i].name = c[k].name => i = k
    /\ \A k \in 1..Len(c) :
          /\ ~Named(FileChannels, c[k].name)
          /\ \A i \in 1..Len(c[k].refs) :
                \/ Named(FileChannels, c[k].refs[i])
                \/ \E j \in 1..(k - 1) : c[j].name = c[k].refs[i]

\* No name that is known is unknown.
LEMMA KnownGives ==
    ASSUME NEW c \in Seq(ComputedChannel), SoundDefinitions(c), NEW f, IsFetched(f, <<>>, c)
    PROVE  \A n \in 0..Len(c), name \in AnyName :
              Named(FileChannels, name) \/ Named(c, name) => f[n][name] # Unknown
<1>1. IsList(c) /\ Len(c) \in Nat
  BY ListsAre, LenProperties
<1>2. \A name : ~Named(<<>>, name)
  BY DEF Named
<1> DEFINE Knows(n) == \A name \in AnyName :
              Named(FileChannels, name) \/ Named(c, name) => f[n][name] # Unknown
           T == {n \in 0..Len(c) : Knows(n)}
<1>3. ASSUME NEW n \in 0..Len(c), n # 0 => Knows(n - 1)
      PROVE  Knows(n)
  <2> SUFFICES ASSUME NEW name \in AnyName, Named(FileChannels, name) \/ Named(c, name)
               PROVE  f[n][name] # Unknown
    OBVIOUS
  <2>1. f[n][name] = Gives(<<>>, c, name, n, f[n - 1])
    BY FetchedAt
  <2>2. CASE ~Named(c, name)
    <3>1. f[n][name] = <<"file", name>>
      BY <1>2, <2>1, <2>2 DEF Gives
    <3> QED
      BY <3>1, NotFailures DEF Failures
  <2>3. CASE Named(c, name) /\ n = 0
    <3>1. f[n][name] = Trap
      BY <1>2, <2>1, <2>3 DEF Gives
    <3> QED
      BY <3>1, NotFailures
  <2>4. CASE Named(c, name) /\ n # 0
    <3>1. PICK k \in 1..Len(c) : Entry(c, name) = c[k] /\ c[k].name = name
      BY <2>4, DefinitionIs
    <3>2. PICK refs \in Seq(AnyName) : refs = c[k].refs
      BY <2>4, <3>1, DefinitionIs
    <3>3. f[n][name] = Computed(refs, f[n - 1])
      BY <1>2, <2>1, <2>4, <3>1, <3>2 DEF Gives
    <3>4. PICK p : p = [i \in 1..Len(refs) |-> f[n - 1][refs[i]]]
      OBVIOUS
    <3>5. \A i \in 1..Len(refs) : p[i] # Unknown
      <4> SUFFICES ASSUME NEW i \in 1..Len(refs)
                   PROVE  p[i] # Unknown
        OBVIOUS
      <4>1. refs[i] \in AnyName
        BY ElementOfSeq
      <4>2. Named(FileChannels, refs[i]) \/ \E j \in 1..(k - 1) : c[j].name = refs[i]
        BY <3>2 DEF SoundDefinitions
      <4>3. Named(FileChannels, refs[i]) \/ Named(c, refs[i])
        <5>1. \A j \in 1..(k - 1) : j \in DOMAIN c
          BY <1>1, ListIs
        <5> QED
          BY <4>2, <5>1 DEF Named
      <4> QED
        BY <1>3, <2>4, <3>4, <4>1, <4>3
    <3>6. \/ Computed(refs, f[n - 1]) = Trap
          \/ \E i \in 1..Len(refs) : Computed(refs, f[n - 1]) = p[i]
          \/ Computed(refs, f[n - 1]) = <<"computed", p>>
      BY <3>4, ComputedOf
    <3> QED
      BY <3>3, <3>5, <3>6, NotFailures DEF Failures
  <2> QED
    BY <2>2, <2>3, <2>4
<1> HIDE DEF Knows
<1>4. 0 \in T
  BY <1>1, <1>3
<1>5. ASSUME NEW n \in 1..Len(c), n - 1 \in T
      PROVE  n \in T
  BY <1>1, <1>3, <1>5
<1>6. \A n \in 0..Len(c) : n \in T
  <2> HIDE DEF T
  <2> QED
    BY <1>1, <1>4, <1>5, UpToInduction
<1>7. \A n \in 0..Len(c) : Knows(n)
  BY <1>6
<1> QED
  BY <1>7 DEF Knows

\* The file's channels, and the first n computed ones.
Early(c, n, name) ==
    \/ Named(FileChannels, name) /\ ~Named(c, name)
    \/ \E k \in 1..n : c[k].name = name

\* Where every formula has a reference, every name gives a series.
LEMMA EveryNameGives ==
    ASSUME NEW c \in Seq(ComputedChannel), SoundDefinitions(c), NEW f, IsFetched(f, <<>>, c),
           \A k \in 1..Len(c) : c[k].refs # <<>>
    PROVE  \A n \in 0..Len(c), name \in AnyName : Early(c, n, name) => f[n][name] \notin Failures
<1>1. IsList(c) /\ Len(c) \in Nat /\ DOMAIN c = 1..Len(c)
  BY ListsAre, LenProperties
<1>2. \A name : ~Named(<<>>, name)
  BY DEF Named
<1> DEFINE Answers(n) == \A name \in AnyName : Early(c, n, name) => f[n][name] \notin Failures
           T == {n \in 0..Len(c) : Answers(n)}
<1>3. ASSUME NEW n \in 0..Len(c), n # 0 => Answers(n - 1)
      PROVE  Answers(n)
  <2> SUFFICES ASSUME NEW name \in AnyName, Early(c, n, name)
               PROVE  f[n][name] \notin Failures
    OBVIOUS
  <2>1. f[n][name] = Gives(<<>>, c, name, n, f[n - 1])
    BY FetchedAt
  <2>2. CASE ~Named(c, name)
    <3>1. Named(FileChannels, name)
      <4>1. \A k \in 1..n : k \in DOMAIN c
        BY <1>1
      <4> QED
        BY <2>2, <4>1 DEF Early, Named
    <3>2. f[n][name] = <<"file", name>>
      BY <1>2, <2>1, <2>2, <3>1 DEF Gives
    <3> QED
      BY <3>2, NotFailures
  <2>3. CASE Named(c, name)
    <3>1. PICK k \in 1..n : c[k].name = name
      BY <2>3 DEF Early
    <3>2. PICK e \in 1..Len(c) : Entry(c, name) = c[e] /\ c[e].name = name
      BY <2>3, DefinitionIs
    <3>3. e = k /\ n # 0 /\ k \in 1..Len(c)
      BY <1>1, <3>1, <3>2 DEF SoundDefinitions
    <3>4. PICK refs \in Seq(AnyName) : refs = c[k].refs
      BY <2>3, <3>2, <3>3, DefinitionIs
    <3>5. f[n][name] = Computed(refs, f[n - 1])
      BY <1>2, <2>1, <2>3, <3>2, <3>3, <3>4 DEF Gives
    <3>6. PICK p : p = [i \in 1..Len(refs) |-> f[n - 1][refs[i]]]
      OBVIOUS
    <3>7. \A i \in 1..Len(refs) : p[i] \notin Failures
      <4> SUFFICES ASSUME NEW i \in 1..Len(refs)
                   PROVE  p[i] \notin Failures
        OBVIOUS
      <4>1. refs[i] \in AnyName
        BY ElementOfSeq
      <4>2. Named(FileChannels, refs[i]) \/ \E j \in 1..(k - 1) : c[j].name = refs[i]
        BY <3>3, <3>4 DEF SoundDefinitions
      <4>3. Named(FileChannels, refs[i]) => ~Named(c, refs[i])
        <5> SUFFICES ASSUME Named(FileChannels, refs[i]), Named(c, refs[i])
                     PROVE  FALSE
          OBVIOUS
        <5>1. PICK j \in 1..Len(c) : c[j].name = refs[i]
          BY <1>1 DEF Named
        <5> QED
          BY <5>1 DEF SoundDefinitions
      <4>4. Early(c, n - 1, refs[i])
        <5>1. \A j \in 1..(k - 1) : j \in 1..(n - 1)
          BY <1>1, <3>1
        <5> QED
          BY <4>2, <4>3, <5>1 DEF Early
      <4> QED
        BY <1>3, <3>3, <3>6, <4>1, <4>4
    <3>8. refs # <<>>
      BY <3>3, <3>4
    <3>9. Computed(refs, f[n - 1]) = <<"computed", p>>
      BY <3>6, <3>7, <3>8, ComputedOf
    <3> QED
      BY <3>5, <3>9, NotFailures
  <2> QED
    BY <2>2, <2>3
<1> HIDE DEF Answers
<1>4. 0 \in T
  BY <1>1, <1>3
<1>5. ASSUME NEW n \in 1..Len(c), n - 1 \in T
      PROVE  n \in T
  BY <1>1, <1>3, <1>5
<1>6. \A n \in 0..Len(c) : n \in T
  <2> HIDE DEF T
  <2> QED
    BY <1>1, <1>4, <1>5, UpToInduction
<1>7. \A n \in 0..Len(c) : Answers(n)
  BY <1>6
<1> QED
  BY <1>7 DEF Answers

(***************************************************************************)
(* The invariant of the web reader.                                        *)
(***************************************************************************)

\* What is kept is not a failure, and what its name gives.
KeptSeries ==
    \A i \in 1..Len(cached) :
        /\ cached[i].series \notin Failures
        /\ ~since => cached[i].series = FetchSeries(cached[i].name)

\* As long as nothing was removed or attached.
OnlyDefined ==
    ~edited =>
        /\ bus = <<>>
        /\ SoundDefinitions(computed)
        /\ (\A k \in 1..Len(computed) : computed[k].refs # <<>>) => ~trapped

WebInv ==
    /\ computed \in Seq(ComputedChannel)
    /\ IsList(bus) /\ IsList(cached)
    /\ UsedOK(uses)
    /\ KeptOf(NamesIn(cached), uses)
    /\ KeptSeries
    /\ OnlyDefined

\* FetchSeries, where the computed channels are lists of definitions.
LEMMA FetchedNowIs ==
    ASSUME computed \in Seq(ComputedChannel)
    PROVE  IsFetched(Fetched, bus, computed) /\ Len(computed) \in Nat
<1>1. Len(computed) \in Nat
  BY LenProperties
<1> QED
  BY <1>1, FetchedNow, FetchedExists

\* The names of what is kept.
LEMMA KeptNames ==
    ASSUME WebInv
    PROVE  \A i \in 1..Len(cached) : cached[i].name \in AnyName /\ NamesIn(cached)[i] = cached[i].name
<1>1. PICK n : n = NamesIn(cached)
  OBVIOUS
<1>2. IsList(n) /\ Len(n) = Len(cached) /\ \A i \in 1..Len(cached) : n[i] = cached[i].name
  BY <1>1, NamesAre DEF WebInv
<1>3. n \in Seq(AnyName)
  BY <1>1, <1>2, KeptAreNames DEF WebInv
<1>4. \A i \in 1..Len(n) : n[i] \in AnyName
  BY <1>3, ElementOfSeq
<1> QED
  BY <1>1, <1>2, <1>4

LEMMA WebBegins == WebInit => WebInv
<1> SUFFICES ASSUME WebInit
             PROVE  WebInv
  OBVIOUS
<1>1. bus = <<>> /\ computed = <<>> /\ cached = <<>> /\ uses = <<>> /\ edited = FALSE /\ trapped = FALSE
  BY DEF WebInit
<1>2. PICK e : e = <<>>
  OBVIOUS
<1>3. \A S : e \in Seq(S) /\ Len(e) = 0
  BY <1>2, EmptySeq
<1>4. IsList(e)
  BY <1>3 DEF IsList
<1>5. UsedOK(e)
  <2>1. DOMAIN e = 1..0 /\ WebCap \in Nat
    BY <1>2, WebFileAssumption
  <2> QED
    BY <1>3, <2>1 DEF UsedOK, IsInjective
<1>6. NamesIn(e) = e
  <2>1. Len(NamesIn(e)) = 0 /\ IsList(NamesIn(e))
    BY <1>3, <1>4, NamesAre
  <2> QED
    BY <1>3, <1>4, <2>1, SameList
<1>7. KeptOf(e, e)
  <2>1. LastOf(e, 0) = e
    BY <1>3, <1>4, AllOfThem
  <2> QED
    BY <1>2, <1>3, <2>1 DEF KeptOf
<1>8. KeptSeries
  <2>1. Len(cached) = 0
    BY <1>1, <1>2, <1>3
  <2> QED
    BY <2>1 DEF KeptSeries
<1>9. OnlyDefined
  <2>1. Len(computed) = 0
    BY <1>1, <1>2, <1>3
  <2> QED
    BY <1>1, <2>1 DEF OnlyDefined, SoundDefinitions
<1> QED
  BY <1>1, <1>2, <1>3, <1>4, <1>5, <1>6, <1>7, <1>8, <1>9 DEF WebInv

\* decoded: what comes in is what its name gives, or was kept already.
LEMMA DecodedStep ==
    ASSUME WebInv, NEW name \in AnyName, Decoded(name)
    PROVE  WebInv'
<1>1. PICK series : series = IF Named(cached, name) THEN Entry(cached, name).series ELSE FetchSeries(name)
  OBVIOUS
<1>2. PICK e : e = [name |-> name, series |-> series]
  OBVIOUS
<1>3. /\ ~trapped /\ series \notin Failures
      /\ cached' = Append(MakesRoom(TakenOut(cached, name), SeriesBytes[name]), e)
      /\ uses' = LastOf(Append(Others(uses, name), name), WebCap)
      /\ computed' = computed /\ bus' = bus /\ trapped' = trapped /\ edited' = edited /\ since' = since
  BY <1>1, <1>2 DEF Decoded, Used, Failures
<1>4. e.name = name /\ e.series = series
  BY <1>2
<1>5. PICK new : new = cached'
  OBVIOUS
<1>6. /\ IsList(new)
      /\ KeptOf(NamesIn(new), uses')
      /\ \A i \in 1..Len(new) : new[i] = e \/ \E k \in 1..Len(cached) : new[i] = cached[k]
  <2>1. PICK s, u : s = cached /\ u = uses
    OBVIOUS
  <2>2. IsList(s) /\ UsedOK(u) /\ KeptOf(NamesIn(s), u)
    BY <2>1 DEF WebInv
  <2>3. new = Append(MakesRoom(TakenOut(s, name), SeriesBytes[name]), e)
    BY <1>3, <1>5, <2>1
  <2>4. IsList(new)
    BY <1>4, <2>2, <2>3, DecodedKeeps
  <2>5. KeptOf(NamesIn(new), LastOf(Append(Others(u, name), name), WebCap))
    BY <1>4, <2>2, <2>3, DecodedKeeps
  <2>6. \A i \in 1..Len(new) : new[i] = e \/ \E k \in 1..Len(s) : new[i] = s[k]
    BY <1>4, <2>2, <2>3, DecodedKeeps
  <2>7. uses' = LastOf(Append(Others(u, name), name), WebCap)
    BY <1>3, <2>1
  <2> QED
    BY <2>1, <2>4, <2>5, <2>6, <2>7
<1>7. UsedOK(uses')
  BY <1>3, UsedStaysOK DEF WebInv
<1>8. Fetched' = Fetched
  BY <1>3, FetchedNow
<1>9. series \notin Failures /\ (~since => series = FetchSeries(name))
  <2>1. CASE Named(cached, name)
    <3>1. PICK k \in 1..Len(cached) : Entry(cached, name) = cached[k] /\ cached[k].name = name
      BY <2>1, EntryIs DEF WebInv
    <3> QED
      BY <1>1, <1>3, <2>1, <3>1 DEF WebInv, KeptSeries
  <2>2. CASE ~Named(cached, name)
    BY <1>1, <1>3, <2>2
  <2> QED
    BY <2>1, <2>2
<1>10. KeptSeries'
  <2>1. ASSUME NEW i \in 1..Len(new)
        PROVE  /\ new[i].series \notin Failures
               /\ ~since => new[i].series = Fetched[Len(computed)][new[i].name]
    <3>1. CASE new[i] = e
      BY <1>4, <1>9, <3>1 DEF FetchSeries
    <3>2. CASE \E k \in 1..Len(cached) : new[i] = cached[k]
      BY <3>2 DEF WebInv, KeptSeries, FetchSeries
    <3> QED
      BY <1>6, <3>1, <3>2
  <2> QED
    BY <1>3, <1>5, <1>8, <2>1 DEF KeptSeries, FetchSeries
<1>11. OnlyDefined'
  BY <1>3 DEF WebInv, OnlyDefined, SoundDefinitions
<1> QED
  BY <1>3, <1>5, <1>6, <1>7, <1>10, <1>11 DEF WebInv

\* Where every formula has a reference nothing traps.
LEMMA NothingTraps ==
    ASSUME computed \in Seq(ComputedChannel), bus = <<>>, SoundDefinitions(computed),
           \A k \in 1..Len(computed) : computed[k].refs # <<>>, NEW name \in AnyName
    PROVE  FetchSeries(name) # Trap
<1>1. PICK f : f = Fetched
  OBVIOUS
<1>2. IsFetched(f, <<>>, computed) /\ Len(computed) \in Nat
  BY <1>1, FetchedNowIs
<1>3. PICK n \in 0..Len(computed) : n = Len(computed)
  BY <1>2
<1>4. CASE Named(FileChannels, name) \/ Named(computed, name)
  <2>1. Early(computed, n, name)
    <3>1. DOMAIN computed = 1..Len(computed)
      BY LenProperties
    <3> QED
      BY <1>3, <1>4, <3>1 DEF Early, Named
  <2>2. f[n][name] \notin Failures
    BY <1>2, <2>1, EveryNameGives
  <2> QED
    BY <1>1, <1>3, <2>2 DEF Failures, FetchSeries
<1>5. CASE ~(Named(FileChannels, name) \/ Named(computed, name))
  <2>1. f[n][name] = Gives(<<>>, computed, name, n, f[n - 1])
    BY <1>2, FetchedAt
  <2>2. f[n][name] = Unknown
    BY <1>5, <2>1 DEF Gives, Named
  <2> QED
    BY <1>1, <1>3, <2>2, NotFailures DEF FetchSeries
<1> QED
  BY <1>4, <1>5

LEMMA TrapsStep ==
    ASSUME WebInv, NEW name \in AnyName, Traps(name)
    PROVE  WebInv'
<1>1. /\ FetchSeries(name) = Trap
      /\ UNCHANGED <<bus, computed, cached, uses, edited, since>>
  BY DEF Traps
<1>2. Fetched' = Fetched
  BY <1>1, FetchedNow
<1>3. KeptSeries'
  BY <1>1, <1>2 DEF WebInv, KeptSeries, FetchSeries
<1>4. OnlyDefined'
  <2>1. ~edited => ~(\A k \in 1..Len(computed) : computed[k].refs # <<>>)
    BY <1>1, NothingTraps DEF WebInv, OnlyDefined
  <2> QED
    BY <1>1, <2>1 DEF WebInv, OnlyDefined, SoundDefinitions
<1> QED
  BY <1>1, <1>3, <1>4 DEF WebInv

LEMMA ClearStep ==
    ASSUME WebInv, ClearDecodeCache
    PROVE  WebInv'
<1>1. /\ cached' = <<>> /\ uses' = <<>>
      /\ UNCHANGED <<bus, computed, trapped, edited>>
  BY DEF ClearDecodeCache
<1>2. PICK e : e = <<>>
  OBVIOUS
<1>3. \A S : e \in Seq(S) /\ Len(e) = 0
  BY <1>2, EmptySeq
<1>4. IsList(e)
  BY <1>3 DEF IsList
<1>5. UsedOK(e)
  <2>1. DOMAIN e = 1..0 /\ WebCap \in Nat
    BY <1>2, WebFileAssumption
  <2> QED
    BY <1>3, <2>1 DEF UsedOK, IsInjective
<1>6. NamesIn(e) = e
  <2>1. Len(NamesIn(e)) = 0 /\ IsList(NamesIn(e))
    BY <1>3, <1>4, NamesAre
  <2> QED
    BY <1>3, <1>4, <2>1, SameList
<1>7. KeptOf(e, e)
  <2>1. LastOf(e, 0) = e
    BY <1>3, <1>4, AllOfThem
  <2> QED
    BY <1>2, <1>3, <2>1 DEF KeptOf
<1>8. KeptSeries'
  <2>1. Len(cached') = 0
    BY <1>1, <1>2, <1>3
  <2> QED
    BY <2>1 DEF KeptSeries
<1>9. OnlyDefined'
  BY <1>1 DEF WebInv, OnlyDefined, SoundDefinitions
<1> QED
  BY <1>1, <1>2, <1>4, <1>5, <1>6, <1>7, <1>8, <1>9 DEF WebInv

\* define_computed keeps the definitions sound: the name is new, and what it
\* refers to is there.
LEMMA SoundWithOneMore ==
    ASSUME NEW c \in Seq(ComputedChannel), SoundDefinitions(c), NEW e \in ComputedChannel,
           ~Named(FileChannels, e.name), ~Named(c, e.name),
           \A i \in 1..Len(e.refs) : Named(FileChannels, e.refs[i]) \/ Named(c, e.refs[i])
    PROVE  SoundDefinitions(Append(c, e))
<1>1. IsList(c) /\ Len(c) \in Nat /\ DOMAIN c = 1..Len(c)
  BY ListsAre, LenProperties
<1>2. PICK d : d = Append(c, e)
  OBVIOUS
<1>3. Len(d) = Len(c) + 1 /\ d[Len(c) + 1] = e /\ \A i \in 1..Len(c) : d[i] = c[i]
  BY <1>1, <1>2, Appended
<1>4. \A i \in 1..Len(c) : c[i].name # e.name
  BY <1>1 DEF Named
<1>5. \A i \in 1..Len(d) : i \in 1..Len(c) \/ i = Len(c) + 1
  BY <1>1, <1>3
<1>6. ASSUME NEW i \in 1..Len(d), NEW k \in 1..Len(d), d[i].name = d[k].name
      PROVE  i = k
  <2>1. CASE i \in 1..Len(c) /\ k \in 1..Len(c)
    BY <1>3, <1>6, <2>1 DEF SoundDefinitions
  <2>2. CASE i \in 1..Len(c) /\ k = Len(c) + 1
    BY <1>3, <1>4, <1>6, <2>2
  <2>3. CASE i = Len(c) + 1 /\ k \in 1..Len(c)
    BY <1>3, <1>4, <1>6, <2>3
  <2>4. CASE i = Len(c) + 1 /\ k = Len(c) + 1
    BY <2>4
  <2> QED
    BY <1>5, <2>1, <2>2, <2>3, <2>4
<1>7. ASSUME NEW k \in 1..Len(d)
      PROVE  /\ ~Named(FileChannels, d[k].name)
             /\ \A i \in 1..Len(d[k].refs) :
                   \/ Named(FileChannels, d[k].refs[i])
                   \/ \E j \in 1..(k - 1) : d[j].name = d[k].refs[i]
  <2>1. CASE k \in 1..Len(c)
    <3>1. d[k] = c[k]
      BY <1>3, <2>1
    <3>2. \A j \in 1..(k - 1) : d[j] = c[j]
      <4>1. \A j \in 1..(k - 1) : j \in 1..Len(c)
        BY <1>1, <2>1
      <4> QED
        BY <1>3, <4>1
    <3>3. /\ ~Named(FileChannels, c[k].name)
          /\ \A i \in 1..Len(c[k].refs) :
                \/ Named(FileChannels, c[k].refs[i])
                \/ \E j \in 1..(k - 1) : c[j].name = c[k].refs[i]
      BY <2>1 DEF SoundDefinitions
    <3>4. ASSUME NEW i \in 1..Len(c[k].refs), ~Named(FileChannels, c[k].refs[i])
          PROVE  \E j \in 1..(k - 1) : d[j].name = c[k].refs[i]
      <4>1. PICK j \in 1..(k - 1) : c[j].name = c[k].refs[i]
        BY <3>3, <3>4
      <4> QED
        BY <3>2, <4>1
    <3> QED
      BY <3>1, <3>3, <3>4
  <2>2. CASE k = Len(c) + 1
    <3>1. d[k] = e /\ 1..(k - 1) = 1..Len(c)
      BY <1>1, <1>3, <2>2
    <3>2. ASSUME NEW i \in 1..Len(e.refs), ~Named(FileChannels, e.refs[i])
          PROVE  \E j \in 1..(k - 1) : d[j].name = e.refs[i]
      <4>1. PICK j \in 1..Len(c) : c[j].name = e.refs[i]
        BY <1>1, <3>2 DEF Named
      <4> QED
        BY <1>3, <3>1, <4>1
    <3> QED
      BY <3>1, <3>2
  <2> QED
    BY <1>5, <2>1, <2>2
<1> QED
  BY <1>2, <1>6, <1>7 DEF SoundDefinitions

LEMMA DefineStep ==
    ASSUME WebInv, NEW name \in DefinedNames, NEW refs \in Formulas, DefineComputed(name, refs)
    PROVE  WebInv'
<1>1. PICK c, e, b : c = computed /\ e = [name |-> name, refs |-> refs] /\ b = bus
  OBVIOUS
<1>2. /\ ~KnownName(name)
      /\ \A i \in DOMAIN refs : KnownName(refs[i])
      /\ computed' = Append(c, e)
      /\ UNCHANGED <<bus, cached, trapped, uses, edited, since>>
  BY <1>1 DEF DefineComputed
<1>3. /\ name \in AnyName /\ refs \in Seq(AnyName) /\ e.name = name /\ e.refs = refs
      /\ e \in ComputedChannel /\ DOMAIN refs = 1..Len(refs)
  <2>1. name \in AnyName /\ refs \in Seq(AnyName)
    BY WebFileAssumption
  <2> QED
    BY <1>1, <2>1, LenProperties DEF ComputedChannel
<1>4. c \in Seq(ComputedChannel) /\ IsList(c) /\ Len(c) \in Nat
  <2>1. c \in Seq(ComputedChannel)
    BY <1>1 DEF WebInv
  <2> QED
    BY <2>1, ListsAre, LenProperties
<1>5. computed' \in Seq(ComputedChannel) /\ Len(computed') = Len(c) + 1
  BY <1>2, <1>3, <1>4, AppendProperties
<1>6. ~Named(b, e.name) /\ ~Named(c, e.name) /\ ~Named(FileChannels, e.name)
  BY <1>1, <1>2, <1>3 DEF KnownName
<1>7. KeptSeries'
  <2>1. PICK f : f = Fetched
    OBVIOUS
  <2>2. PICK g : g = Fetched'
    OBVIOUS
  <2>3. IsFetched(f, b, c)
    BY <1>1, <1>4, <2>1, FetchedNow, FetchedExists
  <2>4. IsFetched(g, b, Append(c, e))
    <3>1. g = FetchedOf(b, Append(c, e))
      BY <1>1, <1>2, <2>2, FetchedNow
    <3>2. Len(Append(c, e)) \in Nat
      BY <1>2, <1>4, <1>5
    <3> QED
      BY <3>1, <3>2, FetchedExists
  <2>5. \A n \in 0..Len(c), x \in AnyName :
            f[n][x] \notin Failures => \A m \in n..Len(c) + 1 : g[m][x] = f[n][x]
    BY <1>4, <1>6, <2>3, <2>4, GivesTheSame
  <2>6. Len(c) \in 0..Len(c) /\ Len(c) + 1 \in Len(c)..Len(c) + 1
    BY <1>4
  <2>7. \A x \in AnyName : f[Len(c)][x] \notin Failures => g[Len(c) + 1][x] = f[Len(c)][x]
    BY <2>5, <2>6
  <2>8. ASSUME NEW i \in 1..Len(cached)
        PROVE  /\ cached[i].series \notin Failures
               /\ ~since => cached[i].series = g[Len(c) + 1][cached[i].name]
    <3>1. cached[i].name \in AnyName
      BY KeptNames
    <3>2. cached[i].series \notin Failures /\ (~since => cached[i].series = f[Len(c)][cached[i].name])
      BY <1>1, <2>1 DEF WebInv, KeptSeries, FetchSeries
    <3> QED
      BY <2>7, <3>1, <3>2
  <2> QED
    BY <1>2, <1>5, <2>2, <2>8 DEF KeptSeries, FetchSeries
<1>8. OnlyDefined'
  <2> SUFFICES ASSUME ~edited
               PROVE  /\ bus = <<>>
                      /\ SoundDefinitions(computed')
                      /\ (\A k \in 1..Len(computed') : computed'[k].refs # <<>>) => ~trapped
    BY <1>2 DEF OnlyDefined
  <2>1. /\ bus = <<>> /\ SoundDefinitions(c)
        /\ (\A k \in 1..Len(c) : c[k].refs # <<>>) => ~trapped
    BY <1>1 DEF WebInv, OnlyDefined
  <2>2. \A i \in 1..Len(e.refs) : Named(FileChannels, e.refs[i]) \/ Named(c, e.refs[i])
    <3>1. \A x : ~Named(bus, x)
      BY <2>1 DEF Named
    <3> QED
      BY <1>1, <1>2, <1>3, <3>1 DEF KnownName
  <2>3. SoundDefinitions(computed')
    BY <1>2, <1>3, <1>4, <1>6, <2>1, <2>2, SoundWithOneMore
  <2>4. \A k \in 1..Len(c) : computed'[k] = c[k] /\ k \in 1..Len(computed')
    BY <1>2, <1>4, <1>5, Appended
  <2> QED
    BY <2>1, <2>3, <2>4
<1> QED
  BY <1>2, <1>5, <1>7, <1>8 DEF WebInv

\* Vec::retain gives some of the definitions.
LEMMA AllButAre ==
    ASSUME NEW c \in Seq(ComputedChannel), NEW name
    PROVE  AllBut(c, name) \in Seq(ComputedChannel)
<1> DEFINE N == Len(c)
           F == [n \in 1..N |-> [q \in Seq(ComputedChannel) |-> IF c[n].name = name THEN q ELSE Append(q, c[n])]]
           Body(g) == [n \in 0..N |->
                   IF n = 0 THEN <<>> ELSE IF c[n].name = name THEN g[n - 1] ELSE Append(g[n - 1], c[n])]
<1>1. N \in Nat
  BY LenProperties
<1>2. \A n \in 1..N : \A q \in Seq(ComputedChannel) :
          (IF c[n].name = name THEN q ELSE Append(q, c[n])) \in Seq(ComputedChannel)
  BY ElementOfSeq, AppendProperties
<1>3. F \in [1..N -> [Seq(ComputedChannel) -> Seq(ComputedChannel)]]
  <2> HIDE DEF N
  <2> QED
    BY <1>2
<1>4. <<>> \in Seq(ComputedChannel)
  BY EmptySeq
<1>5. PICK f : IsRecursion(f, N, Seq(ComputedChannel), <<>>, F)
  <2> HIDE DEF F, N
  <2> QED
    BY <1>1, <1>3, <1>4, Recursion
<1>6. f = Body(f)
  <2>1. f \in [0..N -> Seq(ComputedChannel)] /\ f = [n \in 0..N |-> IF n = 0 THEN <<>> ELSE F[n][f[n - 1]]]
    BY <1>5 DEF IsRecursion
  <2>2. ASSUME NEW n \in 0..N, n # 0
        PROVE  F[n][f[n - 1]] = IF c[n].name = name THEN f[n - 1] ELSE Append(f[n - 1], c[n])
    <3> HIDE DEF N
    <3>1. n \in 1..N /\ n - 1 \in 0..N
      BY <1>1, <2>2
    <3>2. f[n - 1] \in Seq(ComputedChannel)
      BY <2>1, <3>1
    <3> QED
      BY <3>1, <3>2
  <2> HIDE DEF F, N
  <2> QED
    BY <2>1, <2>2
<1> DEFINE R == CHOOSE g : g = Body(g)
<1>7. R = Body(R) /\ AllBut(c, name) = R[N]
  BY <1>6 DEF AllBut
<1> HIDE DEF R, F
<1> DEFINE S == {n \in 0..N : R[n] \in Seq(ComputedChannel)}
<1>8. 0 \in S
  <2> HIDE DEF N
  <2>1. 0 \in 0..N
    BY <1>1
  <2> QED
    BY <1>4, <1>7, <2>1
<1>9. ASSUME NEW n \in 1..N, n - 1 \in S
      PROVE  n \in S
  <2>1. n \in 0..N /\ n # 0
    BY <1>1
  <2>2. R[n] = IF c[n].name = name THEN R[n - 1] ELSE Append(R[n - 1], c[n])
    <3> HIDE DEF N
    <3> QED
      BY <1>7, <2>1
  <2> QED
    BY <1>2, <1>9, <2>1, <2>2
<1> HIDE DEF S, N
<1>10. \A n \in 0..N : n \in S
  BY <1>1, <1>8, <1>9, UpToInduction
<1> QED
  BY <1>1, <1>7, <1>10 DEF S

LEMMA RemoveStep ==
    ASSUME WebInv, NEW name, RemoveComputed(name)
    PROVE  WebInv'
<1>1. /\ computed' = AllBut(computed, name) /\ edited' = TRUE /\ since' = TRUE
      /\ UNCHANGED <<bus, cached, trapped, uses>>
  BY DEF RemoveComputed
<1>2. computed' \in Seq(ComputedChannel)
  BY <1>1, AllButAre DEF WebInv
<1>3. KeptSeries' /\ OnlyDefined'
  BY <1>1 DEF WebInv, KeptSeries, OnlyDefined
<1> QED
  BY <1>1, <1>2, <1>3 DEF WebInv

LEMMA AttachStep ==
    ASSUME WebInv, NEW db \in DOMAIN Databases, AttachDbc(db)
    PROVE  WebInv'
<1>1. /\ bus' = Overlay(db) /\ edited' = TRUE /\ since' = TRUE
      /\ UNCHANGED <<computed, cached, trapped, uses>>
  BY DEF AttachDbc
<1>2. IsList(Overlay(db))
  <2>1. PICK o : o = Overlay(db)
    OBVIOUS
  <2>2. PICK n : n = Len(Databases[db])
    OBVIOUS
  <2>3. n \in Nat /\ DOMAIN Databases[db] = 1..n
    BY <2>2, WebFileAssumption, LenProperties
  <2>4. o = [i \in 1..n |-> o[i]]
    BY <2>1, <2>3 DEF Overlay
  <2> QED
    BY <2>1, <2>3, <2>4, MadeLists
<1>3. KeptSeries' /\ OnlyDefined'
  BY <1>1 DEF WebInv, KeptSeries, OnlyDefined
<1> QED
  BY <1>1, <1>2, <1>3 DEF WebInv

LEMMA DetachStep ==
    ASSUME WebInv, DetachDbc
    PROVE  WebInv'
<1>1. /\ bus' = <<>> /\ edited' = TRUE /\ since' = TRUE
      /\ UNCHANGED <<computed, cached, trapped, uses>>
  BY DEF DetachDbc
<1>2. IsList(<<>>)
  BY EmptySeq DEF IsList
<1>3. KeptSeries' /\ OnlyDefined'
  BY <1>1 DEF WebInv, KeptSeries, OnlyDefined
<1> QED
  BY <1>1, <1>2, <1>3 DEF WebInv

LEMMA WebInvIsKept == WebInv /\ [WebNext]_webVars => WebInv'
<1> SUFFICES ASSUME WebInv, [WebNext]_webVars
             PROVE  WebInv'
  OBVIOUS
<1>1. ASSUME NEW name \in AnyName, Decoded(name)
      PROVE  WebInv'
  BY <1>1, DecodedStep
<1>2. ASSUME NEW name \in AnyName, Traps(name)
      PROVE  WebInv'
  BY <1>2, TrapsStep
<1>3. CASE ClearDecodeCache
  BY <1>3, ClearStep
<1>4. ASSUME NEW name \in DefinedNames, NEW refs \in Formulas, DefineComputed(name, refs)
      PROVE  WebInv'
  BY <1>4, DefineStep
<1>5. ASSUME NEW name \in DefinedNames, RemoveComputed(name)
      PROVE  WebInv'
  BY <1>5, RemoveStep
<1>6. ASSUME NEW db \in DOMAIN Databases, AttachDbc(db)
      PROVE  WebInv'
  BY <1>6, AttachStep
<1>7. CASE DetachDbc
  BY <1>7, DetachStep
<1>8. CASE UNCHANGED webVars
  <2>1. UNCHANGED <<bus, computed, cached, trapped, uses, edited, since>>
    BY <1>8 DEF webVars
  <2>2. Fetched' = Fetched
    BY <2>1, FetchedNow
  <2>3. KeptSeries' /\ OnlyDefined'
    BY <2>1, <2>2 DEF WebInv, KeptSeries, OnlyDefined, FetchSeries, SoundDefinitions
  <2> QED
    BY <2>1, <2>3 DEF WebInv
<1> QED
  BY <1>1, <1>2, <1>3, <1>4, <1>5, <1>6, <1>7, <1>8 DEF WebNext, AnyName

(***************************************************************************)
(* What the page is told follows.                                          *)
(***************************************************************************)

LEMMA OneAfterTheOther ==
    ASSUME NEW x, NEW y, IsList(x), IsList(y)
    PROVE  /\ IsList(x \o y)
           /\ Len(x \o y) = Len(x) + Len(y)
           /\ \A i \in 1..Len(x) : (x \o y)[i] = x[i]
           /\ \A i \in 1..Len(y) : (x \o y)[Len(x) + i] = y[i]
<1> DEFINE S == Range(x) \cup Range(y)
<1>1. Len(x) \in Nat /\ Len(y) \in Nat /\ DOMAIN x = 1..Len(x) /\ DOMAIN y = 1..Len(y)
  BY ListIs
<1>2. x \in Seq(S) /\ y \in Seq(S)
  <2>1. x = [i \in 1..Len(x) |-> x[i]] /\ y = [i \in 1..Len(y) |-> y[i]]
    BY <1>1, LenProperties DEF IsList
  <2>2. (\A i \in 1..Len(x) : x[i] \in S) /\ \A i \in 1..Len(y) : y[i] \in S
    BY <1>1 DEF Range
  <2> HIDE DEF S
  <2>3. x \in [1..Len(x) -> S] /\ y \in [1..Len(y) -> S]
    BY <2>1, <2>2
  <2> QED
    BY <1>1, <2>3, IsASeq
<1> HIDE DEF S
<1>3. PICK z : z = x \o y
  OBVIOUS
<1>4. z \in Seq(S) /\ Len(z) = Len(x) + Len(y)
      /\ \A i \in 1..Len(x) + Len(y) : z[i] = IF i <= Len(x) THEN x[i] ELSE y[i - Len(x)]
  BY <1>2, <1>3, ConcatProperties
<1>5. IsList(z)
  BY <1>4, ListsAre
<1>6. \A i \in 1..Len(x) : z[i] = x[i]
  BY <1>1, <1>4
<1>7. ASSUME NEW i \in 1..Len(y)
      PROVE  z[Len(x) + i] = y[i]
  <2>1. PICK k : k = Len(x) + i
    OBVIOUS
  <2>2. k \in 1..Len(x) + Len(y) /\ ~(k <= Len(x)) /\ k - Len(x) = i
    BY <1>1, <2>1
  <2> QED
    BY <1>4, <2>1, <2>2
<1> QED
  BY <1>3, <1>4, <1>5, <1>6, <1>7

\* Of three lists, one after the other.
IsThree(t, x, y, z) ==
    /\ Len(t) = Len(x) + Len(y) + Len(z)
    /\ DOMAIN t = 1..Len(t)
    /\ \A i \in 1..Len(x) : t[i] = x[i]
    /\ \A i \in 1..Len(y) : t[Len(x) + i] = y[i]
    /\ \A i \in 1..Len(z) : t[Len(x) + Len(y) + i] = z[i]

LEMMA ThreeAre ==
    ASSUME NEW x, NEW y, NEW z, IsList(x), IsList(y), IsList(z)
    PROVE  IsThree(x \o y \o z, x, y, z)
<1>1. Len(x) \in Nat /\ Len(y) \in Nat /\ Len(z) \in Nat
  BY ListIs
<1>2. PICK p : p = x \o y
  OBVIOUS
<1>3. /\ IsList(p) /\ Len(p) = Len(x) + Len(y)
      /\ \A i \in 1..Len(x) : p[i] = x[i]
      /\ \A i \in 1..Len(y) : p[Len(x) + i] = y[i]
  BY <1>2, OneAfterTheOther
<1>4. PICK t : t = p \o z
  OBVIOUS
<1>5. /\ IsList(t) /\ Len(t) = Len(p) + Len(z)
      /\ \A i \in 1..Len(p) : t[i] = p[i]
      /\ \A i \in 1..Len(z) : t[Len(p) + i] = z[i]
  <2>1. IsList(t) /\ Len(t) = Len(p) + Len(z)
    BY <1>3, <1>4, OneAfterTheOther
  <2>2. \A i \in 1..Len(p) : t[i] = p[i]
    BY <1>3, <1>4, OneAfterTheOther
  <2>3. \A i \in 1..Len(z) : t[Len(p) + i] = z[i]
    BY <1>3, <1>4, OneAfterTheOther
  <2> QED
    BY <2>1, <2>2, <2>3
<1>6. DOMAIN t = 1..Len(t)
  BY <1>5, ListIs
<1>7. \A i \in 1..Len(x) : t[i] = x[i]
  <2>1. \A i \in 1..Len(x) : i \in 1..Len(p)
    BY <1>1, <1>3
  <2> QED
    BY <1>3, <1>5, <2>1
<1>8. \A i \in 1..Len(y) : t[Len(x) + i] = y[i]
  <2>1. \A i \in 1..Len(y) : Len(x) + i \in 1..Len(p)
    BY <1>1, <1>3
  <2> QED
    BY <1>3, <1>5, <2>1
<1> QED
  BY <1>2, <1>3, <1>4, <1>5, <1>6, <1>7, <1>8 DEF IsThree

\* Every place is of one of the three.
LEMMA PlacesOfThree ==
    ASSUME NEW t, NEW x, NEW y, NEW z, IsList(x), IsList(y), IsList(z), IsThree(t, x, y, z),
           NEW i \in 1..Len(t)
    PROVE  \/ i \in 1..Len(x) /\ t[i] = x[i]
           \/ \E k \in 1..Len(y) : i = Len(x) + k /\ t[i] = y[k]
           \/ \E k \in 1..Len(z) : i = Len(x) + Len(y) + k /\ t[i] = z[k]
<1>1. Len(x) \in Nat /\ Len(y) \in Nat /\ Len(z) \in Nat
  BY ListIs
<1>2. i \in Nat /\ 1 <= i /\ i <= Len(x) + Len(y) + Len(z)
  BY <1>1 DEF IsThree
<1>3. CASE i <= Len(x)
  BY <1>2, <1>3 DEF IsThree
<1>4. CASE Len(x) < i /\ i <= Len(x) + Len(y)
  <2>1. PICK k : k = i - Len(x)
    OBVIOUS
  <2>2. k \in 1..Len(y) /\ i = Len(x) + k
    BY <1>1, <1>2, <1>4, <2>1
  <2> QED
    BY <2>2 DEF IsThree
<1>5. CASE Len(x) + Len(y) < i
  <2>1. PICK k : k = i - (Len(x) + Len(y))
    OBVIOUS
  <2>2. k \in 1..Len(z) /\ i = Len(x) + Len(y) + k
    BY <1>1, <1>2, <1>5, <2>1
  <2> QED
    BY <2>2 DEF IsThree
<1> QED
  BY <1>1, <1>2, <1>3, <1>4, <1>5

\* The names of the channels, of the file and then of the bus and the computed.
LEMMA ChannelNamesAre ==
    ASSUME WebInv
    PROVE  /\ IsList(FileChannels) /\ IsList(bus) /\ IsList(computed)
           /\ IsThree(ChannelNames, NamesIn(FileChannels), NamesIn(bus), NamesIn(computed))
<1>1. IsList(FileChannels) /\ IsList(bus) /\ IsList(computed)
  BY WebFileAssumption, ListsAre DEF WebInv
<1>2. PICK x, y, z : x = NamesIn(FileChannels) /\ y = NamesIn(bus) /\ z = NamesIn(computed)
  OBVIOUS
<1>3. IsList(x) /\ IsList(y) /\ IsList(z)
  BY <1>1, <1>2, NamesAre
<1>4. IsThree(x \o y \o z, x, y, z)
  BY <1>3, ThreeAre
<1> QED
  BY <1>1, <1>2, <1>4 DEF ChannelNames

\* In the words of the channels.
LEMMA NamesAndPlaces ==
    ASSUME WebInv
    PROVE  /\ Len(ChannelNames) = Len(FileChannels) + Len(bus) + Len(computed)
           /\ DOMAIN ChannelNames = 1..Len(ChannelNames)
           /\ Len(FileChannels) \in Nat /\ Len(bus) \in Nat /\ Len(computed) \in Nat
           /\ \A i \in 1..Len(FileChannels) : ChannelNames[i] = FileChannels[i].name
           /\ \A i \in 1..Len(bus) : ChannelNames[Len(FileChannels) + i] = bus[i].name
           /\ \A i \in 1..Len(computed) :
                 ChannelNames[Len(FileChannels) + Len(bus) + i] = computed[i].name
           /\ \A i \in 1..Len(ChannelNames) :
                 \/ i \in 1..Len(FileChannels)
                 \/ \E k \in 1..Len(bus) : i = Len(FileChannels) + k
                 \/ \E k \in 1..Len(computed) : i = Len(FileChannels) + Len(bus) + k
<1>1. PICK a, b, c, t : a = FileChannels /\ b = bus /\ c = computed /\ t = ChannelNames
  OBVIOUS
<1>2. IsList(a) /\ IsList(b) /\ IsList(c) /\ IsThree(t, NamesIn(a), NamesIn(b), NamesIn(c))
  BY <1>1, ChannelNamesAre
<1>3. PICK x, y, z : x = NamesIn(a) /\ y = NamesIn(b) /\ z = NamesIn(c)
  OBVIOUS
<1>4. /\ IsList(x) /\ Len(x) = Len(a) /\ \A i \in 1..Len(a) : x[i] = a[i].name
      /\ IsList(y) /\ Len(y) = Len(b) /\ \A i \in 1..Len(b) : y[i] = b[i].name
      /\ IsList(z) /\ Len(z) = Len(c) /\ \A i \in 1..Len(c) : z[i] = c[i].name
  BY <1>2, <1>3, NamesAre
<1>5. IsThree(t, x, y, z)
  BY <1>2, <1>3
<1>6. /\ Len(t) = Len(a) + Len(b) + Len(c) /\ DOMAIN t = 1..Len(t)
      /\ \A i \in 1..Len(a) : t[i] = a[i].name
      /\ \A i \in 1..Len(b) : t[Len(a) + i] = b[i].name
      /\ \A i \in 1..Len(c) : t[Len(a) + Len(b) + i] = c[i].name
  BY <1>4, <1>5 DEF IsThree
<1>7. ASSUME NEW i \in 1..Len(t)
      PROVE  \/ i \in 1..Len(a)
             \/ \E k \in 1..Len(b) : i = Len(a) + k
             \/ \E k \in 1..Len(c) : i = Len(a) + Len(b) + k
  <2>1. IsList(x) /\ IsList(y) /\ IsList(z)
    BY <1>4
  <2>2. \/ i \in 1..Len(x)
        \/ \E k \in 1..Len(y) : i = Len(x) + k
        \/ \E k \in 1..Len(z) : i = Len(x) + Len(y) + k
    BY <1>5, <2>1, PlacesOfThree
  <2> QED
    BY <1>4, <2>2
<1>8. Len(a) \in Nat /\ Len(b) \in Nat /\ Len(c) \in Nat
  BY <1>2, ListIs
<1> QED
  BY <1>1, <1>6, <1>7, <1>8

LEMMA KeptAreTheLastUsed ==
    ASSUME WebInv
    PROVE  KeepsTheLastUsed
BY DEF WebInv, KeptOf, KeepsTheLastUsed

\* Nothing is unknown or has a name twice, as long as channels are only defined.
LEMMA OnlyDefinedIsSafe ==
    ASSUME WebInv, ~edited
    PROVE  /\ IsInjective(NamesIn(FileChannels)) => IsInjective(ChannelNames)
           /\ \A i \in DOMAIN ChannelNames : FetchSeries(ChannelNames[i]) # Unknown
           /\ (\A i \in DOMAIN computed : computed[i].refs # <<>>) => ~trapped
<1>1. PICK c, a, t : c = computed /\ a = FileChannels /\ t = ChannelNames
  OBVIOUS
<1>2. /\ bus = <<>> /\ c \in Seq(ComputedChannel) /\ SoundDefinitions(c)
      /\ (\A k \in 1..Len(c) : c[k].refs # <<>>) => ~trapped
  BY <1>1 DEF WebInv, OnlyDefined
<1>3. /\ Len(a) \in Nat /\ Len(c) \in Nat /\ DOMAIN a = 1..Len(a) /\ DOMAIN c = 1..Len(c)
      /\ a \in Seq([name : AnyName, kind : STRING])
  BY <1>1, <1>2, WebFileAssumption, LenProperties
<1>4. /\ Len(t) = Len(a) + Len(c) /\ DOMAIN t = 1..Len(t)
      /\ \A i \in 1..Len(a) : t[i] = a[i].name
      /\ \A i \in 1..Len(c) : t[Len(a) + i] = c[i].name
      /\ \A i \in 1..Len(t) : i \in 1..Len(a) \/ \E k \in 1..Len(c) : i = Len(a) + k
  <2>1. PICK n : n = Len(bus)
    OBVIOUS
  <2>2. n = 0 /\ Len(a) + n = Len(a)
    BY <1>2, <1>3, <2>1, EmptySeq
  <2>3. /\ Len(t) = Len(a) + n + Len(c) /\ DOMAIN t = 1..Len(t)
        /\ \A i \in 1..Len(a) : t[i] = a[i].name
        /\ \A i \in 1..Len(c) : t[Len(a) + n + i] = c[i].name
        /\ \A i \in 1..Len(t) :
              \/ i \in 1..Len(a)
              \/ \E k \in 1..n : i = Len(a) + k
              \/ \E k \in 1..Len(c) : i = Len(a) + n + k
    BY <1>1, <2>1, NamesAndPlaces
  <2>4. 1..n = {}
    BY <2>2
  <2> QED
    BY <2>2, <2>3, <2>4
<1>5. ASSUME IsInjective(NamesIn(FileChannels))
      PROVE  IsInjective(t)
  <2>1. \A i, k \in 1..Len(a) : a[i].name = a[k].name => i = k
    BY <1>1, <1>3, <1>5 DEF IsInjective, NamesIn
  <2>2. \A i, k \in 1..Len(c) : c[i].name = c[k].name => i = k
    BY <1>2 DEF SoundDefinitions
  <2>3. \A i \in 1..Len(a), k \in 1..Len(c) : a[i].name # c[k].name
    BY <1>1, <1>2, <1>3 DEF SoundDefinitions, Named
  <2>4. ASSUME NEW i \in 1..Len(t), NEW k \in 1..Len(t), t[i] = t[k]
        PROVE  i = k
    <3>1. CASE i \in 1..Len(a) /\ k \in 1..Len(a)
      BY <1>4, <2>1, <2>4, <3>1
    <3>2. CASE i \in 1..Len(a) /\ \E m \in 1..Len(c) : k = Len(a) + m
      BY <1>4, <2>3, <2>4, <3>2
    <3>3. CASE (\E m \in 1..Len(c) : i = Len(a) + m) /\ k \in 1..Len(a)
      BY <1>4, <2>3, <2>4, <3>3
    <3>4. CASE (\E m \in 1..Len(c) : i = Len(a) + m) /\ \E m \in 1..Len(c) : k = Len(a) + m
      <4>1. PICK m, n \in 1..Len(c) : i = Len(a) + m /\ k = Len(a) + n
        BY <3>4
      <4>2. c[m].name = c[n].name
        BY <1>4, <2>4, <4>1
      <4> QED
        BY <2>2, <4>1, <4>2
    <3> QED
      BY <1>4, <3>1, <3>2, <3>3, <3>4
  <2> QED
    BY <1>4, <2>4 DEF IsInjective
<1>6. ASSUME NEW i \in 1..Len(t)
      PROVE  FetchSeries(t[i]) # Unknown
  <2>1. PICK f : f = Fetched
    OBVIOUS
  <2>2. IsFetched(f, <<>>, c)
    BY <1>1, <1>2, <2>1, FetchedNowIs
  <2>3. t[i] \in AnyName /\ (Named(FileChannels, t[i]) \/ Named(c, t[i]))
    <3>1. CASE i \in 1..Len(a)
      <4>1. a[i] \in [name : AnyName, kind : STRING]
        BY <1>3, <3>1, ElementOfSeq
      <4> QED
        BY <1>1, <1>3, <1>4, <3>1, <4>1 DEF Named
    <3>2. CASE \E k \in 1..Len(c) : i = Len(a) + k
      <4>1. PICK k \in 1..Len(c) : i = Len(a) + k
        BY <3>2
      <4>2. c[k] \in ComputedChannel
        BY <1>2, <4>1, ElementOfSeq
      <4> QED
        BY <1>3, <1>4, <4>1, <4>2 DEF Named, ComputedChannel
    <3> QED
      BY <1>4, <3>1, <3>2
  <2>4. Len(c) \in 0..Len(c)
    BY <1>3
  <2>5. f[Len(c)][t[i]] # Unknown
    BY <1>2, <2>2, <2>3, <2>4, KnownGives
  <2> QED
    BY <1>1, <2>1, <2>5 DEF FetchSeries
<1> QED
  BY <1>1, <1>2, <1>3, <1>4, <1>5, <1>6

LEMMA DefiningStaysSafe ==
    ASSUME WebInv
    PROVE  DefiningIsSafe
<1>1. ASSUME ~since
      PROVE  \A i \in DOMAIN cached : cached[i].series = FetchSeries(cached[i].name)
  <2>1. DOMAIN cached = 1..Len(cached)
    BY ListIs DEF WebInv
  <2> QED
    BY <1>1, <2>1 DEF WebInv, KeptSeries
<1> QED
  BY <1>1, OnlyDefinedIsSafe DEF DefiningIsSafe

\* What channels lists: of the file, the computed ones, of the bus.
LEMMA ListedAre ==
    ASSUME WebInv
    PROVE  /\ DOMAIN Channels = 1..Len(Channels)
           /\ \A i \in 1..Len(Channels) :
                 \/ \E k \in 1..Len(FileChannels) : Channels[i] = Listed(FileChannels[k], FileChannels[k].kind)
                 \/ \E k \in 1..Len(computed) : Channels[i] = Listed(computed[k], "f64")
                 \/ \E k \in 1..Len(bus) : Channels[i] = Listed(bus[k], bus[k].kind)
<1>1. PICK a, b, c, t : a = FileChannels /\ b = bus /\ c = computed /\ t = Channels
  OBVIOUS
<1>2. /\ Len(a) \in Nat /\ DOMAIN a = 1..Len(a)
      /\ Len(b) \in Nat /\ DOMAIN b = 1..Len(b)
      /\ Len(c) \in Nat /\ DOMAIN c = 1..Len(c)
  BY <1>1, ChannelNamesAre, ListIs
<1>3. PICK x : x = [i \in 1..Len(a) |-> Listed(a[i], a[i].kind)]
  OBVIOUS
<1>4. PICK y : y = [i \in 1..Len(c) |-> Listed(c[i], "f64")]
  OBVIOUS
<1>5. PICK z : z = [i \in 1..Len(b) |-> Listed(b[i], b[i].kind)]
  OBVIOUS
<1>6. IsList(x) /\ Len(x) = Len(a)
  <2>1. x = [i \in 1..Len(a) |-> x[i]]
    BY <1>3
  <2> QED
    BY <1>2, <2>1, MadeLists
<1>7. IsList(y) /\ Len(y) = Len(c)
  <2>1. y = [i \in 1..Len(c) |-> y[i]]
    BY <1>4
  <2> QED
    BY <1>2, <2>1, MadeLists
<1>8. IsList(z) /\ Len(z) = Len(b)
  <2>1. z = [i \in 1..Len(b) |-> z[i]]
    BY <1>5
  <2> QED
    BY <1>2, <2>1, MadeLists
<1>9. t = x \o y \o z
  BY <1>1, <1>2, <1>3, <1>4, <1>5 DEF Channels
<1>10. IsThree(t, x, y, z)
  BY <1>6, <1>7, <1>8, <1>9, ThreeAre
<1>11. DOMAIN t = 1..Len(t)
  BY <1>10 DEF IsThree
<1>12. ASSUME NEW i \in 1..Len(t)
       PROVE  \/ \E k \in 1..Len(a) : t[i] = Listed(a[k], a[k].kind)
              \/ \E k \in 1..Len(c) : t[i] = Listed(c[k], "f64")
              \/ \E k \in 1..Len(b) : t[i] = Listed(b[k], b[k].kind)
  <2>1. IsList(x) /\ IsList(y) /\ IsList(z)
    BY <1>6, <1>7, <1>8
  <2>2. \/ i \in 1..Len(x) /\ t[i] = x[i]
        \/ \E k \in 1..Len(y) : t[i] = y[k]
        \/ \E k \in 1..Len(z) : t[i] = z[k]
    BY <1>10, <2>1, PlacesOfThree
  <2>3. CASE i \in 1..Len(x) /\ t[i] = x[i]
    BY <1>3, <1>6, <2>3
  <2>4. CASE \E k \in 1..Len(y) : t[i] = y[k]
    BY <1>4, <1>7, <2>4
  <2>5. CASE \E k \in 1..Len(z) : t[i] = z[k]
    BY <1>5, <1>8, <2>5
  <2> QED
    BY <2>2, <2>3, <2>4, <2>5
<1> QED
  BY <1>1, <1>11, <1>12

\* A name that only one channel has is of one of the file, the bus and the
\* computed, and of one of them there.
OnlyOne(name) == \A j, k \in DOMAIN ChannelNames : ChannelNames[j] = name /\ ChannelNames[k] = name => j = k

LEMMA OneChannel ==
    ASSUME WebInv, NEW name, OnlyOne(name)
    PROVE  /\ \A i \in 1..Len(FileChannels) : FileChannels[i].name = name =>
                 ~Named(bus, name) /\ ~Named(computed, name) /\ Entry(FileChannels, name) = FileChannels[i]
           /\ \A i \in 1..Len(bus) : bus[i].name = name =>
                 ~Named(computed, name) /\ Entry(bus, name) = bus[i]
<1>1. PICK a, b, c, t : a = FileChannels /\ b = bus /\ c = computed /\ t = ChannelNames
  OBVIOUS
<1>2. /\ IsList(a) /\ IsList(b) /\ IsList(c)
      /\ DOMAIN a = 1..Len(a) /\ DOMAIN b = 1..Len(b) /\ DOMAIN c = 1..Len(c)
  BY <1>1, ChannelNamesAre, ListIs
<1>3. /\ Len(t) = Len(a) + Len(b) + Len(c) /\ DOMAIN t = 1..Len(t)
      /\ Len(a) \in Nat /\ Len(b) \in Nat /\ Len(c) \in Nat
      /\ \A i \in 1..Len(a) : t[i] = a[i].name
      /\ \A i \in 1..Len(b) : t[Len(a) + i] = b[i].name
      /\ \A i \in 1..Len(c) : t[Len(a) + Len(b) + i] = c[i].name
  BY <1>1, NamesAndPlaces
<1>4. \A j, k \in 1..Len(t) : t[j] = name /\ t[k] = name => j = k
  BY <1>1, <1>3 DEF OnlyOne
<1>5. /\ \A i \in 1..Len(a) : i \in 1..Len(t)
      /\ \A i \in 1..Len(b) : Len(a) + i \in 1..Len(t)
      /\ \A i \in 1..Len(c) : Len(a) + Len(b) + i \in 1..Len(t)
  BY <1>3
<1>6. ASSUME NEW i \in 1..Len(a), a[i].name = name
      PROVE  ~Named(b, name) /\ ~Named(c, name) /\ Entry(a, name) = a[i]
  <2>1. ASSUME NEW k \in 1..Len(b), b[k].name = name
        PROVE  FALSE
    <3>1. i = Len(a) + k
      BY <1>3, <1>4, <1>5, <1>6, <2>1
    <3> QED
      BY <1>3, <3>1
  <2>2. ASSUME NEW k \in 1..Len(c), c[k].name = name
        PROVE  FALSE
    <3>1. i = Len(a) + Len(b) + k
      BY <1>3, <1>4, <1>5, <1>6, <2>2
    <3> QED
      BY <1>3, <3>1
  <2>3. Named(a, name)
    BY <1>2, <1>6 DEF Named
  <2>4. PICK k \in 1..Len(a) : Entry(a, name) = a[k] /\ a[k].name = name
    BY <1>2, <2>3, EntryIs
  <2>5. i = k
    BY <1>3, <1>4, <1>5, <1>6, <2>4
  <2> QED
    BY <1>2, <2>1, <2>2, <2>4, <2>5 DEF Named
<1>7. ASSUME NEW i \in 1..Len(b), b[i].name = name
      PROVE  ~Named(c, name) /\ Entry(b, name) = b[i]
  <2>1. ASSUME NEW k \in 1..Len(c), c[k].name = name
        PROVE  FALSE
    <3>1. Len(a) + i = Len(a) + Len(b) + k
      BY <1>3, <1>4, <1>5, <1>7, <2>1
    <3> QED
      BY <1>3, <3>1
  <2>2. Named(b, name)
    BY <1>2, <1>7 DEF Named
  <2>3. PICK k \in 1..Len(b) : Entry(b, name) = b[k] /\ b[k].name = name
    BY <1>2, <2>2, EntryIs
  <2>4. Len(a) + i = Len(a) + k
    BY <1>3, <1>4, <1>5, <1>7, <2>3
  <2>5. i = k
    BY <1>3, <2>4
  <2> QED
    BY <1>2, <2>1, <2>3, <2>5 DEF Named
<1> QED
  BY <1>1, <1>6, <1>7

\* file_channel: the series is the file's.
LEMMA FileSeries ==
    ASSUME WebInv, NEW name, FileChannel(name)
    PROVE  FetchSeries(name) = <<"file", name>>
<1>1. ~Named(bus, name) /\ ~Named(computed, name) /\ Named(FileChannels, name)
  BY DEF FileChannel
<1>2. name \in AnyName
  <2>1. PICK a \in Seq([name : AnyName, kind : STRING]) : a = FileChannels
    BY WebFileAssumption
  <2>2. PICK i \in 1..Len(a) : a[i].name = name
    BY <1>1, <2>1, LenProperties DEF Named
  <2>3. a[i] \in [name : AnyName, kind : STRING]
    BY ElementOfSeq
  <2> QED
    BY <2>2, <2>3
<1>3. PICK f, b, c : f = Fetched /\ b = bus /\ c = computed
  OBVIOUS
<1>4. IsFetched(f, b, c) /\ Len(c) \in Nat
  BY <1>3, FetchedNowIs DEF WebInv
<1>5. PICK n \in 0..Len(c) : n = Len(c)
  BY <1>4
<1>6. f[n][name] = Gives(b, c, name, n, f[n - 1])
  BY <1>2, <1>4, FetchedAt
<1>7. f[n][name] = <<"file", name>>
  BY <1>1, <1>3, <1>6 DEF Gives
<1> QED
  BY <1>3, <1>5, <1>7 DEF FetchSeries

LEMMA ListingsStayTrue ==
    ASSUME WebInv
    PROVE  ListingsAgree
<1>1. Len(ChannelNames) = ChannelCount
  BY NamesAndPlaces DEF ChannelCount
<1>2. ASSUME NEW i \in DOMAIN Channels, OnlyOne(Channels[i].name)
      PROVE  /\ ChannelKind(Channels[i].name) = Channels[i].kind
             /\ FileChannel(Channels[i].name) => FetchSeries(Channels[i].name) = <<"file", Channels[i].name>>
  <2>1. PICK listed : listed = Channels[i]
    OBVIOUS
  <2>2. PICK name : name = listed.name
    OBVIOUS
  <2>3. OnlyOne(name)
    BY <1>2, <2>1, <2>2
  <2>4. /\ \A k \in 1..Len(FileChannels) : FileChannels[k].name = name =>
                 ~Named(bus, name) /\ ~Named(computed, name) /\ Entry(FileChannels, name) = FileChannels[k]
        /\ \A k \in 1..Len(bus) : bus[k].name = name =>
                 ~Named(computed, name) /\ Entry(bus, name) = bus[k]
    BY <2>3, OneChannel
  <2>5. ChannelKind(name) = listed.kind
    <3>1. CASE \E k \in 1..Len(FileChannels) : listed = Listed(FileChannels[k], FileChannels[k].kind)
      <4>1. PICK k \in 1..Len(FileChannels) : listed = Listed(FileChannels[k], FileChannels[k].kind)
        BY <3>1
      <4>2. FileChannels[k].name = name /\ listed.kind = FileChannels[k].kind
        BY <2>2, <4>1 DEF Listed
      <4>3. Named(FileChannels, name)
        BY <4>2, ChannelNamesAre, ListIs DEF Named
      <4> QED
        BY <2>4, <4>2, <4>3 DEF ChannelKind
    <3>2. CASE \E k \in 1..Len(computed) : listed = Listed(computed[k], "f64")
      <4>1. PICK k \in 1..Len(computed) : listed = Listed(computed[k], "f64")
        BY <3>2
      <4>2. computed[k].name = name /\ listed.kind = "f64"
        BY <2>2, <4>1 DEF Listed
      <4>3. Named(computed, name)
        BY <4>2, ChannelNamesAre, ListIs DEF Named
      <4> QED
        BY <4>2, <4>3 DEF ChannelKind
    <3>3. CASE \E k \in 1..Len(bus) : listed = Listed(bus[k], bus[k].kind)
      <4>1. PICK k \in 1..Len(bus) : listed = Listed(bus[k], bus[k].kind)
        BY <3>3
      <4>2. bus[k].name = name /\ listed.kind = bus[k].kind
        BY <2>2, <4>1 DEF Listed
      <4>3. Named(bus, name)
        BY <4>2, ChannelNamesAre, ListIs DEF Named
      <4> QED
        BY <2>4, <4>2, <4>3 DEF ChannelKind
    <3> QED
      BY <2>1, <3>1, <3>2, <3>3, ListedAre
  <2>6. FileChannel(name) => FetchSeries(name) = <<"file", name>>
    BY FileSeries
  <2> QED
    BY <2>1, <2>2, <2>5, <2>6
<1> QED
  BY <1>1, <1>2 DEF ListingsAgree, OnlyOne

\* However a page attaches databases, defines and removes channels and asks for
\* them (wasm/src/lib.rs decoded, define_computed, attach_dbc, channels): what
\* is kept are the series used last, as many as fit; no definition changes what
\* another name answers or leaves a channel without an answer; and the listings
\* agree.  For any file, databases, formulas, sizes and bounds.
THEOREM WebFileIsTrue == WebSpec => []WebFileStaysTrue
<1>1. WebInit => WebInv
  BY WebBegins
<1>2. WebInv /\ [WebNext]_webVars => WebInv'
  BY WebInvIsKept
<1>3. WebInv => WebFileStaysTrue
  BY KeptAreTheLastUsed, DefiningStaysSafe, ListingsStayTrue DEF WebFileStaysTrue
<1> QED
  BY <1>1, <1>2, <1>3, PTL DEF WebSpec
=============================================================================

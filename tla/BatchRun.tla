------------------------------ MODULE BatchRun ------------------------------
(***************************************************************************)
(* The viewer's batch (gui/src/batch.rs and panels/batch.rs): run_all on a *)
(* worker thread applies one operation to every queued file and reports    *)
(* over a channel; the panel polls it once a frame, and may cancel.        *)
(*                                                                         *)
(* A file is named by its folder, its stem as a sequence of parts, and its *)
(* extension; "x.cut.mf4" has the stem <<"x", "cut">>.  Reading and        *)
(* writing a file are each one step that may fail, and writing one that    *)
(* fails after the file has been created.                                  *)
(***************************************************************************)
EXTENDS Naturals, Sequences, FiniteSets

CONSTANTS
    Queues,     \* the queues a batch may be given: sequences of files
    Ops,        \* the operations: [tag, ext]
    OutDirs,    \* the output folders, among them Beside
    Beside,     \* no folder chosen: beside each input
    Panics      \* whether the worker thread may panic

ASSUME BatchAssumption ==
    /\ \A q \in Queues : q \in Seq({q[i] : i \in DOMAIN q})
    /\ \A q \in Queues : \A i, j \in DOMAIN q : q[i] = q[j] => i = j  \* BatchQueue::push
    /\ Panics \in BOOLEAN

VARIABLES
    queue,      \* paths
    op, outDir, \* what to do, and where to
    worker,     \* where the worker is: "check", "open", "write", "report",
                \* "closing", "exited" or "dead"
    item,       \* the file of the queue it is at
    result,     \* the result it is about to report
    done,       \* run_all's own outcomes
    chan,       \* messages sent and not yet received
    cancel,     \* the flag both threads share
    due,        \* a message has been sent, the repaint not yet requested
    wake,       \* a repaint has been requested
    panel,      \* "rest" or "polling"
    current,    \* BatchRun.current: the file under way, or 0
    outcomes,   \* BatchRun.outcomes
    finished,   \* BatchRun.finished
    touched,    \* files some step has created or overwritten
    complete    \* files written to their end

job == <<queue, op, outDir>>
workerVars == <<worker, item, result, done, touched, complete>>
panelVars == <<panel, current, outcomes, finished>>
batchVars == <<job, workerVars, chan, cancel, due, wake, panelVars>>

\* output_path.
OutputPath(p) ==
    [dir  |-> IF outDir = Beside THEN p.dir ELSE outDir,
     stem |-> Append(p.stem, op.tag),
     ext  |-> op.ext]

Files == {queue[i] : i \in DOMAIN queue}

Outcome(i, ok) == [file |-> queue[i], ok |-> ok]

BatchInit ==
    /\ queue \in Queues
    /\ op \in Ops
    /\ outDir \in OutDirs
    /\ worker = "check"
    /\ item = 1
    /\ result = FALSE
    /\ done = <<>>
    /\ chan = <<>>
    /\ cancel = FALSE
    /\ due = FALSE
    /\ wake = FALSE
    /\ panel = "rest"
    /\ current = 0
    /\ outcomes = <<>>
    /\ finished = FALSE
    /\ touched = {}
    /\ complete = {}

(***************************************************************************)
(* The worker: spawn's closure around run_all.                             *)
(***************************************************************************)

\* The progress closure sends a message and then, in RequestRepaint, wakes the
\* panel; the worker goes on after that.
Send(m) ==
    /\ chan' = Append(chan, m)
    /\ due' = TRUE

\* Mutant of RequestRepaint: no repaint is requested after the last message.
RepaintForgotten ==
    /\ due
    /\ due' = FALSE
    /\ wake' = IF worker = "closing" THEN wake ELSE TRUE
    /\ UNCHANGED <<job, workerVars, chan, cancel, panelVars>>

RequestRepaint ==
    /\ due
    /\ due' = FALSE
    /\ wake' = TRUE
    /\ UNCHANGED <<job, workerVars, chan, cancel, panelVars>>

\* cancel is read between files only.
StartFile ==
    /\ worker = "check" /\ ~due
    /\ item <= Len(queue)
    /\ ~cancel
    /\ Send([kind |-> "started", item |-> item])
    /\ worker' = "open"
    /\ UNCHANGED <<job, item, result, done, touched, complete, cancel, wake, panelVars>>

EndOfQueue ==
    /\ worker = "check" /\ ~due
    /\ item > Len(queue) \/ cancel
    /\ Send([kind |-> "done"])
    /\ worker' = "closing"
    /\ UNCHANGED <<job, item, result, done, touched, complete, cancel, wake, panelVars>>

\* The thread ends and drops its end of the channel.
Exit ==
    /\ worker = "closing" /\ ~due
    /\ worker' = "exited"
    /\ UNCHANGED <<job, item, result, done, touched, complete, chan, cancel, due, wake, panelVars>>

\* The file does not open, or nothing in it is to be written: an error, with
\* the destination untouched.
FileFails ==
    /\ worker = "open" /\ ~due
    /\ result' = FALSE
    /\ worker' = "report"
    /\ UNCHANGED <<job, item, done, touched, complete, chan, cancel, due, wake, panelVars>>

\* The destination is created, which empties what was there.
CreateOutput ==
    /\ worker = "open" /\ ~due
    /\ touched' = touched \cup {OutputPath(queue[item])}
    /\ complete' = complete \ {OutputPath(queue[item])}
    /\ worker' = "write"
    /\ UNCHANGED <<job, item, result, done, chan, cancel, due, wake, panelVars>>

WriteOutput ==
    /\ worker = "write"
    /\ complete' = complete \cup {OutputPath(queue[item])}
    /\ result' = TRUE
    /\ worker' = "report"
    /\ UNCHANGED <<job, item, done, touched, chan, cancel, due, wake, panelVars>>

\* For the CSV export the channels are decoded, for the others the bytes are
\* written, only after the file has been created.
WriteFails ==
    /\ worker = "write"
    /\ result' = FALSE
    /\ worker' = "report"
    /\ UNCHANGED <<job, item, done, touched, complete, chan, cancel, due, wake, panelVars>>

\* Mutant of NextItem: a failure ends the run.
NextItemOrStop == IF result THEN item + 1 ELSE Len(queue) + 1

\* Whatever the result was, the walk goes on with the next file.
NextItem == item + 1

Report ==
    /\ worker = "report"
    /\ Send([kind |-> "finished", outcome |-> Outcome(item, result)])
    /\ done' = Append(done, Outcome(item, result))
    /\ item' = NextItem
    /\ worker' = "check"
    /\ UNCHANGED <<job, result, touched, complete, cancel, wake, panelVars>>

\* A panic unwinds the thread: its end of the channel is dropped, nothing is
\* sent and nobody is woken.
Panic ==
    /\ Panics
    /\ worker \in {"open", "write"} /\ ~due
    /\ worker' = "dead"
    /\ UNCHANGED <<job, item, result, done, touched, complete, chan, cancel, due, wake, panelVars>>

Work ==
    \/ RequestRepaint
    \/ StartFile
    \/ EndOfQueue
    \/ Exit
    \/ FileFails
    \/ CreateOutput
    \/ WriteOutput
    \/ WriteFails
    \/ Report

(***************************************************************************)
(* The panel: show, once a frame, polls first.                             *)
(***************************************************************************)

BeginFrame ==
    /\ panel = "rest"
    /\ ~finished
    /\ wake' = FALSE
    /\ panel' = "polling"
    /\ UNCHANGED <<job, workerVars, chan, cancel, due, current, outcomes, finished>>

\* A frame egui was asked for, and one it draws for some other reason.
WokenFrame == wake /\ BeginFrame

IdleFrame == ~wake /\ BeginFrame

CurrentAfter(m) == IF m.kind = "started" THEN m.item ELSE 0

OutcomesAfter(m) == IF m.kind = "finished" THEN Append(outcomes, m.outcome) ELSE outcomes

\* One turn of the loop of poll.
Receive ==
    /\ panel = "polling"
    /\ chan # <<>>
    /\ chan' = Tail(chan)
    /\ current' = CurrentAfter(Head(chan))
    /\ outcomes' = OutcomesAfter(Head(chan))
    /\ finished' = (finished \/ Head(chan).kind = "done")
    /\ UNCHANGED <<job, workerVars, cancel, due, wake, panel>>

Hungup == worker \in {"exited", "dead"}

NothingYet ==
    /\ panel = "polling"
    /\ chan = <<>>
    /\ ~Hungup
    /\ panel' = "rest"
    /\ UNCHANGED <<job, workerVars, chan, cancel, due, wake, current, outcomes, finished>>

Disconnected ==
    /\ panel = "polling"
    /\ chan = <<>>
    /\ Hungup
    /\ current' = 0
    /\ finished' = TRUE
    /\ panel' = "rest"
    /\ UNCHANGED <<job, workerVars, chan, cancel, due, wake, outcomes>>

\* The Cancel button, shown while the run has not finished.
Cancel ==
    /\ panel = "rest"
    /\ ~finished
    /\ cancel' = TRUE
    /\ UNCHANGED <<job, workerVars, chan, due, wake, panelVars>>

Poll == Receive \/ NothingYet \/ Disconnected

BatchNext ==
    \/ Work
    \/ Panic
    \/ WokenFrame
    \/ IdleFrame
    \/ Poll
    \/ Cancel

BatchSpec == BatchInit /\ [][BatchNext]_batchVars

\* The worker is scheduled, its reads and writes return, and egui draws a frame
\* it was asked for; it draws no other on its own account.
FairSpec ==
    /\ BatchSpec
    /\ WF_batchVars(Work)
    /\ WF_batchVars(Poll)
    /\ WF_batchVars(WokenFrame)

\* A worker that dies asks for no frame: the panel comes to know of it with
\* the next one the user brings about, who is assumed to look again.
AttendedSpec == FairSpec /\ WF_batchVars(worker = "dead" /\ IdleFrame)

(***************************************************************************)
(* Properties.                                                             *)
(***************************************************************************)

\* A run that was not cancelled, and whose worker did not die, finishes with
\* an outcome for every file, whatever failed ("a failure is recorded against
\* that file by name, and the run continues").  A success is only told of an
\* output written to its end, as long as no later file of the queue has the same
\* output.
OutcomesAreTrue ==
    /\ (finished /\ ~cancel /\ worker # "dead") => Len(outcomes) = Len(queue)
    /\ \A k \in DOMAIN done :
          (done[k].ok /\ \A j \in (k + 1)..item : j \in DOMAIN queue =>
                             OutputPath(queue[j]) # OutputPath(queue[k]))
              => OutputPath(queue[k]) \in complete

\* A run ends, and the panel comes to know it.
RunEnds == <>finished
=============================================================================

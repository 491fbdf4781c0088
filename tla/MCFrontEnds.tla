---------------------------- MODULE MCFrontEnds ----------------------------
(***************************************************************************)
(* The programs around the library, one at a time: the viewer's window,    *)
(* its batch, and the file a web page has open.  A part that is not looked *)
(* at rests in a state in which nothing of it is enabled.                  *)
(*                                                                         *)
(* Viewer: one place of a channel that two measurements have, so that one  *)
(* file's channel may pass for the other's; the store is empty, or has the *)
(* pair from an earlier run, since when q may have been rewritten without  *)
(* it.  Batch: queues of at most three files, among them one named like    *)
(* the output of another, and two of one name from two folders.  Web: a    *)
(* channel of many bytes and two of few, a database whose signal is named  *)
(* like one of them and one that has it on two buses.                      *)
(***************************************************************************)
EXTENDS Viewer, BatchRun, WebFile, TLC

CONSTANTS p, q, l, Parts

VARIABLE part

mcVars == <<part, viewerVars, batchVars, webVars>>

MCPaths == {p, q}
MCLocs == {l}

MCDisks == {[f \in MCPaths |-> {l}], (p :> {l}) @@ (q :> {})}

Both == {[file |-> "A", loc |-> l], [file |-> "B", loc |-> l]}

Pair == [plotted |-> <<[file |-> "A", loc |-> l], [file |-> "B", loc |-> l]>>,
         second |-> q, axes |-> Both, tab |-> "Plot"]

MCStored == {<<>>, <<[path |-> p, session |-> Pair]>>}

File(dir, stem) == [dir |-> dir, stem |-> stem, ext |-> "mf4"]

MCOps == {[tag |-> "cut", ext |-> "mf4"], [tag |-> "export", ext |-> "csv"]}

MCOutDirs == {Beside, "out"}

x == File("a", <<"x">>)
xCut == File("a", <<"x", "cut">>)  \* "x.cut.mf4"
y == File("a", <<"y">>)
xToo == File("b", <<"x">>)

Name(text) == <<text>>
sigOnTwo == {Append(Name("M.s"), 1), Append(Name("M.s"), 2)}

MCFileChannels == <<[name |-> Name("big"), kind |-> "array"], [name |-> Name("M.s"), kind |-> "f64"]>>

Signal(n, kind) == [base |-> Name("M.s"), bus |-> n, kind |-> kind]

MCDatabases == ("one" :> <<Signal(1, "text")>>) @@ ("both" :> <<Signal(1, "f64"), Signal(2, "f64")>>)

MCDefinedNames == {Name("c"), Name("d")}

MCFormulas == {<<>>, <<Name("M.s")>>, <<Name("c")>>, <<Name("big"), Name("d")>>}

MCSeriesBytes == [n \in {Name("M.s")} \cup sigOnTwo \cup MCDefinedNames |-> 1] @@ (Name("big") :> 4)

MCQueues == {<<>>, <<x>>, <<x, y>>, <<x, xToo>>, <<x, xCut>>, <<x, y, xToo>>}

-----------------------------------------------------------------------------

NoWindow == disk = [f \in MCPaths |-> {}] /\ sessions = <<>> /\ phase = "off" /\ Blank

NoBatch ==
    /\ queue = <<>> /\ op = 0 /\ outDir = Beside
    /\ worker = "exited" /\ item = 1 /\ result = FALSE /\ done = <<>>
    /\ chan = <<>> /\ cancel = FALSE /\ due = FALSE /\ wake = FALSE
    /\ panel = "rest" /\ current = 0 /\ outcomes = <<>> /\ finished = TRUE
    /\ touched = {} /\ complete = {}

NoPage ==
    /\ format = "v4" /\ trapped = TRUE
    /\ bus = <<>> /\ computed = <<>> /\ cached = <<>> /\ uses = <<>>
    /\ edited = TRUE /\ since = TRUE

Init ==
    /\ part \in Parts
    /\ IF part = "window" THEN ViewerInit /\ (sessions = <<>> => disk[q] = {l}) ELSE NoWindow
    /\ IF part = "batch" THEN BatchInit ELSE NoBatch
    /\ IF part = "web" THEN WebInit ELSE NoPage

\* The steps of one part.
Window(A) == part = "window" /\ A /\ UNCHANGED <<part, batchVars, webVars>>
Batch(A) == part = "batch" /\ A /\ UNCHANGED <<part, viewerVars, webVars>>
Web(A) == part = "web" /\ A /\ UNCHANGED <<part, viewerVars, batchVars>>

\* A bound: channels are walked through only until a session is in the store.
SelectsAnew == phase = "input" /\ selection' \notin {selection, FileSelected}

Next ==
    \/ Window(ViewerNext /\ (SelectsAnew => sessions = <<>>))
    \/ Batch(BatchNext)
    \/ Web(WebNext)

Spec == Init /\ [][Next]_mcVars

\* The fairness of LiveSpec and of AttendedSpec.
FairParts ==
    /\ Spec
    /\ WF_viewerVars(Window(PollLoad)) /\ WF_viewerVars(Window(RestoreSecond)) /\ WF_viewerVars(Window(UserInput))
    /\ WF_viewerVars(Window(Draw)) /\ WF_viewerVars(Window(LoaderEnds))
    /\ WF_batchVars(Batch(Work)) /\ WF_batchVars(Batch(Poll)) /\ WF_batchVars(Batch(WokenFrame))
    /\ WF_batchVars(Batch(worker = "dead" /\ IdleFrame))
=============================================================================

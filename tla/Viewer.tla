------------------------------- MODULE Viewer -------------------------------
(***************************************************************************)
(* The viewer's main window (gui/src/app.rs) with what it remembers of a   *)
(* file (session.rs), the loader threads (loader.rs, signal_loader.rs) and *)
(* the signals two panels keep decoded (panels/plot.rs, panels/xy.rs).     *)
(*                                                                         *)
(* A frame is: poll the loaders, restore what waits for the second file,   *)
(* handle at most one input, draw.  A channel is where it sits in the file *)
(* (loc); the same loc in two files is two channels, so what is shown      *)
(* carries the path it was read from (of).  Tabs other than Plot and X-Y   *)
(* keep nothing past reset_views and are all "Details" here.               *)
(***************************************************************************)
EXTENDS Naturals, Sequences, SequencesExt

CONSTANTS
    Paths,        \* measurement files
    Locs,         \* places of a channel in a file
    Disks,        \* what channels each file may have
    Stored,       \* what earlier runs may have stored: sequences of sessions by path
    MaxFiles,     \* MAX_FILES: sessions kept
    MaxPlotted,   \* MAX_PLOTTED; here also a bound on what is plotted
    MaxHistory,   \* bound on the selections walked through
    MaxOpens,     \* bound on the files a user opens
    NoPath, NoSession, FileSelected  \* no file, no session, Selection::File

Slots == {"A", "B"}         \* FileSlot
Tabs == {"Details", "Plot", "X-Y"}
Refs == [file : Slots, loc : Locs]  \* ChannelRef

\* Session, as the store holds it.
Sessions == [plotted : Seq(Refs), second : Paths \cup {NoPath}, axes : SUBSET Refs, tab : Tabs]

\* A session as a window remembers it: no channel twice, and none of a second
\* file it does not name.
Whole(session) ==
    /\ session \in Sessions
    /\ \A i, j \in DOMAIN session.plotted : session.plotted[i] = session.plotted[j] => i = j
    /\ session.second = NoPath =>
          /\ \A i \in DOMAIN session.plotted : session.plotted[i].file = "A"
          /\ \A r \in session.axes : r.file = "A"

ASSUME ViewerAssumption ==
    /\ MaxFiles \in Nat \ {0}
    /\ MaxPlotted \in Nat
    /\ MaxHistory \in Nat
    /\ MaxOpens \in Nat
    /\ NoPath \notin Paths
    /\ Disks \subseteq [Paths -> SUBSET Locs]
    /\ NoSession \notin Sessions
    /\ \A store \in Stored :
          /\ store \in Seq([path : Paths, session : Sessions])
          /\ \A i \in DOMAIN store : Whole(store[i].session)

VARIABLES
    disk,       \* the files: what channels each holds
    first,      \* FalconApp.state
    second,     \* FalconApp.second
    active, sessions, restored, pending, tab,
    selection, last, history, future,
    plotted,    \* PlottedChannel: a ref and the file its name was read from
    axes,       \* XyPanel.axes, as the set of the two
    plotSlots,  \* PlotPanel.slots: a ref to the file its signal is read from
    xySlots,    \* XyPanel.slots, likewise
    phase,      \* where in the frame
    opens       \* files opened by the user so far

browse == <<active, tab, selection, last, history, future>>
panels == <<plotted, axes, plotSlots, xySlots>>
kept == <<disk, sessions>>
viewerVars == <<disk, first, second, restored, pending, browse, sessions, panels, phase, opens>>

Idle == [st |-> "idle", path |-> NoPath, locs |-> {}, answer |-> "none"]
Loading(p) == [st |-> "loading", path |-> p, locs |-> {}, answer |-> "none"]

None == [r \in {} |-> NoPath]
RefOf(p) == [file |-> p.file, loc |-> p.loc]
Plotted(r) == \E i \in DOMAIN plotted : RefOf(plotted[i]) = r
FileIn(slot) == IF slot = "A" THEN first ELSE second
Only(slots, refs) == [r \in DOMAIN slots \cap refs |-> slots[r]]

\* Vec::retain: what stands at the given places, in its order.
Those(list, places) ==
    LET upto[n \in 0..Len(list)] ==
            IF n = 0 THEN <<>>
            ELSE IF n \in places THEN Append(upto[n - 1], list[n]) ELSE upto[n - 1]
    IN  upto[Len(list)]

Blank ==
    /\ first = Idle
    /\ second = Idle
    /\ active = "A"
    /\ restored = FALSE
    /\ pending = NoSession
    /\ tab = "Details"
    /\ selection = FileSelected
    /\ last = FileSelected
    /\ history = <<>>
    /\ future = <<>>
    /\ plotted = <<>>
    /\ axes = {}
    /\ plotSlots = None
    /\ xySlots = None
    /\ opens = 0

ViewerInit ==
    /\ disk \in Disks
    /\ sessions \in Stored
    /\ phase = "poll"
    /\ Blank

-----------------------------------------------------------------------------
(* Sessions: Sessions::insert and get, and remember_current. *)

Remembered(p) == {i \in DOMAIN sessions : sessions[i].path = p}

Inserted(p, session) ==
    LET others == Those(sessions, DOMAIN sessions \ Remembered(p))
        all == Append(others, [path |-> p, session |-> session])
    IN  IF Len(all) > MaxFiles THEN Tail(all) ELSE all

\* Mutant of SecondPath: the second file only when it is the one browsed.
SecondPathIfBrowsed == IF active = "B" THEN second.path ELSE NoPath

\* loaded_second.
SecondPath == IF second.st = "loaded" THEN second.path ELSE NoPath

CurrentSession ==
    [plotted |-> [i \in 1..Len(plotted) |-> RefOf(plotted[i])],
     second  |-> SecondPath,
     axes    |-> axes,
     tab     |-> tab]

WithCurrent ==
    IF first.st = "loaded" THEN Inserted(first.path, CurrentSession) ELSE sessions

\* prune_to_file: what a session has plotted from a slot and the file there has.
PruneToFile(session, slot, f) ==
    LET list == session.plotted
        there == Those(list, {i \in DOMAIN list : list[i].file = slot /\ list[i].loc \in f.locs})
    IN  [i \in 1..Len(there) |-> [file |-> slot, loc |-> there[i].loc, of |-> f.path]]

\* prune_xy: the axes, when the open files have both.
PruneXy(session, a, b) ==
    IF \A r \in session.axes : r.loc \in (IF r.file = "A" THEN a ELSE b).locs
      THEN session.axes ELSE {}

-----------------------------------------------------------------------------
(* The files: select_file, close_second, start_load_second, start_load. *)

ResetViews ==
    /\ selection' = FileSelected
    /\ last' = FileSelected
    /\ tab' = "Details"

SelectFile(slot) ==
    IF active = slot
      THEN UNCHANGED browse
      ELSE /\ active' = slot
           /\ ResetViews
           /\ history' = <<>>
           /\ future' = <<>>

\* Mutant of OfFirst: the second file's channels stay plotted.
OfEither(list) == list

OfFirst(list) == Those(list, {i \in DOMAIN list : list[i].file = "A"})

\* close_second, leaving second' as it is asked to.
CloseSecond(then) ==
    /\ second' = then
    /\ plotted' = OfFirst(plotted)
    /\ IF \E r \in axes : r.file = "B"
         THEN axes' = {} /\ xySlots' = None
         ELSE UNCHANGED <<axes, xySlots>>
    /\ SelectFile("A")
    /\ UNCHANGED plotSlots

NewPlotPanel == None

StartLoad(p) ==
    /\ sessions' = WithCurrent
    /\ ResetViews
    /\ plotted' = <<>>
    /\ plotSlots' = NewPlotPanel
    /\ axes' = {}
    /\ xySlots' = None
    /\ second' = Idle
    /\ active' = "A"
    /\ restored' = FALSE
    /\ pending' = NoSession
    /\ first' = Loading(p)
    /\ UNCHANGED <<history, future>>

-----------------------------------------------------------------------------
(* Polling: poll_one, poll_load and the session it restores. *)

\* Mutant of PollOne: a thread that died is taken for one still at work.
PollOneIgnoringErrors(f) ==
    IF f.st = "loading" /\ f.answer = "ok"
      THEN [f EXCEPT !.st = "loaded", !.answer = "none"] ELSE f

PollOne(f) ==
    IF f.st # "loading" \/ f.answer = "none"
      THEN f
      ELSE [f EXCEPT !.st = IF f.answer = "ok" THEN "loaded" ELSE "failed", !.answer = "none"]

\* restore_session, for the first file as it has just landed.  No second file is
\* open then, so the close_second inside start_load_second changes nothing.
RestoreSession(f, session) ==
    /\ tab' = session.tab
    /\ plotted' = plotted \o PruneToFile(session, "A", f)
    /\ IF session.second = NoPath
         THEN /\ axes' = PruneXy(session, f, Idle)
              /\ xySlots' = None
              /\ second' = PollOne(second)
              /\ UNCHANGED pending
         ELSE /\ pending' = session
              /\ second' = Loading(session.second)
              /\ UNCHANGED <<axes, xySlots>>
    /\ UNCHANGED <<active, selection, last, history, future, plotSlots>>

Lands(f) == f.st = "loaded" /\ ~restored

PollLoad ==
    /\ phase = "poll"
    /\ phase' = "restore"
    /\ first' = PollOne(first)
    /\ restored' = (restored \/ Lands(first'))
    /\ IF Lands(first') /\ Remembered(first'.path) # {}
         THEN \E i \in Remembered(first'.path) : RestoreSession(first', sessions[i].session)
         ELSE /\ second' = PollOne(second)
              /\ UNCHANGED <<pending, browse, panels>>
    /\ UNCHANGED <<kept, opens>>

\* restore_second_session.
RestoreSecond ==
    /\ phase = "restore"
    /\ phase' = "input"
    /\ IF pending # NoSession /\ second.st = "loaded"
         THEN /\ plotted' = plotted \o PruneToFile(pending, "B", second)
              /\ axes' = IF first.st = "loaded" THEN PruneXy(pending, first, second) ELSE {}
              /\ xySlots' = None
              /\ UNCHANGED plotSlots
         ELSE UNCHANGED panels
    /\ pending' = IF second.st = "loading" THEN pending ELSE NoSession
    /\ UNCHANGED <<kept, first, second, restored, browse, opens>>

-----------------------------------------------------------------------------
(* What the user does in a frame. *)

Input(Handler) ==
    /\ phase = "input"
    /\ phase' = "draw"
    /\ Handler
    /\ UNCHANGED disk

Nothing ==
    Input(UNCHANGED <<first, second, restored, pending, browse, sessions, panels, opens>>)

\* Open File, a recent file, the start screen, a dropped file, Cmd+O.
Open(p) ==
    /\ opens < MaxOpens
    /\ opens' = opens + 1
    /\ Input(StartLoad(p))

\* Compare File: start_load_second.
Compare(p) ==
    /\ opens < MaxOpens
    /\ opens' = opens + 1
    /\ first.st = "loaded"
    /\ Input(/\ CloseSecond(Loading(p))
             /\ UNCHANGED <<first, restored, pending, sessions>>)

\* Close B, or Dismiss where it failed to open.
Close ==
    /\ first.st = "loaded"
    /\ second.st \in {"loaded", "failed"}
    /\ Input(/\ CloseSecond(Idle)
             /\ UNCHANGED <<first, restored, pending, sessions, opens>>)

\* The row above the browser.
ChooseFile(slot) ==
    /\ first.st = "loaded"
    /\ second.st = "loaded"
    /\ Input(/\ SelectFile(slot)
             /\ UNCHANGED <<first, second, restored, pending, sessions, panels, opens>>)

\* The tab row of content_panel.
ChooseTab(t) ==
    /\ first.st = "loaded"
    /\ Input(/\ tab' = t
             /\ UNCHANGED <<first, second, active, restored, pending, selection, last,
                            history, future, sessions, panels, opens>>)

\* The checkbox of a channel in the tree.
Toggle(loc) ==
    LET ref == [file |-> active, loc |-> loc]
        f == FileIn(active)
    IN  /\ first.st = "loaded"
        /\ loc \in f.locs
        /\ plotted' = IF Plotted(ref)
                        THEN Those(plotted, {i \in DOMAIN plotted : RefOf(plotted[i]) # ref})
                        ELSE Append(plotted, [file |-> active, loc |-> loc, of |-> f.path])
        /\ Len(plotted') <= MaxPlotted
        /\ Input(UNCHANGED <<first, second, restored, pending, browse, sessions, axes,
                             plotSlots, xySlots, opens>>)

\* A click that selects a channel of the file being browsed.
Select(loc) ==
    /\ first.st = "loaded"
    /\ loc \in FileIn(active).locs
    /\ selection' = [loc |-> loc, of |-> FileIn(active).path]
    /\ Len(history) < MaxHistory
    /\ Input(UNCHANGED <<first, second, active, restored, pending, tab, last, history,
                         future, sessions, panels, opens>>)

\* go_back and go_forward.
Back ==
    /\ history # <<>>
    /\ history' = Front(history)
    /\ future' = Append(future, selection)
    /\ selection' = Last(history)
    /\ last' = Last(history)
    /\ Input(UNCHANGED <<first, second, active, restored, pending, tab, sessions, panels, opens>>)

Forward ==
    /\ future # <<>>
    /\ future' = Front(future)
    /\ history' = Append(history, selection)
    /\ selection' = Last(future)
    /\ last' = Last(future)
    /\ Input(UNCHANGED <<first, second, active, restored, pending, tab, sessions, panels, opens>>)

\* show_axis_pickers, when one of the axes is picked among what is plotted.
PickAxes(x, y) ==
    /\ first.st = "loaded"
    /\ tab = "X-Y"
    /\ axes # {}
    /\ Plotted(x) /\ Plotted(y)
    /\ axes' = {x, y}
    /\ xySlots' = Only(xySlots, {x, y})
    /\ Input(UNCHANGED <<first, second, restored, pending, browse, sessions, plotted,
                         plotSlots, opens>>)

-----------------------------------------------------------------------------
(* Drawing. *)

\* sync_slots of either panel: what it wants and does not have is started from
\* the file in its slot, what it no longer wants is dropped.
Synced(slots, wanted) ==
    LET startable == {r \in wanted : FileIn(r.file).st = "loaded"}
    IN  [r \in (DOMAIN slots \cap wanted) \cup startable |->
            IF r \in DOMAIN slots THEN slots[r] ELSE FileIn(r.file).path]

\* XyPanel::show: an axis no longer plotted drops both, and a missing choice is
\* made when two channels are plotted.
AxesShown ==
    LET held == IF \A r \in axes : Plotted(r) THEN axes ELSE {}
    IN  IF Len(plotted) < 2 \/ held # {}
          THEN {held}
          ELSE {{RefOf(plotted[two[1]]), RefOf(plotted[two[2]])} :
                    two \in {ij \in (DOMAIN plotted) \X (DOMAIN plotted) : ij[1] < ij[2]}}

DrawPanels ==
    /\ IF tab = "Plot"
         THEN plotSlots' = Synced(plotSlots, {RefOf(plotted[i]) : i \in DOMAIN plotted})
         ELSE UNCHANGED plotSlots
    /\ IF tab = "X-Y"
         THEN /\ axes' \in AxesShown
              /\ xySlots' = IF Len(plotted) < 2 THEN xySlots ELSE Synced(xySlots, axes')
         ELSE UNCHANGED <<axes, xySlots>>

\* The rest of a frame: a selection made in it becomes history.
Draw ==
    /\ phase = "draw"
    /\ phase' = "poll"
    /\ IF first.st = "loaded"
         THEN /\ DrawPanels
              /\ last' = selection
              /\ IF selection = last
                   THEN UNCHANGED <<history, future>>
                   ELSE history' = Append(history, last) /\ future' = <<>>
         ELSE UNCHANGED <<axes, plotSlots, xySlots, last, history, future>>
    /\ UNCHANGED <<kept, first, second, active, restored, pending, tab, selection, plotted, opens>>

-----------------------------------------------------------------------------
(* The loader threads, the disk and the process. *)

Answered(f, answer) ==
    [f EXCEPT !.answer = answer, !.locs = IF answer = "ok" THEN disk[f.path] ELSE {}]

\* The thread's answer, or its end without one, waits for the next poll.
LoaderEnds ==
    /\ \E answer \in {"ok", "err"} :
          \/ /\ first.st = "loading" /\ first.answer = "none"
             /\ first' = Answered(first, answer)
             /\ UNCHANGED second
          \/ /\ second.st = "loading" /\ second.answer = "none"
             /\ second' = Answered(second, answer)
             /\ UNCHANGED first
    /\ UNCHANGED <<kept, restored, pending, browse, panels, phase, opens>>

\* save on the way out, and a new process that loads what was saved.
Restart ==
    /\ phase = "poll"
    /\ first.st = "loaded"
    /\ sessions' = WithCurrent
    /\ first' = Idle /\ second' = Idle /\ active' = "A"
    /\ restored' = FALSE /\ pending' = NoSession
    /\ ResetViews
    /\ history' = <<>> /\ future' = <<>>
    /\ plotted' = <<>> /\ axes' = {}
    /\ plotSlots' = None /\ xySlots' = None
    /\ UNCHANGED <<disk, phase, opens>>

UserInput ==
    \/ Nothing
    \/ \E p \in Paths : Open(p) \/ Compare(p)
    \/ Close
    \/ \E slot \in Slots : ChooseFile(slot)
    \/ \E t \in Tabs : ChooseTab(t)
    \/ \E loc \in Locs : Toggle(loc) \/ Select(loc)
    \/ Back
    \/ Forward
    \/ \E x, y \in Refs : PickAxes(x, y)

ViewerNext ==
    \/ PollLoad
    \/ RestoreSecond
    \/ UserInput
    \/ Draw
    \/ LoaderEnds
    \/ Restart

ViewerSpec == ViewerInit /\ [][ViewerNext]_viewerVars

\* The window keeps drawing and the loader threads end; the user need do nothing.
LiveSpec ==
    /\ ViewerSpec
    /\ WF_viewerVars(PollLoad) /\ WF_viewerVars(RestoreSecond) /\ WF_viewerVars(UserInput) /\ WF_viewerVars(Draw)
    /\ WF_viewerVars(LoaderEnds)

-----------------------------------------------------------------------------
(* Properties. *)

\* close_second "drops everything that referred to it": what is plotted and the
\* X-Y axes are channels of files that are open, by the name the legend gives,
\* and the browser is about an open file.
NothingPointsAtAClosedFile ==
    /\ \A i \in DOMAIN plotted :
          LET f == FileIn(plotted[i].file)
          IN  f.st = "loaded" /\ plotted[i].of = f.path /\ plotted[i].loc \in f.locs
    /\ \A r \in axes : FileIn(r.file).st = "loaded" /\ r.loc \in FileIn(r.file).locs
    /\ active = "B" => second.st = "loaded"

\* "The session belongs to the first file and names the second": a session with
\* a channel of the compared file also says which file that is.  It is put back
\* once and the second file's part of it once: however frames, loads and clicks
\* interleave, no channel is plotted twice.
SessionsComeBackWhole ==
    /\ \A i \in DOMAIN sessions :
          LET s == sessions[i].session
          IN  ((\E j \in DOMAIN s.plotted : s.plotted[j].file = "B") \/ \E r \in s.axes : r.file = "B")
                  => s.second # NoPath
    /\ \A i, j \in DOMAIN plotted : RefOf(plotted[i]) = RefOf(plotted[j]) => i = j

\* A file in a slot of the window.
Opened(f) ==
    /\ f \in [st     : {"idle", "loading", "loaded", "failed"},
             path   : Paths \cup {NoPath},
             locs   : SUBSET Locs,
             answer : {"none", "ok", "err"}]
    /\ f.st # "idle" => f.path \in Paths

ViewerTypeOK ==
    /\ disk \in [Paths -> SUBSET Locs]
    /\ Opened(first) /\ Opened(second)
    /\ active \in Slots
    /\ tab \in Tabs
    /\ restored \in BOOLEAN
    /\ sessions \in Seq([path : Paths, session : Sessions])
    /\ pending \in Sessions \cup {NoSession}
    /\ plotted \in Seq([file : Slots, loc : Locs, of : Paths \cup {NoPath}])
    /\ axes \subseteq Refs

\* Until a file has landed in the first slot there is nothing of another window:
\* no second file, nothing plotted, no session under way.
NothingBeforeTheFirst ==
    /\ restored <=> first.st = "loaded"
    /\ ~restored =>
          /\ second = Idle /\ active = "A" /\ pending = NoSession
          /\ plotted = <<>> /\ axes = {}

\* A session waits only for a second file that is loading, or has landed in this
\* very frame, so that nothing of that file can be plotted yet.
PendingWaits ==
    pending # NoSession =>
        /\ second.st = "loading" \/ phase = "restore"
        /\ \A i \in DOMAIN plotted : plotted[i].file = "A"

ViewerInv ==
    /\ ViewerTypeOK
    /\ NothingBeforeTheFirst
    /\ PendingWaits
    /\ \A i \in DOMAIN sessions : Whole(sessions[i].session)
    /\ pending # NoSession => Whole(pending)
    /\ NothingPointsAtAClosedFile
    /\ SessionsComeBackWhole

\* Every load is answered in the end, also when its thread dies, and what waits
\* for the second file does not wait for ever.
LoadsLand ==
    /\ first.st = "loading" ~> first.st # "loading"
    /\ second.st = "loading" ~> second.st # "loading"
    /\ pending # NoSession ~> pending = NoSession

\* "state left over from the previous file would silently point at whatever sits
\* in the same position in the new one": what the panel showing keeps decoded for
\* a channel is read from the file the channel is in.
ShownIsItsOwn ==
    LET shown == CASE tab = "Plot" -> {r \in DOMAIN plotSlots : Plotted(r)}
                   [] tab = "X-Y" -> axes \cap DOMAIN xySlots
                   [] OTHER -> {}
        slots == IF tab = "Plot" THEN plotSlots ELSE xySlots
    IN  phase = "poll" /\ first.st = "loaded" => \A r \in shown : slots[r] = FileIn(r.file).path

=============================================================================

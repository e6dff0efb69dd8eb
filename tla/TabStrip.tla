------------------------------ MODULE TabStrip ------------------------------
(***************************************************************************)
(* The tabs of the main window (app.ts): opened, closed, moved, pinned,    *)
(* written to the store at every change and restored from it.              *)
(*                                                                         *)
(* enqueue() runs one tab job at a time, so a job is one variable; at each *)
(* await of it the user may still activate, pin and drag tabs or put files *)
(* into panes.  An editor tab closes without its confirmation here: a "no" *)
(* changes nothing.  The window is not used while it restores its tabs.    *)
(***************************************************************************)
EXTENDS Naturals, Sequences, FiniteSets, SequencesExt

CONSTANTS Paths, Projects,
          PaneCap,     \* files that the panes of a tab take
          MaxTabs      \* tabs ever opened (bound)

VARIABLES tabs,        \* of records [id, kind, of, pinned, opener]
          sessions,    \* ids with a session
          activeId,
          inPane,      \* the files shown in the panes of each tab
          job,         \* the tab job under way: [step, id, of]
          drag,        \* the order of ids a drag was started with
          todoProject, \* the project of the todo panel
          stored,      \* the session in the store
          restoring, at, wasActive, \* the restore: its place, activeTabId
          made, restarts

tabVars == <<tabs, sessions, activeId, inPane, job, drag, todoProject, stored,
             restoring, at, wasActive, made, restarts>>

NoJob == [step |-> "none", id |-> 0, of |-> "null"]
Ids(ts) == {ts[i].id : i \in DOMAIN ts}
Place(ts, id) == SelectInSeq(ts, LAMBDA t : t.id = id)
Tab(id) == tabs[Place(tabs, id)]
\* filter(u => u.id !== id): ids are unique, so one tab goes.
Without(id) == RemoveAt(tabs, Place(tabs, id))
Tabs(kind, of) == {t \in ToSet(tabs) : t.kind = kind /\ t.of = of}
Showing(path) == {t \in ToSet(tabs) : t.id \in sessions /\ path \in inPane[t.id]}
ProjectOf(t) == IF t.kind = "terminal" THEN t.of ELSE "null"
InFront(kind) == activeId \in Ids(tabs) /\ Tab(activeId).kind = kind
HasRoom(id) == Cardinality(inPane[id]) < PaneCap
Idle == job = NoJob /\ ~restoring
\* After the restart tabs are only activated and closed (bound).
First == ~restoring /\ restarts = 0

\* persist(): every tab but the ghosts, and which of them is in front.
Written(ts, inFront, panes) ==
  LET kept == SelectSeq(ts, LAMBDA t : t.kind # "ghost")
  IN [i \in DOMAIN kept |-> [kind |-> kept[i].kind, of |-> kept[i].of,
                             files |-> panes[kept[i].id], pinned |-> kept[i].pinned,
                             active |-> kept[i].id = inFront]]
Persist(ts, inFront, panes) ==
  stored' = IF restoring THEN stored ELSE Written(ts, inFront, panes)
\* persist() and setActiveProject of a tab that comes to the front.
Fronts(id) == /\ activeId' = id /\ Persist(tabs, id, inPane)
              /\ todoProject' = ProjectOf(Tab(id))
Kept == UNCHANGED <<restoring, at, wasActive, restarts>>

NewTabRecord(kind, of, opener) ==
  [id |-> made + 1, kind |-> kind, of |-> of, pinned |-> FALSE, opener |-> opener]
TabInit ==
  /\ tabs = <<[id |-> 1, kind |-> "terminal", of |-> "null", pinned |-> FALSE, opener |-> 0]>>
  /\ sessions = {1} /\ activeId = 1 /\ inPane = [i \in 1..MaxTabs |-> {}]
  /\ job = NoJob /\ drag = <<>> /\ todoProject = "null"
  /\ stored = Written(tabs, 1, inPane)
  /\ restoring = FALSE /\ at = 0 /\ wasActive = 0 /\ made = 1 /\ restarts = 0

Activate(id) ==
  /\ ~restoring /\ id \in (sessions \cap Ids(tabs)) \ {activeId} /\ Fronts(id)
  /\ UNCHANGED <<tabs, sessions, inPane, job, drag, made>> /\ Kept

\* openTerminalTab: the tab is there at once, its panes open, then it is saved.
StartTerminal(project, files) ==
  /\ made < MaxTabs /\ made' = made + 1
  /\ tabs' = Append(tabs, NewTabRecord("terminal", project, 0))
  /\ sessions' = sessions \cup {made + 1} /\ activeId' = made + 1
  /\ inPane' = [inPane EXCEPT ![made + 1] = files]
  /\ job' = [step |-> "panes", id |-> made + 1, of |-> project]
  /\ UNCHANGED <<drag, todoProject, stored>>
NewTab == First /\ Idle /\ tabs # <<>> /\ StartTerminal("null", {}) /\ Kept
OpenProject(p) ==
  /\ First /\ Idle /\ tabs # <<>> /\ Tabs("terminal", p) = {}
  /\ StartTerminal(p, {}) /\ Kept
PanesAreOpen ==
  /\ job.step = "panes" /\ job' = NoJob
  /\ Persist(tabs, activeId, inPane) /\ todoProject' = job.of
  /\ UNCHANGED <<tabs, sessions, activeId, inPane, drag, made>> /\ Kept

\* The tab of a file is put behind the one it is opened from; its editor is
\* loaded, opened, and the tab closed again when that fails.
StartEditor(kind, path) ==
  LET t == NewTabRecord(kind, path, activeId)
      i == IF kind = "ghost" THEN 0 ELSE Place(tabs, activeId) IN
  /\ made < MaxTabs /\ made' = made + 1
  /\ tabs' = IF i = 0 THEN Append(tabs, t) ELSE InsertAt(tabs, i + 1, t)
  /\ job' = [step |-> "editor", id |-> made + 1, of |-> path]
  /\ UNCHANGED <<sessions, activeId, inPane, drag, todoProject, stored>>
EditorLoads ==
  /\ job.step = "editor" /\ job' = [job EXCEPT !.step = "file"]
  /\ sessions' = sessions \cup {job.id} /\ activeId' = job.id
  /\ UNCHANGED <<tabs, inPane, drag, todoProject, stored, made>> /\ Kept
FileIsOpen ==
  /\ job.step = "file" /\ job' = NoJob
  /\ Persist(tabs, activeId, inPane) /\ todoProject' = "null"
  /\ UNCHANGED <<tabs, sessions, activeId, inPane, drag, made>> /\ Kept

\* doOpenFile: the view there is, else a pane of the tab in front, else a tab.
OpensHere(path, newTab) ==
  /\ Tabs("editor", path) = {} /\ Showing(path) = {}
  /\ IF ~newTab /\ InFront("terminal") /\ HasRoom(activeId)
     THEN /\ job' = [step |-> "slot", id |-> activeId, of |-> path]
          /\ UNCHANGED <<tabs, sessions, activeId, inPane, drag, todoProject, stored, made>>
     ELSE StartEditor("editor", path)
Reveals(path) ==
  LET views == Tabs("editor", path) \cup Showing(path)
      v == CHOOSE x \in views : Tabs("editor", path) # {} => x \in Tabs("editor", path) IN
  /\ views # {} /\ UNCHANGED <<tabs, sessions, inPane, job, drag, made>>
  /\ IF v.id \in sessions \ {activeId} THEN Fronts(v.id)
     ELSE UNCHANGED <<activeId, todoProject, stored>>
OpenFile(path, newTab) == /\ First /\ Idle /\ tabs # <<>> /\ Kept
                          /\ OpensHere(path, newTab) \/ Reveals(path)
OpenGhost(path) == /\ First /\ Idle /\ tabs # <<>> /\ Tabs("ghost", path) = {}
                   /\ StartEditor("ghost", path) /\ Kept

\* A file that loaded takes its place in a pane, unless the pane is gone or full.
Slotted(id, path) ==
  LET panes == IF id \in sessions /\ HasRoom(id)
               THEN [inPane EXCEPT ![id] = @ \cup {path}] ELSE inPane
  IN inPane' = panes /\ Persist(tabs, activeId, panes)
SlotFills(loads) ==
  /\ job.step = "slot" /\ job' = NoJob
  /\ IF loads THEN Slotted(job.id, job.of) ELSE UNCHANGED <<inPane, stored>>
  /\ UNCHANGED <<tabs, sessions, activeId, drag, todoProject, made>> /\ Kept
\* The chooser of a file pane opens a path there, whatever else shows it.
ChooserOpens(id, path) ==
  /\ First /\ id \in sessions \cap Ids(tabs) /\ Tab(id).kind = "terminal"
  /\ path \notin inPane[id] /\ HasRoom(id) /\ Slotted(id, path)
  /\ UNCHANGED <<tabs, sessions, activeId, job, drag, todoProject, made>> /\ Kept

\* What doCloseTab does once the session is gone: the opener or the successor of
\* the tab that was in front comes there.
Successor(ts, i, t) ==
  IF t.kind = "editor" /\ t.opener \in Ids(ts) THEN t.opener
  ELSE IF i <= Len(ts) THEN ts[i].id ELSE Last(ts).id
AfterClose(ts, i, t) ==
  LET front == IF ts = <<>> THEN 0
               ELSE IF activeId = t.id THEN Successor(ts, i, t) ELSE activeId
  IN activeId' = front /\ Persist(ts, front, inPane)
CloseTab(id) ==
  LET t == Tab(id)
      ts == Without(id) IN
  /\ Idle /\ id \in sessions \cap Ids(tabs)
  /\ tabs' = ts /\ sessions' = sessions \ {id}
  /\ IF t.kind = "terminal"
     THEN /\ job' = [step |-> "dispose", id |-> id, of |-> Place(tabs, id)]
          /\ UNCHANGED <<activeId, stored>>
     ELSE /\ AfterClose(ts, Place(tabs, id), t) /\ UNCHANGED job
  /\ UNCHANGED <<inPane, drag, todoProject, made>> /\ Kept
PanesAreGone ==
  /\ job.step = "dispose" /\ job' = NoJob
  /\ AfterClose(tabs, job.of, [id |-> job.id, kind |-> "terminal"])
  /\ UNCHANGED <<tabs, sessions, inPane, drag, todoProject, made>> /\ Kept
OpenFails ==
  LET ts == Without(job.id) IN
  /\ job.step = "file" /\ job' = NoJob
  /\ tabs' = ts /\ sessions' = sessions \ {job.id}
  /\ AfterClose(ts, Place(tabs, job.id), Tab(job.id))
  /\ UNCHANGED <<inPane, drag, todoProject, made>> /\ Kept

Rearranged(ts) ==
  /\ tabs' = ts /\ Persist(ts, activeId, inPane)
  /\ UNCHANGED <<sessions, activeId, inPane, job, todoProject, made>> /\ Kept
TogglePin(id) ==
  LET rest == Without(id)
      i == SelectInSeq(rest, LAMBDA t : ~t.pinned) IN
  /\ First /\ drag = <<>> /\ id \in Ids(tabs) /\ UNCHANGED drag
  /\ Rearranged(InsertAt(rest, IF ~Tab(id).pinned THEN 1
                               ELSE IF i = 0 THEN Len(rest) + 1 ELSE i,
                         [Tab(id) EXCEPT !.pinned = ~@]))
MoveActiveTab(dir) ==
  LET i == Place(tabs, activeId) IN
  /\ First /\ i # 0 /\ i + dir \in DOMAIN tabs /\ UNCHANGED drag
  /\ Rearranged([tabs EXCEPT ![i] = tabs[i + dir], ![i + dir] = tabs[i]])
\* A drag holds the order it began with; tabs may come and go before it ends.
\* Drags and pins do not meet (bound).
DragTab == /\ First /\ drag = <<>> /\ Len(tabs) > 1 /\ \A t \in ToSet(tabs) : ~t.pinned
           /\ drag' = [i \in DOMAIN tabs |-> tabs[i].id]
           /\ UNCHANGED <<tabs, sessions, activeId, inPane, job, todoProject, stored, made>>
           /\ Kept
\* The tabs of the ids that have one, in their order.
Ordered(ids) ==
  LET alive == {i \in DOMAIN ids : ids[i] \in Ids(tabs)}
      At(k) == CHOOSE i \in alive : Cardinality({j \in alive : j < i}) = k - 1
  IN [k \in 1..Cardinality(alive) |-> Tab(ids[At(k)])]
\* Mutant of ReorderTabs: the list dragged before a tab came or went is taken.
ReorderStale(ids) == Rearranged(Ordered(ids))
ReorderTabs(ids) == IF Len(Ordered(ids)) = Len(tabs) THEN Rearranged(Ordered(ids))
                    ELSE UNCHANGED <<tabs, sessions, activeId, inPane, job, todoProject,
                                     stored, made>> /\ Kept
DropTab == /\ ~restoring /\ drag # <<>> /\ drag' = <<>> /\ ReorderTabs(Reverse(drag))

\* The window ends, at any moment, and another starts from the store.
Restart ==
  /\ ~restoring /\ restarts = 0 /\ restarts' = 1 /\ stored # <<>>
  /\ tabs' = <<>> /\ sessions' = {} /\ activeId' = 0 /\ job' = NoJob /\ drag' = <<>>
  /\ inPane' = [i \in 1..MaxTabs |-> {}] /\ todoProject' = "null"
  /\ restoring' = TRUE /\ at' = 1 /\ wasActive' = 0 /\ made' = 0 /\ UNCHANGED stored
Active == IF job = NoJob /\ at > 1 /\ stored[at - 1].active THEN activeId ELSE wasActive
RestoreTab ==
  /\ restoring /\ job = NoJob /\ at \in DOMAIN stored
  /\ at' = at + 1 /\ wasActive' = Active /\ UNCHANGED <<restoring, restarts>>
  /\ \/ /\ stored[at].kind = "terminal" /\ StartTerminal(stored[at].of, stored[at].files)
     \/ /\ stored[at].kind = "editor"
        /\ OpensHere(stored[at].of, FALSE) \/ Reveals(stored[at].of)
\* The pins go to the tabs that stand where the saved ones stood.
Restored ==
  LET ts == [i \in DOMAIN tabs |-> [tabs[i] EXCEPT !.pinned =
               IF i \in DOMAIN stored THEN stored[i].pinned ELSE @]]
      front == IF Active \in sessions THEN Active ELSE activeId IN
  /\ restoring /\ job = NoJob /\ at = Len(stored) + 1
  /\ \E t \in ToSet(tabs) : t.kind = "terminal"
  /\ tabs' = ts /\ restoring' = FALSE /\ activeId' = front
  /\ stored' = Written(ts, front, inPane)
  /\ todoProject' = IF front = activeId THEN todoProject ELSE ProjectOf(Tab(front))
  /\ wasActive' = 0 /\ at' = 0 /\ UNCHANGED <<sessions, inPane, job, drag, made, restarts>>
\* No terminal tab came back: one is opened.
RestoreNewTab == /\ restoring /\ job = NoJob /\ at = Len(stored) + 1
                 /\ \A t \in ToSet(tabs) : t.kind # "terminal"
                 /\ StartTerminal("null", {}) /\ wasActive' = Active
                 /\ UNCHANGED <<restoring, at, restarts>>

TabNext == \/ NewTab \/ PanesAreOpen \/ EditorLoads \/ FileIsOpen \/ PanesAreGone
           \/ OpenFails \/ DragTab \/ DropTab \/ Restart \/ RestoreTab \/ Restored
           \/ RestoreNewTab
           \/ \E p \in Projects : OpenProject(p)
           \/ \E p \in Paths : OpenGhost(p) \/ \E newTab \in BOOLEAN : OpenFile(p, newTab)
           \/ \E loads \in BOOLEAN : SlotFills(loads)
           \/ \E id \in 1..made : \/ Activate(id) \/ CloseTab(id) \/ TogglePin(id)
                                  \/ \E p \in Paths : ChooserOpens(id, p)
           \/ MoveActiveTab(1)

-----------------------------------------------------------------------------
\* Between two jobs every tab has its session and every session its tab, one of
\* them is in front, and the store holds the tabs as they stand, in their order,
\* with their pins and files: no close, failed open, drag that outlived a tab or
\* restart leaves a tab that shows nothing or a session that nothing shows, and a
\* crash there loses none of it.
StripIsStored ==
  Idle => /\ Ids(tabs) = sessions /\ Cardinality(sessions) = Len(tabs)
          /\ activeId \in sessions \/ tabs = <<>>
          /\ stored = Written(tabs, activeId, inPane)
=============================================================================

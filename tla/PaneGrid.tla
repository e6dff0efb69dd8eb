------------------------------ MODULE PaneGrid ------------------------------
(***************************************************************************)
(* The split panes of one terminal tab: the tree of panetree.ts, the       *)
(* panes, zoom and content stacks of panegrid.ts, and the asynchronous     *)
(* opens of app.ts that end in them.                                       *)
(*                                                                         *)
(* A split, a file open and a close dialog are two steps each, since they  *)
(* wait for the shell's directory, the disk and the user, and whatever     *)
(* they read of the grid is read again, or not, when they go on.  Geometry *)
(* is left out: a move of the focus may reach any other pane.  A content   *)
(* is known by its kind and path; its text is the business of EditorFile.  *)
(***************************************************************************)
EXTENDS Integers, Sequences, SequencesExt

CONSTANTS MaxPanes,   \* panes ever created (bound)
          MaxOpens,   \* file opens under way at once (bound)
          MaxContents,\* contents before the user adds no more (bound)
          Cap,        \* layout.pane_content_cap: the terminal counts
          Paths       \* files and addresses

VARIABLES tree,       \* PaneGrid.tree
          panes,      \* PaneGrid.panes: id -> [contents, index]
          activeLeafId, zoomed,
          shown,      \* the panes that are in the host element
          recent,     \* ids by lastActiveSeq, the latest last
          lastPane,   \* paneSeq
          splitting,  \* splits that wait for cwdOf
          starting,   \* new panes whose terminal.open() is under way
          loading,    \* switchPaneToFile calls that wait for session.open()
          asked,      \* the close dialog: the pane it asks about, or 0
          gone        \* onEmpty was called: the tab is being closed

gridVars == <<tree, panes, activeLeafId, zoomed, shown, recent, lastPane,
              splitting, starting, loading, asked, gone>>

Leaf(id) == [kind |-> "leaf", id |-> id]
Split(a, b) == [kind |-> "split", a |-> a, b |-> b]

RECURSIVE Leaves(_), SplitLeaf(_, _, _), CloseLeaf(_, _)
Leaves(t) == IF t.kind = "leaf" THEN <<t.id>> ELSE Leaves(t.a) \o Leaves(t.b)

SplitLeaf(t, id, added) ==
  CASE t.kind = "leaf" -> IF t.id = id THEN Split(t, added) ELSE t
    [] OTHER -> Split(SplitLeaf(t.a, id, added), SplitLeaf(t.b, id, added))

NoTree == [kind |-> "none"]
CloseLeaf(t, id) ==
  IF t.kind = "leaf" THEN (IF t.id = id THEN NoTree ELSE t)
  ELSE LET a == CloseLeaf(t.a, id)
           b == CloseLeaf(t.b, id)
       IN CASE a = NoTree -> b
            [] b = NoTree -> a
            [] OTHER -> Split(a, b)

LeafIds == ToSet(Leaves(tree))

NoPath == "none"
Chooser == [kind |-> "file", path |-> NoPath]
Contents == [kind: {"file", "browser"}, path: Paths] \cup {Chooser}
EmptyPane == [contents |-> <<>>, index |-> 0]

StackLen(pane) == 1 + Len(pane.contents)
CanAdd(pane) == StackLen(pane) < Cap
ActiveContent(pane) == pane.contents[pane.index]
ActiveIsChooser(pane) == pane.index > 0 /\ ActiveContent(pane) = Chooser
CanAcceptFile(pane) == ActiveIsChooser(pane) \/ CanAdd(pane)
NextIndex(len, i, step) == IF len <= 1 THEN i ELSE (i + step + len) % len

\* addFileContent and replaceActiveFile: the pane with the entry on top.
Added(pane, entry) == [contents |-> Append(pane.contents, entry),
                       index |-> StackLen(pane)]
Replaced(pane, entry) == [pane EXCEPT !.contents[pane.index] = entry]
Removed(pane) == [contents |-> RemoveAt(pane.contents, pane.index), index |-> 0]

\* The pane that an open goes to: the focused one if it holds a content, else
\* the one that was active last of those that do, else the focused one.
HasFile(p) == Len(panes[p].contents) > 0
Recency(p) == SelectInSeq(recent, LAMBDA q : q = p)
FileTarget ==
  IF HasFile(activeLeafId) THEN activeLeafId
  ELSE LET withFile == {p \in DOMAIN panes : HasFile(p)}
       IN IF withFile = {} THEN activeLeafId
          ELSE CHOOSE p \in withFile : \A q \in withFile :
                 \/ Recency(p) > Recency(q)
                 \/ Recency(p) = Recency(q) /\ p <= q

GridInit ==
  /\ tree = Leaf(1) /\ panes = (1 :> EmptyPane) /\ activeLeafId = 1
  /\ zoomed = FALSE /\ shown = {1} /\ recent = <<1>> /\ lastPane = 1
  /\ splitting = 0 /\ starting = {} /\ loading = <<>> /\ asked = 0
  /\ gone = FALSE

\* The user adds a content only while the grid holds fewer than the bound.
Room == FoldFunction(+, 0, [p \in DOMAIN panes |-> Len(panes[p].contents)])
          < MaxContents

\* A dialog is modal: until it is answered only what is under way goes on.
User == ~gone /\ asked = 0

\* Pane p becomes active; only panes that are left are remembered.
SetActive(p) ==
  /\ activeLeafId' = p
  /\ recent' = Append(SelectSeq(recent, LAMBDA q : q /= p /\ q \in DOMAIN panes'), p)

SplitPane ==
  /\ User /\ lastPane + splitting < MaxPanes
  /\ splitting' = splitting + 1
  /\ zoomed' = FALSE /\ shown' = IF zoomed THEN DOMAIN panes ELSE shown
  /\ UNCHANGED <<tree, panes, activeLeafId, recent, lastPane, starting, loading,
                 asked, gone>>

\* The directory is known: the leaf that is active by now is split.  In a grid
\* whose last pane has exited meanwhile, render() throws over the dead leaf.
SplitGoesOn ==
  LET id == lastPane + 1 IN
  /\ splitting > 0 /\ splitting' = splitting - 1 /\ lastPane' = id
  /\ tree' = SplitLeaf(tree, activeLeafId, Leaf(id))
  /\ panes' = panes @@ (id :> EmptyPane)
  /\ IF gone THEN UNCHANGED <<shown, starting>>
     ELSE shown' = DOMAIN panes' /\ starting' = starting \cup {id}
  /\ UNCHANGED <<activeLeafId, zoomed, recent, loading, asked, gone>>

PaneStarts(p) ==
  /\ p \in starting /\ starting' = starting \ {p} /\ UNCHANGED panes
  /\ IF p \in DOMAIN panes THEN SetActive(p) ELSE UNCHANGED <<activeLeafId, recent>>
  /\ UNCHANGED <<tree, zoomed, shown, lastPane, splitting, loading, asked, gone>>

\* Mutant of ClosePane: the focus stays on the pane that is closed.
ClosePaneKeepsActive(p) ==
  LET next == CloseLeaf(tree, p) IN
  /\ panes' = [q \in DOMAIN panes \ {p} |-> panes[q]]
  /\ IF next = NoTree
     THEN gone' = TRUE /\ UNCHANGED <<tree, zoomed, shown, activeLeafId, recent>>
     ELSE /\ tree' = next /\ zoomed' = FALSE /\ shown' = DOMAIN panes'
          /\ UNCHANGED <<gone, activeLeafId, recent>>

\* closePane: the effect of closing pane p on everything the grid keeps.
ClosePane(p) ==
  LET next == CloseLeaf(tree, p) IN
  /\ panes' = [q \in DOMAIN panes \ {p} |-> panes[q]]
  /\ IF next = NoTree
     THEN gone' = TRUE /\ UNCHANGED <<tree, zoomed, shown, activeLeafId, recent>>
     ELSE /\ tree' = next /\ zoomed' = FALSE /\ shown' = DOMAIN panes'
          /\ SetActive(IF activeLeafId = p THEN Leaves(next)[1] ELSE activeLeafId)
          /\ UNCHANGED gone

UserCloses == /\ User /\ panes[activeLeafId].index = 0 /\ ClosePane(activeLeafId)
              /\ UNCHANGED <<lastPane, splitting, starting, loading, asked>>
ShellExits(p) == /\ ~gone /\ p \in DOMAIN panes /\ ClosePane(p)
                 /\ UNCHANGED <<lastPane, splitting, starting, loading, asked>>

\* Keys reach any pane, on the screen or hidden behind a zoomed one.
FocusDir(p) ==
  /\ User /\ p \in DOMAIN panes \ {activeLeafId}
  /\ UNCHANGED panes /\ SetActive(p)
  /\ UNCHANGED <<tree, zoomed, shown, lastPane, splitting, starting,
                 loading, asked, gone>>

ToggleZoom ==
  /\ User /\ zoomed' = ~zoomed
  /\ shown' = IF zoomed' THEN {activeLeafId} ELSE DOMAIN panes
  /\ UNCHANGED <<tree, panes, activeLeafId, recent, lastPane, splitting, starting,
                 loading, asked, gone>>

\* The stack of pane p becomes s; nothing else of the grid changes.
Stack(p, s) ==
  /\ panes' = [panes EXCEPT ![p] = s]
  /\ UNCHANGED <<tree, activeLeafId, zoomed, shown, recent, lastPane, splitting,
                 starting, gone>>

Cycle(step) ==
  /\ User
  /\ LET pane == panes[activeLeafId]
     IN Stack(activeLeafId,
              [pane EXCEPT !.index = NextIndex(StackLen(pane), pane.index, step)])
  /\ UNCHANGED <<loading, asked>>

\* A segment of the pane's cluster, or a click into the pane itself.
ClusterSelect(p, i) ==
  /\ User /\ p \in shown /\ i \in 0..Len(panes[p].contents)
  /\ panes' = [panes EXCEPT ![p].index = i] /\ SetActive(p)
  /\ UNCHANGED <<tree, zoomed, shown, lastPane, splitting, starting, loading,
                 asked, gone>>

\* The picker adds a chooser or a browser when the stack has room.
PickContent(entry) ==
  /\ User /\ Room /\ CanAdd(panes[activeLeafId])
  /\ Stack(activeLeafId, Added(panes[activeLeafId], entry))
  /\ UNCHANGED <<loading, asked>>

Located(f) == {p \in DOMAIN panes : \E i \in DOMAIN panes[p].contents :
                 panes[p].contents[i].path = f}

\* doOpenFile: reveal the file where it is, else load it for the target pane.
OpenFile(f) ==
  /\ User /\ Room /\ Len(loading) < MaxOpens /\ UNCHANGED asked
  /\ IF Located(f) /= {}
     THEN LET p == CHOOSE q \in Located(f) : \A r \in Located(f) : q <= r
              i == SelectInSeq(panes[p].contents, LAMBDA c : c.path = f)
          IN Stack(p, [panes[p] EXCEPT !.index = i]) /\ UNCHANGED loading
     ELSE /\ CanAcceptFile(panes[FileTarget])
          /\ Stack(FileTarget, panes[FileTarget])
          /\ loading' = Append(loading, [pane |-> FileTarget, path |-> f])

\* A row of the chooser loads its file for the chooser's own pane.
ChooserPicks(f) ==
  /\ User /\ Len(loading) < MaxOpens /\ ActiveIsChooser(panes[activeLeafId])
  /\ Stack(activeLeafId, panes[activeLeafId]) /\ UNCHANGED asked
  /\ loading' = Append(loading, [pane |-> activeLeafId, path |-> f])

\* The file is read: it replaces a chooser, or is added if it still fits.
FileLoads(k) ==
  /\ k \in DOMAIN loading /\ loading' = RemoveAt(loading, k) /\ UNCHANGED asked
  /\ LET p == loading[k].pane
         entry == [kind |-> "file", path |-> loading[k].path]
     IN IF p \notin DOMAIN panes
        THEN UNCHANGED <<tree, panes, activeLeafId, zoomed, shown, recent,
                         lastPane, splitting, starting, gone>>
        ELSE Stack(p, CASE ActiveIsChooser(panes[p]) -> Replaced(panes[p], entry)
                        [] ~ActiveIsChooser(panes[p]) /\ CanAdd(panes[p])
                             -> Added(panes[p], entry)
                        [] OTHER -> panes[p])

FileFails(k) ==
  /\ k \in DOMAIN loading /\ loading' = RemoveAt(loading, k)
  /\ UNCHANGED <<tree, panes, activeLeafId, zoomed, shown, recent, lastPane,
                 splitting, starting, asked, gone>>

\* Closing the content in front, of whichever pane is active when it happens.
CloseActiveContent ==
  LET pane == panes[activeLeafId] IN
  IF gone \/ pane.index = 0
  THEN UNCHANGED <<tree, panes, activeLeafId, zoomed, shown, recent, lastPane,
                   splitting, starting, gone>>
  ELSE Stack(activeLeafId, Removed(pane))

CloseClean == /\ User /\ panes[activeLeafId].index > 0 /\ CloseActiveContent
              /\ UNCHANGED <<loading, asked>>
AskClose == /\ User /\ panes[activeLeafId].index > 0 /\ asked' = activeLeafId
            /\ ActiveContent(panes[activeLeafId]).kind = "file"
            /\ ~ActiveIsChooser(panes[activeLeafId])
            /\ UNCHANGED <<tree, panes, activeLeafId, zoomed, shown, recent,
                           lastPane, splitting, starting, loading, gone>>
AnswerClose == /\ asked /= 0 /\ asked' = 0 /\ CloseActiveContent /\ UNCHANGED loading
AnswerCancel == /\ asked /= 0 /\ asked' = 0
                /\ UNCHANGED <<tree, panes, activeLeafId, zoomed, shown, recent,
                               lastPane, splitting, starting, loading, gone>>

\* The content in front moves to the pin dock; a pane that loses its only
\* content is closed with its shell, unless it is the only pane.
Detach ==
  /\ User /\ panes[activeLeafId].index > 0 /\ UNCHANGED <<loading, asked>>
  /\ LET rest == Removed(panes[activeLeafId]) IN
     IF rest.contents = <<>> /\ Len(Leaves(tree)) > 1
     THEN ClosePane(activeLeafId) /\ UNCHANGED <<lastPane, splitting, starting>>
     ELSE Stack(activeLeafId, rest)

GridNext ==
  \/ SplitPane \/ SplitGoesOn \/ \E p \in 1..MaxPanes : PaneStarts(p)
  \/ UserCloses \/ \E p \in 1..MaxPanes : ShellExits(p) \/ FocusDir(p)
  \/ ToggleZoom \/ \E step \in {1, -1} : Cycle(step)
  \/ \E p \in 1..MaxPanes, i \in 0..Cap : ClusterSelect(p, i)
  \/ \E entry \in Contents : (entry = Chooser \/ entry.kind = "browser")
                             /\ PickContent(entry)
  \/ \E f \in Paths : OpenFile(f) \/ ChooserPicks(f)
  \/ \E k \in 1..MaxOpens : FileLoads(k) \/ FileFails(k)
  \/ CloseClean \/ AskClose \/ AnswerClose \/ AnswerCancel \/ Detach

-----------------------------------------------------------------------------
\* While the tab lives, the tree, the panes and the screen tell one story,
\* however splits, exits and detaches overlap: each pane is one leaf, the active
\* pane exists, no pane that was closed is still in the host element, and every
\* stack shows one of its contents and is within the cap.
TreeAndPanesAgree ==
  ~gone => /\ LeafIds = DOMAIN panes
           /\ IsInjective(Leaves(tree))
           /\ activeLeafId \in DOMAIN panes
           /\ shown \subseteq DOMAIN panes /\ shown /= {}
           /\ \A p \in DOMAIN panes : /\ panes[p].index \in 0..Len(panes[p].contents)
                                      /\ StackLen(panes[p]) <= Cap

=============================================================================

------------------------------ MODULE KeyFocus ------------------------------
(***************************************************************************)
(* Which surface of the main window has the keyboard (app.ts): the grid of *)
(* the active tab, the file tree, the todo panel below it, a cell of the   *)
(* pinned dock or the web page of a browser.  The DOM has a focus of its   *)
(* own; focusedPin and todoFocused are kept beside it by hand, because a   *)
(* pinned browser and an empty cell take no DOM focus, and they decide     *)
(* what ⌘W closes and where plain keys go.                                 *)
(***************************************************************************)
EXTENDS Naturals

CONSTANT KeyProjects   \* projects a tab can belong to

VARIABLES dom,            \* what has the focus of the window: <<kind, place>>
          todoFocused, todoCollapsed, panelVisible,
          project,        \* setActiveProject's last project, or "none": no panel
          collapsedOf,    \* what is stored of todo_collapsed, by project
          cells,          \* pinCells: "none", "terminal" or "browser"
          opening,        \* added cells that get the focus once they are open
          focusedPin,     \* place, or 0
          wentTo,         \* where the user last took the keyboard
          took,           \* ... when ⌘W was just pressed, and what it closed
          openingTabs     \* projects of the tabs that are being opened

keyVars == <<dom, todoFocused, todoCollapsed, panelVisible, project, collapsedOf, cells,
             opening, focusedPin, wentTo, took, openingTabs>>
sidebarVars == <<todoCollapsed, panelVisible, project, collapsedOf>>
dockVars == <<cells, opening>>

Places == 1..2
Grid == <<"grid", 0>>
Tree == <<"tree", 0>>
Todo == <<"todo", 0>>
Body == <<"body", 0>>
Cell(p) == <<"cell", p>>
Web(p) == <<"web", p>>        \* the page of the browser in cell p
InPage == dom[1] = "web"
NoClose == <<Grid, Grid>>
Dock == \E p \in Places : cells[p] # "none"
Filled == {p \in Places : cells[p] # "none"}

KeyInit ==
  /\ dom = Grid /\ todoFocused = FALSE /\ panelVisible \in BOOLEAN
  /\ collapsedOf \in [KeyProjects \cup {"none"} -> BOOLEAN]
  /\ project \in KeyProjects \cup {"none"} /\ todoCollapsed = collapsedOf[project]
  /\ cells = [p \in Places |-> "none"] /\ opening = {} /\ focusedPin = 0
  /\ wentTo = Grid /\ took = NoClose /\ openingTabs = {}

-----------------------------------------------------------------------------
\* The focus moves to d: focusout of the todo panel takes its keys away.
DomMoves(d) == /\ dom' = d
               /\ todoFocused' = IF dom = Todo /\ d # Todo THEN FALSE ELSE todoFocused
\* focusActive: the keyboard to the active tab, whatever had it.
FocusActive == dom' = Grid /\ todoFocused' = FALSE /\ focusedPin' = 0
\* focusPinCell: only a terminal takes the DOM's focus.
FocusPinCell(p, cs) ==
  IF \A q \in Places : cs[q] = "none" THEN UNCHANGED <<dom, todoFocused, focusedPin>>
  ELSE /\ focusedPin' = p
       /\ IF cs[p] = "terminal" THEN DomMoves(Cell(p)) ELSE UNCHANGED <<dom, todoFocused>>
\* Mutant of SetPanelVisible: the todo panel is forgotten.
PanelOfTree(visible) ==
  /\ panelVisible' = visible
  /\ IF ~visible /\ dom = Tree THEN FocusActive
                               ELSE UNCHANGED <<dom, todoFocused, focusedPin>>
\* setPanelVisible: a sidebar that goes away gives the keyboard back.
SetPanelVisible(visible) ==
  /\ panelVisible' = visible
  /\ IF ~visible /\ (dom = Tree \/ todoFocused) THEN FocusActive
     ELSE UNCHANGED <<dom, todoFocused, focusedPin>>
\* setTodoCollapsed, persistTodoCollapsed
SetTodoCollapsed(c) == /\ todoCollapsed' = c
                       /\ collapsedOf' = IF c = todoCollapsed THEN collapsedOf
                                         ELSE [collapsedOf EXCEPT ![project] = c]

-----------------------------------------------------------------------------
\* The mouse.  A pane's mousedown focuses its content and no more.
ClickPane ==
  /\ DomMoves(Grid) /\ wentTo' = Grid
  /\ UNCHANGED <<sidebarVars, dockVars, focusedPin, openingTabs>>
ClickSidebar(d) ==
  /\ panelVisible /\ d \in {Tree, Todo} /\ (d = Todo => project # "none")
  /\ DomMoves(d) /\ wentTo' = d
  /\ UNCHANGED <<sidebarVars, dockVars, focusedPin, openingTabs>>
\* pointerdown on a filled cell; the page of a browser is no part of the document.
ClickCell(p) ==
  /\ p \in Filled /\ FocusPinCell(p, cells) /\ wentTo' = Cell(p)
  /\ UNCHANGED <<sidebarVars, dockVars, openingTabs>>
ClickPage(p) ==
  /\ cells[p] = "browser" /\ DomMoves(Web(p)) /\ wentTo' = Cell(p)
  /\ UNCHANGED <<sidebarVars, dockVars, focusedPin, openingTabs>>
\* The collapse button of the panel, the divider's double click, todo.collapse.
ToggleCollapsed ==
  /\ project # "none" /\ SetTodoCollapsed(~todoCollapsed)
  /\ todoFocused' = (todoFocused /\ todoCollapsed)
  /\ UNCHANGED <<dom, panelVisible, project, dockVars, focusedPin, wentTo, openingTabs>>
\* The sidebar button and its menu item.
TogglePanel ==
  /\ IF panelVisible THEN SetPanelVisible(FALSE)
     ELSE panelVisible' = TRUE /\ DomMoves(Tree) /\ UNCHANGED focusedPin
  /\ wentTo' = IF panelVisible THEN dom' ELSE Tree
  /\ UNCHANGED <<todoCollapsed, project, collapsedOf, dockVars, openingTabs>>

-----------------------------------------------------------------------------
\* The keyboard.  navigateFocus; a step inside the grid is one for `inGrid`.
Navigate(dir, inGrid) ==
  /\ ~InPage
  /\ IF focusedPin # 0
     THEN CASE dir = "left" -> FocusActive
            [] dir = "up"   -> FocusPinCell(1, cells)
            [] dir = "down" -> FocusPinCell(2, cells)
            [] OTHER        -> UNCHANGED <<dom, todoFocused, focusedPin>>
     ELSE IF panelVisible /\ dom = Tree
     THEN IF dir = "right" THEN FocusActive
          ELSE UNCHANGED <<dom, todoFocused, focusedPin>>
     ELSE IF inGrid THEN DomMoves(Grid) /\ UNCHANGED focusedPin
     ELSE IF dir = "right" /\ Dock THEN FocusPinCell(1, cells)
     ELSE IF dir = "left" THEN dom' = Tree /\ todoFocused' = FALSE /\ focusedPin' = 0
     ELSE UNCHANGED <<dom, todoFocused, focusedPin>>
  /\ panelVisible' = (panelVisible \/ dom' = Tree)
  /\ wentTo' = IF focusedPin' # 0 THEN Cell(focusedPin') ELSE dom'
  /\ UNCHANGED <<todoCollapsed, project, collapsedOf, dockVars, openingTabs>>
\* tree.focus: shows and focuses the tree, or hides the one that is focused.
FocusTree ==
  /\ ~InPage
  /\ IF panelVisible /\ dom = Tree THEN SetPanelVisible(FALSE)
     ELSE panelVisible' = TRUE /\ dom' = Tree /\ todoFocused' = FALSE /\ focusedPin' = 0
  /\ wentTo' = dom'
  /\ UNCHANGED <<todoCollapsed, project, collapsedOf, dockVars, openingTabs>>
\* todo.focus: decideTodoFocusAction, runTodoFocusDecision, focusTodoPanel
FocusTodo ==
  /\ ~InPage /\ (todoCollapsed \/ ~todoFocused) /\ SetTodoCollapsed(FALSE)
  /\ IF project = "none" THEN UNCHANGED <<dom, todoFocused, panelVisible, focusedPin, wentTo>>
     ELSE /\ panelVisible' = TRUE /\ todoFocused' = TRUE /\ focusedPin' = 0
          /\ dom' = Todo /\ wentTo' = Todo
  /\ UNCHANGED <<project, dockVars, openingTabs>>
\* timer.focusCell and the like: a key that names a cell.
FocusCellKey(p) ==
  /\ ~InPage /\ p \in Filled /\ FocusPinCell(p, cells) /\ wentTo' = Cell(p)
  /\ UNCHANGED <<sidebarVars, dockVars, openingTabs>>
\* closeFocusedPin: unpinCell, and back to the working pane.
CloseFocusedPin(p) == /\ cells' = [cells EXCEPT ![p] = "none"]
                      /\ FocusActive /\ took' = <<wentTo, Cell(p)>> /\ wentTo' = Grid /\ UNCHANGED opening
\* ⌘W: the focused cell, a pinned browser whose page has the keys, or the tab's content.
CloseActive ==
  LET pages == {p \in Places : cells[p] = "browser"} IN
  /\ IF focusedPin # 0 THEN CloseFocusedPin(focusedPin)
     ELSE IF InPage /\ \E p \in pages : pages = {p}
     THEN CloseFocusedPin(CHOOSE p \in pages : TRUE)
     ELSE /\ took' = <<wentTo, Grid>> /\ wentTo' = Grid /\ DomMoves(Grid)
          /\ UNCHANGED <<dockVars, focusedPin>>
  /\ UNCHANGED <<sidebarVars, openingTabs>>

-----------------------------------------------------------------------------
\* The dock: addToPinDock in the focused empty cell or the first one, and the focus
\* once it is open; opening a browser hands the keyboard to the grid first.
AddToDock(k) ==
  LET free == Places \ Filled
      p == IF focusedPin \in free THEN focusedPin ELSE CHOOSE q \in free : \A r \in free : q <= r
  IN /\ ~InPage /\ free # {}
     /\ cells' = [cells EXCEPT ![p] = k] /\ opening' = opening \cup {p}
     /\ UNCHANGED <<dom, todoFocused, sidebarVars, focusedPin, wentTo, openingTabs>>
CellIsOpen(p) ==
  /\ p \in opening /\ opening' = opening \ {p} /\ wentTo' = Cell(p)
  /\ IF cells[p] = "browser"
     THEN DomMoves(Grid) /\ focusedPin' = p ELSE FocusPinCell(p, cells)
  /\ UNCHANGED <<sidebarVars, cells, openingTabs>>
\* The content of a cell ends or is closed by its own button.
CellEnds(p) ==
  /\ p \in Filled /\ cells' = [cells EXCEPT ![p] = "none"]
  /\ DomMoves(IF dom[2] = p THEN Body ELSE dom)
  /\ focusedPin' = IF focusedPin = p THEN 0 ELSE focusedPin
  /\ UNCHANGED <<sidebarVars, opening, wentTo, openingTabs>>
\* togglePinDock on an open dock
CloseDock ==
  /\ ~InPage /\ Dock /\ cells' = [p \in Places |-> "none"]
  /\ FocusActive /\ wentTo' = Grid /\ UNCHANGED <<sidebarVars, opening, openingTabs>>

-----------------------------------------------------------------------------
\* setActiveProject: the panel shows the project's list, or goes.
SetActiveProject(j) == project' = j /\ todoCollapsed' = collapsedOf[j]
\* activate
ActivateTab(j) ==
  /\ FocusActive /\ wentTo' = Grid /\ SetActiveProject(j)
  /\ UNCHANGED <<panelVisible, collapsedOf, dockVars, openingTabs>>
\* openTerminalTab: the focus goes to the new grid, and the project with it, once it is open.
OpenTab(j) ==
  /\ j \notin openingTabs /\ openingTabs' = openingTabs \cup {j}
  /\ UNCHANGED <<dom, todoFocused, sidebarVars, dockVars, focusedPin, wentTo>>
TabIsOpen(j) ==
  /\ j \in openingTabs /\ openingTabs' = openingTabs \ {j}
  /\ DomMoves(Grid) /\ SetActiveProject(j)
  /\ UNCHANGED <<panelVisible, collapsedOf, dockVars, focusedPin, wentTo>>

Moves ==
  \/ ClickPane \/ ToggleCollapsed \/ TogglePanel \/ FocusTree \/ FocusTodo \/ CloseDock
  \/ \E d \in {Tree, Todo} : ClickSidebar(d)
  \/ \E dir \in {"left", "right", "up", "down"}, g \in BOOLEAN : Navigate(dir, g)
  \/ \E p \in Places : ClickCell(p) \/ ClickPage(p) \/ FocusCellKey(p) \/ CellIsOpen(p) \/ CellEnds(p)
  \/ \E k \in {"terminal", "browser"} : AddToDock(k)
  \/ \E j \in KeyProjects \cup {"none"} : ActivateTab(j) \/ OpenTab(j) \/ TabIsOpen(j)
KeyNext == CloseActive \/ (Moves /\ took' = NoClose)

KeySpec == KeyInit /\ [][KeyNext]_keyVars

-----------------------------------------------------------------------------
(* While the todo panel takes the plain keys, the sidebar is shown and no   *)
(* other surface has the focus: x and dd never change a list out of sight   *)
(* (app.ts todoFocused, setPanelVisible, the panel's focusout).             *)
TodoKeysAreSeen == todoFocused => panelVisible /\ project # "none" /\ dom = Todo

(* The close key follows the mouse and the keys alike: ⌘W takes a pinned    *)
(* cell only when the dock is where the user last went (app.ts              *)
(* constructor, closeActive).                                               *)
CloseFollowsTheUser == took[2] # Grid => took[1] = took[2]
=============================================================================

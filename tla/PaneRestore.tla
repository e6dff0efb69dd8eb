---------------------------- MODULE PaneRestore ----------------------------
(***************************************************************************)
(* What a pane is restored from: the leaf that PaneGrid.serialize writes,  *)
(* the command that a snapshot observes in its shell, and the templates    *)
(* and project layouts a leaf can be instantiated from (app.ts,            *)
(* panegrid.ts, panetree.ts).                                              *)
(*                                                                         *)
(* One pane is followed through quits, crashes and restores; panes do not  *)
(* depend on each other here.  A shell that the daemon keeps is attached   *)
(* to and is typed nothing.  The window is not used while the app starts;  *)
(* a tab that opens later is used at once, before its panes are restored.  *)
(***************************************************************************)
EXTENDS Naturals, SequencesExt

CONSTANTS Commands,    \* what runs in shells
          WithResume,  \* withClaudeResume where isClaudeCommand, else the command
          Declared,    \* leaves of the templates and layouts written by hand
          Paths, Pages,\* files and, of them, addresses of browsers
          Cap          \* layout.pane_content_cap: the terminal counts

VARIABLES leaf,     \* the leaf of PaneGrid.tree
          pane,     \* its pane: [contents, index]
          running,  \* the foreground command of its shell
          lives,    \* its session is there
          stored,   \* the leaf in the store
          template, \* the leaf of a layout that was saved from the pane
          policy,   \* session.restore_commands
          step,     \* of openTerminalTab: opening, restoring, open; or closed
          todo,     \* the contents that are left to restore
          starting, \* App.restoring: the tab is one of the last session
          saved,    \* the stack that was in the store when the app went down
          faultless \* every content of this restore has opened so far

restoreVars == <<leaf, pane, running, lives, stored, template, policy, step, todo,
                 starting, saved, faultless>>

Idle == "idle"        \* no command; a snapshot's null
Unknown == "unknown"  \* lastCommand before any snapshot
Chooser == "chooser"  \* a content without a path
Policies == {"all", "templates", "never"}
Terminal == [contents |-> <<>>, index |-> 0]

LeafOf(l, last, p) == [command |-> l.command, file |-> l.file, last |-> last,
                       contents |-> p.contents, index |-> p.index]
\* instantiate: of a template's leaf the command and the file slot.
Instantiate(t) == LeafOf(t, Unknown, Terminal)

\* syncContents: contents without a path are dropped, the index is not.
Synced(l, p) ==
  LeafOf(l, l.last, [contents |-> SelectSeq(p.contents, LAMBDA c : c # Chooser),
                     index |-> p.index])

\* persist writes the synced leaf; it does nothing while the app starts.
Persist(l, p) ==
  IF starting THEN leaf' = l /\ UNCHANGED stored
  ELSE leaf' = Synced(l, p) /\ stored' = Synced(l, p)

\* spawnCommandFor and resolveSpawnCommands.
SpawnCommand(l) ==
  IF policy = "never" THEN Idle
  ELSE IF policy = "all" /\ l.last # Unknown THEN l.last ELSE l.command
Typed(c) == IF c = Idle THEN Idle ELSE WithResume[c]

\* TerminalSession.open: a session that is there is attached to.
Spawn(l) ==
  /\ lives' = TRUE
  /\ running' = IF lives THEN running ELSE Typed(SpawnCommand(l))

RestoreInit ==
  /\ \E d \in Declared : leaf = Instantiate(d) /\ template = d
  /\ pane = Terminal /\ running = Idle /\ lives = TRUE
  /\ stored = leaf /\ policy \in Policies
  /\ step = "open" /\ todo = <<>> /\ starting = FALSE /\ faultless = TRUE
  /\ saved = Terminal

-----------------------------------------------------------------------------
\* The user and the programs in the shell.
Used == step # "closed" /\ ~starting
Opening == <<step, todo, starting, saved, faultless>>
ShellRuns(c) ==
  /\ lives /\ running' = c
  /\ UNCHANGED <<leaf, pane, lives, stored, template, policy, Opening>>
SetPolicy(p) ==
  /\ Used /\ policy' = p
  /\ UNCHANGED <<leaf, pane, running, lives, stored, template, Opening>>

\* The pane's stack becomes p, which onContentChange persists.
Stack(p) == pane' = p /\ Persist(leaf, p)
Showing(i) == [contents |-> pane.contents, index |-> i]
ActiveIsChooser == pane.index > 0 /\ pane.contents[pane.index] = Chooser
CanAdd(p) == Len(p.contents) + 1 < Cap
Added(p, c) == [contents |-> Append(p.contents, c), index |-> Len(p.contents) + 1]
Removed(p) == [contents |-> RemoveAt(p.contents, p.index), index |-> 0]
OpenContent(c) ==
  IF c \in Paths \ Pages /\ ActiveIsChooser
  THEN Stack([pane EXCEPT !.contents[pane.index] = c])
  ELSE CanAdd(pane) /\ Stack(Added(pane, c))
UseStack ==
  /\ Used
  /\ \/ \E c \in Paths \cup {Chooser} : OpenContent(c)
     \/ pane.index > 0 /\ Stack(Removed(pane))
     \/ \E i \in 0..Len(pane.contents) : Stack(Showing(i))
  /\ UNCHANGED <<running, lives, template, policy, Opening>>

\* snapshot: the probe of a session that is not there says it is idle, and a leaf
\* whose probe fails keeps what it has.
Observed == LeafOf(leaf, IF lives THEN running ELSE Idle, leaf)
Snapshot ==
  /\ step # "closed" /\ \E l \in {leaf, Observed} : Persist(l, pane)
  /\ UNCHANGED <<pane, running, lives, template, policy, Opening>>

\* saveAsTemplate and saveProjectLayout; only what instantiate reads is kept here.
SaveLayout ==
  /\ Used /\ leaf' = Synced(leaf, pane)
  /\ template' = [command |-> leaf.command, file |-> leaf.file]
  /\ UNCHANGED <<pane, running, lives, stored, policy, Opening>>
\* openTerminalTab: the layout's pane takes the place of the one that is followed; it
\* has a new id, which no session has.
OpenLayout(t) ==
  LET new == Instantiate(t) IN
  /\ step = "open" /\ step' = "opening" /\ faultless' = TRUE
  /\ lives' = TRUE /\ running' = Typed(SpawnCommand(new))
  /\ leaf' = new /\ pane' = Terminal
  /\ UNCHANGED <<stored, template, policy, todo, starting, saved>>

-----------------------------------------------------------------------------
\* The app quits or dies, at any moment; its shells die with it, or with the
\* daemon, or live on in the daemon.
Quit ==
  /\ step # "closed" /\ step' = "closed" /\ leaf' = stored /\ pane' = Terminal /\ todo' = <<>>
  /\ saved' = IF starting THEN saved ELSE [contents |-> stored.contents,
                                            index |-> stored.index]
  /\ UNCHANGED <<running, lives, stored, template, policy, starting, faultless>>
SessionEnds ==
  /\ lives /\ lives' = FALSE /\ running' = Idle
  /\ UNCHANGED <<leaf, pane, stored, template, policy, Opening>>

Start ==
  /\ step = "closed" /\ step' = "opening" /\ starting' = TRUE /\ faultless' = TRUE
  /\ leaf' = stored /\ pane' = Terminal /\ Spawn(stored)
  /\ UNCHANGED <<stored, template, policy, todo, saved>>

\* The tab is open and what is in front of the pane is persisted.
IsOpen(p) == /\ step' = "open" /\ starting' = FALSE /\ pane' = p
             /\ leaf' = Synced(leaf, p) /\ stored' = leaf' /\ saved' = Terminal

\* grid.open() is done: restorePaneContents reads the leaf, which may have been
\* synced since, and opens its contents in turn, or the chooser of a file slot.
Slotted == IF CanAdd(pane) THEN Added(pane, Chooser) ELSE pane
PanesAreOpen ==
  /\ step = "opening"
  /\ IF leaf.contents = <<>> /\ leaf.file THEN IsOpen(Slotted) /\ UNCHANGED todo
     ELSE /\ step' = "restoring" /\ todo' = leaf.contents
          /\ UNCHANGED <<leaf, pane, stored, starting, saved>>
  /\ UNCHANGED <<running, lives, template, policy, faultless>>

\* A file that fails is not added; a page that fails is closed again.
RestoreContent ==
  /\ step = "restoring" /\ todo # <<>> /\ todo' = Tail(todo)
  /\ \/ /\ CanAdd(pane) /\ Stack(Added(pane, Head(todo))) /\ UNCHANGED faultless
     \/ /\ ~CanAdd(pane) \/ Head(todo) \notin Pages
        /\ faultless' = FALSE /\ UNCHANGED <<leaf, pane, stored>>
     \/ /\ CanAdd(pane) /\ Head(todo) \in Pages
        /\ faultless' = FALSE /\ Stack(Showing(0))
  /\ UNCHANGED <<running, lives, template, policy, step, starting, saved>>

\* At the end the content that was in front is shown, if there are as many.
Shown ==
  IF leaf.index <= Len(pane.contents) THEN Showing(leaf.index) ELSE pane
Restored ==
  /\ step = "restoring" /\ todo = <<>> /\ IsOpen(Shown)
  /\ UNCHANGED <<running, lives, template, policy, todo, faultless>>

RestoreNext ==
  \/ \E c \in Commands \cup {Idle} : ShellRuns(c)
  \/ \E p \in Policies : SetPolicy(p)
  \/ UseStack \/ Snapshot \/ SaveLayout \/ SessionEnds
  \/ \E t \in Declared \cup {template} : OpenLayout(t)
  \/ Quit \/ Start \/ PanesAreOpen \/ RestoreContent \/ Restored

RestoreSpec == RestoreInit /\ [][RestoreNext]_restoreVars

-----------------------------------------------------------------------------
(* Only what a template or layout declares is typed into a new shell under  *)
(* the policy "templates", and nothing under "never", whatever has been     *)
(* observed in the pane, saved as a layout and opened again: "observed      *)
(* state goes to lastCommand, never to the declared command" (panegrid.ts   *)
(* applySnapshot, app.ts spawnCommandFor).                                  *)
DeclaredCommands == {d.command : d \in Declared}
NewShell == (\E t \in Declared \cup {template} : OpenLayout(t)) \/ (Start /\ ~lives)
StaysOut ==
  NewShell => /\ policy = "never" => running' = Idle
              /\ policy = "templates" => running' \in {Typed(c) : c \in DeclaredCommands}
ObservedStaysOut == [][StaysOut]_restoreVars

(* A restart in which every content opens gives the saved stack back in     *)
(* its order and shows the content that was in front, whatever crashes and  *)
(* snapshots come between (app.ts restorePaneContents, panegrid.ts          *)
(* syncContents).  A pane without contents may get the chooser of its slot. *)
GivesBack ==
  Restored /\ starting /\ faultless /\ saved.contents \in Seq(Paths) \ {<<>>}
           /\ saved.index <= Len(saved.contents) => pane' = saved
GivesTheStackBack == [][GivesBack]_restoreVars
=============================================================================

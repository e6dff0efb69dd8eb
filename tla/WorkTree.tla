------------------------------ MODULE WorkTree ------------------------------
(***************************************************************************)
(* The file tree of the sidebar (filetree.ts) and the git marks on it      *)
(* (gitstatus.ts and app.ts): roots, listings, folders that open, the      *)
(* watcher's debounced refresh and the single flight of the git statuses.  *)
(*                                                                         *)
(* A root holds a folder "d" and the files "f" and "d/f", which come and   *)
(* go.  A listing that was asked for lets every other step in, and shows   *)
(* the disk as it is when it comes back.  A row is known by the setRoot    *)
(* that made its root, for the rows of an older root may still be held.    *)
(***************************************************************************)
EXTENDS Naturals, Sequences, FiniteSets, SequencesExt

CONSTANTS Roots, MaxRoots, MaxChanges   \* setRoots and changes on disk (bounds)

VARIABLES disk,        \* the files of the roots that exist
          rootPath, gen,  \* the root in the header, and how many were set
          rows,        \* of [gen, root, rel], from top to bottom
          expanded,    \* gens whose folder row is expanded
          listing,     \* setRoots whose listing is to come: [gen, root]
          unfolding,     \* per gen the expands whose listing is to come
          refresh,     \* the refresh under way: [step, rows, opens]
          overlapped,  \* two listings were under way at a time
          panelShown, watched,
          treeTimer, gitTimer,
          gitInFlight, gitPending,
          unfetched,   \* a trigger since the last fetch began
          changes

treeVars == <<disk, rootPath, gen, rows, expanded, listing, unfolding, refresh,
              overlapped, panelShown, watched, treeTimer, gitTimer, gitInFlight,
              gitPending, unfetched, changes>>
gitVars == <<gitInFlight, gitPending, unfetched>>
rowVars == <<rootPath, gen, rows, expanded, listing, unfolding, refresh, overlapped>>

NoRefresh == [step |-> "none", rows |-> <<>>, opens |-> FALSE]
Row(g, root, rel) == [gen |-> g, root |-> root, rel |-> rel]
TreeInit ==
  /\ disk = {} /\ rootPath = "none" /\ gen = 0 /\ rows = <<>> /\ expanded = {}
  /\ listing = {} /\ unfolding = [g \in 1..MaxRoots |-> 0] /\ refresh = NoRefresh
  /\ overlapped = FALSE /\ panelShown = TRUE /\ watched = "none"
  /\ treeTimer = FALSE /\ gitTimer = FALSE /\ gitInFlight = FALSE /\ gitPending = FALSE
  /\ unfetched = FALSE /\ changes = 0

\* listWithGhosts: folders first; the ghost of a deleted file stands where the
\* file stood and is not told apart here.
Top(g, root) == <<Row(g, root, "d")>>
             \o IF "f" \in disk THEN <<Row(g, root, "f")>> ELSE <<>>
Inside(g, root) == IF "d/f" \in disk THEN <<Row(g, root, "d/f")>> ELSE <<>>
Busy == \/ listing # {} \/ refresh.step # "none"
        \/ \E g \in DOMAIN unfolding : unfolding[g] > 0

\* refreshGitStatuses: every trigger (re)arms one timer.
GitTrigger == gitTimer' = TRUE /\ unfetched' = TRUE
NoTrigger == UNCHANGED <<gitTimer, unfetched>>

\* setRoot up to its listing.
SetRoot(root) ==
  /\ gen < MaxRoots /\ gen' = gen + 1 /\ rootPath' = root
  /\ listing' = listing \cup {[gen |-> gen + 1, root |-> root]}
  /\ overlapped' = (overlapped \/ Busy)
  /\ UNCHANGED <<rows, expanded, unfolding, refresh>>
StartRefresh(opens) ==
  /\ refresh' = [step |-> "root", rows |-> rows, opens |-> opens]
  /\ overlapped' = (overlapped \/ Busy)
  /\ UNCHANGED <<rootPath, gen, rows, expanded, listing, unfolding>>

\* openWorkspaceTree, up to the listing and after it.
OpenTree(root) ==
  /\ panelShown
  /\ \/ root # rootPath /\ SetRoot(root) /\ NoTrigger /\ UNCHANGED watched
     \/ /\ root = rootPath /\ refresh.step = "none" /\ StartRefresh(TRUE)
        /\ NoTrigger /\ UNCHANGED watched
     \/ /\ root = rootPath /\ refresh.step # "none" /\ UNCHANGED rowVars
        /\ watched' = root /\ GitTrigger
  /\ UNCHANGED <<disk, panelShown, treeTimer, gitInFlight, gitPending, changes>>
RootLists(l) ==
  /\ l \in listing /\ listing' = listing \ {l}
  /\ rows' = Top(l.gen, l.root) /\ watched' = l.root /\ GitTrigger
  /\ UNCHANGED <<disk, rootPath, gen, expanded, unfolding, refresh, overlapped,
                 panelShown, treeTimer, gitInFlight, gitPending, changes>>

\* refresh: the root, then the folder if its row is expanded by then.
Reused(rel) == \E i \in DOMAIN refresh.rows : refresh.rows[i].rel = rel
                                             /\ refresh.rows[i].root = rootPath
GenOf(rel) == IF Reused(rel)
              THEN (CHOOSE r \in ToSet(refresh.rows) :
                      r.rel = rel /\ r.root = rootPath).gen
              ELSE gen
\* The new rows; what openWorkspaceTree refreshed is watched and marked next.
EndRefresh(rs) ==
  /\ rows' = rs /\ refresh' = NoRefresh
  /\ IF refresh.opens THEN watched' = rootPath /\ GitTrigger
                      ELSE UNCHANGED watched /\ NoTrigger
RefreshListsTop ==
  LET top == Top(GenOf("d"), rootPath) IN
  /\ refresh.step = "root"
  /\ IF GenOf("d") \in expanded
     THEN /\ refresh' = [refresh EXCEPT !.step = "folder", !.rows = top]
          /\ UNCHANGED <<rows, watched>> /\ NoTrigger
     ELSE EndRefresh(top)
  /\ UNCHANGED <<disk, rootPath, gen, expanded, listing, unfolding, overlapped,
                 panelShown, treeTimer, gitInFlight, gitPending, changes>>
RefreshListsFolder ==
  /\ refresh.step = "folder"
  /\ EndRefresh(<<refresh.rows[1]>> \o Inside(GenOf("d"), rootPath) \o Tail(refresh.rows))
  /\ UNCHANGED <<disk, rootPath, gen, expanded, listing, unfolding, overlapped,
                 panelShown, treeTimer, gitInFlight, gitPending, changes>>

\* A click or key on the folder row: it folds at once or lists first.  After an
\* overlap the folder is left as it is (bound).
FolderRow(g) == \E r \in ToSet(rows) : r.rel = "d" /\ r.gen = g
Expand(g) ==
  /\ FolderRow(g) /\ g \notin expanded /\ ~overlapped
  /\ expanded' = expanded \cup {g} /\ unfolding' = [unfolding EXCEPT ![g] = @ + 1]
  /\ overlapped' = (overlapped \/ Busy)
  /\ UNCHANGED <<disk, rootPath, gen, rows, listing, refresh, panelShown, watched,
                 treeTimer, gitTimer, gitVars, changes>>
FolderPlace(g) == SelectInSeq(rows, LAMBDA r : r.rel = "d" /\ r.gen = g)
\* The children go below the row, or to the top when the row is gone.
FolderLists(g) ==
  LET i == FolderPlace(g)
      root == IF i = 0 THEN rootPath ELSE rows[i].root IN
  /\ unfolding[g] > 0 /\ unfolding' = [unfolding EXCEPT ![g] = @ - 1]
  /\ rows' = SubSeq(rows, 1, i) \o Inside(g, root) \o SubSeq(rows, i + 1, Len(rows))
  /\ UNCHANGED <<disk, rootPath, gen, expanded, listing, refresh, overlapped, panelShown,
                 watched, treeTimer, gitTimer, gitVars, changes>>
\* Mutant of Folded: a collapsed folder keeps its rows.
UnfoldedNone(g) == rows
\* The deeper rows that follow the folder's go.
Folded(g) == LET i == FolderPlace(g) + 1 IN
             IF i <= Len(rows) /\ rows[i].rel = "d/f" THEN RemoveAt(rows, i) ELSE rows
Collapse(g) ==
  /\ FolderRow(g) /\ g \in expanded /\ ~overlapped /\ expanded' = expanded \ {g}
  /\ rows' = Folded(g) /\ overlapped' = (overlapped \/ Busy)
  /\ UNCHANGED <<disk, rootPath, gen, listing, unfolding, refresh, panelShown, watched,
                 treeTimer, gitTimer, gitVars, changes>>

\* The panel opens on the tree of the active tab, and closes with its watch.
ShowPanel(root) ==
  /\ ~panelShown /\ panelShown' = TRUE
  /\ IF root # rootPath THEN SetRoot(root) /\ NoTrigger /\ UNCHANGED watched
     ELSE IF refresh.step = "none" THEN
               StartRefresh(TRUE) /\ NoTrigger /\ UNCHANGED watched
     ELSE UNCHANGED rowVars /\ watched' = root /\ GitTrigger
  /\ UNCHANGED <<disk, treeTimer, gitInFlight, gitPending, changes>>
HidePanel == /\ panelShown /\ panelShown' = FALSE /\ watched' = "none"
             /\ UNCHANGED <<disk, rowVars, treeTimer, gitTimer, gitVars, changes>>

\* A file comes or goes; the watcher, if there is one, arms onTreeChanged's timer.
DiskChanges(f) ==
  /\ changes < MaxChanges /\ changes' = changes + 1
  /\ disk' = (disk \cup {f}) \ (disk \cap {f})
  /\ treeTimer' = (treeTimer \/ watched # "none")
  /\ UNCHANGED <<rowVars, panelShown, watched, gitTimer, gitVars>>
TreeTimer ==
  /\ treeTimer /\ treeTimer' = FALSE /\ GitTrigger
  /\ IF panelShown /\ rootPath # "none" /\ refresh.step = "none" THEN StartRefresh(FALSE)
     ELSE UNCHANGED rowVars
  /\ UNCHANGED <<disk, panelShown, watched, gitInFlight, gitPending, changes>>
\* git-changed, the window's focus: a trigger of its own.
GitEvent == /\ ~unfetched /\ changes < MaxChanges /\ changes' = changes + 1 /\ GitTrigger
            /\ UNCHANGED <<disk, rowVars, panelShown, watched, treeTimer, gitInFlight,
                           gitPending>>

\* Mutant of GitRefreshDecision: a trigger during a fetch is dropped.
DecisionDrops == IF ~panelShown \/ rootPath = "none" \/ gitInFlight THEN "skip" ELSE "run"
\* gitRefreshDecision, with statusInTree on.
GitRefreshDecision ==
  IF ~panelShown \/ rootPath = "none" THEN "skip"
  ELSE IF gitInFlight THEN "defer"
  ELSE "run"
RunGitStatusRefresh ==
  /\ gitTimer /\ gitTimer' = FALSE
  /\ gitInFlight' = (gitInFlight \/ GitRefreshDecision = "run")
  /\ gitPending' = (gitPending \/ GitRefreshDecision = "defer")
  /\ unfetched' = (unfetched /\ GitRefreshDecision # "run")
  /\ UNCHANGED <<disk, rowVars, panelShown, watched, treeTimer, changes>>
\* The statuses, or an error, come back; a deferred trigger arms the timer again.
GitSettles ==
  /\ gitInFlight /\ gitInFlight' = FALSE /\ gitPending' = FALSE
  /\ gitTimer' = (gitTimer \/ gitPending)
  /\ UNCHANGED <<disk, rowVars, panelShown, watched, treeTimer, unfetched, changes>>

ListingReturns == \E l \in listing : RootLists(l)

TreeNext ==
  \/ \E root \in Roots : OpenTree(root) \/ ShowPanel(root)
  \/ ListingReturns
  \/ RefreshListsTop \/ RefreshListsFolder
  \/ \E g \in 1..gen : Expand(g) \/ FolderLists(g) \/ Collapse(g)
  \/ HidePanel \/ \E f \in {"f", "d/f"} : DiskChanges(f)
  \/ TreeTimer \/ GitEvent \/ RunGitStatusRefresh \/ GitSettles

-----------------------------------------------------------------------------
\* A trigger for the git marks still waits for its fetch, and the panel shows.
MarksAreOld == unfetched /\ panelShown /\ rootPath # "none"

\* As long as no two listings were under way at a time, the tree is the root in its
\* header with its folder open or not, every path once and every child under its
\* folder, though files came, went or were refreshed.
OneRowPerPath ==
  (~overlapped /\ ~Busy /\ rows # <<>>) =>
     /\ \A i, j \in DOMAIN rows : rows[i].rel = rows[j].rel => i = j
     /\ \A r \in ToSet(rows) : r.root = rootPath
     /\ rows[1].rel = "d"
     /\ (\E r \in ToSet(rows) : r.rel = "d/f") =>
            rows[1].gen \in expanded /\ rows[2].rel = "d/f"
=============================================================================

----------------------------- MODULE TodoPanel -----------------------------
(***************************************************************************)
(* The TODO panel of the sidebar (todopanel.ts), the capture and detail    *)
(* modal (todomodal.ts) and what the window does with them (app.ts),       *)
(* against the store of tasks behind the todo_* commands.                  *)
(*                                                                         *)
(* The commands are synchronous in the back end: they run, and answer, in  *)
(* the order in which they were sent (calls, then answers).  A toggle and  *)
(* a reorder change the panel at once; the other operations change the     *)
(* store and read the list again.  Positions are multiples of 1/Unit.      *)
(***************************************************************************)
EXTENDS Integers, Sequences, FiniteSets, SequencesExt

CONSTANTS
    TodoProjects,   \* the projects of the window
    Unit,           \* what is 1 between two positions: even as often as it is halved
    MaxTasks,       \* bounds the tasks ever added
    MaxMoves,       \* bounds the toggles and reorders
    MaxPending      \* bounds the commands under way, with the tasks added

VARIABLES
    store,          \* the tasks of the data base, by id
    added,          \* the ids given so far
    items,          \* the list the panel shows; a row per item
    projectId,      \* TodoPanel.projectId
    selectedTask,   \* the index of the selected row
    calls, answers, \* the commands sent, and their answers still to be read
    moves,          \* the toggles and reorders made so far
    stale           \* the list on screen is older than a change (see below)

todoVars ==
    <<store, added, items, projectId, selectedTask, calls, answers, moves, stale>>

-----------------------------------------------------------------------------
(* sortItems: the open tasks by position, then the done ones, last first;  *)
(* what is equal stays in its order.                                       *)
Rank(t) == IF t.done THEN -t.at ELSE t.pos

Above(s, i) ==
    {j \in DOMAIN s :
        \/ ~s[j].done /\ s[i].done
        \/ s[j].done = s[i].done /\ Rank(s[j]) < Rank(s[i])
        \/ s[j].done = s[i].done /\ Rank(s[j]) = Rank(s[i]) /\ j < i}

SortItems(s) ==
    [k \in DOMAIN s |-> s[CHOOSE i \in DOMAIN s : Cardinality(Above(s, i)) = k - 1]]

(* The rows of a table at the places of a set, in their order.             *)
Under(at, i) == {j \in at : j < i}

Tasks(s, at) ==
    [k \in 1..Cardinality(at) |->
        s[CHOOSE i \in at : Cardinality(Under(at, i)) = k - 1]]

TasksOf(p) == Tasks(store, {i \in DOMAIN store : store[i].project = p})

Clamp(i, s) == IF s = <<>> \/ i < 1 THEN 1 ELSE IF i > Len(s) THEN Len(s) ELSE i

List(p) == [kind |-> "list", project |-> p, id |-> 0, arg |-> 0]

(* reload does nothing without a project.                                  *)
Reload == IF projectId = "null" THEN <<>> ELSE <<List(projectId)>>

Positions(s, k) == SelectInSeq(s, LAMBDA i : i.id = k)

-----------------------------------------------------------------------------
TodoInit ==
    /\ store = <<>> /\ added = 0 /\ items = <<>>
    /\ projectId = "null"
    /\ selectedTask = 1
    /\ calls = <<>> /\ answers = <<>>
    /\ moves = 0 /\ stale = FALSE

(* setProject: the list of the new project is asked for, and the old one   *)
(* stays until the answer; without a project the list is emptied at once.  *)
SetProject(p) ==
    /\ projectId' = p
    /\ selectedTask' = 1
    /\ items' = IF p = "null" THEN <<>> ELSE items
    /\ calls' = IF p = "null" THEN calls ELSE Append(calls, List(p))

(* A bound: fewer commands at once the more tasks were added.              *)
Room == Len(calls) + Len(answers) + added < MaxPending

(* A tab is activated: setActiveProject.                                   *)
ActivateProject(p) ==
    /\ Room
    /\ SetProject(p)
    /\ UNCHANGED <<store, added, answers, moves, stale>>

Select(i) ==
    /\ i \in 1..Len(items)
    /\ selectedTask' = i
    /\ UNCHANGED <<store, added, items, projectId, calls, answers, moves, stale>>

(* The quick-add field is committed: the task goes to the project of then. *)
QuickAdd ==
    /\ projectId # "null" /\ Room
    /\ calls' = Append(calls, [kind |-> "add", project |-> projectId,
                               id |-> 0, arg |-> 0])
    /\ UNCHANGED <<store, added, items, projectId, selectedTask, answers, moves, stale>>

(* toggleSelected: the row flips and sinks before the command is answered. *)
ToggleSelected ==
    /\ Room /\ moves < MaxMoves
    /\ selectedTask \in 1..Len(items)
    /\ LET todo == items[selectedTask]
       IN  /\ items' = SortItems([items EXCEPT ![selectedTask].done = ~@])
           /\ calls' = Append(calls, [kind |-> "toggle", project |-> "null",
                                      id |-> todo.id, arg |-> IF todo.done THEN 1 ELSE 0])
    /\ moves' = moves + 1
    /\ UNCHANGED <<store, added, projectId, selectedTask, answers, stale>>

(* reorderSelected: half-way between the neighbour and the one beyond it,  *)
(* or one past the neighbour at an end of the list.                        *)
NewPosition(idx, dir) ==
    IF idx + 2 * dir \in 1..Len(items)
    THEN (items[idx + dir].pos + items[idx + 2 * dir].pos) \div 2
    ELSE items[idx + dir].pos + dir * Unit

ReorderSelected(dir) ==
    /\ Room /\ moves < MaxMoves
    /\ selectedTask \in 1..Len(items) /\ selectedTask + dir \in 1..Len(items)
    /\ LET todo == items[selectedTask]
           pos == NewPosition(selectedTask, dir)
           sorted == SortItems([items EXCEPT ![selectedTask].pos = pos])
       IN  /\ items' = sorted
           /\ selectedTask' = Positions(sorted, todo.id)
           /\ calls' = Append(calls, [kind |-> "reorder", project |-> "null",
                                      id |-> todo.id, arg |-> pos])
    /\ moves' = moves + 1
    /\ UNCHANGED <<store, added, projectId, answers, stale>>

(* dd: the second d deletes the row that is selected by then.              *)
DeleteSelected ==
    /\ Room
    /\ selectedTask \in 1..Len(items)
    /\ calls' = Append(calls, [kind |-> "delete", project |-> "null",
                               id |-> items[selectedTask].id, arg |-> 0])
    /\ UNCHANGED <<store, added, items, projectId, selectedTask, answers, moves, stale>>

-----------------------------------------------------------------------------
(* save of the modal for a new task (k = 0) or one the panel lists.  Its   *)
(* project is that of the active tab when it opened, which is not always   *)
(* the panel's: a tab that was closed, or one that is still opening, left  *)
(* the panel as it was.  Nothing disables the field meanwhile, so Enter    *)
(* twice saves twice.  A new task with a priority, a date or a note takes  *)
(* a second command.                                                       *)
SaveModal(k, p, meta) ==
    /\ Room
    /\ k = 0 \/ (~meta /\ \E i \in 1..Len(items) : items[i].id = k)
    /\ calls' = Append(calls, [kind |-> IF k = 0 THEN "saveNew" ELSE "saveEdit",
                               project |-> p, id |-> k, arg |-> IF meta THEN 1 ELSE 0])
    /\ UNCHANGED <<store, added, items, projectId, selectedTask, answers, moves, stale>>

-----------------------------------------------------------------------------
NextPosition(p) ==
    LET todo == {i \in DOMAIN store : store[i].project = p /\ ~store[i].done}
        taken == IF todo = {} THEN {0} ELSE {store[i].pos : i \in todo}
    IN  (CHOOSE m \in taken : \A o \in taken : o <= m) + Unit

Added(p) == Append(store, [id |-> added + 1, project |-> p, done |-> FALSE,
                           pos |-> NextPosition(p), at |-> 0])

Toggled(k) ==
    [i \in DOMAIN store |->
        IF store[i].id = k
        THEN [store[i] EXCEPT !.done = ~@, !.at = IF store[i].done THEN 0 ELSE moves]
        ELSE store[i]]

Reordered(k, pos) ==
    [i \in DOMAIN store |->
        IF store[i].id = k THEN [store[i] EXCEPT !.pos = pos] ELSE store[i]]

Deleted(k) == Tasks(store, {i \in DOMAIN store : store[i].id # k})

Changed(c) ==
    CASE c.kind \in {"add", "saveNew"} -> Added(c.project)
      [] c.kind = "toggle" -> Toggled(c.id)
      [] c.kind = "reorder" -> Reordered(c.id, c.arg)
      [] c.kind = "delete" -> Deleted(c.id)
      [] c.kind \in {"list", "saveEdit"} -> store

(* The store runs the next command, which may fail (the data base is not   *)
(* open, or the disk is full).                                             *)
Serve(ok) ==
    /\ calls # <<>>
    /\ LET c == Head(calls)
           adds == ok /\ c.kind \in {"add", "saveNew"}
       IN  /\ adds => added < MaxTasks                              \* bound
           /\ added' = added + (IF adds THEN 1 ELSE 0)
           /\ store' = IF ok THEN Changed(c) ELSE store
           /\ answers' = Append(answers,
                  [kind |-> c.kind, project |-> c.project, id |-> c.id, arg |-> c.arg,
                   ok |-> ok,
                   found |-> IF c.kind = "list" THEN TasksOf(c.project) ELSE <<>>])
    /\ calls' = Tail(calls)
    /\ UNCHANGED <<items, projectId, selectedTask, moves, stale>>

(* A list replaces the rows.                                               *)
ListArrives(a) ==
    /\ IF a.ok
       THEN /\ items' = SortItems(a.found)
            /\ selectedTask' = Clamp(selectedTask, a.found)
            /\ stale' = \E c \in ToSet(Tail(answers) \o calls) :
                           c.kind \in {"toggle", "reorder"}
       ELSE /\ stale' = TRUE
            /\ UNCHANGED <<items, selectedTask>>
    /\ UNCHANGED <<calls, projectId>>

(* A task was added or deleted: the list is read again, unless it failed.  *)
ChangeArrives(a) ==
    /\ calls' = IF a.ok THEN calls \o Reload ELSE calls
    /\ UNCHANGED <<items, projectId, selectedTask, stale>>

(* A failed toggle puts the mark back before it reads the list; a failed   *)
(* reorder only reads it.                                                  *)
Reverted(a) ==
    IF a.kind = "toggle"
    THEN [i \in DOMAIN items |->
             IF items[i].id = a.id THEN [items[i] EXCEPT !.done = (a.arg = 1)]
             ELSE items[i]]
    ELSE items

\* Mutant of MoveArrives: the order the panel shows is left as it is.
MoveKept(a) == UNCHANGED <<items, projectId, selectedTask, calls, stale>>

MoveArrives(a) ==
    IF a.ok
    THEN UNCHANGED <<items, projectId, selectedTask, calls, stale>>
    ELSE /\ items' = Reverted(a)
         /\ calls' = calls \o Reload
         /\ UNCHANGED <<projectId, selectedTask, stale>>

(* The modal was saved: the panel is set to the project of the modal.  A   *)
(* command of the save that fails ends it there, and the modal stays: a    *)
(* new task whose second command failed is not listed.                     *)
SaveArrives(a) ==
    \/ /\ a.ok /\ a.kind = "saveNew" /\ a.arg = 1
       /\ calls' = Append(calls, [kind |-> "saveEdit", project |-> a.project,
                                  id |-> a.id, arg |-> 1])
       /\ UNCHANGED <<items, projectId, selectedTask, stale>>
    \/ /\ a.ok /\ ~(a.kind = "saveNew" /\ a.arg = 1)
       /\ SetProject(a.project)
       /\ UNCHANGED stale
    \/ /\ ~a.ok
       /\ stale' = (stale \/ (a.kind = "saveEdit" /\ a.arg = 1))
       /\ UNCHANGED <<items, projectId, selectedTask, calls>>

Answer ==
    /\ answers # <<>>
    /\ LET a == Head(answers)
       IN  \/ a.kind = "list" /\ ListArrives(a)
           \/ a.kind \in {"add", "delete"} /\ ChangeArrives(a)
           \/ a.kind \in {"toggle", "reorder"} /\ MoveArrives(a)
           \/ a.kind \in {"saveNew", "saveEdit"} /\ SaveArrives(a)
    /\ answers' = Tail(answers)
    /\ UNCHANGED <<store, added, moves>>

TodoNext ==
    \/ \E p \in TodoProjects \cup {"null"} : ActivateProject(p)
    \/ \E p \in TodoProjects, k \in 0..MaxTasks, meta \in BOOLEAN : SaveModal(k, p, meta)
    \/ \E i \in 1..MaxTasks : Select(i)
    \/ QuickAdd \/ ToggleSelected \/ DeleteSelected
    \/ \E dir \in {-1, 1} : ReorderSelected(dir)
    \/ \E ok \in BOOLEAN : Serve(ok)
    \/ Answer

-----------------------------------------------------------------------------
Marks(s) == {<<i.id, i.done, i.pos>> : i \in ToSet(s)}

(***************************************************************************)
(* When no command is under way the panel shows the tasks of its project   *)
(* as the store has them: whatever was added, deleted, ticked, moved,      *)
(* saved from the modal, refused by the store or asked for by another      *)
(* project meanwhile.  Three cases are out (stale): a list that failed, a  *)
(* list that was read before a tick or a move it then paints over, and a   *)
(* save that failed half-way.                                              *)
(***************************************************************************)
PanelAgrees ==
    (calls = <<>> /\ answers = <<>> /\ ~stale /\ projectId # "null")
        => Marks(items) = Marks(TasksOf(projectId))
=============================================================================

----------------------------- MODULE AgentBoard -----------------------------
(***************************************************************************)
(* The orchestration board (orchestration.ts): the agent sessions of all   *)
(* tabs in groups, the longest waiting first, with a selection the arrow   *)
(* keys move.  It is drawn again at every state event while it is open     *)
(* (app.ts bindSessionStateEvents), and the selection is a place in the    *)
(* list, so what is selected may be another session after each event.      *)
(***************************************************************************)
EXTENDS Integers, Sequences, FiniteSets, SequencesExt

CONSTANTS Agents,    \* sessions with an agent in them
          MaxFlips   \* state changes (bound)

VARIABLES kind,          \* the state of each session in the store, "none" at first
          since,         \* the sessions with a state, by the time it was entered
          gone,          \* sessions whose pane was closed
          open, listed,  \* OrchestrationBoard: overlay, rows (as a set of ids)
          shown,         \* the state each row is drawn with
          nav,           \* the items the arrows go through, in their order
          selected, doneExpanded,
          lastKind,      \* the state each session was last listed with
          flashing,      \* rows drawn with the flash of a change
          activated,     \* the item the last Enter or click took
          flips

boardVars == <<kind, since, gone, open, listed, shown, nav, selected, doneExpanded,
               lastKind, flashing, activated, flips>>
storeVars == <<kind, since, gone, flips>>

Kinds == {"waiting", "errored", "working", "done"}
Toggle == "toggle"
\* trackedRows: the panes there are, with a state.
Tracked == ToSet(since) \ gone

BoardInit ==
  /\ kind = [a \in Agents |-> "none"] /\ since = <<>> /\ gone = {} /\ open = FALSE
  /\ listed = {} /\ shown = kind /\ nav = <<>> /\ selected = 1 /\ doneExpanded = FALSE
  /\ lastKind = kind /\ flashing = {} /\ activated = "none" /\ flips = 0

\* A group: the longest in its state first; the done ones the other way round.
TimePlace(a) == CHOOSE i \in DOMAIN since : since[i] = a
ByTime(g) == [i \in 1..Cardinality(g) |->
                CHOOSE a \in g :
                  Cardinality({b \in g : TimePlace(b)' < TimePlace(a)'}) = i - 1]
Group(rs, ks, k) == ByTime({a \in rs : ks[a] = k})
Items(rs, ks, withDone) ==
  Group(rs, ks, "waiting") \o Group(rs, ks, "errored") \o Group(rs, ks, "working")
  \o (IF \E a \in rs : ks[a] = "done" THEN <<Toggle>> ELSE <<>>)
  \o (IF withDone THEN Reverse(Group(rs, ks, "done")) ELSE <<>>)
\* renderList keeps the selection inside the list it draws; an empty one is left.
\* Mutant of Clamped: the selection stays where it was.
Unclamped(n) == selected' = selected
Clamped(n) == selected' = IF n = 0 THEN selected ELSE IF selected > n THEN n ELSE selected
RenderList(rs, ks, withDone) == nav' = Items(rs, ks, withDone) /\ Clamped(Len(nav'))
\* setRows: what changed to a state that wants the user since it was last listed flashes.
SetRows(rs, ks, withDone) ==
  /\ listed' = rs /\ shown' = ks
  /\ flashing' = {a \in rs : /\ lastKind[a] \notin {"none", ks[a]}
                             /\ ks[a] \in {"waiting", "errored"}}
  /\ lastKind' = [a \in Agents |-> IF a \in rs THEN ks[a] ELSE "none"]
  /\ RenderList(rs, ks, withDone)

\* applyEvent keeps the time of a state that stays the same; the board is refreshed.
Event(a, k) ==
  /\ a \notin gone /\ flips < MaxFlips /\ flips' = flips + 1
  /\ kind' = [kind EXCEPT ![a] = k]
  /\ since' = IF kind[a] = k THEN since ELSE Append(RemoveFirst(since, a), a)
  /\ IF open THEN SetRows(ToSet(since') \ gone, kind', doneExpanded)
     ELSE UNCHANGED <<listed, shown, nav, selected, lastKind, flashing>>
  /\ UNCHANGED <<gone, open, doneExpanded, activated>>
\* A shell exits: its row stays until the next event.
PaneCloses(a) ==
  /\ a \in Tracked /\ gone' = gone \cup {a}
  /\ UNCHANGED <<kind, since, open, listed, shown, nav, selected, doneExpanded, lastKind,
                 flashing, activated, flips>>

OpenBoard ==
  /\ ~open /\ open' = TRUE /\ doneExpanded' = FALSE
  /\ UNCHANGED <<storeVars, activated>> /\ SetRows(Tracked, kind, FALSE)
Close == open' = FALSE /\ listed' = {} /\ nav' = <<>> /\ flashing' = {}
CloseBoard == /\ open /\ Close
              /\ UNCHANGED <<storeVars, shown, selected, doneExpanded, lastKind,
                             activated>>
Move(delta) ==
  /\ open /\ nav # <<>>
  /\ selected' = ((selected - 1 + delta + Len(nav)) % Len(nav)) + 1
  /\ UNCHANGED <<storeVars, open, listed, shown, nav, doneExpanded, lastKind, flashing,
                 activated>>
ToggleDone == /\ doneExpanded' = ~doneExpanded /\ flashing' = {}
              /\ UNCHANGED <<storeVars, open, listed, shown, lastKind>>
              /\ RenderList(listed, shown, ~doneExpanded)
\* Enter, or a click on a row: the board closes and the session's pane comes to the front.
Take(i) == /\ activated' = nav[i]
           /\ IF nav[i] = Toggle THEN ToggleDone
              ELSE Close /\ UNCHANGED <<storeVars, shown, selected, doneExpanded,
                                        lastKind>>
ActivateSelected == open /\ selected \in DOMAIN nav /\ Take(selected)
ClickRow(i) == open /\ i \in DOMAIN nav /\ Take(i)

BoardNext == \/ \E a \in Agents : PaneCloses(a) \/ \E k \in Kinds : Event(a, k)
             \/ OpenBoard \/ CloseBoard \/ ActivateSelected
             \/ \E d \in {1, -1} : Move(d)
             \/ \E i \in DOMAIN nav : ClickRow(i)

-----------------------------------------------------------------------------
\* However the list shrinks under it, between two openings or while it is shown, the
\* selection is on one of its items: Enter and the arrows always have one to act on
\* (orchestration.ts renderList, move, activateSelected).
SomethingIsSelected == open /\ nav # <<>> => selected \in DOMAIN nav
=============================================================================

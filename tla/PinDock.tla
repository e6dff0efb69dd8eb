------------------------------ MODULE PinDock ------------------------------
(***************************************************************************)
(* The pinned dock of the main window (app.ts): two cells beside the tabs, *)
(* each empty or with a browser, a terminal, a focus timer or a file; how  *)
(* they are filled, focused, closed, saved and restored.                   *)
(*                                                                         *)
(* A cell is filled at once and its content opens afterwards; whatever     *)
(* comes back (the content opened, failed, exited) names the place and not *)
(* the content.  Saved is what the store holds; a restart reads it.        *)
(***************************************************************************)
EXTENDS Naturals, FiniteSets

CONSTANT MaxContents   \* contents ever pinned (bound)

VARIABLES cells,       \* pinCells: the content of each place, 0 when empty
          kind,        \* what each content is
          place,       \* the place its callbacks name
          running,     \* contents whose process or webview is not disposed
          opening,     \* contents whose open() has not come back
          thenFocus,   \* ... of which the place gets the focus then
          focusedPin,  \* place, or 0
          bootDock,    \* the dock in the store when the window started
          at,          \* the next place restorePinDock looks at
          restored,    \* pinDockRestored
          savedDock,
          front        \* what the active pane shows: can it be pinned?

pinVars == <<cells, kind, place, running, opening, thenFocus, focusedPin, bootDock, at,
             restored, savedDock, front>>

Places == 1..2
Contents == 1..MaxContents
Fresh == Contents \ DOMAIN kind
Kinds == {"browser", "terminal", "timer"}

PinInit ==
  /\ cells = [p \in Places |-> 0] /\ kind = <<>> /\ place = <<>>
  /\ running = {} /\ opening = {} /\ thenFocus = {} /\ focusedPin = 0
  /\ bootDock \in [Places -> Kinds \cup {"none"}] /\ at = 1 /\ restored = FALSE
  /\ savedDock = bootDock /\ front \in {"shell", "browser", "file"}

Visible(cs) == \E p \in Places : cs[p] # 0
Free(cs) == {p \in Places : cs[p] = 0}
FirstFree(cs) == CHOOSE p \in Free(cs) : \A q \in Free(cs) : p <= q

\* The dock as persist() writes it: a pinned file has no place in the store.
Written(cs, ks) == [p \in Places |-> IF cs[p] = 0 \/ ks[cs[p]] = "file"
                                     THEN "none" ELSE ks[cs[p]]]
\* Mutant of Persist: the dock is written before it has been restored.
PersistAlways(cs, ks) == savedDock' = Written(cs, ks)
Persist(cs, ks) == savedDock' = IF restored THEN Written(cs, ks) ELSE savedDock

\* placeInCell: content c of kind k goes to place p, over what is there.
PlaceInCell(p, c, k) ==
  /\ cells' = [cells EXCEPT ![p] = c]
  /\ kind' = [x \in DOMAIN kind \cup {c} |-> IF x = c THEN k ELSE kind[x]]
  /\ place' = [x \in DOMAIN place \cup {c} |-> IF x = c THEN p ELSE place[x]]
  /\ running' = running \cup {c}
  /\ Persist(cells', kind')
\* open{Browser,Terminal,Timer}InCell: a timer needs no opening.
OpenInCell(p, k) ==
  LET c == CHOOSE x \in Fresh : \A y \in Fresh : x <= y IN
  /\ Fresh # {} /\ PlaceInCell(p, c, k)
  /\ opening' = IF k = "timer" THEN opening ELSE opening \cup {c}

\* unpinCell: the content is disposed, and nothing happens in an empty cell.
UnpinCell(p) ==
  /\ cells' = [cells EXCEPT ![p] = 0]
  /\ running' = running \ {cells[p]}
  /\ focusedPin' = IF cells[p] # 0 /\ focusedPin = p THEN 0 ELSE focusedPin
  /\ Persist(cells', kind)

\* restorePinDock: place after place, each content opened before the next one.
Awaited == \E c \in opening : c \in running /\ place[c] = at - 1 /\ c \notin thenFocus
RestoreCell ==
  /\ ~restored /\ at \in Places /\ ~Awaited /\ at' = at + 1
  /\ IF bootDock[at] = "none"
     THEN UNCHANGED <<cells, kind, place, running, opening, savedDock>>
     ELSE OpenInCell(at, bootDock[at])
  /\ UNCHANGED <<thenFocus, focusedPin, bootDock, restored, front>>
DockRestored ==
  /\ ~restored /\ at \notin Places /\ ~Awaited /\ restored' = TRUE
  /\ savedDock' = Written(cells, kind)
  /\ UNCHANGED <<cells, kind, place, running, opening, thenFocus, focusedPin, bootDock,
                 at, front>>

\* ⌘⌃T, ⌘⌃B, ⌘⌃F: the focused empty cell, or the first one.
AddToPinDock(k) ==
  LET p == IF focusedPin \in Free(cells) THEN focusedPin ELSE FirstFree(cells)
      c == CHOOSE x \in Fresh : \A y \in Fresh : x <= y IN
  /\ Free(cells) # {} /\ OpenInCell(p, k)
  /\ IF k = "timer" THEN focusedPin' = p /\ UNCHANGED thenFocus
                    ELSE thenFocus' = thenFocus \cup {c} /\ UNCHANGED focusedPin
  /\ UNCHANGED <<bootDock, at, restored, front>>
\* A row of the picker, which opens on an empty cell and outlives it.
Picks(p, k) == /\ p \in Free(cells) /\ OpenInCell(p, k)
               /\ UNCHANGED <<thenFocus, focusedPin, bootDock, at, restored, front>>
\* ⌘⌃P on a hidden dock: pinActiveContent, and a timer below it.
OpenDock ==
  LET c == CHOOSE x \in Fresh : \A y \in Fresh : x <= y
      d == CHOOSE x \in Fresh \ {c} : \A y \in Fresh \ {c} : x <= y
      k == IF front = "shell" THEN "browser" ELSE front IN
  /\ ~Visible(cells) /\ Cardinality(Fresh) > 1
  /\ cells' = [p \in Places |-> IF p = 1 THEN c ELSE d]
  /\ kind' = [x \in DOMAIN kind \cup {c, d} |-> IF x = c THEN k
                                               ELSE IF x = d THEN "timer" ELSE kind[x]]
  /\ place' = [x \in DOMAIN place \cup {c, d} |-> IF x = c THEN 1
                                                 ELSE IF x = d THEN 2 ELSE place[x]]
  /\ running' = running \cup {c, d} /\ front' = "shell"
  /\ opening' = IF front = "shell" THEN opening \cup {c} ELSE opening
  /\ Persist(cells', kind') /\ UNCHANGED <<thenFocus, focusedPin, bootDock, at, restored>>
\* ⌘⌃P on an open dock closes every cell and leaves it.
CloseDock ==
  /\ Visible(cells) /\ cells' = [p \in Places |-> 0]
  /\ running' = running \ {cells[p] : p \in Places}
  /\ focusedPin' = 0 /\ Persist(cells', kind)
  /\ UNCHANGED <<kind, place, opening, thenFocus, bootDock, at, restored, front>>

\* open() comes back; only a browser's failure empties the cell it named.
Opened(c) ==
  /\ c \in opening /\ opening' = opening \ {c} /\ thenFocus' = thenFocus \ {c}
  /\ focusedPin' = IF c \in thenFocus /\ Visible(cells) THEN place[c] ELSE focusedPin
  /\ UNCHANGED <<cells, kind, place, running, bootDock, at, restored, savedDock, front>>
OpenFails(c) ==
  /\ c \in opening /\ kind[c] = "browser"
  /\ opening' = opening \ {c} /\ thenFocus' = thenFocus \ {c}
  /\ cells' = [cells EXCEPT ![place[c]] = 0]
  /\ running' = running \ {cells[place[c]]}
  /\ focusedPin' = IF c \in thenFocus /\ Visible(cells') THEN place[c]
                   ELSE IF focusedPin = place[c] /\ cells[place[c]] # 0 THEN 0
                   ELSE focusedPin
  /\ Persist(cells', kind)
  /\ UNCHANGED <<kind, place, bootDock, at, restored, front>>
\* The shell of a pinned terminal exits, or a content asks to be closed.
Exits(c) == /\ c \in running /\ UnpinCell(place[c])
            /\ UNCHANGED <<kind, place, opening, thenFocus, bootDock, at, restored, front>>
FocusCell(p) == /\ Visible(cells) /\ focusedPin' = p
                /\ UNCHANGED <<cells, kind, place, running, opening, thenFocus, bootDock,
                               at, restored, savedDock, front>>
\* ⌘W in the dock, and the keys that leave it for the working pane.
CloseFocusedPin ==
  /\ focusedPin # 0 /\ cells' = [cells EXCEPT ![focusedPin] = 0]
  /\ running' = running \ {cells[focusedPin]} /\ focusedPin' = 0
  /\ IF cells[focusedPin] = 0 THEN UNCHANGED savedDock ELSE Persist(cells', kind)
  /\ UNCHANGED <<kind, place, opening, thenFocus, bootDock, at, restored, front>>
LeaveDock == /\ focusedPin' = 0
             /\ UNCHANGED <<cells, kind, place, running, opening, thenFocus, bootDock, at,
                            restored, savedDock, front>>
\* Any other persist(): a tab changed, or the timer of the snapshots.
Snapshot == /\ Persist(cells, kind)
            /\ UNCHANGED <<cells, kind, place, running, opening, thenFocus, focusedPin,
                           bootDock, at, restored, front>>

PinNext == \/ RestoreCell \/ DockRestored \/ OpenDock \/ CloseDock
           \/ CloseFocusedPin \/ LeaveDock \/ Snapshot
           \/ \E k \in Kinds : AddToPinDock(k) \/ \E p \in Places : Picks(p, k)
           \/ \E p \in Places : FocusCell(p)
           \/ \E c \in DOMAIN kind : Opened(c) \/ OpenFails(c) \/ Exits(c)

-----------------------------------------------------------------------------
\* The dock in the store is the one the last window left until this one has
\* restored it, whatever is pinned, closed or exits meanwhile, and from then on the
\* dock as it stands: a restart at any moment finds it.
DockOutlivesRestart ==
  savedDock = IF restored THEN Written(cells, kind) ELSE bootDock
=============================================================================

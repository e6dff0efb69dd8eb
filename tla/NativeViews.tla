---------------------------- MODULE NativeViews ----------------------------
(***************************************************************************)
(* The native child webviews of the window (browser.ts) and what decides   *)
(* when they show: the overlays (overlay.ts, confirm.ts, prompt.ts, the    *)
(* pickers of app.ts), the active tab and the content in front             *)
(* (syncNativeVisibility, app.ts).                                         *)
(*                                                                         *)
(* A native view paints above the whole page, so it must be told to hide   *)
(* whenever a dialog is up.  Views are the browser of each tab's pane and  *)
(* the one of the dock, Pin.                                               *)
(***************************************************************************)
EXTENDS Integers, FiniteSets

CONSTANTS
    ViewTabs,       \* the tabs that may hold a browser
    Pin,            \* the browser of the pinned dock
    Dialogs         \* the overlays ever made: bounds them

Views == ViewTabs \cup {Pin}

VARIABLES
    overlay,        \* [Dialogs -> {"none", "up", "closing", "gone"}]
    finishing,      \* [Dialogs -> Nat]: the closes of a dialog that have not finished
    overlayCount,   \* the count of overlay.ts
    view,           \* [Views -> {"none", "opening", "settling", "open", "gone"}]
    shown,          \* the views the native side shows
    orphans,        \* views opened for a session that was disposed meanwhile
    frontTab,       \* the active tab
    behind          \* the tabs whose browser is behind another content

viewVars == <<overlay, finishing, overlayCount, view, shown, orphans, frontTab, behind>>

-----------------------------------------------------------------------------
(* shouldShowBrowser for a pane; the dock answers to the overlays alone.   *)
ShouldShow(v, tab, back, count) ==
    count = 0 /\ (v = Pin \/ (v = tab /\ v \notin back))

(* syncNativeVisibility: every view that has opened is told.               *)
Synced(tab, back, count) ==
    shown' = {v \in Views : /\ view[v] \in {"settling", "open"}
                            /\ ShouldShow(v, tab, back, count)}

Resync == Synced(frontTab, behind, overlayCount)

NativeInit ==
    /\ overlay = [d \in Dialogs |-> "none"]
    /\ finishing = [d \in Dialogs |-> 0]
    /\ overlayCount = 0
    /\ view = [v \in Views |-> "none"]
    /\ shown = {} /\ orphans = {} /\ behind = {}
    /\ frontTab \in ViewTabs

-----------------------------------------------------------------------------
(* createOverlay counts the overlay and tells the observer.                *)
OpenDialog(d) ==
    /\ overlay[d] = "none"
    /\ overlay' = [overlay EXCEPT ![d] = "up"]
    /\ overlayCount' = overlayCount + 1
    /\ Synced(frontTab, behind, overlayCount + 1)
    /\ UNCHANGED <<finishing, view, orphans, frontTab, behind>>

(* close: the overlay stays in the page, with the keyboard, for as long as *)
(* it animates out.  Enter or a click in that time closes it once more.    *)
CloseDialog(d) ==
    /\ overlay[d] \in {"up", "closing"}
    /\ finishing[d] < 2                                        \* bound
    /\ overlay' = [overlay EXCEPT ![d] = "closing"]
    /\ finishing' = [finishing EXCEPT ![d] = @ + 1]
    /\ UNCHANGED <<overlayCount, view, shown, orphans, frontTab, behind>>

(* A close finishes, on transitionend or on its timer.  Each close settles *)
(* once, and each takes one from the count.                                *)
CountAfterFinish == IF overlayCount = 0 THEN 0 ELSE overlayCount - 1

\* Mutant of FinishClose: the count of dialogs is not given back.
FinishUntold(d) ==
    /\ finishing[d] > 0
    /\ finishing' = [finishing EXCEPT ![d] = @ - 1]
    /\ overlay' = [overlay EXCEPT ![d] = "gone"]
    /\ overlayCount' = CountAfterFinish
    /\ UNCHANGED <<view, shown, orphans, frontTab, behind>>

FinishClose(d) ==
    /\ finishing[d] > 0
    /\ finishing' = [finishing EXCEPT ![d] = @ - 1]
    /\ overlay' = [overlay EXCEPT ![d] = "gone"]
    /\ overlayCount' = CountAfterFinish
    /\ Synced(frontTab, behind, overlayCount')
    /\ UNCHANGED <<view, orphans, frontTab, behind>>

-----------------------------------------------------------------------------
(* activate shows the tab and then tells every view.                       *)
ActivateTab(t) ==
    /\ t # frontTab
    /\ frontTab' = t
    /\ Synced(t, behind, overlayCount)
    /\ UNCHANGED <<overlay, finishing, overlayCount, view, orphans, behind>>

(* A tab that is opened, or that comes to the front because the active one *)
(* was closed, is shown without telling the views.                         *)
FrontChanges(t) ==
    /\ t # frontTab
    /\ frontTab' = t
    /\ UNCHANGED <<overlay, finishing, overlayCount, view, shown, orphans, behind>>

(* The content of a pane is cycled: its browser goes behind or comes back. *)
CycleContent(t) ==
    /\ view[t] \in {"opening", "settling", "open"}
    /\ behind' = IF t \in behind THEN behind \ {t} ELSE behind \cup {t}
    /\ Synced(frontTab, behind', overlayCount)
    /\ UNCHANGED <<overlay, finishing, overlayCount, view, orphans, frontTab>>

(* A browser is put in the active pane, or in the dock.                    *)
AddBrowser(v) ==
    /\ view[v] = "none"
    /\ v = Pin \/ v = frontTab
    /\ view' = [view EXCEPT ![v] = "opening"]
    /\ behind' = behind \ {v}
    /\ Synced(frontTab, behind', overlayCount)
    /\ UNCHANGED <<overlay, finishing, overlayCount, orphans, frontTab>>

(* browser_open has made the view, and a new view shows.                   *)
ViewMade(v) ==
    /\ view[v] = "opening"
    /\ view' = [view EXCEPT ![v] = "settling"]
    /\ shown' = shown \cup {v}
    /\ UNCHANGED <<overlay, finishing, overlayCount, orphans, frontTab, behind>>

(* open has returned: the views are told.                                  *)
OpenReturns(v) ==
    /\ view[v] = "settling"
    /\ view' = [view EXCEPT ![v] = "open"]
    /\ Resync
    /\ UNCHANGED <<overlay, finishing, overlayCount, orphans, frontTab, behind>>

(* dispose closes the native view only when it had opened: one that is     *)
(* still being made stays, and nobody can close it.                        *)
CloseBrowser(v) ==
    /\ view[v] \in {"opening", "settling", "open"}
    /\ view' = [view EXCEPT ![v] = "gone"]
    /\ orphans' = IF view[v] = "opening" THEN orphans \cup {v} ELSE orphans
    /\ behind' = behind \ {v}
    /\ shown' = {w \in Views \ {v} : /\ view[w] \in {"settling", "open"}
                                     /\ ShouldShow(w, frontTab, behind', overlayCount)}
    /\ UNCHANGED <<overlay, finishing, overlayCount, frontTab>>

NativeNext ==
    \/ \E d \in Dialogs : OpenDialog(d) \/ CloseDialog(d) \/ FinishClose(d)
    \/ \E t \in ViewTabs : ActivateTab(t) \/ FrontChanges(t) \/ CycleContent(t)
    \/ \E v \in Views : AddBrowser(v) \/ ViewMade(v) \/ OpenReturns(v) \/ CloseBrowser(v)

-----------------------------------------------------------------------------
InPage == {d \in Dialogs : overlay[d] \in {"up", "closing"}}

(***************************************************************************)
(* A browser of the dock is never left blank: once no dialog is in the     *)
(* page its view shows, however the dialogs were opened, stacked and       *)
(* closed (twice, too), and whatever happened to the tabs meanwhile.       *)
(***************************************************************************)
PinnedViewComesBack ==
    InPage = {} /\ view[Pin] \in {"settling", "open"} => Pin \in shown
=============================================================================

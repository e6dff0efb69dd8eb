----------------------------- MODULE BrowserBar -----------------------------
(***************************************************************************)
(* The bar of a browser content (BrowserSession, browser.ts): a strip of   *)
(* the page above a native view.  The view hears no event of the page, so  *)
(* the bar hides by a timer alone, and every time its height changes the   *)
(* view has to be moved; the address in it is written by the user, by the  *)
(* page that navigates, and by answers the native side gives late.         *)
(***************************************************************************)
CONSTANTS
    Inputs,     \* what may stand in the address
    Normal,     \* [Inputs -> Inputs \cup {NoUrl}]: normalizeUrl
    NoUrl,
    HomeUrl     \* the address it is made with, normalised

VARIABLES
    phase,      \* "opening", "listening", "open", or "deaf" once unlistened
    opened,     \* the native view is there (opened)
    disposed,
    collapsed,  \* the bar is a thin strip
    timer,      \* hideTimer is running
    autoHide,   \* autoHideEnabled
    focused,    \* the address has the keyboard
    native,     \* the height the view was last placed below, or "none"
    observed,   \* the observer's first report is to come
    page,       \* what the view shows
    address,    \* urlInput.value
    path,       \* what is stored of the content
    asked       \* the answers of browserUrl on their way

barVars == <<phase, opened, disposed, collapsed, timer, autoHide, focused,
             native, observed, page, address, path, asked>>

Urls == {Normal[i] : i \in Inputs} \ {NoUrl}
Bar(c) == IF c THEN "thin" ELSE "tall"

BarInit ==
    /\ phase = "opening" /\ opened = FALSE /\ disposed = FALSE
    /\ collapsed = FALSE /\ timer = FALSE /\ autoHide = TRUE /\ focused = FALSE
    /\ native = "none" /\ observed = FALSE
    /\ page = NoUrl /\ address = HomeUrl /\ path = HomeUrl /\ asked = {}

-----------------------------------------------------------------------------
(* scheduleHide, with the setting and the keyboard as they are by then: an *)
(* address that has the keyboard keeps the bar.                            *)
ScheduleHide(on, typing) == timer' = (on /\ ~typing)

(* syncBounds, for a bar that is c.                                        *)
SyncBounds(c) == native' = IF opened THEN Bar(c) ELSE native

Expand(on, typing) ==
    /\ collapsed' = FALSE
    /\ IF collapsed THEN SyncBounds(FALSE) ELSE UNCHANGED native
    /\ ScheduleHide(on, typing)

(* What a page that is at u writes, unless the user is writing.            *)
Resync(u) ==
    IF focused \/ u = NoUrl THEN UNCHANGED <<address, path>>
    ELSE address' = u /\ path' = u

-----------------------------------------------------------------------------
(* open: the bounds were taken when it was called, below a tall bar.       *)
Opened ==
    /\ phase = "opening"
    /\ phase' = "listening" /\ opened' = TRUE
    /\ native' = "tall" /\ observed' = TRUE /\ page' = HomeUrl
    /\ UNCHANGED <<disposed, collapsed, timer, autoHide, focused, address, path, asked>>

Listens ==
    /\ phase = "listening"
    /\ phase' = "open"
    /\ ScheduleHide(autoHide, focused)
    /\ UNCHANGED <<opened, disposed, collapsed, autoHide, focused, native, observed,
                   page, address, path, asked>>

(* The ResizeObserver, which also reports once when it is set up.          *)
Resized ==
    /\ observed
    /\ observed' = FALSE
    /\ SyncBounds(collapsed)
    /\ UNCHANGED <<phase, opened, disposed, collapsed, timer, autoHide, focused,
                   page, address, path, asked>>

(* The page goes elsewhere; before the listener is up nobody hears of it.  *)
Navigated(u) ==
    /\ opened /\ ~disposed /\ page' = u
    /\ IF phase = "open" THEN Resync(u) ELSE UNCHANGED <<address, path>>
    /\ UNCHANGED <<phase, opened, disposed, collapsed, timer, autoHide, focused,
                   native, observed, asked>>

(* show(TRUE).                                                             *)
Show ==
    /\ opened /\ ~disposed
    /\ SyncBounds(collapsed)
    /\ asked' = asked \cup {page}
    /\ UNCHANGED <<phase, opened, disposed, collapsed, timer, autoHide, focused,
                   observed, page, address, path>>

Answered(u) ==
    /\ u \in asked
    /\ asked' = asked \ {u}
    /\ Resync(u)
    /\ UNCHANGED <<phase, opened, disposed, collapsed, timer, autoHide, focused,
                   native, observed, page>>

-----------------------------------------------------------------------------
FocusAddress ==
    /\ ~disposed /\ focused' = TRUE /\ Expand(autoHide, TRUE)
    /\ UNCHANGED <<phase, opened, disposed, autoHide, observed, page, address, path, asked>>

MouseEnters ==
    /\ ~disposed /\ UNCHANGED focused /\ Expand(autoHide, focused)
    /\ UNCHANGED <<phase, opened, disposed, autoHide, observed, page, address, path, asked>>

TypeAddress(i) ==
    /\ focused /\ address' = i
    /\ UNCHANGED <<phase, opened, disposed, collapsed, timer, autoHide, focused,
                   native, observed, page, path, asked>>

(* returnFocus, and the blur it causes: also what every button does.       *)
ReturnFocus ==
    /\ ~disposed /\ focused' = FALSE /\ ScheduleHide(autoHide, FALSE)
    /\ UNCHANGED <<phase, opened, disposed, collapsed, autoHide, native, observed,
                   address, asked>>

Leave == ReturnFocus /\ UNCHANGED <<page, path>>

(* Enter in the address: navigate.                                         *)
Enter ==
    /\ focused /\ ReturnFocus
    /\ IF Normal[address] = NoUrl THEN UNCHANGED <<page, path>>
       ELSE /\ path' = Normal[address]
            /\ page' = IF opened THEN Normal[address] ELSE page

TimerFires ==
    /\ timer /\ timer' = FALSE
    /\ collapsed' = TRUE /\ SyncBounds(TRUE)
    /\ UNCHANGED <<phase, opened, disposed, autoHide, focused, observed, page, address,
                   path, asked>>

ConfigureAutoHide(on) ==
    /\ ~disposed /\ autoHide' = on /\ UNCHANGED focused
    /\ IF on THEN ScheduleHide(on, focused) /\ UNCHANGED <<collapsed, native>>
       ELSE Expand(on, focused)
    /\ UNCHANGED <<phase, opened, disposed, observed, page, address, path, asked>>

(* dispose: an open that is still under way goes on in the session.        *)
Dispose ==
    /\ ~disposed /\ disposed' = TRUE
    /\ timer' = FALSE /\ focused' = FALSE /\ observed' = FALSE
    /\ phase' = IF phase = "open" THEN "deaf" ELSE phase
    /\ UNCHANGED <<opened, collapsed, autoHide, native, page, address, path, asked>>

BarNext ==
    \/ Opened \/ Listens \/ Resized \/ Show \/ FocusAddress \/ MouseEnters
    \/ Leave \/ Enter \/ TimerFires \/ Dispose
    \/ \E u \in Urls : Navigated(u)
    \/ \E u \in asked : Answered(u)
    \/ \E i \in Inputs : TypeAddress(i)
    \/ \E on \in BOOLEAN : ConfigureAutoHide(on)

BarSpec == BarInit /\ [][BarNext]_barVars

-----------------------------------------------------------------------------
(* The bar is there while the user writes an address, or wants it to stay, *)
(* and no timer is about to take it away (expand, scheduleHide).           *)
BarStays == (focused \/ ~autoHide) => (~collapsed /\ ~timer)

(* The view begins where the bar ends: it neither covers the bar nor       *)
(* leaves a gap, once the observer of a view that has just opened has      *)
(* reported (syncBounds).                                                  *)
ViewBelowBar == (opened /\ ~observed /\ ~disposed) => native = Bar(collapsed)

(* What the user is writing is not overwritten by the page (the listener   *)
(* and the answer of browserUrl).                                          *)
DraftIsKept ==
    [][focused /\ address' # address => \E i \in Inputs : TypeAddress(i)]_barVars
=============================================================================

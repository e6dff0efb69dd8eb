------------------------------- MODULE Updates -------------------------------
(***************************************************************************)
(* Updating the app from within (updates.ts): checks for a newer release,  *)
(* the update modal (updatemodal.ts), what the main window does with each  *)
(* state (app.ts) and the row of the settings window (section-updates.ts). *)
(*                                                                         *)
(* A check and a download await the plugin, so several of them can be      *)
(* under way.  A modal that is dismissed stays clickable while it fades.   *)
(* The words of the modal are left out; whether it is locked is kept: an   *)
(* unlocked modal offers its two buttons, a locked one offers none.        *)
(* Events reach the settings window at once.                               *)
(***************************************************************************)
EXTENDS Naturals, FiniteSets

CONSTANTS
    Versions,       \* the newer releases the endpoint may serve
    MaxChecks,      \* bounds the manual checks of a run of the app
    MaxDownloads    \* bounds the downloads that are under way at once

VARIABLES
    update,         \* the update the controller holds, or "none"
    checks,         \* ["auto", "manual" -> Nat]: the checks under way
    asked,          \* manual checks so far
    modal,          \* [open, locked, last]: the modal and the kind it rendered last
    fading,         \* a dismissed modal has not left the screen yet
    download,       \* [1..MaxDownloads -> {"none", "running", "ready"}]
    unguarded,      \* a failed check or a fading modal has offered a button meanwhile
    indicator,      \* the version the titlebar shows, or "none"
    lastSeen,       \* updates.last_seen
    row             \* the state the settings window shows

updateVars == <<update, checks, asked, modal, fading, download, unguarded,
                indicator, lastSeen, row>>

-----------------------------------------------------------------------------
Closed == [open |-> FALSE, locked |-> FALSE, last |-> "available"]

OpenedModal == [Closed EXCEPT !.open = TRUE]

(* A download that goes on only moves the bar.                             *)
\* Mutant of Rendered: a download is not shown after an error.
RenderedOnce(m, what) ==
    IF ~m.open \/ (what = "downloading" /\ m.last \in {"downloading", "error"}) THEN m
    ELSE [m EXCEPT !.locked = what # "error", !.last = what]

Rendered(m, what) ==
    IF ~m.open \/ (what = "downloading" /\ m.last = "downloading") THEN m
    ELSE [m EXCEPT !.locked = what # "error", !.last = what]

Prompted(m) == IF m.open THEN m ELSE OpenedModal

Running == {i \in 1..MaxDownloads : download[i] # "none"}

(* onUpdateState for a state of an install, or for an error.               *)
Told(what) ==
    /\ modal' = Rendered(modal, what)
    /\ row' = what
    /\ UNCHANGED <<indicator, lastSeen>>

(* The app starts: with updates.auto_check a check is under way.           *)
Boots == {[auto |-> a, manual |-> 0] : a \in {0, 1}}

NoDownload == [i \in 1..MaxDownloads |-> "none"]

UpdateInit ==
    /\ update = "none" /\ checks \in Boots /\ asked = 0
    /\ modal = Closed /\ fading = FALSE /\ unguarded = FALSE
    /\ download = NoDownload
    /\ indicator = "none" /\ lastSeen = "none" /\ row = "idle"

-----------------------------------------------------------------------------
(* The menu, a toast's Retry, or the settings window, whose button is      *)
(* disabled while it shows a check.                                        *)
CheckManual ==
    /\ asked < MaxChecks
    /\ asked' = asked + 1
    /\ checks' = [checks EXCEPT !.manual = @ + 1]
    /\ row' = "checking"
    /\ UNCHANGED <<update, modal, fading, download, unguarded, indicator, lastSeen>>

CheckEnds(k) ==
    /\ checks[k] > 0
    /\ checks' = [checks EXCEPT ![k] = @ - 1]
    /\ UNCHANGED <<asked, fading, download>>

(* A version that was announced once is not announced again.               *)
RememberSeen(v) == lastSeen' = v

(* A manual check opens the modal; an automatic one only announces.        *)
CheckFinds(k, v) ==
    /\ CheckEnds(k)
    /\ update' = v /\ indicator' = v /\ RememberSeen(v)
    /\ row' = "available"
    /\ modal' = IF k = "manual" THEN Prompted(modal) ELSE modal
    /\ UNCHANGED unguarded

CheckFindsNone(k) ==
    /\ CheckEnds(k)
    /\ update' = "none"
    /\ indicator' = IF k = "manual" THEN "none" ELSE indicator
    /\ row' = IF k = "manual" THEN "uptodate" ELSE row
    /\ UNCHANGED <<modal, unguarded, lastSeen>>

(* checkAuto swallows the failure.                                         *)
CheckFails(k) ==
    /\ CheckEnds(k)
    /\ IF k = "manual"
       THEN /\ Told("error")
            /\ unguarded' = (unguarded \/ Running # {})
       ELSE UNCHANGED <<modal, row, indicator, lastSeen, unguarded>>
    /\ UNCHANGED update

-----------------------------------------------------------------------------
OpenUpdatePrompt ==
    /\ ~modal.open /\ update # "none"
    /\ modal' = OpenedModal
    /\ UNCHANGED <<update, checks, asked, fading, download, unguarded, indicator,
                   lastSeen, row>>

Dismiss ==
    /\ modal.open /\ ~modal.locked
    /\ modal' = Closed
    /\ fading' = TRUE
    /\ UNCHANGED <<update, checks, asked, download, unguarded, indicator, lastSeen, row>>

FadeEnds ==
    /\ fading /\ fading' = FALSE
    /\ UNCHANGED <<update, checks, asked, modal, download, unguarded, indicator,
                   lastSeen, row>>

Install(i) ==
    /\ update # "none" /\ download[i] = "none"
    /\ download' = [download EXCEPT ![i] = "running"]
    /\ Told("downloading")
    /\ UNCHANGED <<update, checks, asked, fading>>

(* Update now, or Retry.                                                   *)
ClickInstall(i) == modal.open /\ ~modal.locked /\ Install(i) /\ UNCHANGED unguarded

ClickFading(i) == fading /\ Install(i) /\ unguarded' = TRUE

DownloadMoves(i) ==
    /\ download[i] = "running"
    /\ \/ Told("downloading") /\ UNCHANGED download
       \/ Told("ready") /\ download' = [download EXCEPT ![i] = "ready"]
    /\ UNCHANGED <<update, checks, asked, fading, unguarded>>

(* The transfer breaks, or the signature is wrong.                         *)
InstallFails(i) ==
    /\ download[i] # "none"
    /\ download' = [download EXCEPT ![i] = "none"]
    /\ Told("error")
    /\ UNCHANGED <<update, checks, asked, fading, unguarded>>

Relaunch(i) ==
    /\ download[i] = "ready"
    /\ update' = "none" /\ checks' \in Boots /\ asked' = 0
    /\ modal' = Closed /\ fading' = FALSE /\ unguarded' = FALSE
    /\ download' = NoDownload
    /\ indicator' = "none" /\ row' = "idle"
    /\ UNCHANGED lastSeen

UpdateNext ==
    \/ CheckManual
    \/ \E k \in {"auto", "manual"} :
        \/ \E v \in Versions : CheckFinds(k, v)
        \/ CheckFindsNone(k)
        \/ CheckFails(k)
    \/ OpenUpdatePrompt \/ Dismiss \/ FadeEnds
    \/ \E i \in 1..MaxDownloads :
        ClickInstall(i) \/ ClickFading(i) \/ DownloadMoves(i) \/ InstallFails(i) \/ Relaunch(i)

-----------------------------------------------------------------------------
(* One release is downloaded and installed at a time: once an install has  *)
(* begun, no way of checking, dismissing, reopening or retrying starts a   *)
(* second one beside it, except the two the code leaves open: the Retry of *)
(* a check that fails meanwhile, and a click on a modal that fades.        *)
OneDownload == ~unguarded => Cardinality(Running) <= 1
=============================================================================

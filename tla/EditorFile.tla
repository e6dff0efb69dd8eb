----------------------------- MODULE EditorFile -----------------------------
(***************************************************************************)
(* One EditorSession over one file: edits, manual saves, autosave, the     *)
(* conflict and close dialogs, the HTML preview, and the file on disk,     *)
(* which other programs write too.                                         *)
(*                                                                         *)
(* A text is a version: 0 is what was read, the edits of this session are  *)
(* 1, 2, ... and Foreign is what somebody else wrote.  A write is three    *)
(* steps, since the session goes on while it is under way: the call takes  *)
(* the text, the backend compares the modification time and writes, and    *)
(* the reply changes the session.  A modification time is only compared    *)
(* with the file's: all that is kept of one is whether it is still fresh.  *)
(***************************************************************************)
EXTENDS Integers, FiniteSets

CONSTANTS MaxEdits,   \* edits (bound)
          MaxWrites   \* writes under way at once (bound)

VARIABLES ed,        \* the session; saved is the text a write took last, lost
                     \* whether edits went away that were never given up
          file,      \* the text of the file
          writes,    \* writes under way
          dialog,    \* the dialog that is open: its question and what it holds up
          preview    \* the preview: previewOn, previewToggling, the webview

edVars == <<ed, file, writes, dialog, preview>>

Foreign == -1
NoDialog == [ask |-> "none", for |-> "user"]

EdInit ==
  /\ ed = [open |-> TRUE, text |-> 0, saved |-> 0, dirty |-> FALSE, base |-> "fresh",
           timer |-> FALSE, autosave |-> TRUE, lost |-> FALSE]
  /\ file = 0
  /\ writes = {} /\ dialog = NoDialog
  /\ preview = [on |-> FALSE, toggling |-> FALSE, webview |-> FALSE]

\* The user acts when no dialog is up and the editor is still there.
AtKeyboard == ed.open /\ dialog = NoDialog

\* The text is taken when the call is made, with the base known then.  The
\* user saves by hand once at a time (bound); autosave may overlap.
StartWrite(caller, known) ==
  /\ Cardinality(writes) < MaxWrites
  /\ \A w \in writes : w.caller /= caller
  /\ writes' = writes \cup {[caller |-> caller, text |-> ed.text, known |-> known,
                             stage |-> "sent"]}

Edit ==
  /\ AtKeyboard /\ ~preview.on /\ ed.text < MaxEdits
  /\ ed' = [ed EXCEPT !.text = @ + 1, !.dirty = TRUE, !.timer = ed.autosave]
  /\ UNCHANGED <<file, writes, dialog, preview>>

ManualSave ==
  /\ AtKeyboard /\ StartWrite("user", ed.base)
  /\ UNCHANGED <<ed, file, dialog, preview>>

\* Mutant of Autosave: the time on disk is not compared.
AutosaveForced ==
  /\ ed.timer /\ ed' = [ed EXCEPT !.timer = FALSE]
  /\ IF ed.dirty THEN StartWrite("auto", "force") ELSE UNCHANGED writes
  /\ UNCHANGED <<file, dialog, preview>>
Autosave ==
  /\ ed.timer /\ ed' = [ed EXCEPT !.timer = FALSE]
  /\ IF ed.dirty THEN StartWrite("auto", ed.base) ELSE UNCHANGED writes
  /\ UNCHANGED <<file, dialog, preview>>

\* Settings switch autosave: pending edits are scheduled, or no longer.
ApplyEditorConfig ==
  /\ ed.open
  /\ ed' = [ed EXCEPT !.autosave = ~@, !.timer = ed.dirty /\ ~ed.autosave]
  /\ UNCHANGED <<file, writes, dialog, preview>>

\* The file changed: a modification time that was fresh no longer is.
Outdated(ws) == {IF w.known = "fresh" THEN [w EXCEPT !.known = "stale"] ELSE w : w \in ws}

ForeignWrites ==
  /\ file' = Foreign /\ writes' = Outdated(writes)
  /\ ed' = [ed EXCEPT !.base = "stale"]
  /\ UNCHANGED <<dialog, preview>>

\* The backend compares and writes, and the reply has the new time; or it fails.
Lands(w, outcome) ==
  /\ w \in writes /\ w.stage = "sent"
  /\ (outcome = "conflict") = (w.known = "stale")
  /\ IF outcome = "written"
     THEN /\ file' = w.text /\ ed' = [ed EXCEPT !.base = "stale"]
          /\ writes' = Outdated(writes \ {w}) \cup
                       {[w EXCEPT !.stage = "written", !.known = "fresh"]}
     ELSE /\ writes' = (writes \ {w}) \cup {[w EXCEPT !.stage = outcome]}
          /\ UNCHANGED <<file, ed>>
  /\ UNCHANGED <<dialog, preview>>

\* dispose(): the edits that no write has taken are lost.
Disposed(e, agreed) == [e EXCEPT !.open = FALSE, !.timer = FALSE,
                                 !.lost = ~agreed /\ e.text /= e.saved]

\* previewOpen is called; the reply comes in PreviewOpens.
Shown(p) == [p EXCEPT !.on = TRUE]
NotShown(p) == [p EXCEPT !.toggling = FALSE]

\* saveEditor goes on with what its caller wanted the save for.
Continue(caller, e, ok) ==
  CASE caller = "close" ->
         /\ ed' = IF ok /\ e.open THEN Disposed(e, FALSE) ELSE e
         /\ preview' = IF ok THEN [preview EXCEPT !.on = FALSE, !.webview = FALSE]
                       ELSE preview
    [] caller = "preview" -> /\ ed' = e
                             /\ preview' = IF ok THEN Shown(preview) ELSE NotShown(preview)
    [] OTHER -> ed' = e /\ UNCHANGED preview

\* A write got through: whatever was typed meanwhile, the session is clean.
ReturnsWritten(w) ==
  /\ w \in writes /\ w.stage = "written" /\ writes' = writes \ {w}
  /\ Continue(w.caller, [ed EXCEPT !.base = w.known, !.dirty = FALSE, !.timer = FALSE,
                                   !.saved = w.text], TRUE)
  /\ UNCHANGED <<file, dialog>>

\* A conflict is asked about, except when it was autosave that met it.
ReturnsConflict(w) ==
  /\ w \in writes /\ w.stage = "conflict" /\ writes' = writes \ {w}
  /\ IF w.caller = "auto" \/ ~ed.open THEN UNCHANGED dialog
     ELSE dialog = NoDialog /\ dialog' = [ask |-> "overwrite", for |-> w.caller]
  /\ UNCHANGED <<ed, file, preview>>

\* A forced write that fails is not looked at: its caller goes on as if saved.
ReturnsFailed(w) ==
  /\ w \in writes /\ w.stage = "failed" /\ writes' = writes \ {w}
  /\ Continue(w.caller, ed, w.known = "force")
  /\ UNCHANGED <<file, dialog>>

AnswerOverwrite(yes) ==
  /\ dialog.ask = "overwrite" /\ dialog' = NoDialog
  /\ IF yes THEN StartWrite(dialog.for, "force") /\ UNCHANGED <<ed, preview>>
     ELSE Continue(dialog.for, ed, FALSE) /\ UNCHANGED writes
  /\ UNCHANGED file

\* Closing asks when the session is flagged dirty, and only then.
CloseEditor ==
  /\ AtKeyboard
  /\ IF ed.dirty
     THEN dialog' = [ask |-> "close", for |-> "close"] /\ UNCHANGED <<ed, preview>>
     ELSE /\ ed' = Disposed(ed, FALSE) /\ UNCHANGED dialog
          /\ preview' = [preview EXCEPT !.on = FALSE, !.webview = FALSE]
  /\ UNCHANGED <<file, writes>>

AnswerClose(choice) ==
  /\ dialog.ask = "close" /\ dialog' = NoDialog
  /\ CASE choice = "save" -> StartWrite("close", ed.base) /\ UNCHANGED <<ed, preview>>
       [] choice = "discard" -> /\ ed' = Disposed(ed, TRUE) /\ UNCHANGED writes
                                /\ preview' = [preview EXCEPT !.on = FALSE,
                                                              !.webview = FALSE]
       [] OTHER -> UNCHANGED <<ed, writes, preview>>
  /\ UNCHANGED file

\* The preview shows the file, so unsaved edits are saved first.
TogglePreview ==
  /\ AtKeyboard /\ ~preview.toggling
  /\ IF ~preview.on /\ ed.dirty
     THEN StartWrite("preview", ed.base) /\ preview' = [preview EXCEPT !.toggling = TRUE]
     ELSE /\ UNCHANGED writes
          /\ preview' = IF preview.on THEN [preview EXCEPT !.toggling = TRUE]
                        ELSE Shown([preview EXCEPT !.toggling = TRUE])
  /\ UNCHANGED <<ed, file, dialog>>

\* The webview is there, or could not be opened, or is gone again.
PreviewOpens(ok) ==
  /\ preview.toggling /\ preview.on /\ ~preview.webview
  /\ preview' = [on |-> ok, toggling |-> FALSE, webview |-> ok]
  /\ UNCHANGED <<ed, file, writes, dialog>>
PreviewCloses ==
  /\ preview.toggling /\ preview.on /\ preview.webview
  /\ preview' = [on |-> FALSE, toggling |-> FALSE, webview |-> FALSE]
  /\ UNCHANGED <<ed, file, writes, dialog>>

EdNext ==
  \/ Edit \/ ManualSave \/ Autosave \/ ApplyEditorConfig \/ ForeignWrites
  \/ \E w \in writes : \/ \E o \in {"written", "conflict", "failed"} : Lands(w, o)
                       \/ ReturnsWritten(w) \/ ReturnsConflict(w) \/ ReturnsFailed(w)
  \/ \E yes \in BOOLEAN : AnswerOverwrite(yes) \/ PreviewOpens(yes)
  \/ CloseEditor \/ \E c \in {"save", "discard", "cancel"} : AnswerClose(c)
  \/ TogglePreview \/ PreviewCloses

-----------------------------------------------------------------------------
\* A step that loses what somebody else wrote is the landing of a write that the
\* user has forced (write_file, app.ts saveEditor: "the file changed on disk").
OverwritesKnowingly ==
  file = Foreign /\ file' /= Foreign =>
    \E w \in writes : w.known = "force" /\ w.stage = "sent" /\ w.caller /= "auto"
                      /\ w.text = file'

\* What somebody else wrote to an open file is only overwritten by a write that the
\* user has forced, whatever saves, autosaves and replies are under way.
NoBlindOverwrite == [][OverwritesKnowingly]_edVars

\* "Unsaved changes are confirmed before the file is dropped" (CHANGELOG.md): the
\* editor never goes away with edits that no write has taken and that the user has
\* not given up.
UnsavedIsConfirmed == ~ed.lost

EdSpec == EdInit /\ [][EdNext]_edVars
=============================================================================

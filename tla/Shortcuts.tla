------------------------------ MODULE Shortcuts ------------------------------
(***************************************************************************)
(* Keyboard shortcuts: the actions and their bindings (keys.ts), the       *)
(* recorder of the settings window (section-shortcuts.ts in the shell of   *)
(* settings/shell.ts) and the main window, which resolves a key press      *)
(* (keymap.ts, App.onKey) and dispatches its action.                       *)
(*                                                                         *)
(* A stroke is a key with its modifiers.  Every build of the section is a  *)
(* closure with its own recording and its own listener on the window; the  *)
(* listener of a section that is left while it records stays attached.     *)
(***************************************************************************)
EXTENDS Naturals, Sequences, FiniteSets, SequencesExt

CONSTANTS
    ActionIds,
    Def,            \* [ActionIds -> [scope, defaults, needs]], as in ACTIONS
    Strokes,
    MaxPending,     \* bounds the saves on their way
    SelectAll,      \* the stroke an editor takes before the keymap
    MaxBuilds       \* bounds how often the section is built

VARIABLES
    overrides,      \* config.keybindings of the settings window
    build,          \* the builds of the section so far
    onScreen,       \* is the section on screen
    listening,      \* the attached listeners, oldest first: [build, action]
    pending,        \* the saved overrides the main window has not heard of
    keymap,         \* the overrides its keymap was built from
    recorded        \* the binding recorded last: [action, stroke], or {}

shortcutVars == <<overrides, build, onScreen, listening, pending, keymap, recorded>>

(* What the active tab shows: the active pane of a grid, or a tab of a kind. *)
Contents == {"terminal", "file", "browser"}
Fronts == Contents \cup {"editor", "media"}
HasEditor(f) == f \in {"file", "editor"}

-----------------------------------------------------------------------------
(* resolveBindings: an override replaces the defaults, null unbinds.       *)
Bindings(o) == [a \in ActionIds |-> IF a \in DOMAIN o THEN o[a] ELSE Def[a].defaults]

\* Mutant of ScopesOverlap: only strokes of one scope clash.
SameScope(a, b) == Def[a].scope = Def[b].scope

ScopesOverlap(a, b) ==
    SameScope(a, b) \/ "global" \in {Def[a].scope, Def[b].scope}

(* conflictOwner, of the first conflict findConflicts finds.               *)
Conflicts(o, a, k) ==
    {b \in ActionIds \ {a} : ScopesOverlap(a, b) /\ k \in Bindings(o)[b]}

SetOverride(o, a, ks) ==
    IF ks # {} /\ ks = Def[a].defaults
    THEN [b \in DOMAIN o \ {a} |-> o[b]]
    ELSE [b \in DOMAIN o \cup {a} |-> IF b = a THEN ks ELSE o[b]]

-----------------------------------------------------------------------------
(* Keymap.resolve: an action of the pane goes before a global one.         *)
Active(k, f) ==
    {a \in ActionIds : /\ k \in Bindings(keymap)[a]
                       /\ Def[a].scope = "global" \/ f \in Contents}

Resolved(k, f) ==
    LET pane == {a \in Active(k, f) : Def[a].scope = "pane"}
    IN  IF pane # {} THEN pane ELSE Active(k, f)

(* What a pane, and what the app, needs in front to act on an action.      *)
PaneTakes(needs, f) ==
    CASE needs = "grid"     -> f \in Contents
      [] needs = "terminal" -> f \in Contents \ {"file"}
      [] needs = "browser"  -> f = "browser"

Dispatches(a, f) ==
    CASE Def[a].needs = "app"    -> TRUE
      [] Def[a].needs = "editor" -> HasEditor(f)
      [] OTHER                   -> PaneTakes(Def[a].needs, f)

(* onKey: the actions a press of k may run, at most one without a conflict. *)
Pressed(k, f) ==
    IF k = SelectAll /\ HasEditor(f) THEN {"select all"}
    ELSE {a \in Resolved(k, f) : Dispatches(a, f)}

-----------------------------------------------------------------------------
ShortcutInit ==
    /\ overrides = <<>> /\ keymap = <<>> /\ pending = <<>>
    /\ build = 1 /\ onScreen = TRUE /\ listening = <<>>
    /\ recorded = {}

OfOthers == SelectSeq(listening, LAMBDA l : l.build # build)

(* The pencil of a row.  rerender detaches the listener of this build.     *)
StartRecording(a) ==
    /\ onScreen
    /\ listening' = Append(OfOthers, [build |-> build, action |-> a])
    /\ UNCHANGED <<overrides, build, onScreen, pending, keymap, recorded>>

(* A category is chosen, or something is typed in the search field.        *)
Rerender ==
    /\ onScreen /\ listening' = OfOthers
    /\ UNCHANGED <<overrides, build, onScreen, pending, keymap, recorded>>

(* Another section is shown: the content is replaced, nothing is detached. *)
LeaveSection ==
    /\ onScreen /\ onScreen' = FALSE
    /\ UNCHANGED <<overrides, build, listening, pending, keymap, recorded>>

EnterSection ==
    /\ ~onScreen /\ build < MaxBuilds
    /\ onScreen' = TRUE /\ build' = build + 1
    /\ UNCHANGED <<overrides, listening, pending, keymap, recorded>>

Saved(o) ==
    /\ Len(pending) < MaxPending
    /\ overrides' = o /\ pending' = Append(pending, o)

(* One listener hears a press of k.                                        *)
Hears(s, l, k) ==
    IF Conflicts(s.o, l.action, k) # {} THEN [s EXCEPT !.kept = Append(@, l)]
    ELSE [s EXCEPT !.o = SetOverride(@, l.action, {k}),
                   !.last = {[action |-> l.action, stroke |-> k]}]

(* Every attached listener hears the key, oldest first.                    *)
Record(k) ==
    /\ listening # <<>>
    /\ LET s == FoldLeft(LAMBDA t, l : Hears(t, l, k),
                         [o |-> overrides, kept |-> <<>>, last |-> recorded], listening)
       IN  /\ listening' = s.kept /\ recorded' = s.last
           /\ IF Len(s.kept) < Len(listening)
              THEN Saved(s.o) ELSE UNCHANGED <<overrides, pending>>
    /\ UNCHANGED <<build, onScreen, keymap>>

Forgets(as) == recorded' = {r \in recorded : r.action \notin as}

(* Backspace unbinds the action of every listener; Escape gives up.        *)
Unassign ==
    /\ listening # <<>> /\ listening' = <<>>
    /\ Saved(FoldLeft(LAMBDA o, l : SetOverride(o, l.action, {}), overrides, listening))
    /\ Forgets({listening[i].action : i \in DOMAIN listening})
    /\ UNCHANGED <<build, onScreen, keymap>>

CancelRecording ==
    /\ listening # <<>> /\ listening' = <<>>
    /\ UNCHANGED <<overrides, build, onScreen, pending, keymap, recorded>>

(* The reset button deletes the override, whoever owns the default by now. *)
Reset(a) ==
    /\ onScreen /\ a \in DOMAIN overrides
    /\ Saved([b \in DOMAIN overrides \ {a} |-> overrides[b]])
    /\ listening' = OfOthers /\ recorded' = {}
    /\ UNCHANGED <<build, onScreen, keymap>>

(* config-changed reaches the main window: applyConfig builds a keymap.    *)
ApplyConfig ==
    /\ pending # <<>>
    /\ keymap' = Head(pending) /\ pending' = Tail(pending)
    /\ UNCHANGED <<overrides, build, onScreen, listening, recorded>>

ShortcutNext ==
    \/ \E a \in ActionIds : StartRecording(a) \/ Reset(a)
    \/ Rerender \/ LeaveSection \/ EnterSection
    \/ Unassign \/ \E k \in Strokes : Record(k)
    \/ CancelRecording \/ ApplyConfig

-----------------------------------------------------------------------------
(* A stroke that was recorded runs its action and nothing else, whatever   *)
(* is in front, once the main window has heard of it, and until a reset    *)
(* gives the stroke back to the action whose default it is.  The recorder  *)
(* looks for conflicts by the scopes, onKey resolves by the tab in front,  *)
(* and a listener left behind may record for an action that is not on      *)
(* screen.  An editor keeps select-all for itself.                         *)
RecordedStrokeRuns ==
    (pending = <<>> /\ keymap = overrides) =>
        \A r \in recorded, f \in Fronts :
            (Dispatches(r.action, f) /\ ~(r.stroke = SelectAll /\ HasEditor(f)))
                => Pressed(r.stroke, f) = {r.action}
=============================================================================

---------------------------- MODULE TerminalKeys ----------------------------
(***************************************************************************)
(* What a terminal pane types for a key (terminal.ts handleKittyKey,       *)
(* kitty-keyboard.ts).  Programs in the terminal push, pop and set the     *)
(* flags of the kitty keyboard protocol by what they print, in any order:  *)
(* nested programs, a program that dies without popping, and the replay of *)
(* a reattached session, which prints old sequences again.  The flags on   *)
(* top, two settings and the key decide who types it: the pane, xterm.js   *)
(* (which types what it is passed at the key's press) or the app.          *)
(***************************************************************************)
EXTENDS Naturals, SequencesExt

CONSTANTS StackLimit,   \* STACK_LIMIT
          AskedFlags    \* the flags programs ask for: sets of FlagBits

VARIABLES stack,              \* KittyKeyboardState.stack; the flags of the shell come first
          kittyEnabled,       \* the setting render.kitty_keyboard
          shiftEnterNewline,  \* the setting render.shift_enter_newline
          last                \* the last key, what the pane wrote for it, is it xterm's

keyboardVars == <<stack, kittyEnabled, shiftEnterNewline, last>>

\* KITTY_ALTERNATE_KEYS and KITTY_ASSOCIATED_TEXT only change the wording of an escape.
FlagBits == {"disambiguate", "events", "all"}
Current == Last(stack)

\* A key that has a text, one of Enter, Tab and Backspace, another functional one, a
\* modifier key; alt counts as ctrl.
KeyKinds == {"letter", "enter", "arrow", "modifier"}
EventTypes == {"press", "repeat", "release"}
Mods == {"none", "shift", "ctrl", "meta"}
\* composing: an input method has the key; owned: appOwnsKeystroke, a chord of the app.
Events == {e \in [key : KeyKinds, type : EventTypes, mods : Mods, composing : BOOLEAN,
                  owned : BOOLEAN] : /\ e.composing => e.mods \in {"none", "shift"}
                                     /\ e.owned => e.mods = "meta"}
NoKey == [key |-> "none", type |-> "none", mods |-> "none", composing |-> FALSE, owned |-> FALSE]

KeyboardInit ==
  /\ stack = <<{}>> /\ kittyEnabled \in BOOLEAN /\ shiftEnterNewline \in BOOLEAN
  /\ last = [event |-> NoKey, write |-> "nothing", xterm |-> FALSE]

-----------------------------------------------------------------------------
\* KittyKeyboardState: a full stack loses the oldest entry above the shell's.
Pushed(s, f) == Append(IF Len(s) >= StackLimit THEN RemoveAt(s, 2) ELSE s, f)
Popped(s, n) == SubSeq(s, 1, IF n < Len(s) THEN Len(s) - n ELSE 1)
SetTo(s, f, mode) ==
  LET cur == Last(s)
  IN [s EXCEPT ![Len(s)] = IF mode = 2 THEN cur \cup f ELSE IF mode = 3 THEN cur \ f ELSE f]

\* The CSI handlers: with the setting off only a query is answered, with no flags.
ApplyKittySequence(s) ==
  /\ kittyEnabled /\ stack' = s
  /\ UNCHANGED <<kittyEnabled, shiftEnterNewline, last>>
AnswerQuery ==
  /\ last' = [event |-> NoKey, write |-> IF kittyEnabled THEN Current ELSE {}, xterm |-> FALSE]
  /\ UNCHANGED <<stack, kittyEnabled, shiftEnterNewline>>
KittySequence ==
  \/ \E f \in AskedFlags : \/ ApplyKittySequence(Pushed(stack, f))
                           \/ \E mode \in 1..3 : ApplyKittySequence(SetTo(stack, f, mode))
  \/ \E n \in 1..StackLimit : ApplyKittySequence(Popped(stack, n))
  \/ AnswerQuery

\* applyLook: the flags stay as they are, and what is printed while off is not seen.
ApplyLook ==
  /\ kittyEnabled' \in BOOLEAN /\ shiftEnterNewline' \in BOOLEAN /\ UNCHANGED <<stack, last>>

-----------------------------------------------------------------------------
CtrlAltMeta(e) == e.mods \in {"ctrl", "meta"}
\* encodeKey, in the order of its returns: "defer" is its null, "nothing" its empty
\* string; an escape tells a release from a press.
Escape(e) == IF e.type = "release" THEN "escape of a release" ELSE "escape"
EncodeKey(e, flags) ==
  IF e.composing THEN "defer"
  ELSE IF e.type = "release" /\ "events" \notin flags THEN "nothing"
  ELSE IF e.key = "enter" /\ e.mods = "none" /\ e.type # "release" /\ "all" \notin flags
       THEN "byte"
  ELSE IF e.key = "letter" /\ ~CtrlAltMeta(e) /\ "all" \notin flags
       THEN IF e.type = "release" THEN "nothing" ELSE "text"
  ELSE IF e.key = "modifier" /\ "all" \notin flags THEN "nothing"
  ELSE IF {"disambiguate", "all"} \cap flags = {} THEN "defer"
  ELSE Escape(e)

\* handleKittyKey: Shift+Enter writes a soft newline where no program has negotiated.
Legacy == ~kittyEnabled \/ Current = {}
SoftNewline(e) == shiftEnterNewline /\ e.key = "enter" /\ e.mods = "shift" /\ Legacy
Handled(e, write, xterm) == last' = [event |-> e, write |-> write, xterm |-> xterm]
HandleKittyKey(e) ==
  IF SoftNewline(e) THEN Handled(e, IF e.type = "release" THEN "nothing" ELSE "newline", FALSE)
  ELSE IF e.mods = "meta" \/ Legacy \/ EncodeKey(e, Current) = "defer"
       THEN Handled(e, "nothing", TRUE)
  ELSE Handled(e, EncodeKey(e, Current), FALSE)
\* The custom key handler asks the app first about a chord with the command key.
KeyEvent(e) ==
  /\ IF e.mods = "meta" /\ e.type # "release" THEN Handled(e, "nothing", ~e.owned)
     ELSE HandleKittyKey(e)
  /\ UNCHANGED <<stack, kittyEnabled, shiftEnterNewline>>

KeyboardNext == KittySequence \/ ApplyLook \/ \E e \in Events : KeyEvent(e)

KeyboardSpec == KeyboardInit /\ [][KeyboardNext]_keyboardVars

-----------------------------------------------------------------------------
PaneTypes == last.write \in {"byte", "text", "newline", "escape"}
XtermTypes == last.xterm /\ last.event.type # "release"

(* Whatever flags programs have left behind, a key is typed by one party    *)
(* when it is pressed and by none when it is released: a shell under stale  *)
(* flags gets each letter and each Enter once, and no key is typed both by  *)
(* the pane and by xterm.js (terminal.ts handleKittyKey, encodeKey).        *)
KeyTypedOnce ==
  last.event.key \in KeyKinds \ {"modifier"} =>
     /\ ~(PaneTypes /\ XtermTypes)
     /\ PaneTypes \/ XtermTypes <=> last.event.type # "release" /\ ~last.event.owned
=============================================================================

------------------------- MODULE PaneContents_proofs -------------------------
(***************************************************************************)
(* Proofs about what a pane holds: the keys of its terminal, the contents  *)
(* it stores and is given back, and the bar of its browser.                *)
(***************************************************************************)
EXTENDS TerminalKeys, PaneRestore, BrowserBar, SequenceTheorems, TLAPS

(***************************************************************************)
(* TerminalKeys                                                            *)
(*                                                                         *)
(* A key is typed once, whatever flags the stack holds: KeyTypedOnce is    *)
(* about the last key event only, and every event establishes it from no   *)
(* assumption about the stack, so it is an invariant by itself.            *)
(***************************************************************************)
\* encodeKey writes for a press and for no release, unless it leaves the key to
\* xterm.js (kitty-keyboard.ts encodeKey).
LEMMA EncodingIsOfThePress ==
  ASSUME NEW e \in Events, NEW flags, e.key # "modifier", EncodeKey(e, flags) # "defer"
  PROVE  EncodeKey(e, flags) \in {"byte", "text", "newline", "escape"}
            <=> e.type # "release"
  <1>1. CASE e.type = "release" BY <1>1 DEF EncodeKey, Escape
  <1>2. CASE e.type # "release" BY <1>2 DEF EncodeKey, Escape
  <1> QED BY <1>1, <1>2

\* One key event, handled whole.
LEMMA EventTypesOnce ==
  ASSUME NEW e \in Events, KeyEvent(e) PROVE KeyTypedOnce'
  <1>. SUFFICES ASSUME e.key # "modifier" PROVE
         /\ ~(PaneTypes /\ XtermTypes)'
         /\ (PaneTypes \/ XtermTypes)' <=> e.type # "release" /\ ~e.owned
    <2>1. last'.event = e BY DEF KeyEvent, HandleKittyKey, Handled
    <2> QED BY <2>1 DEF KeyTypedOnce, KeyKinds
  <1>1. CASE e.mods = "meta" /\ e.type # "release"
    <2>1. last' = [event |-> e, write |-> "nothing", xterm |-> ~e.owned]
      BY <1>1 DEF KeyEvent, Handled
    <2>2. last'.event = e /\ last'.write = "nothing" /\ (last'.xterm <=> ~e.owned)
      BY <2>1
    <2> QED BY <1>1, <2>2 DEF PaneTypes, XtermTypes
  <1>2. CASE ~(e.mods = "meta" /\ e.type # "release")
    <2>1. HandleKittyKey(e) BY <1>2 DEF KeyEvent
    <2>2. e.type # "release" => ~e.owned BY <1>2 DEF Events
    <2>3. CASE SoftNewline(e)
      BY <2>1, <2>2, <2>3 DEF HandleKittyKey, Handled, PaneTypes, XtermTypes
    <2>4. CASE ~SoftNewline(e) /\ (e.mods = "meta" \/ Legacy \/ EncodeKey(e, Current) = "defer")
      BY <2>1, <2>2, <2>4 DEF HandleKittyKey, Handled, PaneTypes, XtermTypes
    <2>5. CASE ~SoftNewline(e) /\ ~(e.mods = "meta" \/ Legacy \/ EncodeKey(e, Current) = "defer")
      <3>1. last' = [event |-> e, write |-> EncodeKey(e, Current), xterm |-> FALSE]
        BY <2>1, <2>5 DEF HandleKittyKey, Handled
      <3>2. EncodeKey(e, Current) \in {"byte", "text", "newline", "escape"}
              <=> e.type # "release"
        BY <2>5, EncodingIsOfThePress
      <3> QED BY <2>2, <3>1, <3>2 DEF PaneTypes, XtermTypes
    <2> QED BY <2>3, <2>4, <2>5
  <1> QED BY <1>1, <1>2

\* A key is typed by one party when it is pressed and by none when it is released,
\* for every limit of the stack and whatever the programs of a terminal ask for.
THEOREM TypedOnce == KeyboardSpec => []KeyTypedOnce
  <1>1. KeyboardInit => KeyTypedOnce
    BY DEF KeyboardInit, NoKey, KeyTypedOnce, KeyKinds
  <1>2. KeyTypedOnce /\ [KeyboardNext]_keyboardVars => KeyTypedOnce'
    <2>. SUFFICES ASSUME KeyTypedOnce, [KeyboardNext]_keyboardVars PROVE KeyTypedOnce'
      OBVIOUS
    <2>1. CASE UNCHANGED last
      BY <2>1 DEF KeyTypedOnce, PaneTypes, XtermTypes
    <2>2. CASE AnswerQuery
      BY <2>2 DEF AnswerQuery, NoKey, KeyTypedOnce, KeyKinds
    <2>3. ASSUME NEW e \in Events, KeyEvent(e) PROVE KeyTypedOnce'
      BY <2>3, EventTypesOnce
    <2> QED BY <2>1, <2>2, <2>3
          DEF KeyboardNext, KittySequence, ApplyKittySequence, ApplyLook, keyboardVars
  <1> QED BY <1>1, <1>2, PTL DEF KeyboardSpec

-----------------------------------------------------------------------------
(***************************************************************************)
(* PaneRestore                                                             *)
(*                                                                         *)
(* Neither of its two properties is inductive: what may be typed rests on  *)
(* where the command of every leaf comes from, and what a restart gives    *)
(* back on how much of the stored stack is in the pane and how much is     *)
(* left to restore.                                                        *)
(***************************************************************************)
(* The command of every leaf there is was declared.                         *)
LeavesDeclared ==
  /\ leaf.command \in DeclaredCommands /\ stored.command \in DeclaredCommands
  /\ template.command \in DeclaredCommands

(* Building, syncing and observing a leaf leave its command alone.          *)
LEMMA CommandIsKept ==
  ASSUME NEW l, NEW was, NEW p
  PROVE  /\ LeafOf(l, was, p).command = l.command
         /\ Instantiate(l).command = l.command
         /\ Instantiate(l).last = Unknown
         /\ Synced(l, p).command = l.command
BY DEF LeafOf, Instantiate, Synced

LEMMA PersistKeepsCommand ==
  ASSUME NEW l, l.command \in DeclaredCommands, NEW p, Persist(l, p),
         stored.command \in DeclaredCommands
  PROVE  leaf'.command \in DeclaredCommands /\ stored'.command \in DeclaredCommands
<1>1. CASE starting BY <1>1 DEF Persist
<1>2. CASE ~starting BY <1>2, CommandIsKept DEF Persist
<1> QED BY <1>1, <1>2

THEOREM LeavesStayDeclared == RestoreSpec => []LeavesDeclared
<1>1. RestoreInit => LeavesDeclared
  <2> SUFFICES ASSUME RestoreInit PROVE LeavesDeclared OBVIOUS
  <2>1. PICK d \in Declared : leaf = Instantiate(d) /\ template = d BY DEF RestoreInit
  <2>2. d.command \in DeclaredCommands BY DEF DeclaredCommands
  <2>3. stored = leaf BY DEF RestoreInit
  <2> QED BY <2>1, <2>2, <2>3, CommandIsKept DEF LeavesDeclared
<1>2. LeavesDeclared /\ [RestoreNext]_restoreVars => LeavesDeclared'
  <2> SUFFICES ASSUME LeavesDeclared, [RestoreNext]_restoreVars PROVE LeavesDeclared'
    OBVIOUS
  <2>1. CASE UNCHANGED <<leaf, stored, template>> BY <2>1 DEF LeavesDeclared
  <2>2. ASSUME NEW l, l.command \in DeclaredCommands, NEW p, Persist(l, p),
               UNCHANGED template
        PROVE  LeavesDeclared'
    BY <2>2, PersistKeepsCommand DEF LeavesDeclared
  <2>3. CASE UseStack
    <3>1. PICK p : Stack(p) /\ UNCHANGED template
      <4>1. UNCHANGED template BY <2>3 DEF UseStack
      <4>2. ASSUME NEW c, OpenContent(c) PROVE \E p : Stack(p)
        BY <4>2 DEF OpenContent
      <4> QED BY <2>3, <4>1, <4>2 DEF UseStack
    <3> QED BY <3>1, <2>2 DEF Stack, LeavesDeclared
  <2>4. CASE Snapshot
    <3>1. PICK l \in {leaf, Observed} : Persist(l, pane) BY <2>4 DEF Snapshot
    <3>2. l.command \in DeclaredCommands
      BY <3>1, CommandIsKept DEF Observed, LeavesDeclared
    <3> QED BY <2>4, <3>1, <3>2, <2>2 DEF Snapshot
  <2>5. CASE SaveLayout
    <3>1. template'.command = leaf.command BY <2>5 DEF SaveLayout
    <3> QED BY <2>5, <3>1, CommandIsKept DEF SaveLayout, LeavesDeclared
  <2>6. ASSUME NEW t \in Declared \cup {template}, OpenLayout(t) PROVE LeavesDeclared'
    <3>1. t.command \in DeclaredCommands BY <2>6 DEF LeavesDeclared, DeclaredCommands
    <3> QED BY <2>6, <3>1, CommandIsKept DEF OpenLayout, LeavesDeclared
  <2>7. CASE Quit BY <2>7 DEF Quit, LeavesDeclared
  <2>8. CASE Start BY <2>8 DEF Start, LeavesDeclared
  <2>9. ASSUME NEW p, IsOpen(p), UNCHANGED template PROVE LeavesDeclared'
    BY <2>9, CommandIsKept DEF IsOpen, LeavesDeclared
  <2>10. CASE PanesAreOpen
    <3>1. CASE leaf.contents = <<>> /\ leaf.file
      BY <3>1, <2>9, <2>10 DEF PanesAreOpen
    <3>2. CASE ~(leaf.contents = <<>> /\ leaf.file)
      BY <3>2, <2>1, <2>10 DEF PanesAreOpen
    <3> QED BY <3>1, <3>2
  <2>11. CASE RestoreContent
    <3>1. UNCHANGED <<leaf, stored, template>> \/ ((\E p : Stack(p)) /\ UNCHANGED template)
      BY <2>11 DEF RestoreContent
    <3> QED BY <3>1, <2>1, <2>2 DEF Stack, LeavesDeclared
  <2>12. CASE Restored BY <2>12, <2>9 DEF Restored
  <2>13. CASE SessionEnds BY <2>13, <2>1 DEF SessionEnds
  <2>14. ASSUME NEW c, ShellRuns(c) PROVE LeavesDeclared' BY <2>14, <2>1 DEF ShellRuns
  <2>15. ASSUME NEW p, SetPolicy(p) PROVE LeavesDeclared' BY <2>15, <2>1 DEF SetPolicy
  <2>16. CASE UNCHANGED restoreVars BY <2>16, <2>1 DEF restoreVars
  <2> QED BY <2>3, <2>4, <2>5, <2>6, <2>7, <2>8, <2>10, <2>11, <2>12, <2>13, <2>14,
             <2>15, <2>16 DEF RestoreNext
<1> QED BY <1>1, <1>2, PTL DEF RestoreSpec

-----------------------------------------------------------------------------
(* A new shell is typed what its leaf declares, or under "all" what was     *)
(* observed, or nothing.                                                    *)
LEMMA SpawnsDeclared ==
  ASSUME NEW l
  PROVE  /\ policy = "never" => Typed(SpawnCommand(l)) = Idle
         /\ policy = "templates" => Typed(SpawnCommand(l)) = Typed(l.command)
BY DEF SpawnCommand, Typed

(* No command that was only observed is typed unless the policy is "all".   *)
THEOREM ObservedNeverTyped == RestoreSpec => ObservedStaysOut
<1>1. LeavesDeclared /\ [RestoreNext]_restoreVars => [StaysOut]_restoreVars
  <2> SUFFICES ASSUME LeavesDeclared, NewShell
               PROVE  /\ policy = "never" => running' = Idle
                      /\ policy = "templates" =>
                            running' \in {Typed(c) : c \in DeclaredCommands}
    BY DEF StaysOut
  <2>1. ASSUME NEW t \in Declared \cup {template}, OpenLayout(t)
        PROVE  \E l : /\ l.command \in DeclaredCommands
                      /\ running' = Typed(SpawnCommand(l))
    <3>1. t.command \in DeclaredCommands BY DEF LeavesDeclared, DeclaredCommands
    <3>2. Instantiate(t).command \in DeclaredCommands BY <3>1, CommandIsKept
    <3> QED BY <2>1, <3>2 DEF OpenLayout
  <2>2. ASSUME Start, ~lives
        PROVE  \E l : /\ l.command \in DeclaredCommands
                      /\ running' = Typed(SpawnCommand(l))
    BY <2>2 DEF Start, Spawn, LeavesDeclared
  <2>3. PICK l : l.command \in DeclaredCommands /\ running' = Typed(SpawnCommand(l))
    BY <2>1, <2>2 DEF NewShell
  <2> QED BY <2>3, SpawnsDeclared
<1> QED BY <1>1, LeavesStayDeclared, PTL DEF RestoreSpec, ObservedStaysOut

-----------------------------------------------------------------------------
(* While the app starts, what is in the pane and what is left to restore    *)
(* make up the saved stack, as long as every content has opened; nothing is  *)
(* written to the store meanwhile.                                          *)
Restoring == starting /\ step \in {"opening", "restoring"}
Remainder ==
  /\ step = "open" => ~starting
  /\ Restoring => leaf.contents = stored.contents /\ leaf.index = stored.index
  /\ starting \/ step = "closed" =>
        saved = [contents |-> stored.contents, index |-> stored.index]
  /\ starting /\ step = "opening" => pane.contents = <<>>
  /\ starting /\ step = "restoring" /\ faultless /\ stored.contents \in Seq(Paths) =>
        /\ pane.contents \in Seq(Paths) /\ todo \in Seq(Paths)
        /\ pane.contents \o todo = stored.contents

(* Moving the head of what is left to the end of what is there changes      *)
(* nothing of both together.                                                *)
LEMMA MoveHead ==
  ASSUME NEW S, NEW s \in Seq(S), NEW t \in Seq(S), t # <<>>
  PROVE  /\ Append(s, Head(t)) \in Seq(S) /\ Tail(t) \in Seq(S)
         /\ Append(s, Head(t)) \o Tail(t) = s \o t
<1>1. Head(t) \in S /\ Tail(t) \in Seq(S) BY HeadTailProperties
<1>2. Append(s, Head(t)) = s \o <<Head(t)>> BY <1>1, AppendIsConcat
<1>3. <<Head(t)>> \in Seq(S) BY <1>1
<1>4. <<Head(t)>> \o Tail(t) = t BY <1>1
<1>5. (s \o <<Head(t)>>) \o Tail(t) = s \o (<<Head(t)>> \o Tail(t))
  BY <1>1, <1>3, ConcatAssociative
<1> QED BY <1>1, <1>2, <1>4, <1>5, AppendProperties

(* While the app starts, persisting writes nothing.                         *)
LEMMA StartingPersists ==
  ASSUME NEW l, NEW p, starting, Persist(l, p)
  PROVE  leaf' = l /\ UNCHANGED stored
BY DEF Persist

THEOREM RemainderHolds == RestoreSpec => []Remainder
<1>1. RestoreInit => Remainder BY DEF RestoreInit, Remainder, Restoring
<1>2. Remainder /\ [RestoreNext]_restoreVars => Remainder'
  <2> SUFFICES ASSUME Remainder, [RestoreNext]_restoreVars PROVE Remainder'
    OBVIOUS
  <2> DEFINE Kept == UNCHANGED <<leaf, stored, pane, step, todo, starting, saved, faultless>>
  <2>1. CASE Kept BY <2>1 DEF Remainder, Restoring
  <2>2. ASSUME ~starting', step' # "closed" PROVE Remainder'
    BY <2>2 DEF Remainder, Restoring
  <2>3. CASE UseStack BY <2>3, <2>2 DEF UseStack, Used, Opening
  <2>4. CASE Snapshot
    <3>1. step # "closed" /\ UNCHANGED <<pane, step, todo, starting, saved, faultless>>
      BY <2>4 DEF Snapshot, Opening
    <3>2. PICK l \in {leaf, Observed} : Persist(l, pane) BY <2>4 DEF Snapshot
    <3>3. l.contents = leaf.contents /\ l.index = leaf.index BY <3>2 DEF Observed, LeafOf
    <3>4. CASE starting
      BY <3>1, <3>2, <3>3, <3>4, StartingPersists DEF Remainder, Restoring
    <3> QED BY <3>1, <3>4, <2>2
  <2>5. CASE SaveLayout BY <2>5, <2>2 DEF SaveLayout, Used, Opening
  <2>6. ASSUME NEW t, OpenLayout(t) PROVE Remainder'
    BY <2>6 DEF OpenLayout, Remainder, Restoring
  <2>7. CASE Quit BY <2>7 DEF Quit, Remainder, Restoring
  <2>8. CASE Start BY <2>8 DEF Start, Terminal, Remainder, Restoring
  <2>9. ASSUME NEW p, IsOpen(p) PROVE Remainder' BY <2>9, <2>2 DEF IsOpen
  <2>10. CASE PanesAreOpen
    <3>1. CASE leaf.contents = <<>> /\ leaf.file BY <3>1, <2>9, <2>10 DEF PanesAreOpen
    <3>2. CASE ~(leaf.contents = <<>> /\ leaf.file)
      <4>1. /\ step = "opening" /\ step' = "restoring" /\ todo' = leaf.contents
            /\ UNCHANGED <<leaf, pane, stored, starting, saved, faultless>>
        BY <3>2, <2>10 DEF PanesAreOpen
      <4>2. ASSUME stored.contents \in Seq(Paths)
            PROVE  <<>> \in Seq(Paths) /\ <<>> \o stored.contents = stored.contents
        BY <4>2, ConcatEmptySeq
      <4> QED BY <4>1, <4>2 DEF Remainder, Restoring
    <3> QED BY <3>1, <3>2
  <2>11. CASE RestoreContent
    <3>1. /\ step = "restoring" /\ todo # <<>> /\ todo' = Tail(todo)
          /\ UNCHANGED <<step, starting, saved>>
      BY <2>11 DEF RestoreContent
    <3>2. CASE ~starting BY <3>1, <3>2, <2>2
    <3>3. CASE starting
      <4>1. leaf' = leaf /\ UNCHANGED stored
        BY <2>11, <3>3, StartingPersists DEF RestoreContent, Stack
      <4>2. CASE faultless'
        <5>1. faultless /\ pane'.contents = Append(pane.contents, Head(todo))
          <6>1. Stack(Added(pane, Head(todo))) /\ UNCHANGED faultless
            BY <2>11, <4>2 DEF RestoreContent
          <6>2. pane' = Added(pane, Head(todo)) BY <6>1 DEF Stack
          <6> QED BY <6>1, <6>2, <4>2 DEF Added
        <5>2. ASSUME stored.contents \in Seq(Paths)
              PROVE  /\ pane'.contents \in Seq(Paths) /\ todo' \in Seq(Paths)
                     /\ pane'.contents \o todo' = stored.contents
          <6>1. /\ pane.contents \in Seq(Paths) /\ todo \in Seq(Paths)
                /\ pane.contents \o todo = stored.contents
            BY <5>1, <5>2, <3>1, <3>3 DEF Remainder
          <6> DEFINE moved == Append(pane.contents, Head(todo))
          <6>2. /\ moved \in Seq(Paths) /\ Tail(todo) \in Seq(Paths)
                /\ moved \o Tail(todo) = pane.contents \o todo
            BY <6>1, <3>1, MoveHead, ZenonT(60)
          <6>3. pane'.contents = moved /\ todo' = Tail(todo) BY <5>1, <3>1
          <6> HIDE DEF moved
          <6> QED BY <6>1, <6>2, <6>3
        <5> QED BY <5>2, <3>1, <3>3, <4>1 DEF Remainder, Restoring
      <4>3. CASE ~faultless' BY <4>3, <3>1, <3>3, <4>1 DEF Remainder, Restoring
      <4> QED BY <4>2, <4>3
    <3> QED BY <3>2, <3>3
  <2>12. CASE Restored BY <2>12, <2>9 DEF Restored
  <2>13. CASE SessionEnds BY <2>13, <2>1 DEF SessionEnds, Opening
  <2>14. ASSUME NEW c, ShellRuns(c) PROVE Remainder' BY <2>14, <2>1 DEF ShellRuns, Opening
  <2>15. ASSUME NEW p, SetPolicy(p) PROVE Remainder' BY <2>15, <2>1 DEF SetPolicy, Opening
  <2>16. CASE UNCHANGED restoreVars BY <2>16, <2>1 DEF restoreVars
  <2> QED BY <2>3, <2>4, <2>5, <2>6, <2>7, <2>8, <2>10, <2>11, <2>12, <2>13, <2>14,
             <2>15, <2>16 DEF RestoreNext
<1> QED BY <1>1, <1>2, PTL DEF RestoreSpec

(* A restart in which everything opens gives the saved pane back.           *)
THEOREM StackIsGivenBack == RestoreSpec => GivesTheStackBack
<1>1. Remainder /\ [RestoreNext]_restoreVars => [GivesBack]_restoreVars
  <2> SUFFICES ASSUME Remainder, Restored, starting, faultless,
                      saved.contents \in Seq(Paths) \ {<<>>},
                      saved.index <= Len(saved.contents)
               PROVE  pane' = saved
    BY DEF GivesBack
  <2>0. saved = [contents |-> stored.contents, index |-> stored.index] BY DEF Remainder
  <2>1. step = "restoring" /\ todo = <<>> /\ pane' = Shown BY DEF Restored, IsOpen
  <2>2. pane.contents \in Seq(Paths) /\ pane.contents \o <<>> = stored.contents
    BY <2>0, <2>1 DEF Remainder
  <2>3. pane.contents = stored.contents BY <2>2, ConcatEmptySeq
  <2>4. leaf.index = stored.index BY <2>1 DEF Remainder, Restoring
  <2> QED BY <2>0, <2>1, <2>3, <2>4 DEF Shown, Showing
<1> QED BY <1>1, RemainderHolds, PTL DEF RestoreSpec, GivesTheStackBack

-----------------------------------------------------------------------------
(***************************************************************************)
(* BrowserBar                                                              *)
(*                                                                         *)
(* Whether the view begins where the bar ends is not inductive alone: a    *)
(* bar that is thin before the view has opened must leave the observer's   *)
(* first report to come.                                                   *)
(***************************************************************************)
BarTypeOK ==
    /\ opened \in BOOLEAN /\ disposed \in BOOLEAN /\ collapsed \in BOOLEAN
    /\ timer \in BOOLEAN /\ autoHide \in BOOLEAN /\ focused \in BOOLEAN
    /\ observed \in BOOLEAN

BarInv == BarTypeOK /\ BarStays /\ ViewBelowBar

(* Every way of laying the bar out again keeps what the bar promises.       *)
LEMMA ExpandKeeps ==
  ASSUME BarInv, NEW on \in BOOLEAN, NEW typing \in BOOLEAN, Expand(on, typing),
         autoHide' = on, focused' = typing, UNCHANGED <<opened, disposed, observed>>
  PROVE  BarInv'
<1>1. BarTypeOK' BY DEF BarInv, BarTypeOK, Expand, ScheduleHide
<1>2. BarStays' BY DEF BarInv, BarTypeOK, BarStays, Expand, ScheduleHide
<1>3. ViewBelowBar'
  BY DEF BarInv, BarTypeOK, ViewBelowBar, Expand, SyncBounds, Bar
<1> QED BY <1>1, <1>2, <1>3 DEF BarInv

LEMMA ScheduleKeeps ==
  ASSUME BarInv, NEW on \in BOOLEAN, NEW typing \in BOOLEAN, ScheduleHide(on, typing),
         (typing \/ ~on) => ~collapsed, autoHide' = on, focused' = typing,
         UNCHANGED <<opened, disposed, collapsed, native, observed>>
  PROVE  BarInv'
<1>1. BarTypeOK' BY DEF BarInv, BarTypeOK, ScheduleHide
<1>2. BarStays' BY DEF BarInv, BarTypeOK, BarStays, ScheduleHide
<1>3. ViewBelowBar' BY DEF BarInv, ViewBelowBar, Bar
<1> QED BY <1>1, <1>2, <1>3 DEF BarInv

(* The bar of a browser stays while it is written in or wanted, and the     *)
(* view is where it ends (expand, scheduleHide, syncBounds).                *)
THEOREM BarIsThere == BarSpec => [](BarStays /\ ViewBelowBar)
<1>1. BarInit => BarInv
  BY DEF BarInit, BarInv, BarTypeOK, BarStays, ViewBelowBar
<1>2. BarInv /\ [BarNext]_barVars => BarInv'
  <2> SUFFICES ASSUME BarInv, [BarNext]_barVars PROVE BarInv'
    OBVIOUS
  <2> USE DEF BarInv
  <2>1. ASSUME UNCHANGED <<opened, disposed, collapsed, timer, autoHide, focused,
                           native, observed>>
        PROVE  BarInv'
    BY <2>1 DEF BarTypeOK, BarStays, ViewBelowBar, Bar
  <2>2. CASE Opened
    BY <2>2 DEF Opened, BarTypeOK, BarStays, ViewBelowBar
  <2>3. CASE Listens
    BY <2>3, ScheduleKeeps DEF Listens, BarTypeOK, BarStays
  <2>4. CASE Resized
    BY <2>4 DEF Resized, SyncBounds, BarTypeOK, BarStays, ViewBelowBar, Bar
  <2>5. CASE Show
    BY <2>5 DEF Show, SyncBounds, BarTypeOK, BarStays, ViewBelowBar, Bar
  <2>6. CASE FocusAddress
    BY <2>6, ExpandKeeps DEF FocusAddress, BarTypeOK
  <2>7. CASE MouseEnters
    BY <2>7, ExpandKeeps DEF MouseEnters, BarTypeOK
  <2>8. ASSUME ReturnFocus PROVE BarInv'
    BY <2>8, ScheduleKeeps DEF ReturnFocus, BarTypeOK, BarStays
  <2>9. CASE TimerFires
    BY <2>9 DEF TimerFires, SyncBounds, BarTypeOK, BarStays, ViewBelowBar, Bar
  <2>10. CASE Dispose
    BY <2>10 DEF Dispose, BarTypeOK, BarStays, ViewBelowBar
  <2>11. ASSUME NEW on \in BOOLEAN, ConfigureAutoHide(on) PROVE BarInv'
    <3>1. CASE on
      BY <2>11, <3>1, ScheduleKeeps DEF ConfigureAutoHide, BarTypeOK, BarStays
    <3>2. CASE ~on
      BY <2>11, <3>2, ExpandKeeps DEF ConfigureAutoHide, BarTypeOK
    <3> QED BY <3>1, <3>2
  <2>12. ASSUME NEW u, Navigated(u) \/ Answered(u) \/ TypeAddress(u) PROVE BarInv'
    BY <2>12, <2>1 DEF Navigated, Answered, TypeAddress
  <2>13. CASE UNCHANGED barVars
    BY <2>13, <2>1 DEF barVars
  <2> QED BY <2>2, <2>3, <2>4, <2>5, <2>6, <2>7, <2>8, <2>9, <2>10, <2>11, <2>12,
             <2>13 DEF BarNext, Leave, Enter
<1> QED BY <1>1, <1>2, PTL DEF BarSpec, BarInv

(* What is being written in the address is overwritten by nobody (the       *)
(* listener and the answer of browserUrl ask for the focus first).          *)
THEOREM DraftStays == BarSpec => DraftIsKept
<1> DEFINE Kept == focused /\ address' # address => \E i \in Inputs : TypeAddress(i)
<1>1. [BarNext]_barVars => [Kept]_barVars
  <2> SUFFICES ASSUME BarNext, focused, address' # address
               PROVE  \E i \in Inputs : TypeAddress(i)
    OBVIOUS
  <2>1. ~(Opened \/ Listens \/ Resized \/ Show \/ FocusAddress \/ MouseEnters
          \/ Leave \/ Enter \/ TimerFires \/ Dispose)
    BY DEF Opened, Listens, Resized, Show, FocusAddress, MouseEnters, Leave, Enter,
           ReturnFocus, TimerFires, Dispose
  <2>2. ASSUME NEW u PROVE ~(Navigated(u) \/ Answered(u))
    BY DEF Navigated, Answered, Resync
  <2>3. ASSUME NEW on PROVE ~ConfigureAutoHide(on) BY DEF ConfigureAutoHide
  <2> QED BY <2>1, <2>2, <2>3 DEF BarNext
<1> QED BY <1>1, PTL DEF BarSpec, DraftIsKept
=============================================================================

----------------------------- MODULE FocusTimer -----------------------------
(***************************************************************************)
(* The focus timer: TimerMachine (focus/machine.ts), the cell that shows   *)
(* it and logs its blocks (focus/cell.ts) and the settings panel of the    *)
(* cell (focus/panel.ts).                                                  *)
(*                                                                         *)
(* Time is counted in whole units.  The machine derives its position from  *)
(* time stamps, so the model lets the window be throttled: a Tick may come *)
(* any time after the last one.  The cell only learns of a phase by        *)
(* rendering it, and writes the log from the phases it saw.                *)
(***************************************************************************)
EXTENDS Integers, Sequences, SequencesExt

CONSTANTS Presets,    \* config.focus.presets: a sequence of records
          Lengths,    \* the focus lengths that clampFocusMin lets through
          OverflowCap,\* overflow_cap_min, with overflow_enabled
          MaxAdvances,\* MAX_CHAINED_ADVANCES
          MaxTime,    \* time units (bound)
          MaxClicks   \* actions of the user (bound)

\* A preset: its times, and max(1, cyclesBeforeLong).
PresetKinds == [focus : Nat, rest : Nat, longRest : Nat, every : Nat \ {0}, auto : BOOLEAN]

\* MAX_CHAINED_ADVANCES segments can make up for a whole session: of two that
\* follow each other one takes a unit of time at least.
FocusConstantsOk ==
  /\ 1 \in DOMAIN Presets
  /\ \A p \in DOMAIN Presets : Presets[p] \in PresetKinds
  /\ Lengths \subseteq Nat /\ OverflowCap \in Int /\ MaxTime \in Nat
  /\ MaxAdvances \in Nat /\ MaxAdvances >= 2 * MaxTime + 10

VARIABLES timer,      \* the TimerMachine
          cell,       \* the FocusCell
          logChain,   \* log events that are not sent yet
          now, clicks,
          unpaused    \* unpaused time since the block started

focusVars == <<timer, cell, logChain, now, clicks, unpaused>>

Never == -1
Stopped == [active |-> FALSE, preset |-> Presets[1], segment |-> "focus",
            startedAt |-> 0, pausedAccum |-> 0, pausedAt |-> Never,
            blocks |-> 0, cycles |-> 0, breaks |-> 0, focused |-> 0]
Started(preset, t) == [Stopped EXCEPT !.active = TRUE, !.preset = preset,
                                      !.startedAt = t]

Elapsed(m, t) == t - m.startedAt - m.pausedAccum
Planned(m) == CASE m.segment = "focus" -> m.preset.focus
                [] m.segment = "break" -> m.preset.rest
                [] m.segment = "long_break" -> m.preset.longRest
OpenEnded(m) == m.segment = "focus" /\ m.preset.focus = 0

\* advanceSegment and completeFocusBlock: the segment ends at time t.
Advance(m, t) ==
  LET next == [m EXCEPT !.startedAt = t, !.pausedAccum = 0]
      done == m.blocks + 1
  IN IF m.segment = "focus"
     THEN [next EXCEPT
             !.focused = @ + Elapsed(m, t), !.cycles = @ + 1, !.blocks = done,
             !.segment = IF m.preset.longRest > 0 /\ done % m.preset.every = 0
                         THEN "long_break" ELSE "break"]
     ELSE [next EXCEPT !.breaks = @ + 1, !.segment = "focus",
                       !.blocks = IF m.segment = "long_break" THEN 0 ELSE @]

PlannedEnd(m) == m.startedAt + m.pausedAccum + Planned(m)

\* runAutoAdvance, MAX_CHAINED_ADVANCES at most: the machine after each of them.
GoesOn(m, t) == OpenEnded(m) \/ Elapsed(m, t) < Planned(m)
\* Mutant of ChainStep: the next segment starts when the tick comes.
ChainStepFromNow(m, t) == IF GoesOn(m, t) THEN m ELSE Advance(m, t)
\* Segments follow each other from planned end to planned end.
ChainStep(m, t) == IF GoesOn(m, t) THEN m ELSE Advance(m, PlannedEnd(m))
Chain(m, t) ==
  LET after[n \in 0..MaxAdvances] == IF n = 0 THEN m ELSE ChainStep(after[n - 1], t)
  IN after
AutoAdvance(m, t) == Chain(m, t)[MaxAdvances]

CutOverflow(m, t) ==
  IF m.segment /= "focus" \/ OpenEnded(m) \/ OverflowCap <= 0
     \/ Elapsed(m, t) - Planned(m) < OverflowCap
  THEN m ELSE Advance(m, PlannedEnd(m) + OverflowCap)

Ticked(m, t) ==
  IF ~m.active \/ m.pausedAt /= Never THEN m
  ELSE CutOverflow(IF m.preset.auto THEN AutoAdvance(m, t) ELSE m, t)

PauseMachine(m, t) == IF ~m.active \/ m.pausedAt /= Never THEN m
                      ELSE [m EXCEPT !.pausedAt = t]
ResumeMachine(m, t) ==
  IF m.pausedAt = Never THEN m
  ELSE [m EXCEPT !.pausedAccum = @ + t - m.pausedAt, !.pausedAt = Never]
SkipMachine(m, t) == IF ~m.active THEN m
                     ELSE [Advance(m, t) EXCEPT !.pausedAt = Never]

\* The phase of the view that tick returns.
Phase(m, t) ==
  CASE ~m.active -> "idle"
    [] m.active /\ m.pausedAt /= Never -> "paused"
    [] m.active /\ m.pausedAt = Never /\ m.segment /= "focus" -> "break"
    [] OTHER -> IF ~OpenEnded(m) /\ Elapsed(m, t) >= Planned(m) /\ ~m.preset.auto
                THEN "overflow" ELSE "running"

-----------------------------------------------------------------------------
\* The cell.  0 is no staged preset and no override; Never: none is staged.
WithOverride(preset, min) == IF min = 0 THEN preset ELSE [preset EXCEPT !.focus = min]
ActivePreset == WithOverride(Presets[cell.preset], cell.override)

\* logEventsFor: nothing is logged while the metrics are off.
LogEvents(c, kind, status, length) ==
  IF ~c.metrics THEN <<>>
  ELSE <<[kind |-> kind, block |-> c.block, status |-> status, length |-> length]>>
EmitLog(c, kind, status, length) ==
  [c EXCEPT !.out = @ \o LogEvents(c, kind, status, length)]

AccumulatePause(c, next, t) ==
  IF c.phase /= "paused" \/ next = "paused" \/ c.pausedSince = Never THEN c
  ELSE [c EXCEPT !.pausedFor = @ + t - c.pausedSince, !.pausedSince = Never]

BeginFocusBlock(c, t) ==
  EmitLog([c EXCEPT !.block = c.lastBlock + 1, !.lastBlock = @ + 1, !.startedAt = t,
                 !.pausedFor = 0, !.pausedSince = Never], "start", "running", 0)
PauseUpdate(c) ==
  IF c.block = 0 THEN c ELSE EmitLog(c, "update", "running", c.pausedFor)
PauseFocusBlock(c, t) ==
  IF c.block = 0 THEN c ELSE PauseUpdate([c EXCEPT !.pausedSince = t])

\* Mutant of EndFocusBlock: a pause that is still open is not taken off.
EndWithoutOpenPause(c, status, t) ==
  IF c.block = 0 THEN c
  ELSE [EmitLog(c, "end", status, t - c.startedAt - c.pausedFor) EXCEPT
          !.block = 0, !.pausedSince = Never]
EndFocusBlock(c, status, t) ==
  IF c.block = 0 THEN c
  ELSE LET a == IF c.pausedSince = Never THEN c
                ELSE PauseUpdate([c EXCEPT !.pausedFor = @ + t - c.pausedSince,
                                           !.pausedSince = Never])
       IN [EmitLog(a, "end", status, t - a.startedAt - a.pausedFor) EXCEPT !.block = 0]

\* trackFocusSession: what the log makes of the phase that follows c.phase.
Track(c, next, t, skipped) ==
  LET a == AccumulatePause(c, next, t)
      b == IF c.pausedSince /= Never /\ a.pausedSince = Never
           THEN PauseUpdate(a) ELSE a
  IN CASE next = "running" /\ c.phase \in {"idle", "break"} -> BeginFocusBlock(a, t)
       [] next = "paused" -> PauseFocusBlock(b, t)
       [] next = "break" /\ c.phase /= "idle"
            -> EndFocusBlock(b, IF skipped THEN "skipped" ELSE "completed", t)
       [] next = "idle" -> EndFocusBlock(b, "abandoned", t)
       [] OTHER -> b

\* render(machine.tick(now)): machine m is ticked and cell c catches up with it.
Render(m, c, skipped) ==
  LET ticked == Ticked(m, now)
      next == Phase(ticked, now)
      seen == IF next = c.phase THEN c ELSE Track(c, next, now, skipped)
  IN /\ timer' = ticked
     /\ cell' = [seen EXCEPT !.phase = next, !.out = <<>>]
     /\ logChain' = logChain \o seen.out
     /\ unpaused' = IF seen.lastBlock = c.lastBlock THEN unpaused ELSE 0

\* The constructor renders once and starts the interval.
FocusInit ==
  /\ timer = Stopped /\ now = 0 /\ clicks = 0
  /\ cell = [preset |-> 1, staged |-> 0, override |-> 0, stagedOverride |-> Never,
             phase |-> "idle", block |-> 0, lastBlock |-> 0, startedAt |-> 0,
             pausedFor |-> 0, pausedSince |-> Never, metrics |-> TRUE,
             disposed |-> FALSE, out |-> <<>>]
  /\ logChain = <<>> /\ unpaused = 0

TimePasses ==
  /\ ~cell.disposed /\ now < MaxTime /\ now' = now + 1
  /\ unpaused' = IF timer.active /\ timer.pausedAt = Never
                 THEN unpaused + 1 ELSE unpaused
  /\ UNCHANGED <<timer, cell, logChain, clicks>>

Tick == /\ ~cell.disposed /\ Render(timer, cell, FALSE)
        /\ UNCHANGED <<now, clicks>>

Click == /\ ~cell.disposed /\ clicks < MaxClicks /\ clicks' = clicks + 1
         /\ UNCHANGED now

\* The button goes by the phase that was rendered last.
ToggleStart ==
  /\ Click
  /\ Render(CASE cell.phase = "idle" -> Started(ActivePreset, now)
              [] cell.phase = "paused" -> ResumeMachine(timer, now)
              [] OTHER -> PauseMachine(timer, now), cell, FALSE)

Skip == Click /\ Render(SkipMachine(timer, now), cell, TRUE)

CommitStagedPreset(c) ==
  IF c.staged = 0 THEN c ELSE [c EXCEPT !.preset = c.staged, !.staged = 0]
\* reset: the staged preset is committed, an override never outlives it.
Reset ==
  /\ Click
  /\ Render(Stopped, [CommitStagedPreset(cell) EXCEPT !.override = 0,
                                                     !.stagedOverride = Never], FALSE)

\* The app saw no input for idle_after_ms: a running timer is paused.
PauseIfRunning ==
  /\ ~cell.disposed /\ cell.phase \in {"running", "break", "overflow"}
  /\ Render(PauseMachine(timer, now), cell, FALSE)
  /\ UNCHANGED <<now, clicks>>

OverrideSet(c, min) == IF c.phase = "idle"
                       THEN [c EXCEPT !.override = min, !.stagedOverride = Never]
                       ELSE [c EXCEPT !.stagedOverride = min]
\* The panel: a preset clears the override, a chip or the stepper sets it.
PickPreset(p) ==
  /\ Click
  /\ LET c == OverrideSet(cell, 0)
     IN Render(timer, IF cell.phase = "idle" THEN [c EXCEPT !.preset = p, !.staged = 0]
                      ELSE [c EXCEPT !.staged = p], FALSE)
SetFocusMin(min) == /\ Click
                    /\ Render(timer, OverrideSet(cell, min), FALSE)

\* A saved configuration reaches the cell; only the metrics matter here.
SetConfig == /\ Click /\ cell' = [cell EXCEPT !.metrics = ~@]
             /\ UNCHANGED <<timer, logChain, unpaused>>

Dispose ==
  /\ Click /\ UNCHANGED <<timer, unpaused>>
  /\ LET ended == EndFocusBlock(cell, "abandoned", now)
     IN /\ cell' = [ended EXCEPT !.disposed = TRUE, !.out = <<>>]
        /\ logChain' = logChain \o ended.out

\* The calls are chained: one is sent when the one before it has settled.
SendLogEvent == /\ logChain /= <<>> /\ logChain' = Tail(logChain)
                /\ UNCHANGED <<timer, cell, now, clicks, unpaused>>

FocusNext ==
  \/ TimePasses \/ Tick \/ ToggleStart \/ Skip \/ Reset \/ PauseIfRunning
  \/ \E p \in DOMAIN Presets : PickPreset(p)
  \/ \E min \in Lengths : SetFocusMin(min)
  \/ SetConfig \/ Dispose \/ SendLogEvent

-----------------------------------------------------------------------------
\* However rarely a throttled window ticks, it shows what it would have shown:
\* ticking in between makes no difference to the segment, its start, the counts
\* and the focused time (machine.ts: "never losing the overshoot").
TickSpacingIsInvisible ==
  \A d, e \in 1..2 : Ticked(Ticked(timer, now + d), now + d + e)
                       = Ticked(timer, now + d + e)

\* A step in which a block ends, while the metrics are on, logs its end with the
\* unpaused time since its start: whichever of the phases, the skip, the reset or
\* the closing of the cell ended it, and with whatever pauses before.
BlocksAreAccounted ==
  (cell.metrics /\ cell.block /= 0 /\ (cell'.block /= cell.block \/ cell'.disposed)) =>
    \E i \in DOMAIN logChain' :
      /\ i > Len(logChain) /\ logChain'[i].kind = "end"
      /\ logChain'[i].block = cell.block /\ logChain'[i].length = unpaused
=============================================================================

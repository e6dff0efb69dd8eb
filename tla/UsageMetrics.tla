---------------------------- MODULE UsageMetrics ----------------------------
(***************************************************************************)
(* The usage metrics of a window: what app.ts logs when tabs open, come to *)
(* the front, close, and when agents and the user work or rest, and the    *)
(* logger of metrics.ts that hands the events on in batches.               *)
(*                                                                         *)
(* A batch in flight lets every other step in.  Time is a choice: a tick   *)
(* finds the tabs stale or not and the user idle or not.  Events that mark *)
(* a moment (tab_created, tab_activated, input_activity and such) go the   *)
(* way of those that open or close a span and are left out.                *)
(***************************************************************************)
EXTENDS Naturals, Sequences, SequencesExt

CONSTANTS TabOrder,    \* the terminal tabs, in the order they open
          ProjectOf,   \* the project of a tab, "null" when it has none
          MaxEvents    \* events logged (bound)

VARIABLES metricsOn,   \* config.metrics.enabled
          open,        \* the tabs, in order
          inFront,     \* activeId, "null" when no tab is left
          opening,     \* the tab whose panes are still being opened
          agentState,  \* the primary state of the agents of each tab
          tracked,     \* agentMetricsState
          dormancy,    \* tabDormancy: "shown", "hidden", "dormant" or "none"
          idle, project,
          buffer, batch, disposed,
          delivered    \* what the sink has taken

metricsVars == <<metricsOn, open, inFront, opening, agentState, tracked, dormancy, idle,
                 project, buffer, batch, disposed, delivered>>

Tabs == ToSet(TabOrder)
Busy == {"working", "waiting"}
\* All that was logged: delivered, in flight and waiting.
Stream == delivered \o batch \o buffer
Room == Len(Stream) < MaxEvents
Living == ~disposed /\ inFront # "null"

\* MetricsLogger.log of a run of events, dropped while metrics are off.
Log(events) == LET kept == IF metricsOn THEN events ELSE <<>> IN
  /\ buffer' = buffer \o kept
  /\ UNCHANGED <<batch, delivered>>
Quiet == UNCHANGED <<buffer, batch, delivered>>

MetricsInit ==
  /\ metricsOn \in BOOLEAN /\ open = <<TabOrder[1]>> /\ inFront = TabOrder[1]
  /\ opening = "null" /\ agentState = [t \in Tabs |-> "none"] /\ tracked = agentState
  /\ dormancy = [t \in Tabs |-> IF metricsOn /\ t = TabOrder[1] THEN "shown" ELSE "none"]
  /\ idle = FALSE /\ project = "null"
  /\ buffer = <<>> /\ batch = <<>> /\ disposed = FALSE
  /\ delivered = <<>>

\* dormancyTransition and the event it emits, for a tab that is tracked.
Transition(d, input) ==
  CASE input = "shown" /\ d # "none"          -> "shown"
    [] input = "activity" /\ d = "dormant"    -> "hidden"
    [] input = "hidden" /\ d = "shown"        -> "hidden"
    [] input = "stale" /\ d = "hidden"        -> "dormant"
    [] OTHER                                  -> d
Emitted(t, d, e) == CASE d = "dormant" /\ e # d -> <<<<"tab_woken", t>>>>
                      [] e = "dormant" /\ e # d -> <<<<"tab_dormant", t>>>>
                      [] OTHER                  -> <<>>
\* Every tab of a map takes its input, the tabs in order.
Fed(input) == IF metricsOn THEN [t \in Tabs |-> Transition(dormancy[t], input[t])]
              ELSE dormancy
FedEvents(input) == FlattenSeq([i \in DOMAIN TabOrder |->
   Emitted(TabOrder[i], dormancy[TabOrder[i]], Fed(input)[TabOrder[i]])])
Only(t, input) == [u \in Tabs |-> IF u = t THEN input ELSE "none"]

\* emitProjectFocusMetrics, and the events of it.
Focused(p) == IF metricsOn THEN p ELSE project
FocusEvents(p) ==
  IF p = project THEN <<>>
  ELSE (IF project = "null" THEN <<>> ELSE <<<<"project_unfocused", project>>>>)
    \o (IF p = "null" THEN <<>> ELSE <<<<"project_focused", p>>>>)
SetActiveProject(p) == project' = Focused(p)
SameProject == UNCHANGED project

Activate(t) == LET input == [Only(t, "shown") EXCEPT ![inFront] = "hidden"] IN
  /\ Living /\ Room /\ t \in ToSet(open) \ {inFront}
  /\ inFront' = t /\ dormancy' = Fed(input)
  /\ Log(FedEvents(input) \o FocusEvents(ProjectOf[t]))
  /\ SetActiveProject(ProjectOf[t])
  /\ UNCHANGED <<metricsOn, open, opening, agentState, tracked, idle, disposed>>

\* openTerminalTab up to the first await, and from the last one on.
OpenTab(t) ==
  /\ Living /\ Room /\ opening = "null"
  /\ t \in Tabs \ ToSet(open) /\ agentState[t] = "none"
  /\ \A i \in DOMAIN TabOrder : TabOrder[i] = t => i > Len(open)
  /\ open' = Append(open, t) /\ inFront' = t /\ opening' = t
  /\ dormancy' = IF metricsOn THEN [dormancy EXCEPT ![t] = "shown"] ELSE dormancy
  /\ Quiet /\ SameProject
  /\ UNCHANGED <<metricsOn, agentState, tracked, idle, disposed>>
TabIsOpen ==
  /\ opening # "null" /\ opening' = "null"
  /\ Log(FocusEvents(ProjectOf[opening])) /\ SetActiveProject(ProjectOf[opening])
  /\ UNCHANGED <<metricsOn, open, inFront, agentState, tracked, dormancy, idle, disposed>>

Untracked(t) == IF metricsOn THEN /\ dormancy' = [dormancy EXCEPT ![t] = "none"]
                                  /\ tracked' = [tracked EXCEPT ![t] = "none"]
                ELSE UNCHANGED <<dormancy, tracked>>
\* doCloseTab, without the dialog of an editor tab; its jobs are serialized.
CloseTab(t) == LET at == SelectInSeq(open, LAMBDA u : u = t)
                   rest == Remove(open, t) IN
  /\ Living /\ Room /\ opening = "null" /\ t \in ToSet(open)
  /\ open' = rest /\ Untracked(t)
  /\ inFront' = IF rest = <<>> THEN "null"
                ELSE IF inFront # t THEN inFront
                ELSE IF at <= Len(rest) THEN rest[at]
                ELSE Last(rest)
  /\ agentState' = [agentState EXCEPT ![t] = "closed"]
  /\ Quiet /\ SameProject /\ UNCHANGED <<metricsOn, opening, idle, disposed>>

AgentEvents(t, new) ==
  IF tracked[t] = new[t] THEN <<>>
  ELSE (IF tracked[t] \in Busy THEN <<<<"end", t>>>> ELSE <<>>)
    \o (IF new[t] \in Busy THEN <<<<"start", t>>>> ELSE <<>>)
\* emitAgentMetrics: a busy tab stays awake, a change of kind ends and begins.
EmitAgentMetrics(new) == FlattenSeq([i \in DOMAIN open |-> AgentEvents(open[i], new)])
AgentEvent(t, kind) ==
  LET new == [agentState EXCEPT ![t] = kind]
      input == [u \in Tabs |-> IF u \in ToSet(open) /\ new[u] \in Busy
                               THEN "activity" ELSE "none"]
  IN /\ Living /\ Room /\ t \in ToSet(open) /\ agentState[t] # kind
     /\ agentState' = new /\ dormancy' = Fed(input)
     /\ tracked' = IF metricsOn
                   THEN [u \in Tabs |-> IF u \in ToSet(open) THEN new[u] ELSE tracked[u]]
                   ELSE tracked
     /\ Log(FedEvents(input) \o EmitAgentMetrics(new))
     /\ SameProject /\ UNCHANGED <<metricsOn, open, inFront, opening, idle, disposed>>

NoteActivity ==
  /\ Living /\ Room /\ metricsOn
  /\ dormancy' = Fed(Only(inFront, "activity")) /\ idle' = FALSE
  /\ Log(FedEvents(Only(inFront, "activity"))
         \o IF idle THEN <<<<"system_idle_end", "null">>>> ELSE <<>>)
  /\ SameProject
  /\ UNCHANGED <<metricsOn, open, inFront, opening, agentState, tracked, disposed>>
\* tickMetrics; a tab with a busy agent counts as active.
Tick(stale, rests) ==
  LET input == [t \in Tabs |-> IF t \in ToSet(open) /\ agentState[t] \in Busy THEN "activity"
                               ELSE IF t \in stale THEN "stale" ELSE "none"]
  IN /\ Living /\ Room /\ metricsOn
     /\ dormancy' = Fed(input) /\ idle' = (idle \/ rests)
     /\ Log(FedEvents(input) \o IF rests /\ ~idle
                                THEN <<<<"system_idle_start", "null">>>> ELSE <<>>)
     /\ SameProject
     /\ UNCHANGED <<metricsOn, open, inFront, opening, agentState, tracked, disposed>>
SetConfig == /\ Living /\ Room /\ metricsOn' = ~metricsOn /\ Quiet
             /\ UNCHANGED <<open, inFront, opening, agentState, tracked, dormancy, idle,
                            project, disposed>>

Others == UNCHANGED <<metricsOn, open, inFront, opening, agentState, tracked, dormancy,
                      idle, project>>
CanFlush == metricsOn /\ batch = <<>> /\ buffer # <<>>
Flush == /\ ~disposed /\ CanFlush /\ batch' = buffer /\ buffer' = <<>>
         /\ UNCHANGED <<delivered, disposed>> /\ Others
SinkTakes == /\ batch # <<>> /\ delivered' = delivered \o batch /\ batch' = <<>>
             /\ UNCHANGED <<buffer, disposed>> /\ Others
\* Mutant of Requeued: a batch that failed goes behind what came later.
RequeuedLast == buffer' = buffer \o batch
Requeued == buffer' = batch \o buffer
SinkFails == /\ batch # <<>> /\ Requeued /\ batch' = <<>>
             /\ UNCHANGED <<delivered, disposed>> /\ Others
\* dispose: the end of the session is logged and flushed in one go.
Dispose ==
  LET all == IF metricsOn THEN buffer \o <<<<"session_end", "null">>>> ELSE buffer
      flushed == metricsOn /\ batch = <<>>
  IN /\ ~disposed /\ disposed' = TRUE
     /\ batch' = IF flushed THEN all ELSE batch
     /\ buffer' = IF flushed THEN <<>> ELSE all
     /\ UNCHANGED delivered /\ Others

MetricsNext ==
  \/ \E t \in Tabs : Activate(t) \/ OpenTab(t) \/ CloseTab(t)
                     \/ \E kind \in Busy \cup {"done"} : AgentEvent(t, kind)
  \/ TabIsOpen \/ NoteActivity \/ SetConfig
  \/ \E stale \in {{}, Tabs}, rests \in BOOLEAN : Tick(stale, rests)
  \/ Flush \/ SinkTakes \/ SinkFails \/ Dispose

-----------------------------------------------------------------------------
Spans == {<<"start", "end">>, <<"tab_dormant", "tab_woken">>,
          <<"project_focused", "project_unfocused">>,
          <<"system_idle_start", "system_idle_end">>}
\* The events that open and close a span of one tab (an agent's work or wait, a
\* dormancy, the focus of a project, the rest of the user) alternate, the opening
\* one first, as the sink gets them: whatever was closed, switched off or on in
\* between, whatever was logged while a batch was in flight, and though the sink
\* fails and takes its batch later.
SpansAlternate ==
  \A span \in Spans, x \in {"null"} \cup Tabs \cup {ProjectOf[t] : t \in Tabs} :
    LET of == SelectSeq(Stream, LAMBDA e : e[1] \in ToSet(span) /\ e[2] = x)
    IN \A i \in DOMAIN of : of[i][1] = span[IF i % 2 = 1 THEN 1 ELSE 2]
=============================================================================

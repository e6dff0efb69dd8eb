---------------------------- MODULE AgentSignals ----------------------------
(***************************************************************************)
(* What the window makes of the agents' states: the store of               *)
(* sessionstate.ts, the bell of a tab and the keys that jump to a waiting  *)
(* session (app.ts), and the notifications of notifications.ts.            *)
(*                                                                         *)
(* An agent state event runs every listener before the next one, so Event  *)
(* is one step.  A notification is not: rows are collected while a timer   *)
(* runs, and a batch waits for its texts and the system before it fires.   *)
(* Every session runs an agent of the registry; the channels are "os".     *)
(***************************************************************************)
EXTENDS Integers, Sequences, FiniteSets, SequencesExt

CONSTANTS PanesOf,     \* the panes of each tab, a sequence in tree order
          States,      \* the agent states that events bring
          MaxEvents    \* events (bound)

VARIABLES entries,     \* the store: per pane the state and its place in time
          tabs, activeTab, activePane,
          windowFocused,
          acknowledged,\* acknowledgedState of each tab
          mark,        \* the mark each tab is drawn with
          lastKind,    \* NotificationCenter.lastKind
          cooling,     \* pane and kind notified less than the cooldown ago
          pending,     \* rows that wait for the timer
          flushTimer,
          firing,      \* batches that wait for their texts or the system
          seenChange,  \* the user has had the tab in front since it changed
          happened

signalVars == <<entries, tabs, activeTab, activePane, windowFocused, acknowledged,
                mark, lastKind, cooling, pending, flushTimer, firing,
                seenChange, happened>>

AllTabs == DOMAIN PanesOf
Panes == UNION {ToSet(PanesOf[t]) : t \in AllTabs}
TabOf(p) == CHOOSE t \in AllTabs : Contains(PanesOf[t], p)
NoEntry == [kind |-> "none", confidence |-> "low", since |-> 0]
Live(p) == TabOf(p) \in tabs

NeedsYou(e) == e.kind = "waiting" /\ e.confidence = "high"
MaybeWaiting(e) == e.kind = "waiting" /\ e.confidence = "tentative"
Urgency(kind) == CASE kind = "errored" -> 3 [] kind = "waiting" -> 2
                   [] kind = "working" -> 1 [] OTHER -> 0

\* pickPrimaryState: the most urgent of what is known, the latest of these.
Outranks(e, f) == \/ Urgency(e.kind) > Urgency(f.kind)
                  \/ Urgency(e.kind) = Urgency(f.kind) /\ e.since > f.since
MostUrgent(known) == IF known = {} THEN NoEntry
                     ELSE CHOOSE e \in known : \A f \in known \ {e} : Outranks(e, f)
Primary(store, t) == MostUrgent({store[p] : p \in ToSet(PanesOf[t])} \ {NoEntry})

\* tabAttention: a tab in the background whose state is unseen since it changed.
Attention(t, e) == NeedsYou(e) /\ acknowledged[t] # e.kind
\* The one mark of a tab whose primary state is e.  The ring is never latched:
\* it shows a guess on a tab that is not in front.
Mark(t, e, inFront) ==
  CASE e.kind = "working" -> "atom"
    [] ~inFront /\ Attention(t, e) -> "bell"
    [] ~inFront /\ MaybeWaiting(e) -> "ring"
    [] OTHER -> "none"

\* renderTabs with the tabs ts, tab a in front and store es.
RenderTabs(ts, a, es) ==
  /\ acknowledged' = [t \in AllTabs |-> IF t \notin ts THEN "none"
                        ELSE IF t = a THEN Primary(es, t).kind
                        ELSE acknowledged[t]]
  /\ mark' = [t \in AllTabs |->
                IF t \in ts THEN Mark(t, Primary(es, t), t = a) ELSE "none"]

SignalInit ==
  /\ entries = [p \in Panes |-> NoEntry] /\ tabs = AllTabs
  /\ activeTab = CHOOSE t \in AllTabs : TRUE
  /\ activePane = [t \in AllTabs |-> PanesOf[t][1]]
  /\ windowFocused = TRUE /\ acknowledged = [t \in AllTabs |-> "none"]
  /\ mark = [t \in AllTabs |-> "none"] /\ lastKind = [p \in Panes |-> "none"] /\ cooling = {}
  /\ pending = 0 /\ flushTimer = FALSE /\ firing = 0
  /\ seenChange = AllTabs /\ happened = 0

\* The user looks at the pane: no notification while the window is in front.
Watched(p) == windowFocused /\ TabOf(p) = activeTab
Routed(es) == {p \in Panes : /\ Live(p) /\ es[p].kind \notin {"none", "working"}
                             /\ lastKind[p] # es[p].kind
                             /\ es[p].confidence = "high" /\ ~Watched(p)
                             /\ <<p, es[p].kind>> \notin cooling}

\* In the quiet hours nothing is routed, and the change is not told later either.
Notified(es, quiet) == IF quiet THEN {} ELSE Routed(es)

\* Mutant of Enqueue: no timer while a batch is being fired.
EnqueueUnlessFiring(rows) ==
  /\ pending' = pending + rows
  /\ flushTimer' = (flushTimer \/ (rows > 0 /\ firing = 0))
\* enqueue: the first row of a batch starts the timer.
Enqueue(rows) == /\ pending' = pending + rows
                 /\ flushTimer' = (flushTimer \/ rows > 0)

\* An event of the detector reaches the store and every listener.
Event(p, s, quiet) ==
  LET es == [entries EXCEPT ![p] =
               [kind |-> s.kind, confidence |-> s.confidence,
                since |-> IF entries[p].kind = s.kind THEN entries[p].since
                          ELSE happened + 1]]
      rows == Notified(es, quiet)
  IN /\ happened < MaxEvents /\ happened' = happened + 1
     /\ entries' = es /\ RenderTabs(tabs, activeTab, es)
     /\ lastKind' = [q \in Panes |-> IF Live(q) THEN es[q].kind ELSE "none"]
     /\ cooling' = cooling \cup {<<q, es[q].kind>> : q \in rows}
     /\ Enqueue(Cardinality(rows))
     /\ seenChange' = IF TabOf(p) = activeTab \/ Primary(es, TabOf(p)) =
                         Primary(entries, TabOf(p))
                      THEN seenChange ELSE seenChange \ {TabOf(p)}
     /\ UNCHANGED <<tabs, activeTab, activePane, windowFocused, firing>>

\* Mutant of Activate: the tab counts as seen once its agents change.
ActivateUnseen(t) ==
  /\ activeTab' = t /\ seenChange' = seenChange \cup {t}
  /\ UNCHANGED <<acknowledged, mark>>
Activate(t) ==
  /\ activeTab' = t /\ seenChange' = seenChange \cup {t}
  /\ RenderTabs(tabs, t, entries)
Quiet == UNCHANGED <<entries, tabs, windowFocused, lastKind, cooling, pending,
                     flushTimer, firing, happened>>

UserActivates(t) == /\ t \in tabs \ {activeTab} /\ Activate(t)
                    /\ UNCHANGED activePane /\ Quiet
FocusPane(p) == /\ TabOf(p) = activeTab /\ activePane' = [activePane EXCEPT ![activeTab] = p]
                /\ UNCHANGED <<activeTab, acknowledged, mark, seenChange>> /\ Quiet
WindowFocus == /\ windowFocused' = ~windowFocused
               /\ UNCHANGED <<entries, tabs, activeTab, activePane, acknowledged,
                              mark, lastKind, cooling, pending, flushTimer,
                              firing, seenChange, happened>>

\* A tab in the background is closed; the store keeps the states of its panes.
CloseTab(t) ==
  /\ t \in tabs \ {activeTab} /\ tabs' = tabs \ {t}
  /\ RenderTabs(tabs', activeTab, entries)
  /\ UNCHANGED <<entries, activeTab, activePane, windowFocused, lastKind, cooling,
                 pending, flushTimer, firing, seenChange, happened>>

\* The ids of every pane of every tab; those that wait go by how long they have.
TrackedIds == {p \in Panes : Live(p)}
WaitingIds == {p \in TrackedIds : entries[p].kind = "waiting"}
Oldest(S) == CHOOSE p \in S : \A q \in S : entries[p].since <= entries[q].since
Newest(S) == CHOOSE p \in S : \A q \in S : entries[q].since <= entries[p].since

\* The one that waits after the current one (dir is 1) or before it, or the one at
\* the other end.
CycleWaitingId(current, dir) ==
  LET at == entries[current].since
      later == {p \in WaitingIds : entries[p].since > at}
      earlier == {p \in WaitingIds : entries[p].since < at}
      found == current \in WaitingIds
  IN IF dir = 1 THEN Oldest(IF found /\ later # {} THEN later ELSE WaitingIds)
     ELSE Newest(IF found /\ earlier # {} THEN earlier ELSE WaitingIds)

NeedsAttentionId ==
  LET waiting == {p \in TrackedIds : NeedsYou(entries[p])}
      errored == {p \in TrackedIds : entries[p].kind = "errored"}
  IN Oldest(IF waiting # {} THEN waiting ELSE errored)

FocusSession(p) == /\ Activate(TabOf(p)) /\ Quiet
                   /\ activePane' = [activePane EXCEPT ![TabOf(p)] = p]
CycleWaiting(dir) == /\ WaitingIds # {}
                     /\ FocusSession(CycleWaitingId(activePane[activeTab], dir))
GotoWhoNeedsMe ==
  /\ \E p \in TrackedIds : NeedsYou(entries[p]) \/ entries[p].kind = "errored"
  /\ FocusSession(NeedsAttentionId)

CooldownEnds ==
  /\ cooling # {} /\ cooling' = {}
  /\ UNCHANGED <<entries, tabs, activeTab, activePane, windowFocused, acknowledged,
                 mark, lastKind, pending, flushTimer, firing, seenChange, happened>>

\* The coalescing time is over; what is routed from now on is the next batch.
Flush ==
  /\ flushTimer /\ flushTimer' = FALSE /\ pending' = 0
  /\ firing' = firing + (IF pending = 0 THEN 0 ELSE 1)
  /\ UNCHANGED <<entries, tabs, activeTab, activePane, windowFocused, acknowledged,
                 mark, lastKind, cooling, seenChange, happened>>
\* composeBatch and notifyFire of a batch are over.
Fire ==
  /\ firing > 0 /\ firing' = firing - 1
  /\ UNCHANGED <<entries, tabs, activeTab, activePane, windowFocused, acknowledged,
                 mark, lastKind, cooling, pending, flushTimer, seenChange,
                 happened>>

SignalNext ==
  \/ \E p \in Panes, s \in States, quiet \in BOOLEAN : Event(p, s, quiet)
  \/ \E t \in AllTabs : UserActivates(t) \/ CloseTab(t)
  \/ \E p \in Panes : FocusPane(p)
  \/ WindowFocus \/ \E dir \in {1, -1} : CycleWaiting(dir)
  \/ GotoWhoNeedsMe \/ CooldownEnds
  \/ Flush \/ Fire

-----------------------------------------------------------------------------
\* A bell never rings for what the user has seen: a tab that has been in front
\* since the state it shows last changed does not wear one, whichever of its panes
\* is the primary one and however the user came to it.
SeenTabsAreNotFlagged == \A t \in seenChange : mark[t] # "bell"

\* No row that was routed is still to be fired.
NothingRouted == pending = 0 /\ firing = 0
=============================================================================

----------------------------- MODULE CloseDialogs -----------------------------
(***************************************************************************)
(* What is asked before a pane, a tab, a session or a layered file goes    *)
(* (App.closeActive, closeTabActive, killActiveSession,                    *)
(* closeActiveContentGuarded, confirm.ts).                                 *)
(*                                                                         *)
(* A question takes several steps, and nothing holds the app still in      *)
(* between: the native menu switches tabs and asks again over an open      *)
(* dialog, and shells exit by themselves.  All tabs here are grids, a pane *)
(* has one layered file at most, and the pinned dock is left out.          *)
(***************************************************************************)
EXTENDS Naturals, Sequences, FiniteSets, SequencesExt

CONSTANTS
    PanesOf,        \* [tab -> set of its panes], which are disjoint
    Starts,         \* how a run may start: [layer, running, policy]
    Asking          \* the questions that may be under way together

TabIds == DOMAIN PanesOf
Panes == UNION {PanesOf[t] : t \in TabIds}

VARIABLES
    tabs,           \* the open tabs, in their order
    activeId,       \* the tab in front, or "none"
    panes,          \* [TabIds -> SUBSET Panes]
    active,         \* [TabIds -> pane or "none"]: the active pane of each grid
    layer,          \* [Panes -> the layered file: "none", "clean" or "dirty" in
                    \* front of the terminal, "under" for dirty and behind it]
    running,        \* the panes with a process that is not a safe one
    policy,         \* [close, kill]: "never", "always" or "running-only"
    ask,            \* [Asking -> what is asked: [kind, tab, stage, procs, count]]
    done            \* what the last answer did: [asked, hit], the two tabs, or {}

closeVars == <<tabs, activeId, panes, active, layer, running, policy, ask, done>>

Quiet == [kind |-> "none", tab |-> "none", stage |-> "idle", procs |-> {}, count |-> 0]

-----------------------------------------------------------------------------
Open(t) == t \in Range(tabs)

ContentInFront(p) == layer[p] \in {"clean", "dirty"}

HasDirty(t) == \E p \in panes[t] : layer[p] \in {"dirty", "under"}

(* doCloseTab: the neighbour that takes the place comes to the front.      *)
CloseTab(t) ==
    LET rest == SelectSeq(tabs, LAMBDA u : u # t)
        at == CHOOSE i \in DOMAIN tabs : tabs[i] = t
    IN  IF ~Open(t) THEN UNCHANGED <<tabs, activeId, panes, active, layer, running>>
        ELSE /\ tabs' = rest
             /\ activeId' = IF rest = <<>> THEN "none"
                            ELSE IF activeId # t THEN activeId
                            ELSE rest[IF at > Len(rest) THEN Len(rest) ELSE at]
             /\ panes' = [panes EXCEPT ![t] = {}]
             /\ active' = [active EXCEPT ![t] = "none"]
             /\ layer' = [p \in Panes |-> IF p \in panes[t] THEN "none" ELSE layer[p]]
             /\ running' = running \ panes[t]

(* PaneGrid.closePane: the last pane takes its tab with it.                *)
ClosePane(t, p) ==
    IF p \notin panes[t] THEN UNCHANGED <<tabs, activeId, panes, active, layer, running>>
    ELSE IF panes[t] = {p} THEN CloseTab(t)
    ELSE /\ panes' = [panes EXCEPT ![t] = @ \ {p}]
         /\ \E q \in panes[t] \ {p} :
               active' = [active EXCEPT ![t] = IF @ = p THEN q ELSE @]
         /\ layer' = [layer EXCEPT ![p] = "none"]
         /\ running' = running \ {p}
         /\ UNCHANGED <<tabs, activeId>>

(* PaneGrid.closeActiveContent.                                            *)
CloseContent(t) ==
    /\ layer' = [p \in Panes |-> IF p = active[t] /\ ContentInFront(p) THEN "none"
                                 ELSE layer[p]]
    /\ UNCHANGED <<tabs, activeId, panes, active, running>>

(* PaneGrid.killActive: the exit of the shell follows.                     *)
KillActive(t) ==
    /\ running' = running \ {active[t]}
    /\ UNCHANGED <<tabs, activeId, panes, active, layer>>

-----------------------------------------------------------------------------
(* What an answer acts on: the grid, and the tab id, captured at the start. *)
\* Mutant of Target: the tab that is in front when the answer comes.
InFront(k) == activeId

Target(k) == k.tab

(* An answer, or a policy that asks nothing, acts.                         *)
Acts(k) ==
    LET t == Target(k)
    IN  /\ done' = {[asked |-> k.tab, hit |-> t]}
        /\ CASE k.kind = "pane"    -> ClosePane(t, IF Open(t) THEN active[t] ELSE "none")
             [] k.kind = "tab"     -> CloseTab(t)
             [] k.kind = "kill"    -> KillActive(t)
             [] k.kind = "content" -> CloseContent(t)

Stays == UNCHANGED <<tabs, activeId, panes, active, layer, running, done>>

(* evalConfirm and evalConfirmTab: the panes are taken now, and their      *)
(* snapshots come back later.                                              *)
Evaluates(i, k) ==
    LET by == IF k.kind = "kill" THEN policy.kill ELSE policy.close
        seen == IF k.kind = "tab" THEN panes[k.tab] ELSE {active[k.tab]}
        with == [k EXCEPT !.procs = seen, !.count = Cardinality(panes[k.tab])]
    IN  IF by = "never" THEN Acts(k) /\ ask' = [ask EXCEPT ![i] = Quiet]
        ELSE /\ Stays
             /\ ask' = [ask EXCEPT ![i] =
                    [with EXCEPT !.stage = IF by = "always" THEN "ask" ELSE "snapshot"]]

CloseInit ==
    /\ tabs = SetToSeq(TabIds) /\ activeId = tabs[1]
    /\ panes = PanesOf /\ active = [t \in TabIds |-> CHOOSE p \in PanesOf[t] : TRUE]
    /\ \E s \in Starts : layer = s.layer /\ running = s.running /\ policy = s.policy
    /\ ask = [i \in Asking |-> Quiet] /\ done = {}

Asked(kind, t, stage) == [Quiet EXCEPT !.kind = kind, !.tab = t, !.stage = stage]

(* closeActiveContentGuarded, from a key or from the file's own button.    *)
AskContent(i, t) ==
    IF layer[active[t]] = "dirty"
    THEN Stays /\ ask' = [ask EXCEPT ![i] = Asked("content", t, "save?")]
    ELSE Acts(Asked("content", t, "idle")) /\ UNCHANGED ask

(* confirmDiscardDirty comes first.                                        *)
AskWhole(i, kind, t) ==
    IF HasDirty(t) THEN Stays /\ ask' = [ask EXCEPT ![i] = Asked(kind, t, "discard?")]
    ELSE Evaluates(i, Asked(kind, t, "idle"))

CloseActive(i) ==
    /\ activeId # "none"
    /\ IF ContentInFront(active[activeId]) THEN AskContent(i, activeId)
       ELSE AskWhole(i, "pane", activeId)

CloseTabActive(i) == activeId # "none" /\ AskWhole(i, "tab", activeId)

(* From the keyboard, or from the menu of any tab.                         *)
KillActiveSession(i, t) == Evaluates(i, Asked("kill", t, "idle"))

-----------------------------------------------------------------------------
Cancel(i) ==
    /\ ask[i].stage \in {"discard?", "ask", "save?"}
    /\ ask' = [ask EXCEPT ![i] = Quiet] /\ Stays

ConfirmDiscard(i) ==
    /\ ask[i].stage = "discard?"
    /\ IF Open(ask[i].tab) THEN Evaluates(i, ask[i])
       ELSE Stays /\ ask' = [ask EXCEPT ![i] = Quiet]

SnapshotReturns(i) ==
    /\ ask[i].stage = "snapshot"
    /\ IF ask[i].procs \cap running = {}
       THEN Acts(ask[i]) /\ ask' = [ask EXCEPT ![i] = Quiet]
       ELSE Stays /\ ask' = [ask EXCEPT ![i].stage = "ask"]

(* With several panes, closing one asks whether to close its tab instead.  *)
Confirm(i) ==
    /\ ask[i].stage = "ask"
    /\ \/ Acts(ask[i])
       \/ ask[i].kind = "pane" /\ ask[i].count > 1 /\ Acts([ask[i] EXCEPT !.kind = "tab"])
    /\ ask' = [ask EXCEPT ![i] = Quiet]

(* guardDirtyContent: discard, or save and go on when it is written.       *)
AnswerSave(i) ==
    /\ ask[i].stage = "save?"
    /\ \/ Acts(ask[i]) /\ ask' = [ask EXCEPT ![i] = Quiet]
       \/ Stays /\ ask' = [ask EXCEPT ![i].stage = "saving"]

Saves(i) ==
    /\ ask[i].stage = "saving" /\ ask' = [ask EXCEPT ![i] = Quiet]
    /\ Acts(ask[i]) \/ Stays

-----------------------------------------------------------------------------
Others == UNCHANGED <<policy, ask, done>>

(* The menu, a click, or the end of a shell.                               *)
GotoTab(t) ==
    /\ activeId' = t
    /\ UNCHANGED <<tabs, panes, active, layer, running>> /\ Others

FocusPane(t, p) ==
    /\ active' = [active EXCEPT ![t] = p]
    /\ UNCHANGED <<tabs, activeId, panes, layer, running>> /\ Others

PaneExits(t, p) == ClosePane(t, p) /\ Others

CloseNext ==
    \/ /\ UNCHANGED policy
       /\ \E i \in Asking :
            \/ /\ ask[i] = Quiet
               /\ \/ CloseActive(i) \/ CloseTabActive(i)
                  \/ \E t \in Range(tabs) : KillActiveSession(i, t)
            \/ Cancel(i) \/ ConfirmDiscard(i) \/ SnapshotReturns(i) \/ Confirm(i)
            \/ AnswerSave(i) \/ Saves(i)
    \/ \E t \in Range(tabs) :
          GotoTab(t) \/ \E p \in panes[t] : FocusPane(t, p) \/ PaneExits(t, p)

-----------------------------------------------------------------------------
(* An answer acts in the tab it was asked about: a snapshot that comes     *)
(* late, a dialog answered after another tab came to the front, a second   *)
(* question over the first and a shell that exits meanwhile never turn it  *)
(* on the tab that happens to be in front.                                 *)
ActsWhereAsked == \A d \in done : d.hit = d.asked
=============================================================================

---------------------------- MODULE MemoryPrompts ---------------------------
(***************************************************************************)
(* The prompts that the window types for the project memory: the autosave  *)
(* and the bootstrap of app.ts with the rules of memory-actions.ts, and    *)
(* the command that opens (and first makes) a memory.                      *)
(*                                                                         *)
(* Every agent event runs the rules for the tab in front.  A rule that     *)
(* fires asks for the directory and for the memory of it before it types,  *)
(* and by then the user and the agent have gone on.                        *)
(***************************************************************************)
EXTENDS Integers, Sequences, FiniteSets, SequencesExt

CONSTANTS ProjectOf,  \* the project root of each tab
          MaxMoves    \* agent events and commands (bound)

VARIABLES agent,      \* what the agent of each tab does; a high confidence state
          activeId,   \* the tab in front
          lastState,  \* autosaveState and bootstrapState, written together
          autosaveCooling,  \* tabs whose last autosave is within the cooldown
          seeded,     \* bootstrappedProjects
          memory,     \* per project: "none", "skeleton" or "filled"
          docs,       \* per project: the instructions name the memory
          firingRules,      \* fireAutosave and fireBootstrap calls that wait
          openingMemory,    \* the state of openProjectMemory
          moves, dones, prompts

promptVars == <<agent, activeId, lastState, autosaveCooling, seeded,
                memory, docs, firingRules, openingMemory, moves,
                dones, prompts>>

MemTabs == DOMAIN ProjectOf
Projects == {ProjectOf[t] : t \in MemTabs}
Closed == [step |-> "closed", project |-> "none"]

\* Mutant of ShouldAutosave: any event of a finished agent counts.
ShouldAutosaveAgain(t, prev) == agent'[t] = "done" /\ t \notin autosaveCooling

\* shouldAutosave and the test of maybeBootstrapMemory: a transition into done.
ShouldAutosave(t, prev) ==
  agent'[t] = "done" /\ prev # "done" /\ t \notin autosaveCooling
BecameDone(t, prev) == agent'[t] = "done" /\ prev # "done"

PromptInit ==
  /\ agent = [t \in MemTabs |-> "working"] /\ activeId \in MemTabs
  /\ lastState = [t \in MemTabs |-> "none"]
  /\ autosaveCooling = {} /\ seeded = {}
  /\ memory \in [Projects -> {"none", "filled"}] /\ docs = [p \in Projects |-> FALSE]
  /\ firingRules = <<>>
  /\ openingMemory = Closed
  /\ moves = 0 /\ dones = [t \in MemTabs |-> 0] /\ prompts = [t \in MemTabs |-> 0]

Job(rule, t) == [rule |-> rule, tab |-> t, step |-> "cwd"]

\* An event of the agent of tab t: the rules look at the tab in front.
AgentMoves(t, kind) ==
  /\ moves < MaxMoves /\ moves' = moves + 1
  /\ agent' = [agent EXCEPT ![t] = kind]
  /\ dones' = [dones EXCEPT ![t] = @ + (IF kind = "done" /\ agent[t] # "done"
                                        THEN 1 ELSE 0)]
  /\ lastState' = [lastState EXCEPT ![activeId] = agent'[activeId]]
  /\ firingRules' = firingRules
       \o (IF ShouldAutosave(activeId, lastState[activeId])
           THEN <<Job("autosave", activeId)>> ELSE <<>>)
       \o (IF BecameDone(activeId, lastState[activeId])
           THEN <<Job("bootstrap", activeId)>> ELSE <<>>)
  /\ UNCHANGED <<activeId, autosaveCooling, seeded, memory, docs, openingMemory, prompts>>

BringToFront(t) ==
  /\ t # activeId /\ activeId' = t
  /\ UNCHANGED <<agent, lastState, autosaveCooling, seeded, memory,
                 docs, firingRules, openingMemory, moves, dones, prompts>>

\* activeCwd has answered; a bootstrap of a seeded project does not ask further.
CwdIsKnown(k) ==
  /\ k \in DOMAIN firingRules /\ firingRules[k].step = "cwd"
  /\ firingRules' =
       IF /\ firingRules[k].rule = "bootstrap"
          /\ ProjectOf[firingRules[k].tab] \in seeded
       THEN RemoveAt(firingRules, k)
       ELSE [firingRules EXCEPT ![k].step = "status"]
  /\ UNCHANGED <<agent, activeId, lastState, autosaveCooling, seeded,
                 memory, docs, openingMemory, moves, dones, prompts>>

\* The prompts of the autosave rule are counted.
Type(job) == prompts' = [prompts EXCEPT ![job.tab] =
                           @ + (IF job.rule = "autosave" THEN 1 ELSE 0)]

\* memoryStatus has answered: the prompt is typed if the tab is still in front.
StatusIsKnown(k) ==
  /\ k \in DOMAIN firingRules /\ firingRules[k].step = "status"
  /\ firingRules' = RemoveAt(firingRules, k)
  /\ LET job == firingRules[k]
         project == ProjectOf[job.tab]
     IN \/ /\ job.rule = "autosave" /\ memory[project] # "none" /\ job.tab = activeId
           /\ autosaveCooling' = autosaveCooling \cup {job.tab}
           /\ Type(job) /\ UNCHANGED seeded
        \/ /\ job.rule = "bootstrap" /\ memory[project] # "filled" /\ job.tab = activeId
           /\ seeded' = seeded \cup {project}
           /\ Type(job) /\ UNCHANGED autosaveCooling
        \/ /\ \/ job.tab # activeId
              \/ job.rule = "autosave" /\ memory[project] = "none"
              \/ job.rule = "bootstrap" /\ memory[project] = "filled"
           /\ UNCHANGED <<autosaveCooling, seeded, prompts>>
  /\ UNCHANGED <<agent, activeId, lastState, memory, docs, openingMemory, moves, dones>>

\* A call fails on the way: errors of a background rule are swallowed.
RuleFails(k) ==
  /\ k \in DOMAIN firingRules /\ firingRules' = RemoveAt(firingRules, k)
  /\ UNCHANGED <<agent, activeId, lastState, autosaveCooling, seeded,
                 memory, docs, openingMemory, moves, dones, prompts>>

CooldownIsOver(t) ==
  /\ t \in autosaveCooling /\ autosaveCooling' = autosaveCooling \ {t}
  /\ UNCHANGED <<agent, activeId, lastState, seeded, memory, docs,
                 firingRules, openingMemory, moves, dones, prompts>>

\* The agent saves: the skeleton is filled in.
AgentFills(t) ==
  /\ agent[t] = "working" /\ memory[ProjectOf[t]] # "none"
  /\ memory' = [memory EXCEPT ![ProjectOf[t]] = "filled"]
  /\ UNCHANGED <<agent, activeId, lastState, autosaveCooling, seeded,
                 docs, firingRules, openingMemory, moves, dones,
                 prompts>>

\* openProjectMemory: a missing memory is made when the user agrees, then the
\* instructions of the agents are shown and written when the user agrees to that.
OpenMemory ==
  /\ openingMemory = Closed /\ moves < MaxMoves /\ moves' = moves + 1
  /\ openingMemory' =
        [step |-> IF memory[ProjectOf[activeId]] = "none" THEN "askInit" ELSE "init",
         project |-> ProjectOf[activeId]]
  /\ UNCHANGED <<agent, activeId, lastState, autosaveCooling, seeded,
                 memory, docs, firingRules, dones, prompts>>
AnswerInit(agreed) ==
  /\ openingMemory.step = "askInit"
  /\ openingMemory' = IF agreed THEN [openingMemory EXCEPT !.step = "init"] ELSE Closed
  /\ UNCHANGED <<agent, activeId, lastState, autosaveCooling, seeded,
                 memory, docs, firingRules, moves, dones,
                 prompts>>
MemoryIsInited ==
  /\ openingMemory.step = "init"
  /\ memory' = [memory EXCEPT ![openingMemory.project] =
                     IF @ = "none" THEN "skeleton" ELSE @]
  /\ openingMemory' = [openingMemory EXCEPT !.step =
                            IF docs[openingMemory.project] THEN "show" ELSE "askDocs"]
  /\ UNCHANGED <<agent, activeId, lastState, autosaveCooling, seeded,
                 docs, firingRules, moves, dones, prompts>>
AnswerDocs(agreed) ==
  /\ openingMemory.step = "askDocs" /\ openingMemory' = [openingMemory EXCEPT !.step = "show"]
  /\ docs' = [docs EXCEPT ![openingMemory.project] = agreed]
  /\ UNCHANGED <<agent, activeId, lastState, autosaveCooling, seeded,
                 memory, firingRules, moves, dones, prompts>>
MemoryIsShown ==
  /\ openingMemory.step = "show" /\ openingMemory' = Closed
  /\ UNCHANGED <<agent, activeId, lastState, autosaveCooling, seeded,
                 memory, docs, firingRules, moves, dones, prompts>>

PromptNext ==
  \/ \E t \in MemTabs : \/ \E kind \in {"working", "waiting", "done"} : AgentMoves(t, kind)
                        \/ BringToFront(t) \/ CooldownIsOver(t) \/ AgentFills(t)
  \/ \E k \in DOMAIN firingRules : CwdIsKnown(k) \/ StatusIsKnown(k) \/ RuleFails(k)
  \/ OpenMemory \/ \E agreed \in BOOLEAN : AnswerInit(agreed) \/ AnswerDocs(agreed)
  \/ MemoryIsInited \/ MemoryIsShown

-----------------------------------------------------------------------------
\* The save prompt is typed at most once for each time the agent finished, though
\* the rule also runs for the events of other tabs, for repeated events, and for
\* what happened while another tab was in front.
OnePromptPerDone ==
  \A t \in MemTabs :
    prompts[t] + Cardinality({k \in DOMAIN firingRules : firingRules[k].tab = t /\
                                firingRules[k].rule = "autosave"}) <= dones[t]
=============================================================================

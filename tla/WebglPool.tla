------------------------------ MODULE WebglPool ------------------------------
(***************************************************************************)
(* The pool of WebGL contexts the terminals of a window share              *)
(* (webgl-pool.ts) and what a terminal does with its slot (terminal.ts).   *)
(*                                                                         *)
(* The list lru is kept as a stamp per terminal: 0 stands for a terminal   *)
(* that is not in the list, and the larger stamp for the one closer to     *)
(* the front.  A terminal opens in two steps (the font is loaded before    *)
(* the terminal registers), so it can be touched or disposed in between.   *)
(* Whether WebKit grants a context is a free choice; a context can be lost *)
(* at any time.                                                            *)
(***************************************************************************)
EXTENDS Integers, FiniteSets

CONSTANTS
    Terminals,      \* the ids of the terminals of the window, a finite set
    Caps,           \* the caps the settings offer
    MaxTouches      \* bounds the touches of a behaviour

\* What the theorems assume of them.
PoolConstantsOk ==
    /\ IsFiniteSet(Terminals)
    /\ Caps \subseteq Nat
    /\ MaxTouches \in Nat

VARIABLES
    life,           \* [Terminals -> {"new", "loading", "open", "late", "gone"}]
    wantWebgl,      \* [Terminals -> BOOLEAN]: the setting each terminal last saw
    entries,        \* the terminals registered in the pool
    active,         \* those whose entry is active
    stamp,          \* [Terminals -> Nat]: the place in lru
    touches,        \* the last stamp given
    cap,
    enabled,
    exhausted,
    live            \* the terminals that hold a WebGL context

poolVars == <<life, wantWebgl, entries, active, stamp, touches, cap, enabled,
              exhausted, live>>

-----------------------------------------------------------------------------
Listed == {t \in Terminals : stamp[t] > 0}

(***************************************************************************)
(* Every entry of S is disabled and leaves the list: its terminal falls    *)
(* back to the DOM renderer.                                               *)
(***************************************************************************)
AtLeastOne(c) == IF c < 1 THEN 1 ELSE c

Disabled(S) ==
    /\ active' = active \ S
    /\ live' = live \ S

(* markExhausted and setEnabled(FALSE) disable every active entry and      *)
(* empty the list.                                                         *)
Emptied ==
    /\ Disabled(active)
    /\ stamp' = [t \in Terminals |-> 0]

(* The loop of setCap leaves the entries kept: the coldest listed ones go, *)
(* one by one, until the rest fits the cap c or none is listed.            *)
Fits(kept, c) ==
    /\ active \ kept \subseteq Listed
    /\ \A t \in kept \cap Listed, u \in active \ kept : stamp[u] < stamp[t]
    /\ Cardinality(kept) <= c \/ kept \cap Listed = {}
    /\ \A t \in active \ kept : Cardinality(kept \cup {t}) > c

(* The victim of evict: the coldest listed entry that is active, never the *)
(* one that is being touched.                                              *)
Victims(t) == (active \cap Listed) \ {t}

Coldest(S) == CHOOSE v \in S : \A w \in S : stamp[v] <= stamp[w]

\* Mutant of Evicted: a pool that is one over its capacity is left alone.
EvictedLate(t) == IF Cardinality(active) > cap /\ Victims(t) # {}
                  THEN {Coldest(Victims(t))}
                  ELSE {}

Evicted(t) == IF Cardinality(active) >= cap /\ Victims(t) # {}
              THEN {Coldest(Victims(t))}
              ELSE {}


-----------------------------------------------------------------------------
PoolInit ==
    /\ life = [t \in Terminals |-> "new"]
    /\ wantWebgl = [t \in Terminals |-> TRUE]
    /\ entries = {} /\ active = {} /\ live = {}
    /\ stamp = [t \in Terminals |-> 0] /\ touches = 0
    /\ cap \in {AtLeastOne(c) : c \in Caps}
    /\ enabled = TRUE /\ exhausted = FALSE

(* TerminalSession.open up to the font's await.                            *)
Open(t) ==
    /\ life[t] = "new"
    /\ life' = [life EXCEPT ![t] = "loading"]
    /\ UNCHANGED <<wantWebgl, entries, active, stamp, touches, cap, enabled,
                   exhausted, live>>

(* The rest of open: the terminal passes on the setting it last saw, then  *)
(* registers.  A terminal that was disposed meanwhile registers too.       *)
Register(t) ==
    /\ life[t] \in {"loading", "late"}
    /\ enabled' = wantWebgl[t]
    /\ IF enabled /\ ~wantWebgl[t]
       THEN Emptied
       ELSE UNCHANGED <<active, live, stamp>>
    /\ entries' = entries \cup {t}
    /\ life' = [life EXCEPT ![t] = IF life[t] = "late" THEN "gone" ELSE "open"]
    /\ UNCHANGED <<wantWebgl, touches, cap, exhausted>>

(* markHot: the pool lists the terminal first and grants it a context; a   *)
(* failed grant trips the fuse and strands every terminal on the DOM.      *)
Touch(t) ==
    /\ life[t] \in {"loading", "open"}
    /\ touches < MaxTouches       \* bound
    /\ t \in entries /\ enabled /\ ~exhausted
    /\ touches' = touches + 1
    /\ \/ /\ t \in active
          /\ stamp' = [stamp EXCEPT ![t] = touches + 1]
          /\ UNCHANGED <<active, live, exhausted>>
       \/ /\ t \notin active
          /\ active' = (active \ Evicted(t)) \cup {t}
          /\ live' = (live \ Evicted(t)) \cup {t}
          /\ stamp' = [u \in Terminals |->
                          IF u = t THEN touches + 1
                          ELSE IF u \in Evicted(t) THEN 0 ELSE stamp[u]]
          /\ UNCHANGED exhausted
       \/ /\ t \notin active
          /\ Emptied
          /\ exhausted' = TRUE
    /\ UNCHANGED <<life, wantWebgl, entries, cap, enabled>>

(* webglcontextlost: the terminal falls back, the pool is not told.        *)
ContextLost(t) ==
    /\ t \in live
    /\ live' = live \ {t}
    /\ UNCHANGED <<life, wantWebgl, entries, active, stamp, touches, cap,
                   enabled, exhausted>>

(* recreateWebgl (a DPR change, a hard recover): a fresh context for a     *)
(* terminal that has one, outside the pool; only its failure shows.        *)
RecreateFails(t) ==
    /\ t \in live /\ ~exhausted
    /\ active' = {}
    /\ live' = live \ (active \cup {t})
    /\ stamp' = [u \in Terminals |-> 0]
    /\ exhausted' = TRUE
    /\ UNCHANGED <<life, wantWebgl, entries, touches, cap, enabled>>

(* dispose: the terminal leaves the pool and gives its context back.       *)
Dispose(t) ==
    /\ life[t] \in {"loading", "open"}
    /\ life' = [life EXCEPT ![t] = IF life[t] = "loading" THEN "late" ELSE "gone"]
    /\ entries' = entries \ {t}
    /\ Disabled({t})
    /\ stamp' = [stamp EXCEPT ![t] = 0]
    /\ UNCHANGED <<wantWebgl, touches, cap, enabled, exhausted>>

(* A new configuration: the look of the tabs' terminals first (each passes *)
(* the setting on), then the cap.  A terminal of the dock is not reached.  *)
ApplyConfig(on, c, reached) ==
    /\ \A t \in reached : life[t] \in {"loading", "open"}
    /\ wantWebgl' = [t \in Terminals |-> IF t \in reached THEN on ELSE wantWebgl[t]]
    /\ enabled' = IF reached = {} THEN enabled ELSE on
    /\ cap' = AtLeastOne(c)
    /\ IF enabled /\ ~on /\ reached # {}
       THEN Emptied
       ELSE \E kept \in SUBSET active :
               /\ Fits(kept, AtLeastOne(c))
               /\ Disabled(active \ kept)
               /\ stamp' = [t \in Terminals |->
                               IF t \in active \ kept THEN 0 ELSE stamp[t]]
    /\ UNCHANGED <<life, entries, touches, exhausted>>

(* render.recover reloads the window once the fuse is tripped: only a    *)
(* reload reclaims the contexts, and the pool starts again.                *)
ReloadPage ==
    /\ exhausted
    /\ life' = [t \in Terminals |-> "new"]
    /\ entries' = {} /\ active' = {} /\ live' = {}
    /\ stamp' = [t \in Terminals |-> 0]
    /\ exhausted' = FALSE /\ enabled' = TRUE
    /\ cap' \in {AtLeastOne(c) : c \in Caps}
    /\ UNCHANGED <<wantWebgl, touches>>

PoolNext ==
    \/ \E t \in Terminals : Open(t) \/ Register(t) \/ Touch(t) \/ ContextLost(t)
                            \/ RecreateFails(t) \/ Dispose(t)
    \/ \E on \in BOOLEAN, c \in Caps, reached \in SUBSET Terminals :
          ApplyConfig(on, c, reached)
    \/ ReloadPage

(***************************************************************************)
(* The contexts that are alive never exceed the cap the settings chose,    *)
(* and belong to terminals that are open: whatever the order of touches,   *)
(* evictions, lost and refused contexts, new caps, late registrations and  *)
(* disposals, no context is held by a terminal the pool has forgotten, and *)
(* none is handed out while WebGL is off or after the fuse has tripped.    *)
(***************************************************************************)
ContextsFit ==
    /\ Cardinality(live) <= cap
    /\ \A t \in live : life[t] = "open" /\ t \in entries
    /\ exhausted \/ ~enabled => live = {}

PoolSpec == PoolInit /\ [][PoolNext]_poolVars
=============================================================================

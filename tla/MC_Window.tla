----------------------------- MODULE MC_Window -----------------------------
(***************************************************************************)
(* The instance on which the invariants of the window's parts are checked. *)
(* The parts run by themselves here: a behaviour is one of a single part,  *)
(* which `part` names.  The parts of WindowParts come first, so that the   *)
(* run checks the definitions the theorems name, and in the same slots     *)
(* those that are only checked.                                            *)
(***************************************************************************)
EXTENDS WindowParts

FocusPresets ==
    <<[focus |-> 2, rest |-> 1, longRest |-> 1, every |-> 2, auto |-> TRUE],
      [focus |-> 1, rest |-> 1, longRest |-> 2, every |-> 2, auto |-> FALSE],
      [focus |-> 0, rest |-> 0, longRest |-> 0, every |-> 1, auto |-> FALSE]>>

TabPanes == [a |-> <<"a1", "a2">>, b |-> <<"b1">>]
AgentStates == {[kind |-> "working", confidence |-> "high"],
                [kind |-> "waiting", confidence |-> "high"],
                [kind |-> "waiting", confidence |-> "tentative"]}

(* The history of one file, and one without commits; the projects of two tabs. *)
HistoryCommits == [f |-> <<"c3", "c2", "c1">>, g |-> <<>>]
MemoryProjects == [a |-> "x", b |-> "x"]

(* Three actions of shortcuts.ts's kinds: everywhere, in a terminal, in an editor. *)
ShortcutDef ==
    [new     |-> [scope |-> "global", defaults |-> {"t"}, needs |-> "app"],
     copy    |-> [scope |-> "pane",   defaults |-> {"c"}, needs |-> "terminal"],
     preview |-> [scope |-> "global", defaults |-> {"p"}, needs |-> "editor"]]

(* Two ways to write an address, another one, and what is none. *)
NormalUrl == [a |-> "A", A |-> "A", B |-> "B", x |-> "none"]

(* A command of the user; a plain leaf and one that a template gives an agent. *)
Resumed == [c \in {"make", "claude", "resumed claude"} |->
               IF c = "make" THEN c ELSE "resumed claude"]
DeclaredLeaves == {[command |-> "idle", file |-> FALSE], [command |-> "claude", file |-> TRUE]}

(* A grid of two panes and one of one, under two ways to be asked. *)
ClosePanes == [t1 |-> {"a", "b"}, t2 |-> {"c"}]
CloseStarts ==
    {[layer |-> [a |-> "none", b |-> "under", c |-> "none"], running |-> {"a", "c"},
      policy |-> [close |-> "running-only", kill |-> "always"]],
     [layer |-> [a |-> "dirty", b |-> "none", c |-> "clean"], running |-> {"a"},
      policy |-> [close |-> "never", kill |-> "running-only"]]}

-----------------------------------------------------------------------------
G == INSTANCE PaneGrid WITH
    MaxPanes <- 3, MaxOpens <- 1, MaxContents <- 1, Cap <- 3, Paths <- {"f"},
    tree <- s1, panes <- s2, activeLeafId <- s3, zoomed <- s4, shown <- s5,
    recent <- s6, lastPane <- s7, splitting <- s8, starting <- s9,
    loading <- s10, asked <- s11, gone <- s12

InGrid(A) ==
    /\ part = "grid"
    /\ UNCHANGED <<part, s13, s14, s15, s16, s17, s18>>
    /\ A

-----------------------------------------------------------------------------
C == INSTANCE ConflictBlocks WITH
    MaxLines <- 6, doc <- s1, compare <- s2

InConflict(A) ==
    /\ part = "conflict"
    /\ UNCHANGED <<part, s3, s4, s5, s6, s7, s8, s9, s10, s11, s12, s13, s14,
                   s15, s16, s17, s18>>
    /\ A

-----------------------------------------------------------------------------
U == INSTANCE UsageMetrics WITH
    TabOrder <- <<"a", "b">>, ProjectOf <- [a |-> "x", b |-> "null"],
    MaxEvents <- 2, metricsOn <- s1, open <- s2, inFront <- s3, opening <- s4,
    agentState <- s5, tracked <- s6, dormancy <- s7, idle <- s8,
    project <- s9, buffer <- s10, batch <- s11, disposed <- s12,
    delivered <- s13

InMetrics(A) ==
    /\ part = "metrics"
    /\ UNCHANGED <<part, s14, s15, s16, s17, s18>>
    /\ A

-----------------------------------------------------------------------------
TK == INSTANCE TerminalKeys WITH
    StackLimit <- 2, AskedFlags <- {{"all", "events"}}, stack <- s1,
    kittyEnabled <- s2, shiftEnterNewline <- s3, last <- s4

InTerminal(A) ==
    /\ part = "terminal"
    /\ UNCHANGED <<part, s5, s6, s7, s8, s9, s10, s11, s12, s13, s14, s15,
                   s16, s17, s18>>
    /\ A

-----------------------------------------------------------------------------
PR == INSTANCE PaneRestore WITH
    Commands <- {"make"}, WithResume <- Resumed, Declared <- DeclaredLeaves,
    Paths <- {"f", "w"}, Pages <- {"w"}, Cap <- 2, leaf <- s1, pane <- s2,
    running <- s3, lives <- s4, stored <- s5, template <- s6, policy <- s7,
    step <- s8, todo <- s9, starting <- s10, saved <- s11, faultless <- s12

InRestore(A) ==
    /\ part = "restore"
    /\ UNCHANGED <<part, s13, s14, s15, s16, s17, s18>>
    /\ A

-----------------------------------------------------------------------------
BB == INSTANCE BrowserBar WITH
    Inputs <- {"a", "A", "B", "x"}, Normal <- NormalUrl, NoUrl <- "none",
    HomeUrl <- "A", phase <- s1, opened <- s2, disposed <- s3,
    collapsed <- s4, timer <- s5, autoHide <- s6, focused <- s7, native <- s8,
    observed <- s9, page <- s10, address <- s11, path <- s12, asked <- s13

InBar(A) ==
    /\ part = "bar"
    /\ UNCHANGED <<part, s14, s15, s16, s17, s18>>
    /\ A

-----------------------------------------------------------------------------
SC == INSTANCE Shortcuts WITH
    ActionIds <- DOMAIN ShortcutDef, Def <- ShortcutDef,
    Strokes <- {"t", "c"}, MaxPending <- 1, SelectAll <- "c", MaxBuilds <- 2,
    overrides <- s1, build <- s2, onScreen <- s3, listening <- s4,
    pending <- s5, keymap <- s6, recorded <- s7

InKeys(A) ==
    /\ part = "keys"
    /\ UNCHANGED <<part, s8, s9, s10, s11, s12, s13, s14, s15, s16, s17, s18>>
    /\ A

-----------------------------------------------------------------------------
X == INSTANCE CloseDialogs WITH
    PanesOf <- ClosePanes, Starts <- CloseStarts, Asking <- {1, 2},
    tabs <- s1, activeId <- s2, panes <- s3, active <- s4, layer <- s5,
    running <- s6, policy <- s7, ask <- s8, done <- s9

InClose(A) ==
    /\ part = "close"
    /\ UNCHANGED <<part, s10, s11, s12, s13, s14, s15, s16, s17, s18>>
    /\ A

-----------------------------------------------------------------------------
(* A slot that the part does not use holds 0. *)
Init ==
    \/ PartsInit
    \/ /\ part = "grid" /\ G!GridInit
       /\ s13 = 0 /\ s14 = 0 /\ s15 = 0 /\ s16 = 0 /\ s17 = 0 /\ s18 = 0
    \/ /\ part = "conflict" /\ C!ConflictInit
       /\ s3 = 0 /\ s4 = 0 /\ s5 = 0 /\ s6 = 0 /\ s7 = 0 /\ s8 = 0 /\ s9 = 0
       /\ s10 = 0 /\ s11 = 0 /\ s12 = 0 /\ s13 = 0 /\ s14 = 0 /\ s15 = 0
       /\ s16 = 0 /\ s17 = 0 /\ s18 = 0
    \/ /\ part = "metrics" /\ U!MetricsInit
       /\ s14 = 0 /\ s15 = 0 /\ s16 = 0 /\ s17 = 0 /\ s18 = 0
    \/ /\ part = "terminal" /\ TK!KeyboardInit
       /\ s5 = 0 /\ s6 = 0 /\ s7 = 0 /\ s8 = 0 /\ s9 = 0 /\ s10 = 0 /\ s11 = 0
       /\ s12 = 0 /\ s13 = 0 /\ s14 = 0 /\ s15 = 0 /\ s16 = 0 /\ s17 = 0
       /\ s18 = 0
    \/ /\ part = "restore" /\ PR!RestoreInit
       /\ s13 = 0 /\ s14 = 0 /\ s15 = 0 /\ s16 = 0 /\ s17 = 0 /\ s18 = 0
    \/ /\ part = "bar" /\ BB!BarInit
       /\ s14 = 0 /\ s15 = 0 /\ s16 = 0 /\ s17 = 0 /\ s18 = 0
    \/ /\ part = "keys" /\ SC!ShortcutInit
       /\ s8 = 0 /\ s9 = 0 /\ s10 = 0 /\ s11 = 0 /\ s12 = 0 /\ s13 = 0
       /\ s14 = 0 /\ s15 = 0 /\ s16 = 0 /\ s17 = 0 /\ s18 = 0
    \/ /\ part = "close" /\ X!CloseInit
       /\ s10 = 0 /\ s11 = 0 /\ s12 = 0 /\ s13 = 0 /\ s14 = 0 /\ s15 = 0
       /\ s16 = 0 /\ s17 = 0 /\ s18 = 0

Next ==
    \/ PartsNext
    \/ InGrid(G!GridNext)
    \/ InConflict(C!ConflictNext)
    \/ InMetrics(U!MetricsNext)
    \/ InTerminal(TK!KeyboardNext)
    \/ InRestore(PR!RestoreNext)
    \/ InBar(BB!BarNext)
    \/ InKeys(SC!ShortcutNext)
    \/ InClose(X!CloseNext)

Spec == Init /\ [][Next]_partVars

-----------------------------------------------------------------------------
(* What each says is stated in full in its module. *)

\* While a tab lives, its tree of panes, the panes and the screen tell one story
\* (PaneGrid).
TreeAndPanesAgree == part = "grid" => G!TreeAndPanesAgree

\* Resolving one conflict leaves every other block as it was (ConflictBlocks).
ResolveKeepsTheOthers == [][part = "conflict" => C!KeepsTheOthers]_partVars

\* The events that open and close a span reach the sink in turn (UsageMetrics).
SpansAlternate == part = "metrics" => U!SpansAlternate

\* A recorded stroke runs its action and nothing else (Shortcuts).
RecordedStrokeRuns == part = "keys" => SC!RecordedStrokeRuns

\* An answer to a dialog acts in the tab it was asked about (CloseDialogs).
ActsWhereAsked == part = "close" => X!ActsWhereAsked
=============================================================================

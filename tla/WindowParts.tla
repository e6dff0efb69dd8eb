---------------------------- MODULE WindowParts ----------------------------
(***************************************************************************)
(* The parts of the window whose properties are proved as well as checked, *)
(* one beside the other: a behaviour is one of a single part, which `part` *)
(* names, with its variables in the slots s1, s2, ...  P, K and L bring the   *)
(* modules of the parts together with the theorems about them, and         *)
(* Window_proofs carries these over to PartsSpec.  MC_Window adds the      *)
(* other parts and gives the constants their values.                       *)
(***************************************************************************)
EXTENDS Naturals, FiniteSets

CONSTANTS
    ProjectRoots, Home, MaxSearches, MaxTyped,     \* QuickOpen
    Files, CommitsOf, Binary, MaxOpens, MaxCalls,  \* GitHistory
    PanesOf, States, MaxEvents,                    \* AgentSignals
    TabProject, MaxMoves,                          \* MemoryPrompts
    MaxContents,                                   \* PinDock
    MaxSize, MaxConfigEdits,                       \* ConfigSync
    KeyProjects,                                   \* KeyFocus
    TreeRoots, MaxRoots, MaxChanges,               \* WorkTree
    Agents, MaxFlips,                              \* AgentBoard
    StripPaths, StripProjects, PaneCap, MaxTabs,   \* TabStrip
    TodoProjects, Unit, MaxTasks, MaxTodoMoves,    \* TodoPanel
    MaxPending,
    ViewTabs, Pin, Dialogs,                        \* NativeViews
    Presets, Lengths, OverflowCap, MaxAdvances,    \* FocusTimer
    MaxTime, MaxClicks,
    Versions, MaxChecks, MaxDownloads,             \* Updates
    Begins, MaxRecordings,                         \* Screencast
    Terminals, Caps, MaxTouches,                   \* WebglPool
    MaxEdits, MaxWrites,                           \* EditorFile
    Pane, Again, Ask, MaxConn, MaxWaiters,         \* PaneLink
    MaxQueued, Nobody, Slow, Pinned, LossesFarApart

VARIABLES
    part,   \* the part this behaviour is one of
    s1, s2, s3, s4, s5, s6, s7, s8, s9, s10, s11, s12, s13, s14, s15, s16,
    s17, s18   \* the slots

slots == <<s1, s2, s3, s4, s5, s6, s7, s8, s9, s10, s11, s12, s13, s14, s15,
           s16, s17, s18>>
partVars == <<part, slots>>

P == INSTANCE Panels_proofs WITH
    \* AgentSignals
    entries <- s1, tabs <- s2, activeTab <- s3, activePane <- s4,
    windowFocused <- s5, acknowledged <- s6, mark <- s7, lastKind <- s8,
    cooling <- s9, pending <- s10, flushTimer <- s11, firing <- s12,
    seenChange <- s13, happened <- s14,
    \* MemoryPrompts
    ProjectOf <- TabProject, agent <- s1, activeId <- s2, lastState <- s3,
    autosaveCooling <- s4, seeded <- s5, memory <- s6, docs <- s7,
    firingRules <- s8, openingMemory <- s9, moves <- s10, dones <- s11,
    prompts <- s12,
    \* QuickOpen
    palette <- s1, scope <- s2, projectRoot <- s3, generation <- s4,
    channel <- s5, found <- s6, query <- s7, filterTimer <- s8, typed <- s9,
    searchCalls <- s10, starts <- s11, walks <- s12, searcher <- s13,
    watching <- s14, events <- s15, disk <- s16,
    \* GitHistory
    path <- s1, opens <- s2, asked <- s3, panel <- s4, commits <- s5,
    selected <- s6, mode <- s7, cache <- s8, calls <- s9, detail <- s10,
    crossed <- s11,
    \* PinDock
    cells <- s1, kind <- s2, place <- s3, running <- s4, opening <- s5,
    thenFocus <- s6, focusedPin <- s7, bootDock <- s8, at <- s9,
    restored <- s10, savedDock <- s11, front <- s12,
    \* ConfigSync
    configFile <- s1, store <- s2, conf <- s3, opened <- s4, sets <- s5,
    saving <- s6, dirty <- s7, read <- s8, heard <- s9, fontSize <- s10,
    loaded <- s11, loading <- s12, look <- s13, edits <- s14,
    \* NativeViews
    overlay <- s1, finishing <- s2, overlayCount <- s3, view <- s4,
    shown <- s5, orphans <- s6, frontTab <- s7, behind <- s8,
    \* FocusTimer
    timer <- s1, cell <- s2, logChain <- s3, now <- s4, clicks <- s5,
    unpaused <- s6

K == INSTANCE Lists_proofs WITH
    \* KeyFocus
    dom <- s1, todoFocused <- s2, todoCollapsed <- s3, panelVisible <- s4,
    project <- s5, collapsedOf <- s6, cells <- s7, opening <- s8,
    focusedPin <- s9, wentTo <- s10, took <- s11, openingTabs <- s12,
    \* WorkTree
    Roots <- TreeRoots, disk <- s1, rootPath <- s2, gen <- s3, rows <- s4,
    expanded <- s5, listing <- s6, unfolding <- s7, refresh <- s8,
    overlapped <- s9, panelShown <- s10, watched <- s11, treeTimer <- s12,
    gitTimer <- s13, gitInFlight <- s14, gitPending <- s15, unfetched <- s16,
    changes <- s17,
    \* AgentBoard
    kind <- s1, since <- s2, gone <- s3, open <- s4, listed <- s5,
    shown <- s6, nav <- s7, selected <- s8, doneExpanded <- s9,
    lastKind <- s10, flashing <- s11, activated <- s12, flips <- s13,
    \* TabStrip
    Paths <- StripPaths, Projects <- StripProjects, tabs <- s1,
    sessions <- s2, activeId <- s3, inPane <- s4, job <- s5, drag <- s6,
    todoProject <- s7, stored <- s8, restoring <- s9, at <- s10,
    wasActive <- s11, made <- s12, restarts <- s13,
    \* TodoPanel
    MaxMoves <- MaxTodoMoves, store <- s1, added <- s2, items <- s3,
    projectId <- s4, selectedTask <- s5, calls <- s6, answers <- s7,
    moves <- s8, stale <- s9,
    \* Updates
    update <- s1, checks <- s2, asked <- s3, modal <- s4, fading <- s5,
    download <- s6, unguarded <- s7, indicator <- s8, lastSeen <- s9,
    row <- s10,
    \* Screencast
    begin <- s1, recording <- s2, recorder <- s3, recorded <- s4,
    failed <- s5, events <- s6, replies <- s7, toasts <- s8, asking <- s9,
    windows <- s10,
    \* WebglPool
    life <- s1, wantWebgl <- s2, entries <- s3, active <- s4, stamp <- s5,
    touches <- s6, cap <- s7, enabled <- s8, exhausted <- s9, live <- s10,
    \* EditorFile
    ed <- s1, file <- s2, writes <- s3, dialog <- s4, preview <- s5

L == INSTANCE PaneLink_proofs WITH
    cur <- s1, link <- s2, routes <- s3, waiters <- s4, pc <- s5, via <- s6,
    got <- s7, toDaemon <- s8, toApp <- s9, shell <- s10, subs <- s11,
    dying <- s12, term <- s13, useDaemon <- s14, local <- s15, exits <- s16,
    losses <- s17, window <- s18

(* There is a tab, a pane is in one tab (tabs and paneTree of app.ts), and *)
(* the 64 waiters of an id are more than the calls can fill, bounds are    *)
(* numbers; the rest is what FocusTimer, WebglPool, MuxClient and PaneLink *)
(* assume.                                                                 *)
ASSUME PartsAssumption ==
    /\ P!AllTabs # {} /\ P!OneTabEach
    /\ MaxSize \in Nat /\ MaxRoots \in Nat /\ Unit \in Nat
    /\ MaxDownloads \in Nat /\ MaxRecordings \in Nat
    /\ P!FocusConstantsOk /\ K!PoolConstantsOk
    /\ L!ClientConstantsOk /\ L!LinkConstantsOk /\ L!RoomForWaiters

-----------------------------------------------------------------------------
InSignals(A) ==
    /\ part = "signals"
    /\ UNCHANGED <<part, s15, s16, s17, s18>>
    /\ A

InMemory(A) ==
    /\ part = "memory"
    /\ UNCHANGED <<part, s13, s14, s15, s16, s17, s18>>
    /\ A

InQuick(A) ==
    /\ part = "quick"
    /\ UNCHANGED <<part, s17, s18>>
    /\ A

InHistory(A) ==
    /\ part = "history"
    /\ UNCHANGED <<part, s12, s13, s14, s15, s16, s17, s18>>
    /\ A

InDock(A) ==
    /\ part = "dock"
    /\ UNCHANGED <<part, s13, s14, s15, s16, s17, s18>>
    /\ A

InConfig(A) ==
    /\ part = "config"
    /\ UNCHANGED <<part, s15, s16, s17, s18>>
    /\ A

InWhere(A) ==
    /\ part = "where"
    /\ UNCHANGED <<part, s13, s14, s15, s16, s17, s18>>
    /\ A

InTree(A) ==
    /\ part = "tree"
    /\ UNCHANGED <<part, s18>>
    /\ A

InBoard(A) ==
    /\ part = "board"
    /\ UNCHANGED <<part, s14, s15, s16, s17, s18>>
    /\ A

InStrip(A) ==
    /\ part = "strip"
    /\ UNCHANGED <<part, s14, s15, s16, s17, s18>>
    /\ A

InTodo(A) ==
    /\ part = "todo"
    /\ UNCHANGED <<part, s10, s11, s12, s13, s14, s15, s16, s17, s18>>
    /\ A

InViews(A) ==
    /\ part = "views"
    /\ UNCHANGED <<part, s9, s10, s11, s12, s13, s14, s15, s16, s17, s18>>
    /\ A

InFocus(A) ==
    /\ part = "focus"
    /\ UNCHANGED <<part, s7, s8, s9, s10, s11, s12, s13, s14, s15, s16, s17,
                   s18>>
    /\ A

InUpdates(A) ==
    /\ part = "updates"
    /\ UNCHANGED <<part, s11, s12, s13, s14, s15, s16, s17, s18>>
    /\ A

InCast(A) ==
    /\ part = "cast"
    /\ UNCHANGED <<part, s11, s12, s13, s14, s15, s16, s17, s18>>
    /\ A

InPool(A) ==
    /\ part = "webgl"
    /\ UNCHANGED <<part, s11, s12, s13, s14, s15, s16, s17, s18>>
    /\ A

InEditor(A) ==
    /\ part = "editor"
    /\ UNCHANGED <<part, s6, s7, s8, s9, s10, s11, s12, s13, s14, s15, s16,
                   s17, s18>>
    /\ A

InReplies(A) ==
    /\ part = "replies"
    /\ UNCHANGED part
    /\ A

-----------------------------------------------------------------------------
(* A slot that a part does not use holds 0. *)
PartsInit ==
    \/ /\ part = "signals" /\ P!SignalInit
       /\ s15 = 0 /\ s16 = 0 /\ s17 = 0 /\ s18 = 0
    \/ /\ part = "memory" /\ P!PromptInit
       /\ s13 = 0 /\ s14 = 0 /\ s15 = 0 /\ s16 = 0 /\ s17 = 0 /\ s18 = 0
    \/ /\ part = "quick" /\ P!QuickInit
       /\ s17 = 0 /\ s18 = 0
    \/ /\ part = "history" /\ P!HistoryInit
       /\ s12 = 0 /\ s13 = 0 /\ s14 = 0 /\ s15 = 0 /\ s16 = 0 /\ s17 = 0
       /\ s18 = 0
    \/ /\ part = "dock" /\ P!PinInit
       /\ s13 = 0 /\ s14 = 0 /\ s15 = 0 /\ s16 = 0 /\ s17 = 0 /\ s18 = 0
    \/ /\ part = "config" /\ P!ConfigInit
       /\ s15 = 0 /\ s16 = 0 /\ s17 = 0 /\ s18 = 0
    \/ /\ part = "where" /\ K!KeyInit
       /\ s13 = 0 /\ s14 = 0 /\ s15 = 0 /\ s16 = 0 /\ s17 = 0 /\ s18 = 0
    \/ /\ part = "tree" /\ K!TreeInit
       /\ s18 = 0
    \/ /\ part = "board" /\ K!BoardInit
       /\ s14 = 0 /\ s15 = 0 /\ s16 = 0 /\ s17 = 0 /\ s18 = 0
    \/ /\ part = "strip" /\ K!TabInit
       /\ s14 = 0 /\ s15 = 0 /\ s16 = 0 /\ s17 = 0 /\ s18 = 0
    \/ /\ part = "todo" /\ K!TodoInit
       /\ s10 = 0 /\ s11 = 0 /\ s12 = 0 /\ s13 = 0 /\ s14 = 0 /\ s15 = 0
       /\ s16 = 0 /\ s17 = 0 /\ s18 = 0
    \/ /\ part = "views" /\ P!NativeInit
       /\ s9 = 0 /\ s10 = 0 /\ s11 = 0 /\ s12 = 0 /\ s13 = 0 /\ s14 = 0
       /\ s15 = 0 /\ s16 = 0 /\ s17 = 0 /\ s18 = 0
    \/ /\ part = "focus" /\ P!FocusInit
       /\ s7 = 0 /\ s8 = 0 /\ s9 = 0 /\ s10 = 0 /\ s11 = 0 /\ s12 = 0
       /\ s13 = 0 /\ s14 = 0 /\ s15 = 0 /\ s16 = 0 /\ s17 = 0 /\ s18 = 0
    \/ /\ part = "updates" /\ K!UpdateInit
       /\ s11 = 0 /\ s12 = 0 /\ s13 = 0 /\ s14 = 0 /\ s15 = 0 /\ s16 = 0
       /\ s17 = 0 /\ s18 = 0
    \/ /\ part = "cast" /\ K!CastInit
       /\ s11 = 0 /\ s12 = 0 /\ s13 = 0 /\ s14 = 0 /\ s15 = 0 /\ s16 = 0
       /\ s17 = 0 /\ s18 = 0
    \/ /\ part = "webgl" /\ K!PoolInit
       /\ s11 = 0 /\ s12 = 0 /\ s13 = 0 /\ s14 = 0 /\ s15 = 0 /\ s16 = 0
       /\ s17 = 0 /\ s18 = 0
    \/ /\ part = "editor" /\ K!EdInit
       /\ s6 = 0 /\ s7 = 0 /\ s8 = 0 /\ s9 = 0 /\ s10 = 0 /\ s11 = 0
       /\ s12 = 0 /\ s13 = 0 /\ s14 = 0 /\ s15 = 0 /\ s16 = 0 /\ s17 = 0
       /\ s18 = 0
    \/ /\ part = "replies" /\ L!Init

PartsNext ==
    \/ InSignals(P!SignalNext)
    \/ InMemory(P!PromptNext)
    \/ InQuick(P!QuickNext)
    \/ InHistory(P!HistoryNext)
    \/ InDock(P!PinNext)
    \/ InConfig(P!ConfigNext)
    \/ InWhere(K!KeyNext)
    \/ InTree(K!TreeNext)
    \/ InBoard(K!BoardNext)
    \/ InStrip(K!TabNext)
    \/ InTodo(K!TodoNext)
    \/ InViews(P!NativeNext)
    \/ InFocus(P!FocusNext)
    \/ InUpdates(K!UpdateNext)
    \/ InCast(K!CastNext)
    \/ InPool(K!PoolNext)
    \/ InEditor(K!EdNext)
    \/ InReplies(L!Next)

PartsSpec == PartsInit /\ [][PartsNext]_partVars

-----------------------------------------------------------------------------
(* What each says is stated in full in its module. *)

\* However rarely a throttled window ticks, the focus timer shows what it would have
\* shown (FocusTimer).
TickSpacingIsInvisible == part = "focus" => P!TickSpacingIsInvisible

\* Every focus block that ends is logged with its unpaused time (FocusTimer).
BlocksAreAccounted == [][part = "focus" => P!BlocksAreAccounted]_partVars

\* A bell never rings for a tab the user has seen since its agents changed
\* (AgentSignals).
SeenTabsAreNotFlagged == part = "signals" => P!SeenTabsAreNotFlagged

\* The save prompt is typed at most once for each time an agent finished
\* (MemoryPrompts).
OnePromptPerDone == part = "memory" => P!OnePromptPerDone

\* The dock in the store is the last window's until it is restored, and then the
\* dock as it stands (PinDock).
DockOutlivesRestart == part = "dock" => P!DockOutlivesRestart

\* Between two jobs the tabs, their sessions and the store agree (TabStrip).
StripIsStored == part = "strip" => K!StripIsStored

\* The work tree lists every path once and every child under its folder (WorkTree).
OneRowPerPath == part = "tree" => K!OneRowPerPath

\* With no command under way the todo panel shows its project's tasks (TodoPanel).
PanelAgrees == part = "todo" => K!PanelAgrees

\* The palette shows the results and the end of its own search (QuickOpen).
SearchIsItsOwn == part = "quick" => P!SearchIsItsOwn

\* At rest the file, the backend and the main window hold one configuration
\* (ConfigSync).
MainKeepsCurrent == part = "config" => P!MainKeepsCurrent

\* The detail of a history is that of the selected commit (GitHistory).
DetailIsOfSelected == part = "history" => P!DetailIsOfSelected

\* The todo panel takes plain keys only while it shows and has the focus (KeyFocus).
TodoKeysAreSeen == part = "where" => K!TodoKeysAreSeen

\* The board always has an item for Enter to act on (AgentBoard).
SomethingIsSelected == part = "board" => K!SomethingIsSelected

\* With no dialog in the page a browser of the dock shows (NativeViews).
PinnedViewComesBack == part = "views" => P!PinnedViewComesBack

\* One release is downloaded and installed at a time, but for the two ways the code
\* leaves open (Updates).
OneDownload == part = "updates" => K!OneDownload

\* A recording that failed is told once and resets the window (Screencast).
FailureResetsOnce == part = "cast" => K!FailureResetsOnce

\* The live contexts fit the cap and belong to open, registered terminals (WebglPool).
ContextsFit == part = "webgl" => K!ContextsFit

\* What somebody else wrote to an open file is only overwritten by a write that the
\* user has forced (EditorFile).
NoBlindOverwrite == [][part = "editor" => K!OverwritesKnowingly]_partVars

\* The waiters of an id are as many as the replies still to come for it, so a reply
\* reaches the call it answers (MuxClient).
RepliesAligned == part = "replies" => L!RepliesAligned
=============================================================================

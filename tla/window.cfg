SPECIFICATION Spec
CONSTANTS
  Nobody = Nobody
  Terminals = {t1, t2, t3}
  Caps = {1, 2}
  MaxTouches = 2
  ViewTabs = {"t1", "t2"}
  Pin = "pin"
  Dialogs = {"d1", "d2"}
  Presets <- FocusPresets
  Lengths = {1}
  OverflowCap = 2
  MaxAdvances = 16
  MaxTime = 3
  MaxClicks = 3
  Versions = {"v1", "v2"}
  MaxChecks = 2
  MaxDownloads = 2
  Begins = {"b1", "b2"}
  MaxRecordings = 2
  MaxEdits = 2
  MaxWrites = 2
  ProjectRoots = {"p"}
  Home = "h"
  MaxSearches = 2
  MaxTyped = 1
  Files = {"f", "g"}
  CommitsOf <- HistoryCommits
  Binary = {"c1"}
  MaxOpens = 2
  MaxCalls = 2
  PanesOf <- TabPanes
  States <- AgentStates
  MaxEvents = 2
  TabProject <- MemoryProjects
  MaxMoves = 3
  MaxContents = 2
  MaxSize = 2
  MaxConfigEdits = 1
  KeyProjects = {"x"}
  TreeRoots = {"p", "q"}
  MaxRoots = 2
  MaxChanges = 1
  Agents = {"s1", "s2"}
  MaxFlips = 3
  StripPaths = {"f"}
  StripProjects = {}
  PaneCap = 1
  MaxTabs = 3
  TodoProjects = {"x", "y"}
  Unit = 2
  MaxTasks = 2
  MaxTodoMoves = 1
  MaxPending = 3
  Pane = {"p1"}
  Again = {}
  Ask = {"a1", "a2"}
  MaxConn = 1
  MaxWaiters = 64
  MaxQueued = 2
  Slow = {"probe"}
  Pinned = {}
  LossesFarApart = TRUE
INVARIANT ContextsFit
INVARIANT TreeAndPanesAgree
 
PROPERTY ResolveKeepsTheOthers
INVARIANT TickSpacingIsInvisible
PROPERTY BlocksAreAccounted
INVARIANT SeenTabsAreNotFlagged
INVARIANT OnePromptPerDone
INVARIANT SpansAlternate
INVARIANT DockOutlivesRestart
INVARIANT StripIsStored
 
INVARIANT PanelAgrees
INVARIANT PinnedViewComesBack
INVARIANT OneDownload
 
INVARIANT FailureResetsOnce
INVARIANT RecordedStrokeRuns
INVARIANT MainKeepsCurrent
 
 
INVARIANT TodoKeysAreSeen
INVARIANT SomethingIsSelected
INVARIANT RepliesAligned
CHECK_DEADLOCK FALSE

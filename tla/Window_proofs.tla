---------------------------- MODULE Window_proofs ----------------------------
(***************************************************************************)
(* The theorems of Panels_proofs, Lists_proofs and PaneLink_proofs carried *)
(* over to the parts of WindowParts, so that they speak of the properties  *)
(* the instance MC_Window checks, for every value of the constants that    *)
(* PartsAssumption allows.                                                 *)
(*                                                                         *)
(* A behaviour of PartsSpec is one of the part it starts in: the others'   *)
(* steps never come, and what its module proves of its specification holds *)
(* of the slots.  So each property holds of every behaviour of PartsSpec.  *)
(***************************************************************************)
EXTENDS Integers, WindowParts, TLAPS

(* The part of a behaviour stays what it is, and moves as its module says. *)
LEMMA PartsMove ==
  ASSUME [PartsNext]_partVars
  PROVE  /\ part' = part
         /\ part = "signals" => [P!SignalNext]_P!signalVars
         /\ part = "memory" => [P!PromptNext]_P!promptVars
         /\ part = "quick" => [P!QuickNext]_P!quickVars
         /\ part = "history" => [P!HistoryNext]_P!historyVars
         /\ part = "dock" => [P!PinNext]_P!pinVars
         /\ part = "config" => [P!ConfigNext]_P!configVars
         /\ part = "where" => [K!KeyNext]_K!keyVars
         /\ part = "tree" => [K!TreeNext]_K!treeVars
         /\ part = "board" => [K!BoardNext]_K!boardVars
         /\ part = "strip" => [K!TabNext]_K!tabVars
         /\ part = "todo" => [K!TodoNext]_K!todoVars
         /\ part = "views" => [P!NativeNext]_P!viewVars
         /\ part = "focus" => [P!FocusNext]_P!focusVars
         /\ part = "updates" => [K!UpdateNext]_K!updateVars
         /\ part = "cast" => [K!CastNext]_K!castVars
         /\ part = "webgl" => [K!PoolNext]_K!poolVars
         /\ part = "editor" => [K!EdNext]_K!edVars
         /\ part = "replies" => [L!Next]_L!vars
<1> USE DEF PartsNext, partVars, slots, InSignals, InMemory, InQuick, InHistory, InDock,
            InConfig, InWhere, InTree, InBoard, InStrip, InTodo, InViews, InFocus, InUpdates,
            InCast, InPool, InEditor, InReplies
<1>1. part' = part
  OBVIOUS
<1>2. part = "signals" => [P!SignalNext]_P!signalVars
  BY DEF P!signalVars
<1>3. part = "memory" => [P!PromptNext]_P!promptVars
  BY DEF P!promptVars
<1>4. part = "quick" => [P!QuickNext]_P!quickVars
  BY DEF P!quickVars
<1>5. part = "history" => [P!HistoryNext]_P!historyVars
  BY DEF P!historyVars
<1>6. part = "dock" => [P!PinNext]_P!pinVars
  BY DEF P!pinVars
<1>7. part = "config" => [P!ConfigNext]_P!configVars
  BY DEF P!configVars
<1>8. part = "where" => [K!KeyNext]_K!keyVars
  BY DEF K!keyVars
<1>9. part = "replies" => [L!Next]_L!vars
  BY DEF L!vars, L!clientVars, L!callVars, L!daemonVars, L!paneVars
<1>10. part = "tree" => [K!TreeNext]_K!treeVars
  BY DEF K!treeVars
<1>11. part = "board" => [K!BoardNext]_K!boardVars
  BY DEF K!boardVars
<1>12. part = "strip" => [K!TabNext]_K!tabVars
  BY DEF K!tabVars
<1>13. part = "todo" => [K!TodoNext]_K!todoVars
  BY DEF K!todoVars
<1>14. part = "views" => [P!NativeNext]_P!viewVars
  BY DEF P!viewVars
<1>15. part = "updates" => [K!UpdateNext]_K!updateVars
  BY DEF K!updateVars
<1>16. part = "cast" => [K!CastNext]_K!castVars
  BY DEF K!castVars
<1>17. part = "webgl" => [K!PoolNext]_K!poolVars
  BY DEF K!poolVars
<1>18. part = "editor" => [K!EdNext]_K!edVars
  BY DEF K!edVars
<1>19. part = "focus" => [P!FocusNext]_P!focusVars
  BY DEF P!focusVars
<1> QED BY <1>1, <1>2, <1>3, <1>4, <1>5, <1>6, <1>7, <1>8, <1>9, <1>10, <1>11, <1>12, <1>13,
           <1>14, <1>15, <1>16, <1>17, <1>18, <1>19

\* A tab the user has seen since its agents changed wears no bell, however many tabs,
\* panes and events there are (app.ts renderTabs, tabAttention).
THEOREM TabsWithBellsAreUnseen == PartsSpec => []SeenTabsAreNotFlagged
<1> DEFINE Here == part = "signals"
<1>1. PartsInit /\ Here => P!SignalInit
  BY DEF PartsInit
<1>2. Here /\ [PartsNext]_partVars => [P!SignalNext]_P!signalVars
  BY PartsMove
<1>3. /\ Here /\ [PartsNext]_partVars => Here'
      /\ ~Here /\ [PartsNext]_partVars => ~Here'
  BY PartsMove
<1>4. P!SignalSpec => []P!SeenTabsAreNotFlagged
  <2>1. P!AllTabs # {} /\ P!OneTabEach
    BY PartsAssumption
  <2> QED BY <2>1, P!SeenAreQuiet
<1>5. (Here => P!SeenTabsAreNotFlagged) => SeenTabsAreNotFlagged
  BY DEF SeenTabsAreNotFlagged
<1> HIDE DEF Here
<1>6. PartsSpec /\ Here => P!SignalSpec /\ []Here
  BY <1>1, <1>2, <1>3, PTL DEF PartsSpec, P!SignalSpec
<1>7. PartsSpec /\ ~Here => []~Here
  BY <1>3, PTL DEF PartsSpec
<1> QED BY <1>4, <1>5, <1>6, <1>7, PTL

\* The autosave prompt is typed at most once for each time an agent finished, whatever
\* answers wait while the user and the agents go on (app.ts maybeAutosave).
THEOREM PromptsAreEarned == PartsSpec => []OnePromptPerDone
<1> DEFINE Here == part = "memory"
<1>1. PartsInit /\ Here => P!PromptInit
  BY DEF PartsInit
<1>2. Here /\ [PartsNext]_partVars => [P!PromptNext]_P!promptVars
  BY PartsMove
<1>3. /\ Here /\ [PartsNext]_partVars => Here'
      /\ ~Here /\ [PartsNext]_partVars => ~Here'
  BY PartsMove
<1>4. P!PromptSpec => []P!OnePromptPerDone
  BY P!PromptedOnce
<1>5. (Here => P!OnePromptPerDone) => OnePromptPerDone
  BY DEF OnePromptPerDone
<1> HIDE DEF Here
<1>6. PartsSpec /\ Here => P!PromptSpec /\ []Here
  BY <1>1, <1>2, <1>3, PTL DEF PartsSpec, P!PromptSpec
<1>7. PartsSpec /\ ~Here => []~Here
  BY <1>3, PTL DEF PartsSpec
<1> QED BY <1>4, <1>5, <1>6, <1>7, PTL

\* The palette shows the rows of its own root, and is told that its search is over only
\* when it is, whatever of earlier searches is still under way (quickopen.ts).
THEOREM PaletteShowsItsSearch == PartsSpec => []SearchIsItsOwn
<1> DEFINE Here == part = "quick"
<1>1. PartsInit /\ Here => P!QuickInit
  BY DEF PartsInit
<1>2. Here /\ [PartsNext]_partVars => [P!QuickNext]_P!quickVars
  BY PartsMove
<1>3. /\ Here /\ [PartsNext]_partVars => Here'
      /\ ~Here /\ [PartsNext]_partVars => ~Here'
  BY PartsMove
<1>4. P!QuickSpec => []P!SearchIsItsOwn
  BY P!SearchStaysItsOwn
<1>5. (Here => P!SearchIsItsOwn) => SearchIsItsOwn
  BY DEF SearchIsItsOwn
<1> HIDE DEF Here
<1>6. PartsSpec /\ Here => P!QuickSpec /\ []Here
  BY <1>1, <1>2, <1>3, PTL DEF PartsSpec, P!QuickSpec
<1>7. PartsSpec /\ ~Here => []~Here
  BY <1>3, PTL DEF PartsSpec
<1> QED BY <1>4, <1>5, <1>6, <1>7, PTL

\* With nothing under way the detail is that of the selected commit, for any histories
\* and any order of the answers (githistory.ts).
THEOREM DetailFollowsSelection == PartsSpec => []DetailIsOfSelected
<1> DEFINE Here == part = "history"
<1>1. PartsInit /\ Here => P!HistoryInit
  BY DEF PartsInit
<1>2. Here /\ [PartsNext]_partVars => [P!HistoryNext]_P!historyVars
  BY PartsMove
<1>3. /\ Here /\ [PartsNext]_partVars => Here'
      /\ ~Here /\ [PartsNext]_partVars => ~Here'
  BY PartsMove
<1>4. P!HistorySpec => []P!DetailIsOfSelected
  BY P!DetailIsTheSelected
<1>5. (Here => P!DetailIsOfSelected) => DetailIsOfSelected
  BY DEF DetailIsOfSelected
<1> HIDE DEF Here
<1>6. PartsSpec /\ Here => P!HistorySpec /\ []Here
  BY <1>1, <1>2, <1>3, PTL DEF PartsSpec, P!HistorySpec
<1>7. PartsSpec /\ ~Here => []~Here
  BY <1>3, PTL DEF PartsSpec
<1> QED BY <1>4, <1>5, <1>6, <1>7, PTL

\* The dock in the store is the one of the last window until it is restored, and then
\* the dock as it stands (app.ts restorePinDock).
THEOREM DockSurvives == PartsSpec => []DockOutlivesRestart
<1> DEFINE Here == part = "dock"
<1>1. PartsInit /\ Here => P!PinInit
  BY DEF PartsInit
<1>2. Here /\ [PartsNext]_partVars => [P!PinNext]_P!pinVars
  BY PartsMove
<1>3. /\ Here /\ [PartsNext]_partVars => Here'
      /\ ~Here /\ [PartsNext]_partVars => ~Here'
  BY PartsMove
<1>4. P!PinInit /\ [][P!PinNext]_P!pinVars => []P!DockOutlivesRestart
  BY P!DockIsKept
<1>5. (Here => P!DockOutlivesRestart) => DockOutlivesRestart
  BY DEF DockOutlivesRestart
<1> HIDE DEF Here
<1>6. PartsSpec /\ Here => P!PinInit /\ [][P!PinNext]_P!pinVars /\ []Here
  BY <1>1, <1>2, <1>3, PTL DEF PartsSpec
<1>7. PartsSpec /\ ~Here => []~Here
  BY <1>3, PTL DEF PartsSpec
<1> QED BY <1>4, <1>5, <1>6, <1>7, PTL

\* At rest the file, the backend and the main window hold one configuration, for any
\* number of edits in the settings and in the file (config.rs, watch.rs).
THEOREM ConfigCopiesAgree == PartsSpec => []MainKeepsCurrent
<1> DEFINE Here == part = "config"
<1>1. PartsInit /\ Here => P!ConfigInit
  BY DEF PartsInit
<1>2. Here /\ [PartsNext]_partVars => [P!ConfigNext]_P!configVars
  BY PartsMove
<1>3. /\ Here /\ [PartsNext]_partVars => Here'
      /\ ~Here /\ [PartsNext]_partVars => ~Here'
  BY PartsMove
<1>4. P!ConfigInit /\ [][P!ConfigNext]_P!configVars => []P!MainKeepsCurrent
  <2>1. MaxSize \in Nat
    BY PartsAssumption
  <2> QED BY <2>1, P!CopiesAgree
<1>5. (Here => P!MainKeepsCurrent) => MainKeepsCurrent
  BY DEF MainKeepsCurrent
<1> HIDE DEF Here
<1>6. PartsSpec /\ Here => P!ConfigInit /\ [][P!ConfigNext]_P!configVars /\ []Here
  BY <1>1, <1>2, <1>3, PTL DEF PartsSpec
<1>7. PartsSpec /\ ~Here => []~Here
  BY <1>3, PTL DEF PartsSpec
<1> QED BY <1>4, <1>5, <1>6, <1>7, PTL

\* The todo panel takes plain keys only while it is in sight and has the focus, for any
\* projects (app.ts todoFocused).
THEOREM TodoTakesKeysInSight == PartsSpec => []TodoKeysAreSeen
<1> DEFINE Here == part = "where"
<1>1. PartsInit /\ Here => K!KeyInit
  BY DEF PartsInit
<1>2. Here /\ [PartsNext]_partVars => [K!KeyNext]_K!keyVars
  BY PartsMove
<1>3. /\ Here /\ [PartsNext]_partVars => Here'
      /\ ~Here /\ [PartsNext]_partVars => ~Here'
  BY PartsMove
<1>4. K!KeySpec => []K!TodoKeysAreSeen
  BY K!TodoHasTheKeys
<1>5. (Here => K!TodoKeysAreSeen) => TodoKeysAreSeen
  BY DEF TodoKeysAreSeen
<1> HIDE DEF Here
<1>6. PartsSpec /\ Here => K!KeySpec /\ []Here
  BY <1>1, <1>2, <1>3, PTL DEF PartsSpec, K!KeySpec
<1>7. PartsSpec /\ ~Here => []~Here
  BY <1>3, PTL DEF PartsSpec
<1> QED BY <1>4, <1>5, <1>6, <1>7, PTL

\* The work tree lists every path once, and each child under its folder, unless two
\* listings were under way at a time, for any roots and any changes on disk (filetree.ts).
THEOREM TreeListsEachPathOnce == PartsSpec => []OneRowPerPath
<1> DEFINE Here == part = "tree"
<1>1. PartsInit /\ Here => K!TreeInit
  BY DEF PartsInit
<1>2. Here /\ [PartsNext]_partVars => [K!TreeNext]_K!treeVars
  BY PartsMove
<1>3. /\ Here /\ [PartsNext]_partVars => Here'
      /\ ~Here /\ [PartsNext]_partVars => ~Here'
  BY PartsMove
<1>4. K!TreeSpec => []K!OneRowPerPath
  <2>1. MaxRoots \in Nat
    BY PartsAssumption
  <2> QED BY <2>1, K!PathsAreListedOnce
<1>5. (Here => K!OneRowPerPath) => OneRowPerPath
  BY DEF OneRowPerPath
<1> HIDE DEF Here
<1>6. PartsSpec /\ Here => K!TreeSpec /\ []Here
  BY <1>1, <1>2, <1>3, PTL DEF PartsSpec, K!TreeSpec
<1>7. PartsSpec /\ ~Here => []~Here
  BY <1>3, PTL DEF PartsSpec
<1> QED BY <1>4, <1>5, <1>6, <1>7, PTL

\* The board that shows anything has a selected item for Enter to act on, whatever
\* events redraw it under the arrow keys (orchestration.ts renderList).
THEOREM BoardHasSelection == PartsSpec => []SomethingIsSelected
<1> DEFINE Here == part = "board"
<1>1. PartsInit /\ Here => K!BoardInit
  BY DEF PartsInit
<1>2. Here /\ [PartsNext]_partVars => [K!BoardNext]_K!boardVars
  BY PartsMove
<1>3. /\ Here /\ [PartsNext]_partVars => Here'
      /\ ~Here /\ [PartsNext]_partVars => ~Here'
  BY PartsMove
<1>4. K!BoardSpec => []K!SomethingIsSelected
  BY K!SelectionStays
<1>5. (Here => K!SomethingIsSelected) => SomethingIsSelected
  BY DEF SomethingIsSelected
<1> HIDE DEF Here
<1>6. PartsSpec /\ Here => K!BoardSpec /\ []Here
  BY <1>1, <1>2, <1>3, PTL DEF PartsSpec, K!BoardSpec
<1>7. PartsSpec /\ ~Here => []~Here
  BY <1>3, PTL DEF PartsSpec
<1> QED BY <1>4, <1>5, <1>6, <1>7, PTL

\* Between two tab jobs every tab has its session, every session its tab, and the store
\* the strip as it stands, for any number of tabs and files (app.ts doCloseTab, persist).
THEOREM StripStoredBetweenJobs == PartsSpec => []StripIsStored
<1> DEFINE Here == part = "strip"
<1>1. PartsInit /\ Here => K!TabInit
  BY DEF PartsInit
<1>2. Here /\ [PartsNext]_partVars => [K!TabNext]_K!tabVars
  BY PartsMove
<1>3. /\ Here /\ [PartsNext]_partVars => Here'
      /\ ~Here /\ [PartsNext]_partVars => ~Here'
  BY PartsMove
<1>4. K!TabSpec => []K!StripIsStored
  BY K!StripStaysStored
<1>5. (Here => K!StripIsStored) => StripIsStored
  BY DEF StripIsStored
<1> HIDE DEF Here
<1>6. PartsSpec /\ Here => K!TabSpec /\ []Here
  BY <1>1, <1>2, <1>3, PTL DEF PartsSpec, K!TabSpec
<1>7. PartsSpec /\ ~Here => []~Here
  BY <1>3, PTL DEF PartsSpec
<1> QED BY <1>4, <1>5, <1>6, <1>7, PTL

\* With no command under way the todo panel shows the tasks of its project as the store
\* has them, for any projects, tasks and commands (todopanel.ts, todomodal.ts).
THEOREM PanelShowsItsTasks == PartsSpec => []PanelAgrees
<1> DEFINE Here == part = "todo"
<1>1. PartsInit /\ Here => K!TodoInit
  BY DEF PartsInit
<1>2. Here /\ [PartsNext]_partVars => [K!TodoNext]_K!todoVars
  BY PartsMove
<1>3. /\ Here /\ [PartsNext]_partVars => Here'
      /\ ~Here /\ [PartsNext]_partVars => ~Here'
  BY PartsMove
<1>4. K!TodoSpec => []K!PanelAgrees
  <2>1. Unit \in Int
    BY PartsAssumption
  <2> QED BY <2>1, K!PanelShowsTheStore
<1>5. (Here => K!PanelAgrees) => PanelAgrees
  BY DEF PanelAgrees
<1> HIDE DEF Here
<1>6. PartsSpec /\ Here => K!TodoSpec /\ []Here
  BY <1>1, <1>2, <1>3, PTL DEF PartsSpec, K!TodoSpec
<1>7. PartsSpec /\ ~Here => []~Here
  BY <1>3, PTL DEF PartsSpec
<1> QED BY <1>4, <1>5, <1>6, <1>7, PTL

\* With no dialog in the page a browser of the dock shows, however the dialogs were
\* opened, stacked and closed, twice too (overlay.ts createOverlay, browser.ts).
THEOREM DockBrowserComesBack == PartsSpec => []PinnedViewComesBack
<1> DEFINE Here == part = "views"
<1>1. PartsInit /\ Here => P!NativeInit
  BY DEF PartsInit
<1>2. Here /\ [PartsNext]_partVars => [P!NativeNext]_P!viewVars
  BY PartsMove
<1>3. /\ Here /\ [PartsNext]_partVars => Here'
      /\ ~Here /\ [PartsNext]_partVars => ~Here'
  BY PartsMove
<1>4. P!NativeInit /\ [][P!NativeNext]_P!viewVars => []P!PinnedViewComesBack
  BY P!PinnedViewReturns
<1>5. (Here => P!PinnedViewComesBack) => PinnedViewComesBack
  BY DEF PinnedViewComesBack
<1> HIDE DEF Here
<1>6. PartsSpec /\ Here => P!NativeInit /\ [][P!NativeNext]_P!viewVars /\ []Here
  BY <1>1, <1>2, <1>3, PTL DEF PartsSpec
<1>7. PartsSpec /\ ~Here => []~Here
  BY <1>3, PTL DEF PartsSpec
<1> QED BY <1>4, <1>5, <1>6, <1>7, PTL

\* The focus timer shows what it would have shown had it ticked in between, for any
\* presets, overflow cap and clicks (focus/machine.ts tick).
THEOREM TimerHidesItsTicks == PartsSpec => []TickSpacingIsInvisible
<1> DEFINE Here == part = "focus"
<1>1. PartsInit /\ Here => P!FocusInit
  BY DEF PartsInit
<1>2. Here /\ [PartsNext]_partVars => [P!FocusNext]_P!focusVars
  BY PartsMove
<1>3. /\ Here /\ [PartsNext]_partVars => Here'
      /\ ~Here /\ [PartsNext]_partVars => ~Here'
  BY PartsMove
<1>4. P!FocusSpec => []P!TickSpacingIsInvisible
  BY PartsAssumption, P!TimerIgnoresItsTicks
<1>5. (Here => P!TickSpacingIsInvisible) => TickSpacingIsInvisible
  BY DEF TickSpacingIsInvisible
<1> HIDE DEF Here
<1>6. PartsSpec /\ Here => P!FocusSpec /\ []Here
  BY <1>1, <1>2, <1>3, PTL DEF PartsSpec, P!FocusSpec
<1>7. PartsSpec /\ ~Here => []~Here
  BY <1>3, PTL DEF PartsSpec
<1> QED BY <1>4, <1>5, <1>6, <1>7, PTL

\* A focus block that ends while the metrics are on is logged with the time it ran
\* without its pauses, whatever ended it, for any presets, pauses and clicks
\* (focus/cell.ts trackFocusSession).
THEOREM EndedBlocksAreLogged == PartsSpec => BlocksAreAccounted
<1> DEFINE Here == part = "focus"
<1>1. PartsInit /\ Here => P!FocusInit
  BY DEF PartsInit
<1>2. Here /\ [PartsNext]_partVars => [P!FocusNext]_P!focusVars
  BY PartsMove
<1>3. /\ Here /\ [PartsNext]_partVars => Here'
      /\ ~Here /\ [PartsNext]_partVars => ~Here'
  BY PartsMove
<1>4. P!FocusSpec => [][P!BlocksAreAccounted]_P!focusVars
  BY P!EveryBlockIsLogged
\* A step of the timer leaves the other slots as they are.
<1>5. Here /\ [PartsNext]_partVars /\ [P!BlocksAreAccounted]_P!focusVars
         => [part = "focus" => P!BlocksAreAccounted]_partVars
  BY DEF PartsNext, partVars, slots, P!focusVars, InSignals, InMemory, InQuick, InHistory,
         InDock, InConfig, InWhere, InTree, InBoard, InStrip, InTodo, InViews, InFocus,
         InUpdates, InCast, InPool, InEditor, InReplies
<1>6. ~Here => [part = "focus" => P!BlocksAreAccounted]_partVars
  OBVIOUS
<1> HIDE DEF Here
<1>7. PartsSpec /\ Here => P!FocusSpec /\ []Here
  BY <1>1, <1>2, <1>3, PTL DEF PartsSpec, P!FocusSpec
<1>8. PartsSpec /\ ~Here => []~Here
  BY <1>3, PTL DEF PartsSpec
<1> QED BY <1>4, <1>5, <1>6, <1>7, <1>8, PTL DEF BlocksAreAccounted, PartsSpec

\* One release is downloaded and installed at a time, for any versions, checks and
\* downloads, but for the two ways the code leaves open (updates.ts, updatemodal.ts).
THEOREM OneInstallInWindow == PartsSpec => []OneDownload
<1> DEFINE Here == part = "updates"
<1>1. PartsInit /\ Here => K!UpdateInit
  BY DEF PartsInit
<1>2. Here /\ [PartsNext]_partVars => [K!UpdateNext]_K!updateVars
  BY PartsMove
<1>3. /\ Here /\ [PartsNext]_partVars => Here'
      /\ ~Here /\ [PartsNext]_partVars => ~Here'
  BY PartsMove
<1>4. K!UpdateInit /\ [][K!UpdateNext]_K!updateVars => []K!OneDownload
  <2>1. MaxDownloads \in Nat
    BY PartsAssumption
  <2> QED BY <2>1, K!OneInstallAtATime
<1>5. (Here => K!OneDownload) => OneDownload
  BY DEF OneDownload
<1> HIDE DEF Here
<1>6. PartsSpec /\ Here => K!UpdateInit /\ [][K!UpdateNext]_K!updateVars /\ []Here
  BY <1>1, <1>2, <1>3, PTL DEF PartsSpec
<1>7. PartsSpec /\ ~Here => []~Here
  BY <1>3, PTL DEF PartsSpec
<1> QED BY <1>4, <1>5, <1>6, <1>7, PTL

\* A recording that failed is told once and leaves the window without one, for any
\* recordings and any order of the event and the reply (screencast.ts).
THEOREM FailedRecordingsAreTold == PartsSpec => []FailureResetsOnce
<1> DEFINE Here == part = "cast"
<1>1. PartsInit /\ Here => K!CastInit
  BY DEF PartsInit
<1>2. Here /\ [PartsNext]_partVars => [K!CastNext]_K!castVars
  BY PartsMove
<1>3. /\ Here /\ [PartsNext]_partVars => Here'
      /\ ~Here /\ [PartsNext]_partVars => ~Here'
  BY PartsMove
<1>4. K!CastInit /\ [][K!CastNext]_K!castVars => []K!FailureResetsOnce
  <2>1. MaxRecordings \in Nat
    BY PartsAssumption
  <2> QED BY <2>1, K!FailuresReset
<1>5. (Here => K!FailureResetsOnce) => FailureResetsOnce
  BY DEF FailureResetsOnce
<1> HIDE DEF Here
<1>6. PartsSpec /\ Here => K!CastInit /\ [][K!CastNext]_K!castVars /\ []Here
  BY <1>1, <1>2, <1>3, PTL DEF PartsSpec
<1>7. PartsSpec /\ ~Here => []~Here
  BY <1>3, PTL DEF PartsSpec
<1> QED BY <1>4, <1>5, <1>6, <1>7, PTL

\* The live contexts fit the cap and belong to open, registered terminals, for any
\* terminals and caps (webgl-pool.ts).
THEOREM ContextsFitTheCap == PartsSpec => []ContextsFit
<1> DEFINE Here == part = "webgl"
<1>1. PartsInit /\ Here => K!PoolInit
  BY DEF PartsInit
<1>2. Here /\ [PartsNext]_partVars => [K!PoolNext]_K!poolVars
  BY PartsMove
<1>3. /\ Here /\ [PartsNext]_partVars => Here'
      /\ ~Here /\ [PartsNext]_partVars => ~Here'
  BY PartsMove
<1>4. K!PoolSpec => []K!ContextsFit
  <2>1. K!PoolConstantsOk
    BY PartsAssumption
  <2> QED BY <2>1, K!ContextsAlwaysFit
<1>5. (Here => K!ContextsFit) => ContextsFit
  BY DEF ContextsFit
<1> HIDE DEF Here
<1>6. PartsSpec /\ Here => K!PoolSpec /\ []Here
  BY <1>1, <1>2, <1>3, PTL DEF PartsSpec, K!PoolSpec
<1>7. PartsSpec /\ ~Here => []~Here
  BY <1>3, PTL DEF PartsSpec
<1> QED BY <1>4, <1>5, <1>6, <1>7, PTL

\* What somebody else wrote to an open file is only overwritten by a write that the
\* user has forced, for any edits and writes (app.ts saveEditor, write_file).
THEOREM ForeignTextIsKept == PartsSpec => NoBlindOverwrite
<1> DEFINE Here == part = "editor"
<1>1. PartsInit /\ Here => K!EdInit
  BY DEF PartsInit
<1>2. Here /\ [PartsNext]_partVars => [K!EdNext]_K!edVars
  BY PartsMove
<1>3. /\ Here /\ [PartsNext]_partVars => Here'
      /\ ~Here /\ [PartsNext]_partVars => ~Here'
  BY PartsMove
<1>4. K!EdInit /\ [][K!EdNext]_K!edVars => [][K!OverwritesKnowingly]_K!edVars
  BY K!OthersTextIsKept DEF K!NoBlindOverwrite
\* A step that leaves the editor as it is leaves the text of the file.
<1>5. [K!OverwritesKnowingly]_K!edVars => [part = "editor" => K!OverwritesKnowingly]_partVars
  BY DEF K!OverwritesKnowingly, K!edVars
<1>6. ~Here => [part = "editor" => K!OverwritesKnowingly]_partVars
  OBVIOUS
<1> HIDE DEF Here
<1>7. PartsSpec /\ Here => K!EdInit /\ [][K!EdNext]_K!edVars
  BY <1>1, <1>2, <1>3, PTL DEF PartsSpec
<1>8. PartsSpec /\ ~Here => []~Here
  BY <1>3, PTL DEF PartsSpec
<1> QED BY <1>4, <1>5, <1>6, <1>7, <1>8, PTL DEF NoBlindOverwrite

\* The waiters of an id stay as many as the replies still to come for it, so that every
\* reply reaches its call, for any panes and calls (mux_client.rs).
THEOREM RepliesFindTheirCalls == PartsSpec => []RepliesAligned
<1> DEFINE Here == part = "replies"
<1>1. PartsInit /\ Here => L!Init
  BY DEF PartsInit
<1>2. Here /\ [PartsNext]_partVars => [L!Next]_L!vars
  BY PartsMove
<1>3. /\ Here /\ [PartsNext]_partVars => Here'
      /\ ~Here /\ [PartsNext]_partVars => ~Here'
  BY PartsMove
<1>4. L!Spec => []L!RepliesAligned
  <2>1. L!ClientConstantsOk /\ L!LinkConstantsOk /\ L!RoomForWaiters
    BY PartsAssumption
  <2> QED BY <2>1, L!RepliesStayAligned DEF L!ClientConstantsOk, L!LinkConstantsOk
<1>5. (Here => L!RepliesAligned) => RepliesAligned
  BY DEF RepliesAligned
<1> HIDE DEF Here
<1>6. PartsSpec /\ Here => L!Spec /\ []Here
  BY <1>1, <1>2, <1>3, PTL DEF PartsSpec, L!Spec
<1>7. PartsSpec /\ ~Here => []~Here
  BY <1>3, PTL DEF PartsSpec
<1> QED BY <1>4, <1>5, <1>6, <1>7, PTL
=============================================================================

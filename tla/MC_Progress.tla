---------------------------- MODULE MC_Progress ----------------------------
(***************************************************************************)
(* The instance on which what must eventually happen is checked, for the   *)
(* parts of the system that are small enough to share one: the collection  *)
(* of sessions by the daemon, its locks, the agent notifications and the   *)
(* work tree of a window.  The parts do not interact here: a behaviour is  *)
(* one of a single part, which `part` names; its variables are in the      *)
(* slots s1, s2, ...                                                       *)
(***************************************************************************)
EXTENDS Naturals, Sequences

CONSTANT None    \* the absent value of MuxServer and MuxLocks

VARIABLES
    part,   \* the part this behaviour is one of
    s1, s2, s3, s4, s5, s6, s7, s8, s9, s10, s11, s12, s13, s14, s15, s16,
    s17, s18, s19, s20, s21, s22   \* its variables

allVars == <<part, s1, s2, s3, s4, s5, s6, s7, s8, s9, s10, s11, s12, s13, s14, s15,
             s16, s17, s18, s19, s20, s21, s22>>

TabPanes == [a |-> <<"a1">>, b |-> <<"b1">>]
AgentStates == {[kind |-> k, confidence |-> "high"] : k \in {"working", "waiting"}}

-----------------------------------------------------------------------------
M == INSTANCE MuxServer WITH
    Id <- {"i1"}, Session <- {"s1"}, Client <- {"c1", "c2"}, None <- None,
    DumpThreshold <- 9, ReadMax <- 1, MaxOutput <- 0, Faults <- {"gone"},
    Requests <- {"spawn", "attach", "detach", "kill"}, OrphanTtl <- FALSE,
    IdleExit <- FALSE, idOf <- s1, ring <- s2, subs <- s3, alive <- s4,
    persist <- s5, sinceDump <- s6, orphaned <- s7, child <- s8, reader <- s9,
    dump <- s10, buf <- s11, tmp <- s12, registry <- s13, regLock <- s14,
    conn <- s15, step <- s16, held <- s17, reaper <- s18, toKill <- s19,
    reaping <- s20, idle <- s21, up <- s22

InCollect(A) ==
    /\ part = "collect" /\ A
    /\ UNCHANGED <<part>>

-----------------------------------------------------------------------------
L == INSTANCE MuxLocks WITH
    Client <- {"c1", "c2"}, Session <- {"s1"}, None <- None, PtyCap <- 1,
    InputSize <- 2, Behaviour <- {}, regLock <- s1, sessLock <- s2,
    registry <- s3, pc <- s4, op <- s5, target <- s6, left <- s7,
    reader <- s8, ticker <- s9, due <- s10, reaper <- s11, unseen <- s12,
    dropped <- s13, child <- s14, input <- s15, output <- s16, owed <- s17

InLocks(A) ==
    /\ part = "locks" /\ A
    /\ UNCHANGED <<part, s18, s19, s20, s21, s22>>

-----------------------------------------------------------------------------
S == INSTANCE AgentSignals WITH
    PanesOf <- TabPanes, States <- AgentStates, MaxEvents <- 2, entries <- s1,
    tabs <- s2, activeTab <- s3, activePane <- s4, windowFocused <- s5,
    acknowledged <- s6, mark <- s7, lastKind <- s8, cooling <- s9,
    pending <- s10, flushTimer <- s11, firing <- s12, seenChange <- s13,
    happened <- s14

InSignals(A) ==
    /\ part = "signals" /\ A
    /\ UNCHANGED <<part, s15, s16, s17, s18, s19, s20, s21, s22>>

-----------------------------------------------------------------------------
W == INSTANCE WorkTree WITH
    Roots <- {"p"}, MaxRoots <- 1, MaxChanges <- 1, disk <- s1,
    rootPath <- s2, gen <- s3, rows <- s4, expanded <- s5, listing <- s6,
    unfolding <- s7, refresh <- s8, overlapped <- s9, panelShown <- s10,
    watched <- s11, treeTimer <- s12, gitTimer <- s13, gitInFlight <- s14,
    gitPending <- s15, unfetched <- s16, changes <- s17

InTree(A) ==
    /\ part = "tree" /\ A
    /\ UNCHANGED <<part, s18, s19, s20, s21, s22>>

-----------------------------------------------------------------------------
(* A slot that a part does not use holds 0. *)
Init ==
    \/ /\ part = "collect" /\ M!Init
    \/ /\ part = "locks" /\ L!Init
       /\ s18 = 0 /\ s19 = 0 /\ s20 = 0 /\ s21 = 0 /\ s22 = 0
    \/ /\ part = "signals" /\ S!SignalInit
       /\ s15 = 0 /\ s16 = 0 /\ s17 = 0 /\ s18 = 0 /\ s19 = 0 /\ s20 = 0
       /\ s21 = 0 /\ s22 = 0
    \/ /\ part = "tree" /\ W!TreeInit
       /\ s18 = 0 /\ s19 = 0 /\ s20 = 0 /\ s21 = 0 /\ s22 = 0

Next ==
    \/ InCollect(M!Next)
    \/ InLocks(L!Next)
    \/ InSignals(S!SignalNext)
    \/ InTree(W!TreeNext)

(***************************************************************************)
(* Fairness.  "collect": threads that have work and are not blocked run:   *)
(* the reader of a session whose shell is gone, a handler, the reaper.     *)
(* Handlers and the reaper contend for the registry mutex; strong fairness *)
(* says that the mutex starves nobody.  Nothing is assumed of the clients  *)
(* or of the shells.  A blocked reply send is released by the client that  *)
(* reads or by its writer thread that fails, so a handler always comes     *)
(* back.  The others are those of their modules.                           *)
(***************************************************************************)
CollectFairness ==
    /\ \A s \in {"s1"} :
          /\ WF_allVars(InCollect(M!ReaderEnds(s)))
          /\ WF_allVars(InCollect(M!ReaperKills(s)))
    /\ \A c \in {"c1", "c2"} :
          /\ SF_allVars(InCollect(M!HandlerStep(c)))
          /\ WF_allVars(InCollect(M!ChannelClosed(c)))
    /\ SF_allVars(InCollect(M!Sweep))
    /\ WF_allVars(InCollect(M!ReaperUnlinks))
    /\ WF_allVars(InCollect(M!ReaperSleeps))

LocksFairness ==
    /\ \A c \in {"c1", "c2"} : SF_allVars(InLocks(L!Handler(c)))
    /\ \A s \in {"s1"} :
          /\ SF_allVars(InLocks(L!Reader(s)))
          /\ SF_allVars(InLocks(L!ShellReads(s)))
          /\ WF_allVars(InLocks(L!OwedIsWritten(s)))
          /\ SF_allVars(InLocks(L!ReaperLooks(s)))
    /\ WF_allVars(InLocks(L!TickerUnlocks))
    /\ WF_allVars(InLocks(L!ReaperRemoves))

SignalsFairness ==
    WF_allVars(InSignals(S!Flush)) /\ WF_allVars(InSignals(S!Fire))

TreeFairness ==
    /\ WF_allVars(InTree(W!RunGitStatusRefresh))
    /\ WF_allVars(InTree(W!GitSettles))
    /\ WF_allVars(InTree(W!TreeTimer))
    /\ WF_allVars(InTree(W!RefreshListsTop))
    /\ WF_allVars(InTree(W!RefreshListsFolder))
    /\ WF_allVars(InTree(W!ListingReturns))

Spec ==
    /\ Init /\ [][Next]_allVars
    /\ CollectFairness /\ LocksFairness /\ SignalsFairness /\ TreeFairness

-----------------------------------------------------------------------------
\* A dead session whose subscribers are all gone is eventually collected by the
\* reaper: "a dead session nobody listens to is done" (server.rs).
DeadIsCollected ==
    \A s \in {"s1"} :
        (part = "collect" /\ M!DeadUnwatched(s))
            ~> (part = "collect" /\ s \notin M!Registered)

\* The registry is never held for good: "a stalled client may block its own handler
\* thread, never the whole daemon" (handle_msg).
RegistryComesFree ==
    (part = "locks" /\ L!RegistryHeld) ~> (part = "locks" /\ ~L!RegistryHeld)

\* Every row that was routed is fired in the end, one that is routed while an
\* earlier batch waits for its texts or the system starts a timer of its own.
RoutedIsFired ==
    <>[](part = "signals" => S!NothingRouted)

\* A trigger for the git marks is followed by a fetch that starts after it, however
\* many come while one is in flight and whether the panel is hidden and shown in
\* between, unless the panel stays hidden.
TriggersAreFetched ==
    (part = "tree" /\ W!MarksAreOld) ~> (part = "tree" /\ ~W!MarksAreOld)
=============================================================================

------------------------------- MODULE PaneLink -------------------------------
(***************************************************************************)
(* The panes on the app's connection to the daemon: how a pane opens,      *)
(* falls back to a PTY of the app's own (src-tauri/src/pty.rs), reconnects,*)
(* exits and is disposed of (src/terminal.ts, src/panegrid.ts), and how    *)
(* the app reacts to the loss of the connection (src/app.ts).              *)
(*                                                                         *)
(* The frontend is one event loop: a step here runs up to the next await.  *)
(* The commands it invokes are the calls of MuxClient.                     *)
(***************************************************************************)
EXTENDS MuxClient

CONSTANTS
  Pinned,         \* panes that are terminals of the pin dock: they own their
                  \*   process, and are not in a PaneGrid
  LossesFarApart  \* the daemon is never lost while a loss is being handled, or
                  \*   within MUX_RECONNECT_DEBOUNCE_MS of the one before

ASSUME LinkConstantsOk == Pinned \subseteq Pane /\ LossesFarApart \in BOOLEAN

VARIABLES
  term,       \* the pane: "new", "opening", "open" or "disposed"
  useDaemon,  \* TerminalSession.useDaemon
  local,      \* an in-process PTY runs under the pane's id
  exits,      \* panes with a pty-exit event on its way
  losses,     \* mux://connection-lost events on their way
  window      \* the last reconnectAll is less than the debounce time ago

paneVars == <<term, useDaemon, local, exits, losses, window>>
vars == <<clientVars, paneVars>>

OnScreen(p) == term[p] \in {"opening", "open"}
Opening(p) == <<p, "open">>

Init ==
  /\ ClientInit
  /\ term = [p \in Pane |-> "new"]
  /\ useDaemon = [p \in Pane |-> TRUE]
  /\ local = [p \in Pane |-> FALSE]
  /\ exits = {}
  /\ losses = 0
  /\ window = FALSE

(***************************************************************************)
(* Panes                                                                   *)
(***************************************************************************)
\* open, up to the await of mux_spawn.
Open(p) ==
  /\ term[p] = "new"
  /\ term' = [term EXCEPT ![p] = "opening"]
  /\ Invoke(Opening(p))
  /\ UNCHANGED <<cur, link, routes, waiters, via, got, toDaemon, toApp, daemonVars,
                 useDaemon, local, exits, losses, window>>

\* mux_spawn and the nudge succeeded.  A pane that is disposed of in the meantime is
\* not told.
Opened(p) ==
  /\ Nudge(Opening(p))
  /\ term' = [term EXCEPT ![p] = IF @ = "opening" THEN "open" ELSE @]
  /\ UNCHANGED <<useDaemon, local, exits, losses, window>>

\* One of them failed: the pane degrades to an in-process PTY (which starts),
\* disposed of or not.
FallsBack(p) ==
  /\ SendFails(Opening(p)) \/ GiveUp(Opening(p)) \/ NudgeFails(Opening(p))
  /\ useDaemon' = [useDaemon EXCEPT ![p] = FALSE]
  /\ local' = [local EXCEPT ![p] = TRUE]
  /\ term' = [term EXCEPT ![p] = IF @ = "opening" THEN "open" ELSE @]
  /\ UNCHANGED <<exits, losses, window>>

\* reconnect of the panes in P, each in a free slot.  The terminals are reset.
Reconnects(P) ==
  \E slot \in [Pane -> Again] :
    LET calls == {<<p, slot[p]>> : p \in {q \in P : OnScreen(q) /\ useDaemon[q]}}
    IN  /\ \A k \in calls : pc[k] = "idle"
        /\ pc' = [k \in Call |-> IF k \in calls THEN "called" ELSE pc[k]]

Reconnect(p) == OnScreen(p) /\ useDaemon[p] /\ p \notin Pinned /\ Reconnects({p})

\* session_cwd, session_snapshot, session_pid: the in-process PTY answers first.
Probe(p) == OnScreen(p) /\ ~local[p] /\ \E a \in Ask : Invoke(<<p, a>>)

\* The commands a pane invokes on its session beside its open.
Commands(p) ==
  /\ Reconnect(p) \/ Probe(p)
  /\ UNCHANGED <<cur, link, routes, waiters, via, got, toDaemon, toApp, daemonVars,
                 paneVars>>

\* A reconnect that fails leaves the pane as it is, a probe that fails is None.
CallEnds(k) ==
  /\ k[2] # "open"
  /\ SendFails(k) \/ GiveUp(k) \/ Nudge(k) \/ NudgeFails(k)
  /\ UNCHANGED paneVars

\* The open of the pane has failed in the meantime: nothing to nudge.
Skips(k) ==
  /\ pc[k] = "nudge" /\ ~useDaemon[PaneOf(k)]
  /\ Ends(k)
  /\ UNCHANGED <<cur, link, routes, waiters, toDaemon, toApp, daemonVars, paneVars>>

\* The reply is there; the nudge finds no connection and makes one.
Returns(k) ==
  /\ Return(k) \/ (pc[k] = "nudge" /\ useDaemon[PaneOf(k)] /\ Write)
  /\ UNCHANGED paneVars

\* pty_kill.  The reader of the PTY still reports the exit.
KillLocal(p) ==
  /\ local[p]
  /\ local' = [local EXCEPT ![p] = FALSE]
  /\ exits' = exits \cup {p}
  /\ UNCHANGED clientVars

\* dispose, by closePane or unpinCell: the listener goes first, then the session
\* is detached, or killed if it was pinned.
Dispose(p) ==
  /\ OnScreen(p)
  /\ term' = [term EXCEPT ![p] = "disposed"]
  /\ IF useDaemon[p]
       THEN Tell(p, IF p \in Pinned THEN "kill" ELSE "detach") /\ UNCHANGED local
       ELSE local' = [local EXCEPT ![p] = FALSE] /\ UNCHANGED clientVars
  /\ UNCHANGED <<useDaemon, losses, window>>

Close(p) == Dispose(p) /\ UNCHANGED exits

\* killSession: the pane stays until the Exit of its session closes it.  Bound:
\* one such request at a time.
KillSession(p) ==
  /\ OnScreen(p) /\ p \notin Pinned
  /\ \A n \in Conn : ~Contains(toDaemon[n], Msg("kill", p))
  /\ IF useDaemon[p]
       THEN Tell(p, "kill") /\ UNCHANGED <<local, exits>>
       ELSE KillLocal(p)
  /\ UNCHANGED <<term, useDaemon, losses, window>>

\* The pty-exit event of a pane on screen closes it.
Exited(p) ==
  /\ p \in exits
  /\ exits' = exits \ {p}
  /\ \/ Dispose(p)
     \/ ~OnScreen(p) /\ UNCHANGED <<clientVars, term, useDaemon, local, losses, window>>

\* The shell of the in-process PTY ends.
LocalEnds(p) == KillLocal(p) /\ UNCHANGED <<term, useDaemon, losses, window>>

(***************************************************************************)
(* The connection                                                          *)
(***************************************************************************)
KeyStroke(p) == OnScreen(p) /\ useDaemon[p] /\ Write /\ UNCHANGED paneVars

Arrives(n) ==
  /\ Reads(n)
  /\ exits' = exits \cup ExitRead(n)
  /\ UNCHANGED <<term, useDaemon, local, losses, window>>

\* Mutant of Lost: the frontend is not told.
LostUntold(n) == ReaderEnds(n) /\ UNCHANGED paneVars

\* invalidate cleared the cached connection, and the frontend is told.
Lost(n) ==
  /\ ReaderEnds(n)
  /\ losses' = IF cur = n THEN losses + 1 ELSE losses
  /\ UNCHANGED <<term, useDaemon, local, exits, window>>

\* bindMuxEvents: reconnectAll of every PaneGrid, unless the last one is too recent.
ConnectionLost ==
  /\ losses > 0
  /\ losses' = losses - 1
  /\ IF window
       THEN UNCHANGED <<clientVars, window>>
       ELSE /\ window' = TRUE
            /\ Reconnects(Pane \ Pinned)
            /\ UNCHANGED <<cur, link, routes, waiters, via, got, toDaemon, toApp,
                           daemonVars>>
  /\ UNCHANGED <<term, useDaemon, local, exits>>

WindowPasses ==
  /\ window
  /\ window' = FALSE
  /\ UNCHANGED <<clientVars, term, useDaemon, local, exits, losses>>

DaemonLost ==
  /\ LossesFarApart => ~window /\ losses = 0
  /\ DaemonDies
  /\ UNCHANGED paneVars

(***************************************************************************)
(* Specification                                                           *)
(***************************************************************************)
CallRuns(k) ==
  \/ (Enter(k) \/ Send(k)) /\ UNCHANGED paneVars
  \/ Returns(k)
  \/ CallEnds(k) \/ Skips(k)

Daemon(n) == Serve(n) /\ UNCHANGED paneVars

Shells(p) == (DyingEnds(p) \/ ShellEnds(p) \/ Reap(p)) /\ UNCHANGED paneVars

Next ==
  \/ \E p \in Pane : \/ Open(p) \/ Opened(p) \/ FallsBack(p)
                     \/ Commands(p)
                     \/ Close(p) \/ KillSession(p) \/ Exited(p) \/ LocalEnds(p)
                     \/ KeyStroke(p)
                     \/ Shells(p)
  \/ \E k \in Call : CallRuns(k)
  \/ \E n \in Conn : Daemon(n) \/ Arrives(n) \/ Lost(n)
  \/ ConnectionLost
  \/ WindowPasses
  \/ DaemonLost

Spec == Init /\ [][Next]_vars

(***************************************************************************)
(* Fairness: the event loop handles its events, the threads of the app and *)
(* of the daemon run, and a call returns or times out.  Nothing is assumed *)
(* of the user, of the shells or of the daemon's life.                     *)
(***************************************************************************)
Fairness ==
  /\ \A k \in Call : WF_vars(CallRuns(k))
  /\ \A p \in Pane : /\ WF_vars(Opened(p) \/ FallsBack(p)) /\ WF_vars(Exited(p))
                       /\ WF_vars(DyingEnds(p) /\ UNCHANGED paneVars)
  /\ \A n \in Conn : WF_vars(Daemon(n)) /\ WF_vars(Arrives(n)) /\ WF_vars(Lost(n))
  /\ WF_vars(ConnectionLost)

FairSpec == Spec /\ Fairness

(***************************************************************************)
(* Properties                                                              *)
(***************************************************************************)
\* The pane is fed by the session of its id over this connection.
Fed(p, n) == link[n] = "up" /\ p \in routes[n] /\ n \in subs[p]

Attached(p) == cur # 0 /\ Fed(p, cur)

\* Nothing that concerns the pane is under way.
AtRest(p) ==
  /\ \A k \in Call : PaneOf(k) = p => pc[k] = "idle"
  /\ \A n \in Conn : \A m \in ToSet(toDaemon[n]) \cup ToSet(toApp[n]) : m.pane # p
  /\ \A n \in Conn : link[n] # "down"
  /\ losses = 0 /\ p \notin exits /\ dying[p] = {}

RestsAttached(p) == term[p] = "open" /\ useDaemon[p] /\ AtRest(p) => Attached(p)

\* A daemon pane at rest is attached: no order of opens, reconnects, keystrokes,
\* probes, exits and losses of the daemon leaves a pane silently unresponsive
\* (bindMuxEvents' comment; mux_spawn's "black, unrouted pane").
RestingPaneIsAttached == \A p \in Pane : RestsAttached(p)

\* A daemon pane gets back to its session (CHANGELOG: the app re-attaches every pane
\* automatically).
PanesReattach ==
  \A p \in Pane :
    (term[p] = "open" /\ useDaemon[p])
      ~> (Attached(p) \/ term[p] = "disposed" \/ ~useDaemon[p])

=============================================================================

------------------------------ MODULE MuxClient ------------------------------
(***************************************************************************)
(* The app's end of the daemon protocol (src-tauri/src/mux_client.rs): the *)
(* cached connection, the commands that wait for a reply, the reader       *)
(* thread that hands replies to the waiters of their id in order, and what *)
(* the daemon does with the requests (mux/src/server.rs, in detail in      *)
(* MuxServer).                                                             *)
(*                                                                         *)
(* A command that waits is a call.  Each pane has the slots its concurrent *)
(* calls may use: a command is not refused because another one for the     *)
(* same id is under way.  A call runs on the blocking pool: it takes the   *)
(* cached connection or makes one, queues its waiter and its route, sends, *)
(* and waits for the reply or the timeout.                                 *)
(*                                                                         *)
(* The daemon that is lost takes its sessions with it (crash, idle exit,   *)
(* replacement by another build); the next connection finds a new one.     *)
(* Output is not modelled as messages: a pane is fed by a session when the *)
(* session has a Sub for a connection on which the pane has a route.       *)
(***************************************************************************)
EXTENDS Naturals, SequencesExt, FiniteSets

CONSTANTS
  Pane,        \* panes; the id of a session is the id of its pane
  Again,       \* slots for the reconnects of a pane
  Ask,         \* slots for the probes of a pane
  MaxConn,     \* bound: connections of the app's life
  MaxWaiters,  \* MAX_PROBE_WAITERS
  MaxQueued,   \* bound: waiters queued for an id where callers give up
  Nobody,      \* a waiter whose caller has given up
  Slow         \* kinds of call that may outlast their timeout on a live link

Conn == 1..MaxConn
Call == Pane \X ({"open"} \cup Again \cup Ask)
Kind == {"spawn", "probe"}

ASSUME ClientConstantsOk ==
  /\ MaxConn \in Nat \ {0}
  /\ MaxWaiters \in Nat \ {0}
  /\ MaxQueued \in Nat
  /\ Nobody \notin Call
  /\ Slow \subseteq Kind
  /\ "open" \notin Again \cup Ask /\ Again \cap Ask = {}

PaneOf(k) == k[1]
KindOf(k) == IF k[2] \in Ask THEN "probe" ELSE "spawn"
QueueOf(k) == <<PaneOf(k), KindOf(k)>>

VARIABLES
  cur,       \* MuxClient.conn: the cached connection, 0 for none
  link,      \* link[n]: "unused", "up", "down" (the daemon is gone and the reader
             \*   has not noticed yet) or "lost" (its reader has ended)
  routes,    \* routes[n]: Conn.routes, the panes with a channel
  waiters,   \* waiters[n][<<p, kind>>]: Conn.spawn_waiters and probe_waiters
  pc,        \* pc[k]: "idle", "called" (invoked by the frontend), "send", "wait",
             \*   "nudge" (the reply has come)
  via,       \* via[k]: the connection the call uses
  got,       \* got[k]: its waiter has received the reply
  toDaemon,  \* requests on their way
  toApp,     \* replies and Exits on their way
  shell,     \* shell[p]: the registered session: "none", "running", "ended"
  subs,      \* subs[p]: the connections with a Sub in it
  dying      \* dying[p]: the Subs of a killed session whose reader still runs

callVars   == <<pc, via, got>>
daemonVars == <<shell, subs, dying>>
clientVars == <<cur, link, routes, waiters, callVars, toDaemon, toApp, daemonVars>>

Msg(kind, p) == [kind |-> kind, pane |-> p]

ClientInit ==
  /\ cur = 0
  /\ link = [n \in Conn |-> "unused"]
  /\ routes = [n \in Conn |-> {}]
  /\ waiters = [n \in Conn |-> [q \in Pane \X Kind |-> <<>>]]
  /\ pc = [k \in Call |-> "idle"]
  /\ via = [k \in Call |-> 0]
  /\ got = [k \in Call |-> FALSE]
  /\ toDaemon = [n \in Conn |-> <<>>]
  /\ toApp = [n \in Conn |-> <<>>]
  /\ shell = [p \in Pane |-> "none"]
  /\ subs = [p \in Pane |-> {}]
  /\ dying = [p \in Pane |-> {}]

(***************************************************************************)
(* Calls                                                                   *)
(***************************************************************************)
\* The cached connection, or a new one to a daemon that is started if need be.
\* connect_or_spawn runs with the cache locked, so nobody else makes a second one.
Ensure(n) ==
  IF cur # 0
    THEN n = cur /\ UNCHANGED <<cur, link>>
    ELSE /\ link[n] = "unused"
         /\ \A m \in Conn : m < n => link[m] # "unused"
         /\ cur' = n
         /\ link' = [link EXCEPT ![n] = "up"]

\* A waiter joins the queue of its id; the oldest make room.
Join(queue, k) ==
  LET kept == IF Len(queue) < MaxWaiters THEN Len(queue) ELSE MaxWaiters - 1
  IN  Append(SubSeq(queue, Len(queue) - kept + 1, Len(queue)), k)

\* The receiver of the call is dropped: its waiter, if it is still queued, is nobody's.
Dropped(queue, k) == [i \in DOMAIN queue |-> IF queue[i] = k THEN Nobody ELSE queue[i]]

\* The call is over.
Ends(k) ==
  /\ pc' = [pc EXCEPT ![k] = "idle"]
  /\ via' = [via EXCEPT ![k] = 0]
  /\ got' = [got EXCEPT ![k] = FALSE]

\* The frontend invokes the command.
Invoke(k) == pc[k] = "idle" /\ pc' = [pc EXCEPT ![k] = "called"]

\* Up to the send: the connection, the waiter, and for a spawn the route, "which
\* must exist before the daemon can emit the first output frame".
Enter(k) ==
  /\ pc[k] = "called"
  /\ \E n \in Conn :
       /\ Ensure(n)
       /\ KindOf(k) \in Slow => Len(waiters[n][QueueOf(k)]) < MaxQueued
       /\ via' = [via EXCEPT ![k] = n]
       /\ waiters' = [waiters EXCEPT ![n][QueueOf(k)] = Join(@, k)]
       /\ routes' = IF KindOf(k) = "spawn"
                      THEN [routes EXCEPT ![n] = @ \cup {PaneOf(k)}] ELSE routes
  /\ pc' = [pc EXCEPT ![k] = "send"]
  /\ UNCHANGED <<got, toDaemon, toApp, daemonVars>>

Send(k) ==
  /\ pc[k] = "send"
  /\ link[via[k]] = "up"
  /\ toDaemon' = [toDaemon EXCEPT ![via[k]] = Append(@, Msg(KindOf(k), PaneOf(k)))]
  /\ pc' = [pc EXCEPT ![k] = "wait"]
  /\ UNCHANGED <<cur, link, routes, waiters, via, got, toApp, daemonVars>>

\* The write fails: the route goes, and so does the waiter that came last, which may
\* be another call's.
SendFails(k) ==
  /\ pc[k] = "send"
  /\ link[via[k]] # "up"
  /\ LET n == via[k]
         q == QueueOf(k)
     IN  /\ waiters' = [waiters EXCEPT ![n][q] =
                          IF @ = <<>> THEN @ ELSE Dropped(Front(@), k)]
         /\ routes' = IF KindOf(k) = "spawn"
                        THEN [routes EXCEPT ![n] = @ \ {PaneOf(k)}] ELSE routes
  /\ Ends(k)
  /\ UNCHANGED <<cur, link, toDaemon, toApp, daemonVars>>

\* The reply has come.  After mux_spawn the frontend still has to make the shell
\* repaint.
Return(k) ==
  /\ pc[k] = "wait" /\ got[k]
  /\ pc' = [pc EXCEPT ![k] = IF KindOf(k) = "spawn" THEN "nudge" ELSE "idle"]
  /\ via' = [via EXCEPT ![k] = 0]
  /\ got' = [got EXCEPT ![k] = FALSE]
  /\ UNCHANGED <<cur, link, routes, waiters, toDaemon, toApp, daemonVars>>

\* nudgeRedraw: two mux_resize, which change nothing that is modelled but fail on a
\* link that is gone.  (The one that makes a connection is a Write.)
Nudge(k) ==
  /\ pc[k] = "nudge"
  /\ cur # 0 /\ link[cur] = "up"
  /\ Ends(k)
  /\ UNCHANGED <<cur, link, routes, waiters, toDaemon, toApp, daemonVars>>

NudgeFails(k) ==
  /\ pc[k] = "nudge"
  /\ cur # 0 /\ link[cur] # "up"
  /\ Ends(k)
  /\ UNCHANGED <<cur, link, routes, waiters, toDaemon, toApp, daemonVars>>

\* The timeout has passed: on a link that is gone, on one that is slow, or because
\* the waiter had to make room for another.
TimesOut(k) ==
  /\ pc[k] = "wait" /\ ~got[k]
  /\ \/ link[via[k]] # "up"
     \/ KindOf(k) \in Slow
     \/ ~Contains(waiters[via[k]][QueueOf(k)], k)

\* Mutant of GivenUp: the waiter is taken out of its queue.
GivenUpRetracts(k) ==
  [waiters EXCEPT ![via[k]][QueueOf(k)] = SelectSeq(@, LAMBDA w : w # k)]

\* "On timeout the waiter stays queued on purpose": its receiver is gone.
GivenUp(k) ==
  [waiters EXCEPT ![via[k]][QueueOf(k)] = Dropped(@, k)]

GiveUp(k) ==
  /\ TimesOut(k)
  /\ waiters' = GivenUp(k)
  /\ routes' = IF KindOf(k) = "spawn"
                 THEN [routes EXCEPT ![via[k]] = @ \ {PaneOf(k)}] ELSE routes
  /\ Ends(k)
  /\ UNCHANGED <<cur, link, toDaemon, toApp, daemonVars>>

\* mux_kill and mux_detach: nobody waits for anything, and an error is only logged.
Tell(p, kind) ==
  /\ \E n \in Conn :
       /\ Ensure(n)
       /\ toDaemon' = IF link'[n] = "up"
                        THEN [toDaemon EXCEPT ![n] = Append(@, Msg(kind, p))]
                        ELSE toDaemon
       /\ routes' = IF kind = "detach" THEN [routes EXCEPT ![n] = @ \ {p}] ELSE routes
  /\ UNCHANGED <<waiters, callVars, toApp, daemonVars>>

\* mux_write and mux_resize.  On a live connection they change nothing that is
\* modelled; without one they make one, and attach nothing.
Write ==
  /\ cur = 0
  /\ \E n \in Conn : Ensure(n)
  /\ UNCHANGED <<routes, waiters, callVars, toDaemon, toApp, daemonVars>>

(***************************************************************************)
(* The daemon                                                              *)
(***************************************************************************)
\* Spawn attaches to the session of the id, which it creates if there is none.
ServeSpawn(n, p) ==
  /\ shell' = [shell EXCEPT ![p] = IF @ = "none" THEN "running" ELSE @]
  /\ subs' = [subs EXCEPT ![p] = IF shell[p] = "ended" THEN @ ELSE @ \cup {n}]
  /\ toApp' = [toApp EXCEPT ![n] =
                 @ \o (IF shell[p] = "ended" THEN <<Msg("exit", p)>> ELSE <<>>)
                   \o <<Msg("spawn", p)>>]
  /\ UNCHANGED dying

ServeProbe(n, p) ==
  toApp' = [toApp EXCEPT ![n] = Append(@, Msg("probe", p))] /\ UNCHANGED daemonVars

ServeDetach(n, p) ==
  subs' = [subs EXCEPT ![p] = @ \ {n}] /\ UNCHANGED <<shell, dying, toApp>>

\* Kill frees the id at once; the Subs of the old session get their Exit later.
ServeKill(p) ==
  /\ shell' = [shell EXCEPT ![p] = "none"]
  /\ dying' = [dying EXCEPT ![p] = @ \cup IF shell[p] = "running" THEN subs[p] ELSE {}]
  /\ subs' = [subs EXCEPT ![p] = {}]
  /\ UNCHANGED toApp

\* The handler of the connection takes the next request.
Serve(n) ==
  /\ link[n] = "up" /\ toDaemon[n] # <<>>
  /\ LET m == Head(toDaemon[n])
     IN  \/ m.kind = "spawn" /\ ServeSpawn(n, m.pane)
         \/ m.kind = "probe" /\ ServeProbe(n, m.pane)
         \/ m.kind = "detach" /\ ServeDetach(n, m.pane)
         \/ m.kind = "kill" /\ ServeKill(m.pane)
  /\ toDaemon' = [toDaemon EXCEPT ![n] = Tail(@)]
  /\ UNCHANGED <<cur, link, routes, waiters, callVars>>

TellExit(conns, p) ==
  toApp' = [n \in Conn |-> IF n \in conns /\ link[n] = "up"
                             THEN Append(toApp[n], Msg("exit", p)) ELSE toApp[n]]

\* The reader thread of a killed session reaches the end of its output.
DyingEnds(p) ==
  /\ dying[p] # {}
  /\ TellExit(dying[p], p)
  /\ dying' = [dying EXCEPT ![p] = {}]
  /\ UNCHANGED <<cur, link, routes, waiters, callVars, toDaemon, shell, subs>>

\* The shell ends; the session stays registered until its Subs are gone.
ShellEnds(p) ==
  /\ shell[p] = "running"
  /\ shell' = [shell EXCEPT ![p] = "ended"]
  /\ TellExit(subs[p], p)
  /\ UNCHANGED <<cur, link, routes, waiters, callVars, toDaemon, subs, dying>>

\* The reaper collects it.
Reap(p) ==
  /\ shell[p] = "ended" /\ subs[p] = {}
  /\ shell' = [shell EXCEPT ![p] = "none"]
  /\ UNCHANGED <<cur, link, routes, waiters, callVars, toDaemon, toApp, subs, dying>>

\* The daemon goes away.  Bound: a connection is left for the app to recover with.
DaemonDies ==
  /\ \E n \in Conn : link[n] = "up"
  /\ \E n \in Conn : link[n] = "unused"
  /\ link' = [n \in Conn |-> IF link[n] = "up" THEN "down" ELSE link[n]]
  /\ toDaemon' = [n \in Conn |-> <<>>]
  /\ shell' = [p \in Pane |-> "none"]
  /\ subs' = [p \in Pane |-> {}]
  /\ dying' = [p \in Pane |-> {}]
  /\ UNCHANGED <<cur, routes, waiters, callVars, toApp>>

(***************************************************************************)
(* The reader thread of a connection                                       *)
(***************************************************************************)
Waiter(queue) == IF queue = <<>> THEN Nobody ELSE Head(queue)

\* A reply goes to the first waiter of its id.
Reads(n) ==
  /\ link[n] \in {"up", "down"} /\ toApp[n] # <<>>
  /\ LET m == Head(toApp[n])
     IN  IF m.kind = "exit"
           THEN /\ routes' = [routes EXCEPT ![n] = @ \ {m.pane}]
                /\ UNCHANGED <<waiters, got>>
           ELSE LET queue == waiters[n][<<m.pane, m.kind>>]
                IN  /\ waiters' = [waiters EXCEPT ![n][<<m.pane, m.kind>>] =
                                     IF queue = <<>> THEN queue ELSE Tail(queue)]
                    /\ got' = [k \in Call |-> got[k] \/ k = Waiter(queue)]
                    /\ UNCHANGED routes
  /\ toApp' = [toApp EXCEPT ![n] = Tail(@)]
  /\ UNCHANGED <<cur, link, pc, via, toDaemon, daemonVars>>

ExitRead(n) == IF Head(toApp[n]).kind = "exit" THEN {Head(toApp[n]).pane} ELSE {}

\* Mutant of ReaderEnds: the dead connection stays cached.
ReaderEndsCached(n) ==
  /\ link[n] = "down" /\ toApp[n] = <<>>
  /\ link' = [link EXCEPT ![n] = "lost"]
  /\ routes' = [routes EXCEPT ![n] = {}]
  /\ waiters' = [waiters EXCEPT ![n] = [q \in Pane \X Kind |-> <<>>]]
  /\ UNCHANGED <<cur, callVars, toDaemon, toApp, daemonVars>>

\* End of file: the connection is no longer the cached one, and what it holds is
\* never looked up again.
ReaderEnds(n) ==
  /\ link[n] = "down" /\ toApp[n] = <<>>
  /\ link' = [link EXCEPT ![n] = "lost"]
  /\ cur' = IF cur = n THEN 0 ELSE cur
  /\ routes' = [routes EXCEPT ![n] = {}]
  /\ waiters' = [waiters EXCEPT ![n] = [q \in Pane \X Kind |-> <<>>]]
  /\ UNCHANGED <<callVars, toDaemon, toApp, daemonVars>>

(***************************************************************************)
(* Properties                                                              *)
(***************************************************************************)
Count(queue, m) == Cardinality({i \in DOMAIN queue : queue[i] = m})

\* The calls whose waiter is queued and whose request has not been sent yet.
Sending(n, p, kind) ==
  {k \in Call : PaneOf(k) = p /\ KindOf(k) = kind /\ via[k] = n /\ pc[k] = "send"}

\* Replies and waiters stay aligned: on a live link the queue of an id holds one
\* entry for every reply that is still to come, so that each reply reaches the call
\* that asked for it or the one it changed places with, and never a later one
\* (probe's comment: "replies are FIFO per id, so removing it would misroute a late
\* reply to the next caller").
RepliesAligned ==
  \A n \in Conn, p \in Pane, kind \in Kind :
    link[n] = "up" =>
      Len(waiters[n][<<p, kind>>]) =
        Count(toDaemon[n], Msg(kind, p)) + Count(toApp[n], Msg(kind, p))
          + Cardinality(Sending(n, p, kind))

=============================================================================

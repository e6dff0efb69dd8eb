----------------------------- MODULE DaemonStart -----------------------------
(***************************************************************************)
(* How the app finds its daemon: connect_or_spawn and the build-id         *)
(* handshake (src-tauri/src/mux_client.rs), the start of a daemon over a   *)
(* socket file that may be stale or in use (mux/src/server.rs run), and    *)
(* the replacement of a daemon of another build.                           *)
(*                                                                         *)
(* The apps are of one build.  A daemon of another build may be running    *)
(* when they start.  The socket file outlives the daemon that bound it.    *)
(* A connection is made when a daemon listens on the file, and stays with  *)
(* that daemon whatever becomes of the file.                               *)
(***************************************************************************)
EXTENDS Naturals, FiniteSets

CONSTANTS
  App,        \* apps that connect, one at a time each (ensure holds the cache)
  Warm,       \* apps that pre-warm a daemon at boot (autostart)
  MaxDaemon,  \* bound: daemon processes that are ever started
  Rounds,     \* the rounds of connect_or_spawn
  OneStart,   \* no daemon is started while another one is starting
  None        \* the absent value

Daemon == 1..MaxDaemon
Starter == App \cup Warm

ASSUME StartConstantsOk ==
  /\ MaxDaemon \in Nat \ {0}
  /\ Rounds \in Nat \ {0}
  /\ OneStart \in BOOLEAN
  /\ None \notin Daemon
  /\ App \cap Warm = {}

VARIABLES
  file,     \* the daemon that bound the socket file, None when there is no file
  daemon,   \* daemon[d]: "unused", where run is, "up" or "dead"
  foreign,  \* the daemons of another build
  asked,    \* the daemons with a Shutdown on its way
  pc,       \* where connect_or_spawn is: "idle", "connect", "missed", "wait",
            \*   "hello", "drain", "done" or "failed"
  peer,     \* the daemon at the other end of the stream
  round,    \* the round of the loop, from 0
  lost      \* (auxiliary) a daemon has died since the attempt began

daemonVars == <<file, daemon, foreign>>
vars == <<daemonVars, asked, pc, peer, round, lost>>

Starting(d) == daemon[d] \in {"look", "probe", "unlink", "bind", "chmod"}
Listening(d) == daemon[d] \in {"chmod", "up"}
Unused == {d \in Daemon : daemon[d] = "unused"}

\* UnixStream::connect succeeds.
Connectable == file # None /\ Listening(file)

(***************************************************************************)
(* connect_or_spawn                                                        *)
(***************************************************************************)
Begin(a) ==
  /\ pc[a] \in {"idle", "failed"}
  /\ pc' = [pc EXCEPT ![a] = "connect"]
  /\ round' = [round EXCEPT ![a] = 0]
  /\ lost' = [lost EXCEPT ![a] = FALSE]
  /\ UNCHANGED <<daemonVars, asked, peer>>

\* A stream to the daemon that listens on the file.  Pre-warming drops it.
Reaches(a) ==
  /\ Connectable
  /\ peer' = [peer EXCEPT ![a] = file]
  /\ pc' = [pc EXCEPT ![a] = IF a \in Warm THEN "done" ELSE "hello"]
  /\ UNCHANGED <<daemonVars, asked, round, lost>>

Misses(a) ==
  /\ ~Connectable
  /\ pc' = [pc EXCEPT ![a] = "missed"]
  /\ UNCHANGED <<daemonVars, asked, peer, round, lost>>

Connect(a) == pc[a] = "connect" /\ (Reaches(a) \/ Misses(a))

\* spawn_daemon, whatever has happened since the connect failed.
SpawnDaemon(a) ==
  /\ pc[a] = "missed"
  /\ OneStart => \A d \in Daemon : ~Starting(d)
  /\ \E d \in Unused :
       /\ \A e \in Unused : d <= e
       /\ daemon' = [daemon EXCEPT ![d] = "look"]
  /\ pc' = [pc EXCEPT ![a] = IF a \in Warm THEN "done" ELSE "wait"]
  /\ UNCHANGED <<file, foreign, asked, peer, round, lost>>

\* wait_for_daemon.  A daemon that starts is there before the deadline.
Wait(a) == pc[a] = "wait" /\ Reaches(a)

WaitFails(a) ==
  /\ pc[a] = "wait"
  /\ ~Connectable /\ \A d \in Daemon : ~Starting(d)
  /\ pc' = [pc EXCEPT ![a] = "failed"]
  /\ UNCHANGED <<daemonVars, asked, peer, round, lost>>

\* The Welcome of our build.
Handshake(a) ==
  /\ pc[a] = "hello"
  /\ daemon[peer[a]] = "up" /\ peer[a] \notin foreign
  /\ pc' = [pc EXCEPT ![a] = "done"]
  /\ UNCHANGED <<daemonVars, asked, peer, round, lost>>

\* "A mismatch, a missing reply, or a decode error all read as 'not ours'."
NotOurs(a) ==
  /\ pc[a] = "hello"
  /\ daemon[peer[a]] = "dead" \/ (daemon[peer[a]] = "up" /\ peer[a] \in foreign)

\* Mutant of Replaces: Shutdown goes over a new connection.
ReplacesByPath(a) ==
  /\ NotOurs(a)
  /\ asked' = IF Connectable THEN asked \cup {file} ELSE asked
  /\ pc' = [pc EXCEPT ![a] = "drain"]
  /\ UNCHANGED <<daemonVars, peer, round, lost>>

\* request_shutdown, over the stream of the handshake.
Replaces(a) ==
  /\ NotOurs(a)
  /\ asked' = IF daemon[peer[a]] = "up" THEN asked \cup {peer[a]} ELSE asked
  /\ pc' = [pc EXCEPT ![a] = "drain"]
  /\ UNCHANGED <<daemonVars, peer, round, lost>>

\* The loop goes on, or is over.
OneMoreRound(a) ==
  /\ IF round[a] + 1 < Rounds
       THEN /\ round' = [round EXCEPT ![a] = @ + 1]
            /\ pc' = [pc EXCEPT ![a] = "connect"]
       ELSE /\ pc' = [pc EXCEPT ![a] = "failed"]
            /\ UNCHANGED round
  /\ UNCHANGED <<daemonVars, asked, peer, lost>>

\* Mutant of NextRound: the wait has no deadline.
NextRoundWhenFree(a) ==
  /\ pc[a] = "drain"
  /\ ~Connectable
  /\ OneMoreRound(a)

\* wait_until_socket_free: until a connect fails, or until the deadline, before
\* which a daemon that was asked has exited.
NextRound(a) ==
  /\ pc[a] = "drain"
  /\ ~Connectable \/ daemon[peer[a]] = "dead"
  /\ OneMoreRound(a)

\* The reader of an established connection has ended.
LinkLost(a) ==
  /\ a \in App /\ pc[a] = "done" /\ daemon[peer[a]] = "dead"
  /\ pc' = [pc EXCEPT ![a] = "idle"]
  /\ UNCHANGED <<daemonVars, asked, peer, round, lost>>

(***************************************************************************)
(* run                                                                     *)
(***************************************************************************)
At(d, from, to) == daemon[d] = from /\ daemon' = [daemon EXCEPT ![d] = to]

daemonRest == <<foreign, asked, pc, peer, round, lost>>

\* socket_path.exists()
Look(d) ==
  /\ At(d, "look", IF file = None THEN "bind" ELSE "probe")
  /\ UNCHANGED <<file, daemonRest>>

\* Mutant of Probe: the file is taken for stale.
ProbeUnasked(d) ==
  /\ At(d, "probe", "unlink")
  /\ UNCHANGED <<file, daemonRest>>

\* "a live daemon already owns" the socket, or nobody answers.
Probe(d) ==
  /\ At(d, "probe", IF Connectable THEN "dead" ELSE "unlink")
  /\ UNCHANGED <<file, daemonRest>>

\* remove_file, which fails when there is no file any more.
Unlink(d) ==
  /\ At(d, "unlink", IF file = None THEN "dead" ELSE "bind")
  /\ file' = None
  /\ UNCHANGED daemonRest

\* bind, which fails when there is a file.
Bind(d) ==
  /\ At(d, "bind", IF file = None THEN "chmod" ELSE "dead")
  /\ file' = IF file = None THEN d ELSE file
  /\ UNCHANGED daemonRest

\* set_permissions of the file, then the threads and accept.
Chmod(d) ==
  /\ At(d, "chmod", IF file = None THEN "dead" ELSE "up")
  /\ UNCHANGED <<file, daemonRest>>

Run(d) == Look(d) \/ Probe(d) \/ Unlink(d) \/ Bind(d) \/ Chmod(d)

\* Shutdown is served.
Exits(d) ==
  /\ d \in asked
  /\ At(d, "up", "dead")
  /\ asked' = asked \ {d}
  /\ UNCHANGED <<file, foreign, pc, peer, round, lost>>

\* A crash, or the idle exit.  Bound: every starter may still start a daemon.
Dies(d) ==
  /\ Cardinality(Unused) >= Cardinality(Starter)
  /\ At(d, "up", "dead")
  /\ asked' = asked \ {d}
  /\ lost' = [a \in Starter |-> TRUE]
  /\ UNCHANGED <<file, foreign, pc, peer, round>>

(***************************************************************************)
(* Specification                                                           *)
(***************************************************************************)
\* No file, a file left by a daemon that is gone, or a daemon of another build.
Init ==
  /\ \E first \in {"unused", "dead", "up"} :
       /\ daemon = [d \in Daemon |-> IF d = 1 THEN first ELSE "unused"]
       /\ file = IF first = "unused" THEN None ELSE 1
       /\ foreign = IF first = "up" THEN {1} ELSE {}
  /\ asked = {}
  /\ pc = [a \in Starter |-> IF a \in Warm THEN "connect" ELSE "idle"]
  /\ peer = [a \in Starter |-> None]
  /\ round = [a \in Starter |-> 0]
  /\ lost = [a \in Starter |-> FALSE]

Connects(a) ==
  Connect(a) \/ SpawnDaemon(a) \/ Wait(a) \/ WaitFails(a) \/ Handshake(a)
    \/ Replaces(a) \/ NextRound(a)

Next ==
  \/ \E a \in Starter : Connects(a)
  \/ \E a \in App : Begin(a) \/ LinkLost(a)
  \/ \E d \in Daemon : Run(d) \/ Exits(d) \/ Dies(d)

Spec == Init /\ [][Next]_vars

(***************************************************************************)
(* Fairness: the processes run.  Nothing is assumed of when an app begins  *)
(* to connect or of when a daemon dies.                                    *)
(***************************************************************************)
Fairness ==
  /\ \A a \in Starter : WF_vars(Connects(a))
  /\ \A d \in Daemon : WF_vars(Run(d)) /\ WF_vars(Exits(d))

FairSpec == Spec /\ Fairness

(***************************************************************************)
(* Properties                                                              *)
(***************************************************************************)
\* A daemon that listens can be reached: the start of another one, decided on a
\* connect that failed a while ago, does not take its socket away (run's "a live
\* daemon already owns").
LiveDaemonIsReachable == \A d \in Daemon : Listening(d) => file = d

\* Only a daemon of another build is asked to exit: its own the app never ends, and
\* with it nobody's sessions, in whatever order daemons and connections come and go
\* (connect_or_spawn: "asks that daemon to exit").
OwnDaemonSpared == asked \subseteq foreign

\* connect_or_spawn comes back, and the connection cache with it (ensure holds the
\* mutex of every command meanwhile); and it comes back with a connection as long as
\* no daemon dies on its own: its rounds are enough to replace a daemon of another
\* build, with several apps at it.
EnsureReturns ==
  \A a \in App : pc[a] = "connect" ~> pc[a] = "done" \/ (pc[a] = "failed" /\ lost[a])

=============================================================================

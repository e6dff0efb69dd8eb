-------------------------- MODULE DaemonStart_proofs --------------------------
(***************************************************************************)
(* Proofs about DaemonStart.  The socket of a live daemon is safe as long  *)
(* as starts do not overlap (Reachable), and a daemon of the apps' build   *)
(* is never asked to exit (Spared).  Both hold for any number of apps,     *)
(* daemons and rounds.                                                     *)
(***************************************************************************)
EXTENDS DaemonStart, TLAPS

\* What the step of a daemon's start relies on, when it is the only one starting:
\* nobody listens when the file is about to be removed, and there is none when it
\* is about to be bound.
OnlyStart == \A d, e \in Daemon : Starting(d) /\ Starting(e) => d = e

StaleFile == \A d, e \in Daemon : daemon[d] = "unlink" => ~Listening(e)

FreeToBind == \A d \in Daemon : daemon[d] = "bind" => file = None

DaemonTyped ==
  /\ file \in Daemon \cup {None}
  /\ DOMAIN daemon = Daemon

StartInv ==
  DaemonTyped /\ OnlyStart /\ StaleFile /\ FreeToBind /\ LiveDaemonIsReachable

LEMMA StartInitially == Init => StartInv
<1> SUFFICES ASSUME Init PROVE StartInv
  OBVIOUS
<1>1. PICK first \in {"unused", "dead", "up"} :
        /\ daemon = [d \in Daemon |-> IF d = 1 THEN first ELSE "unused"]
        /\ file = IF first = "unused" THEN None ELSE 1
  BY DEF Init
<1>2. 1 \in Daemon
  BY StartConstantsOk DEF Daemon
<1>3. DaemonTyped
  BY <1>1, <1>2 DEF DaemonTyped
<1>4. \A d \in Daemon : daemon[d] \in {"unused", "dead", "up"}
  BY <1>1
<1>5. OnlyStart /\ StaleFile /\ FreeToBind
  BY <1>4 DEF OnlyStart, StaleFile, FreeToBind, Starting
<1>6. LiveDaemonIsReachable
  BY <1>1 DEF LiveDaemonIsReachable, Listening
<1> QED
  BY <1>3, <1>5, <1>6 DEF StartInv

\* Most steps of the apps leave the daemons and the file alone.
LEMMA StartUnchanged ==
  ASSUME StartInv, UNCHANGED <<file, daemon>>
  PROVE  StartInv'
BY DEF StartInv, DaemonTyped, OnlyStart, StaleFile, FreeToBind, LiveDaemonIsReachable,
       Starting, Listening

\* A daemon that is up may go; the file stays.
LEMMA StartDeath ==
  ASSUME StartInv, NEW d \in Daemon, At(d, "up", "dead"), UNCHANGED file
  PROVE  StartInv'
<1>1. daemon' = [daemon EXCEPT ![d] = "dead"]
  BY DEF At
<1> QED
  BY <1>1 DEF StartInv, DaemonTyped, OnlyStart, StaleFile, FreeToBind,
              LiveDaemonIsReachable, Starting, Listening

\* A daemon is started while no other one is starting.
LEMMA StartBegins ==
  ASSUME StartInv, OneStart, NEW a \in Starter, SpawnDaemon(a)
  PROVE  StartInv'
<1>1. PICK d \in Daemon : daemon[d] = "unused" /\ daemon' = [daemon EXCEPT ![d] = "look"]
  BY DEF SpawnDaemon, Unused
<1>2. \A e \in Daemon : ~Starting(e)
  BY DEF SpawnDaemon
<1>3. UNCHANGED file
  BY DEF SpawnDaemon
<1> QED
  BY <1>1, <1>2, <1>3 DEF StartInv, DaemonTyped, OnlyStart, StaleFile, FreeToBind,
                          LiveDaemonIsReachable, Starting, Listening

\* The steps of run.
LEMMA StartRuns ==
  ASSUME StartInv, NEW d \in Daemon, Run(d)
  PROVE  StartInv'
<1> USE DEF StartInv, DaemonTyped, OnlyStart, StaleFile, FreeToBind,
            LiveDaemonIsReachable, Starting, Listening
<1>1. CASE Look(d)
  BY <1>1 DEF Look, At
<1>2. CASE Probe(d) /\ Connectable
  BY <1>2 DEF Probe, At
<1>3. CASE Probe(d) /\ ~Connectable
  <2>1. daemon[d] = "probe" /\ daemon' = [daemon EXCEPT ![d] = "unlink"] /\ file' = file
    BY <1>3 DEF Probe, At
  <2>2. \A e \in Daemon : ~Listening(e)
    BY <1>3, StartConstantsOk DEF Connectable
  <2>3. DaemonTyped' /\ OnlyStart'
    BY <2>1
  <2>4. StaleFile'
    BY <2>1, <2>2
  <2>5. FreeToBind'
    BY <2>1
  <2>6. LiveDaemonIsReachable'
    BY <2>1
  <2> QED
    BY <2>3, <2>4, <2>5, <2>6
<1>4. CASE Unlink(d)
  BY <1>4 DEF Unlink, At
<1>5. CASE Bind(d)
  BY <1>5, StartConstantsOk DEF Bind, At
<1>6. CASE Chmod(d)
  BY <1>6 DEF Chmod, At
<1> QED
  BY <1>1, <1>2, <1>3, <1>4, <1>5, <1>6 DEF Run

LEMMA StartInductive == ASSUME OneStart PROVE StartInv /\ [Next]_vars => StartInv'
<1> SUFFICES ASSUME StartInv, [Next]_vars PROVE StartInv'
  OBVIOUS
<1>1. CASE \E a \in Starter : Connects(a)
  <2> PICK a \in Starter : Connects(a)
    BY <1>1
  <2>1. CASE SpawnDaemon(a)
    BY <2>1, StartBegins
  <2>2. CASE ~SpawnDaemon(a)
    <3>1. UNCHANGED <<file, daemon>>
      BY <2>2 DEF Connects, Connect, Reaches, Misses, Wait, WaitFails, Handshake,
                  Replaces, NextRound, OneMoreRound, daemonVars
    <3> QED
      BY <3>1, StartUnchanged
  <2> QED
    BY <2>1, <2>2
<1>2. CASE \E a \in App : Begin(a) \/ LinkLost(a)
  <2>1. UNCHANGED <<file, daemon>>
    BY <1>2 DEF Begin, LinkLost, daemonVars
  <2> QED
    BY <2>1, StartUnchanged
<1>3. CASE \E d \in Daemon : Run(d) \/ Exits(d) \/ Dies(d)
  BY <1>3, StartRuns, StartDeath DEF Exits, Dies
<1>4. CASE UNCHANGED vars
  BY <1>4, StartUnchanged DEF vars, daemonVars
<1> QED
  BY <1>1, <1>2, <1>3, <1>4 DEF Next

\* The socket of a daemon that listens is never taken away while starts do not
\* overlap (run's probe before remove_file, and bind's refusal of an existing file).
THEOREM Reachable == ASSUME OneStart PROVE Spec => []LiveDaemonIsReachable
<1>1. Init => StartInv
  BY StartInitially
<1>2. StartInv /\ [Next]_vars => StartInv'
  BY StartInductive
<1>3. StartInv => LiveDaemonIsReachable
  BY DEF StartInv
<1> QED
  BY <1>1, <1>2, <1>3, PTL DEF Spec

(***************************************************************************)
(* Who is asked to exit.                                                   *)
(***************************************************************************)
LEMMA SparedInductive == OwnDaemonSpared /\ [Next]_vars => OwnDaemonSpared'
<1> SUFFICES ASSUME OwnDaemonSpared, [Next]_vars PROVE OwnDaemonSpared'
  OBVIOUS
<1>1. UNCHANGED foreign
  BY DEF Next, vars, daemonVars, daemonRest, Connects, Connect, Reaches, Misses,
         SpawnDaemon, Wait, WaitFails, Handshake, Replaces, NextRound, OneMoreRound,
         Begin, LinkLost, Run, Look, Probe, Unlink, Bind, Chmod, Exits, Dies
<1>2. CASE \E a \in Starter : Replaces(a)
  <2> PICK a \in Starter : Replaces(a)
    BY <1>2
  <2>1. daemon[peer[a]] = "up" => peer[a] \in foreign
    BY DEF Replaces, NotOurs
  <2> QED
    BY <1>1, <2>1 DEF Replaces, OwnDaemonSpared
<1>3. CASE ~\E a \in Starter : Replaces(a)
  <2>1. asked' \subseteq asked
    BY <1>3 DEF Next, vars, daemonVars, daemonRest, Connects, Connect, Reaches, Misses,
           SpawnDaemon, Wait, WaitFails, Handshake, NextRound, OneMoreRound,
           Begin, LinkLost, Run, Look, Probe, Unlink, Bind, Chmod, Exits, Dies
  <2> QED
    BY <1>1, <2>1 DEF OwnDaemonSpared
<1> QED
  BY <1>2, <1>3

\* A daemon of the apps' build is never asked to exit: Shutdown goes over the stream
\* of the handshake that failed, to the daemon that answered it.
THEOREM Spared == Spec => []OwnDaemonSpared
<1>1. Init => OwnDaemonSpared
  BY DEF Init, OwnDaemonSpared
<1>2. OwnDaemonSpared /\ [Next]_vars => OwnDaemonSpared'
  BY SparedInductive
<1> QED
  BY <1>1, <1>2, PTL DEF Spec

=============================================================================

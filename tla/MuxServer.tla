------------------------------ MODULE MuxServer ------------------------------
(***************************************************************************)
(* The shirei-mux daemon (mux/src/server.rs): the registry of sessions,    *)
(* one handler thread per client, the reaper, the ticker, and the daemon   *)
(* process itself, which exits and is started again with the dump files as *)
(* its only memory.  (Writer threads and messages are in MuxStream.)       *)
(*                                                                         *)
(* Locking.  Every request but Spawn does its work in one registry-lock    *)
(* section and is one step up to its reply.  Spawn takes the session lock  *)
(* twice inside the section (attach, then pid), so the registry lock is a  *)
(* variable there: the reader thread may run between the two, other        *)
(* requests and the reaper may not.  Kill and the reaper remove sessions   *)
(* under the lock and kill them after releasing it.                        *)
(***************************************************************************)
EXTENDS MuxSession

CONSTANTS
  Requests,   \* request kinds the clients of this instance send
  OrphanTtl,  \* SHIREI_ORPHAN_TTL is set
  IdleExit    \* the idle-exit limit is set

ASSUME ServerConstantsOk ==
  /\ OrphanTtl \in BOOLEAN
  /\ IdleExit \in BOOLEAN

VARIABLES
  registry,  \* the registry: id -> session object or None
  regLock,   \* the handler that holds the registry lock across steps
  conn,      \* the connection: "closed", "open", "closing" (peer shut down at
             \*   a frame boundary), "broken" (peer gone inside a frame),
             \*   "leaked" (handler returned early, subscriptions left behind)
  step,      \* where the client's handler is
  held,      \* the Arc<Session> the handler holds between steps
  reaper,    \* "sleep" or "kill"
  toKill,    \* removed sessions the reaper still has to kill
  reaping,   \* the one whose kill is half done
  idle,      \* idle_since.is_some()
  up         \* a daemon process is running

handlerVars == <<registry, regLock, conn, step, held>>
reaperVars  == <<reaper, toKill, reaping, idle>>
vars == <<sessionVars, fileVars, handlerVars, reaperVars, up>>

Init ==
  /\ InitSessions
  /\ buf = [i \in Id |-> None]
  /\ tmp = [i \in Id |-> None]
  /\ registry = [i \in Id |-> None]
  /\ regLock = None
  /\ conn = [c \in Client |-> "closed"]
  /\ step = [c \in Client |-> "idle"]
  /\ held = [c \in Client |-> None]
  /\ reaper = "sleep"
  /\ toKill = {}
  /\ reaping = None
  /\ idle = FALSE
  /\ up = TRUE

Registered == {s \in Session : \E i \in Id : registry[i] = s}

(***************************************************************************)
(* Connections                                                             *)
(***************************************************************************)
\* accept: a fresh client number (a Client is reused once no trace is left).
Connect(c) ==
  /\ up
  /\ conn[c] = "closed"
  /\ \A s \in Session : c \notin subs[s]
  /\ conn' = [conn EXCEPT ![c] = "open"]
  /\ UNCHANGED <<sessionVars, fileVars, registry, regLock, step, held,
                 reaperVars, up>>

\* The peer (the app) goes away, at a frame boundary or in the middle of one.
PeerGone(c) ==
  /\ conn[c] = "open"
  /\ \/ "gone" \in Faults /\ conn' = [conn EXCEPT ![c] = "closing"]
     \/ "badframe" \in Faults /\ conn' = [conn EXCEPT ![c] = "broken"]
  /\ UNCHANGED <<sessionVars, fileVars, registry, regLock, step, held,
                 reaperVars, up>>

\* Mutant of HandlerEof: the subscriptions of a client that hangs up stay.
HandlerEofKeepsSubs(c) ==
  /\ conn[c] = "closing" /\ step[c] = "idle"
  /\ conn' = [conn EXCEPT ![c] = "closed"]
  /\ UNCHANGED <<sessionVars, fileVars, registry, regLock, step, held,
                 reaperVars, up>>

\* Clean end of file: detach from every registered session, drop the sender.
HandlerEof(c) ==
  /\ conn[c] = "closing" /\ step[c] = "idle" /\ regLock = None
  /\ Detach(c, Registered)
  /\ conn' = [conn EXCEPT ![c] = "closed"]
  /\ UNCHANGED <<idOf, ring, alive, persist, sinceDump, child, reader, dump,
                 fileVars, registry, regLock, step, held, reaperVars, up>>

\* A read or decode error returns through `?`: nothing is detached.
HandlerError(c) ==
  /\ conn[c] = "broken" /\ step[c] = "idle"
  /\ conn' = [conn EXCEPT ![c] = "leaked"]
  /\ UNCHANGED <<sessionVars, fileVars, registry, regLock, step, held,
                 reaperVars, up>>

\* The channel of such a client closes when the last Sub drops its sender.
ChannelClosed(c) ==
  /\ conn[c] = "leaked"
  /\ \A s \in Session : c \notin subs[s]
  /\ conn' = [conn EXCEPT ![c] = "closed"]
  /\ UNCHANGED <<sessionVars, fileVars, registry, regLock, step, held,
                 reaperVars, up>>

(***************************************************************************)
(* Requests                                                                *)
(***************************************************************************)

\* The handler reads a request of this kind.  (A request still buffered when the
\* peer leaves is one that PeerGone has not overtaken yet.)
Receives(c, kind) ==
  /\ up /\ conn[c] = "open" /\ step[c] = "idle" /\ regLock = None
  /\ kind \in Requests

\* Spawn creates the session unless the id is taken, attaches, and keeps the lock.
HandleSpawn(c, i) ==
  /\ Receives(c, "spawn")
  /\ \/ \E s \in Session :
          /\ registry[i] = s
          /\ Attach(c, s)
          /\ held' = [held EXCEPT ![c] = s]
          /\ UNCHANGED <<idOf, ring, child, reader, registry>>
     \/ \E s \in Session :
          /\ registry[i] = None
          /\ Unused(s)
          /\ idOf' = [idOf EXCEPT ![s] = i]
          /\ ring' = [ring EXCEPT ![s] = Preloaded(i)]
          /\ child' = [child EXCEPT ![s] = "running"]
          /\ reader' = [reader EXCEPT ![s] = "read"]
          /\ registry' = [registry EXCEPT ![i] = s]
          /\ Attach(c, s)
          /\ held' = [held EXCEPT ![c] = s]
     \/ /\ "spawn" \in Faults
        /\ registry[i] = None
        /\ held' = [held EXCEPT ![c] = None]
        /\ UNCHANGED <<idOf, ring, subs, orphaned, child, reader, registry>>
  /\ regLock' = c
  /\ step' = [step EXCEPT ![c] = "pid"]
  /\ UNCHANGED <<alive, persist, sinceDump, dump, fileVars, conn, reaperVars, up>>

\* The pid is read under a second session lock, then the registry is released.
ReadPid(c) ==
  /\ step[c] = "pid"
  /\ regLock' = None
  /\ held' = [held EXCEPT ![c] = None]
  /\ step' = [step EXCEPT ![c] = "send"]
  /\ UNCHANGED <<sessionVars, fileVars, registry, conn, reaperVars, up>>

\* The send of a control reply returns: it may block as long as the queue is full.
SendReply(c) ==
  /\ step[c] = "send"
  /\ step' = [step EXCEPT ![c] = "idle"]
  /\ UNCHANGED <<sessionVars, fileVars, registry, regLock, conn, held, reaperVars,
                 up>>

\* Attach: the same attach, answered by an Exit when there is no such session.
HandleAttach(c, i) ==
  /\ Receives(c, "attach")
  /\ \/ \E s \in Session :
          registry[i] = s /\ Attach(c, s) /\ UNCHANGED step
     \/ /\ registry[i] = None
        /\ step' = [step EXCEPT ![c] = "send"]
        /\ UNCHANGED <<subs, orphaned>>
  /\ UNCHANGED <<idOf, ring, alive, persist, sinceDump, child, reader, dump,
                 fileVars, registry, regLock, conn, held, reaperVars, up>>

\* Input: what reaches the shell is external; on_input may report a change.
HandleInput(c, i) ==
  /\ Receives(c, "input")
  /\ \E s \in Session : registry[i] = s /\ StateChange(s)
  /\ UNCHANGED <<handlerVars, reaperVars, up>>

\* Kill removes the session under the lock ...
HandleKill(c, i) ==
  /\ Receives(c, "kill")
  /\ registry' = [registry EXCEPT ![i] = None]
  /\ held' = [held EXCEPT ![c] = registry[i]]
  /\ step' = [step EXCEPT ![c] = IF registry[i] = None THEN "send" ELSE "kill"]
  /\ UNCHANGED <<sessionVars, fileVars, regLock, conn, reaperVars, up>>

\* ... and kills it after releasing it, in the two steps of kill.
HandlerKills(c) ==
  /\ step[c] = "kill"
  /\ \E s \in Session :
       /\ held[c] = s
       /\ KillBegin(s)
       /\ step' = [step EXCEPT ![c] = IF persist[s] THEN "unlink" ELSE "send"]
       /\ held' = [held EXCEPT ![c] = IF persist[s] THEN s ELSE None]
  /\ UNCHANGED <<registry, regLock, conn, reaperVars, up>>

HandlerUnlinks(c) ==
  /\ step[c] = "unlink"
  /\ \E s \in Session : held[c] = s /\ KillEnd(s)
  /\ held' = [held EXCEPT ![c] = None]
  /\ step' = [step EXCEPT ![c] = "send"]
  /\ UNCHANGED <<registry, regLock, conn, reaperVars, up>>

HandleDetach(c, i) ==
  /\ Receives(c, "detach")
  /\ \E s \in Session : registry[i] = s /\ Detach(c, {s})
  /\ UNCHANGED <<idOf, ring, alive, persist, sinceDump, child, reader, dump,
                 fileVars, handlerVars, reaperVars, up>>

\* Hello, Probe and List only read the state before their reply is sent.
HandleQuery(c) ==
  /\ Receives(c, "query")
  /\ step' = [step EXCEPT ![c] = "send"]
  /\ UNCHANGED <<sessionVars, fileVars, registry, regLock, conn, held, reaperVars,
                 up>>

(***************************************************************************)
(* The reaper                                                              *)
(***************************************************************************)

\* A dead session nobody listens to.
Abandoned(s) == ~alive[s] /\ subs[s] = {}

\* One sweep: which live orphans have outlasted the TTL is a matter of time.  A
\* sweep that has nobody to kill and no exit to decide goes back to sleep at once.
Sweep ==
  /\ up /\ reaper = "sleep" /\ regLock = None
  /\ \E expired \in SUBSET {s \in Registered : OrphanTtl /\ alive[s] /\ orphaned[s]} :
       LET drop == {s \in Registered : Abandoned(s)} \cup expired
       IN  /\ registry' = [i \in Id |-> IF registry[i] \in drop THEN None
                                        ELSE registry[i]]
           /\ toKill' = drop
  /\ idle' = \A i \in Id : registry'[i] = None
  /\ reaper' = IF toKill' = {} /\ ~(IdleExit /\ idle') THEN "sleep" ELSE "kill"
  /\ UNCHANGED <<sessionVars, fileVars, regLock, conn, step, held, reaping, up>>

ReaperKills(s) ==
  /\ reaper = "kill" /\ reaping = None
  /\ s \in toKill
  /\ KillBegin(s)
  /\ toKill' = toKill \ {s}
  /\ reaping' = IF persist[s] THEN s ELSE None
  /\ UNCHANGED <<handlerVars, reaper, idle, up>>

ReaperUnlinks ==
  /\ \E s \in Session : reaping = s /\ KillEnd(s)
  /\ reaping' = None
  /\ UNCHANGED <<handlerVars, reaper, toKill, idle, up>>

SweepDone == reaper = "kill" /\ toKill = {} /\ reaping = None

ReaperSleeps ==
  /\ SweepDone
  /\ reaper' = "sleep"
  /\ UNCHANGED <<sessionVars, fileVars, handlerVars, toKill, reaping, idle, up>>

(***************************************************************************)
(* The process: everything but the dump files is lost, the shells die with *)
(* their terminals, and the app starts a new daemon when it needs one.     *)
(***************************************************************************)
ProcessExit ==
  /\ ForgetSessions
  /\ registry' = [i \in Id |-> None]
  /\ regLock' = None
  /\ conn' = [c \in Client |-> "closed"]
  /\ step' = [c \in Client |-> "idle"]
  /\ held' = [c \in Client |-> None]
  /\ reaper' = "sleep"
  /\ toKill' = {}
  /\ reaping' = None
  /\ idle' = FALSE
  /\ up' = FALSE
  /\ UNCHANGED fileVars

\* The sweep found the registry empty, and has for as long as the limit.
ReaperExits == IdleExit /\ SweepDone /\ idle /\ ProcessExit

HandleShutdown(c) == Receives(c, "shutdown") /\ ProcessExit

Crash == "crash" \in Faults /\ up /\ ProcessExit

\* run: a new process with an empty registry over the same sessions directory.
Start ==
  /\ ~up
  /\ up' = TRUE
  /\ UNCHANGED <<sessionVars, fileVars, handlerVars, reaperVars>>

(***************************************************************************)
(* Specification                                                           *)
(***************************************************************************)
SessionStep(s) == SessionThread(s) /\ UNCHANGED <<handlerVars, reaperVars, up>>

\* What the reader thread of a session does once its shell is gone.
ReaderEnds(s) ==
  /\ ReaderEof(s) \/ DumpWrite(s) \/ DumpRename(s)
  /\ UNCHANGED <<handlerVars, reaperVars, up>>

Request(c) ==
  \/ \E i \in Id : \/ HandleSpawn(c, i)
                   \/ HandleAttach(c, i)
                   \/ HandleInput(c, i)
                   \/ HandleKill(c, i)
                   \/ HandleDetach(c, i)
  \/ HandleQuery(c)
  \/ HandleShutdown(c)

HandlerStep(c) ==
  \/ ReadPid(c)
  \/ SendReply(c)
  \/ HandlerKills(c)
  \/ HandlerUnlinks(c)
  \/ HandlerEof(c)
  \/ HandlerError(c)

ReaperStep ==
  \/ Sweep
  \/ \E s \in Session : ReaperKills(s)
  \/ ReaperUnlinks
  \/ ReaperSleeps
  \/ ReaperExits

Next ==
  \/ \E s \in Session : SessionStep(s)
  \/ \E c \in Client : \/ Connect(c)
                       \/ PeerGone(c)
                       \/ Request(c)
                       \/ HandlerStep(c)
                       \/ ChannelClosed(c)
  \/ ReaperStep
  \/ Crash
  \/ Start

Spec == Init /\ [][Next]_vars

(***************************************************************************)
(* Properties                                                              *)
(***************************************************************************)

\* Every variable has its type.
TypeOK ==
  /\ idOf \in [Session -> Id \cup {None}]
  /\ ring \in [Session -> Nat]
  /\ subs \in [Session -> SUBSET Client]
  /\ alive \in [Session -> BOOLEAN]
  /\ persist \in [Session -> BOOLEAN]
  /\ sinceDump \in [Session -> Nat]
  /\ orphaned \in [Session -> BOOLEAN]
  /\ child \in [Session -> {"none", "running", "exited"}]
  /\ reader \in [Session -> {"none", "read", "write", "rename",
                             "lastWrite", "lastRename", "done"}]
  /\ dump \in [Session -> Nat]
  /\ buf \in [Id -> Nat \cup {None}]
  /\ tmp \in [Id -> Nat \cup {None}]
  /\ registry \in [Id -> Session \cup {None}]
  /\ regLock \in Client \cup {None}
  /\ conn \in [Client -> {"closed", "open", "closing", "broken", "leaked"}]
  /\ step \in [Client -> {"idle", "pid", "send", "kill", "unlink"}]
  /\ held \in [Client -> Session \cup {None}]
  /\ reaper \in {"sleep", "kill"}
  /\ toKill \in SUBSET Session
  /\ reaping \in Session \cup {None}
  /\ idle \in BOOLEAN
  /\ up \in BOOLEAN

\* Who is about to kill a session, having removed it from the registry: the
\* handlers of two clients and the reaper race for the same ids.
KillersOf(s) ==
  {c \in Client : held[c] = s /\ step[c] \in {"kill", "unlink"}}
  \cup (IF s \in toKill \/ reaping = s THEN {None} ELSE {})

\* A running shell can always be reached or is about to be killed: no order of
\* Spawn, Kill, sweep and shell exit leaves a shell nobody owns (server.rs: the
\* registry is the only way to a session, kill is called after removal).
NoLeakedShell ==
  \A s \in Session : child[s] = "running" =>
     s \in Registered \/ KillersOf(s) # {}

\* A session is killed at most once, by one thread, and never while it can still
\* be looked up: HashMap::remove hands it to a single killer.
OneKiller ==
  \A s \in Session :
    /\ \A k, l \in KillersOf(s) : k = l
    /\ KillersOf(s) # {} => s \notin Registered

\* The reaper only takes sessions without subscribers: detached_at is read without
\* a look at subs, so it must be None whenever there is a subscriber, for every
\* order of attach, drop, detach and sweep (session.rs reap_state, server.rs reaper).
ReaperTakesUnwatched ==
  \A s \in Session :
    (orphaned[s] \/ s \in toKill \/ reaping = s) => subs[s] = {}

\* s is the only session its id has had since the daemon started.
OnlyUseOfId(s) == \A t \in Session \ {s} : idOf[t] # idOf[s]

\* What the dump file of a session lacks, and a crash now would lose.
Unsaved(s) == ring[s] - Preloaded(idOf[s])

\* A crash loses less than DUMP_THRESHOLD plus one read, across restarts, partial
\* dumps and leftovers in <id>.tmp (DUMP_THRESHOLD's comment, pending_dump, dump_to).
CrashLossBounded ==
  \A s \in Session :
    ~Unused(s) /\ persist[s] /\ OnlyUseOfId(s) =>
      Unsaved(s) < DumpThreshold + ReadMax

\* Once a session has been killed and its reader is done, no scrollback file of it
\* is left (kill's comment: "its scrollback buffer must not leak on disk").
KilledLeavesNoFile ==
  \A s \in Session :
    ~Unused(s) /\ ~persist[s] /\ reader[s] = "done" /\ KillersOf(s) = {} /\ OnlyUseOfId(s)
      => buf[idOf[s]] = None

\* A live registered session without a subscriber is marked as an orphan, so that
\* the TTL can collect it (mark_detached_if_empty).
UnwatchedIsOrphaned ==
  \A s \in Registered :
    alive[s] /\ subs[s] = {} => orphaned[s]

\* A dead session in the registry that no connected client watches.
Watched(s) == \E c \in subs[s] : conn[c] = "open"
DeadUnwatched(s) == s \in Registered /\ ~alive[s] /\ ~Watched(s)

=============================================================================

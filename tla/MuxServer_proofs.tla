--------------------------- MODULE MuxServer_proofs ---------------------------
(***************************************************************************)
(* Proofs about MuxServer, for every set of ids, clients and session       *)
(* objects, every threshold and every environment.                         *)
(***************************************************************************)
EXTENDS MC_MuxServer, TLAPS

(***************************************************************************)
(* Typing                                                                  *)
(***************************************************************************)

\* A new ring starts at a position: the file's, or 0.
LEMMA PreloadedIsPosition ==
  ASSUME TypeOK, NEW i \in Id
  PROVE  Preloaded(i) \in Nat
BY DEF TypeOK, Preloaded

\* attach and detach keep the types of what they change.
LEMMA AttachTyping ==
  ASSUME TypeOK, NEW c \in Client, NEW s \in Session, Attach(c, s)
  PROVE  /\ subs' \in [Session -> SUBSET Client]
         /\ orphaned' \in [Session -> BOOLEAN]
<1>1. CASE UNCHANGED <<subs, orphaned>>
  BY <1>1 DEF TypeOK
<1>2. CASE /\ subs' = [subs EXCEPT ![s] = @ \cup {c}]
           /\ orphaned' = [orphaned EXCEPT ![s] = FALSE]
  BY <1>2 DEF TypeOK
<1> QED
  BY <1>1, <1>2, Zenon DEF Attach

LEMMA DetachTyping ==
  ASSUME TypeOK, NEW c \in Client, NEW S \in SUBSET Session, Detach(c, S)
  PROVE  /\ subs' \in [Session -> SUBSET Client]
         /\ orphaned' \in [Session -> BOOLEAN]
BY DEF TypeOK, Detach

\* Whoever a broadcast leaves was subscribed before.
LEMMA BroadcastOnlyDrops ==
  ASSUME TypeOK, NEW s \in Session, NEW left \in AfterBroadcast(s)
  PROVE  left \subseteq subs[s] /\ left \in SUBSET Client
BY DEF TypeOK, AfterBroadcast

\* The threads of a session.
LEMMA SessionTyping ==
  ASSUME TypeOK, NEW s \in Session, SessionStep(s)
  PROVE  TypeOK'
<1> USE DEF sessionVars, fileVars, handlerVars, reaperVars
<1>1. CASE ReadChunk(s)
  <2>1. PICK n \in 1..ReadMax, left \in AfterBroadcast(s) :
          LET due == persist[s] /\ SinceDump(s, n) >= DumpThreshold
          IN  /\ ring' = [ring EXCEPT ![s] = ring[s] + n]
              /\ subs' = [subs EXCEPT ![s] = left]
              /\ orphaned' = [orphaned EXCEPT ![s] = @ \/ left = {}]
              /\ sinceDump' = [sinceDump EXCEPT ![s] =
                                  IF due THEN 0 ELSE SinceDump(s, n)]
              /\ dump' = [dump EXCEPT ![s] = IF due THEN ring[s] + n ELSE @]
              /\ reader' = [reader EXCEPT ![s] = IF due THEN "write" ELSE "read"]
    BY <1>1, Zenon DEF ReadChunk
  <2>2. left \in SUBSET Client
    BY BroadcastOnlyDrops
  <2>3. ring[s] + n \in Nat /\ SinceDump(s, n) \in Nat
    BY ConstantsOk DEF TypeOK, SinceDump
  <2>4. /\ ring' \in [Session -> Nat] /\ sinceDump' \in [Session -> Nat]
        /\ dump' \in [Session -> Nat]
    BY <2>1, <2>3 DEF TypeOK
  <2>5. subs' \in [Session -> SUBSET Client] /\ orphaned' \in [Session -> BOOLEAN]
    BY <2>1, <2>2 DEF TypeOK
  <2>6. reader' \in [Session -> {"none", "read", "write", "rename",
                                 "lastWrite", "lastRename", "done"}]
    BY <2>1 DEF TypeOK
  <2> QED
    BY <1>1, <2>4, <2>5, <2>6 DEF ReadChunk, SessionStep, TypeOK
<1>2. CASE ReaderEof(s)
  BY <1>2, BroadcastOnlyDrops DEF ReaderEof, SessionStep, TypeOK
<1>3. CASE DumpWrite(s)
  BY <1>3 DEF DumpWrite, SessionStep, TypeOK
<1>4. CASE DumpFail(s)
  BY <1>4 DEF DumpFail, SessionStep, TypeOK
<1>5. CASE DumpRename(s)
  BY <1>5 DEF DumpRename, SessionStep, TypeOK
<1>6. CASE ShellExit(s)
  BY <1>6 DEF ShellExit, SessionStep, TypeOK
<1>7. CASE Tick(s)
  BY <1>7, BroadcastOnlyDrops DEF Tick, StateChange, SessionStep, TypeOK
<1> QED
  BY <1>1, <1>2, <1>3, <1>4, <1>5, <1>6, <1>7 DEF SessionStep, SessionThread

\* What a client connection does.
LEMMA ConnectionTyping ==
  ASSUME TypeOK, NEW c \in Client,
         \/ Connect(c) \/ PeerGone(c) \/ HandlerEof(c) \/ HandlerError(c)
         \/ ChannelClosed(c)
  PROVE  TypeOK'
<1> USE DEF sessionVars, fileVars, reaperVars
<1>1. CASE Connect(c)
  BY <1>1 DEF Connect, TypeOK
<1>2. CASE PeerGone(c)
  BY <1>2 DEF PeerGone, TypeOK
<1>3. CASE HandlerEof(c)
  <2>1. Registered \in SUBSET Session
    BY DEF Registered
  <2>2. subs' \in [Session -> SUBSET Client] /\ orphaned' \in [Session -> BOOLEAN]
    BY <1>3, <2>1, DetachTyping DEF HandlerEof
  <2> QED
    BY <1>3, <2>2 DEF HandlerEof, TypeOK
<1>4. CASE HandlerError(c)
  BY <1>4 DEF HandlerError, TypeOK
<1>5. CASE ChannelClosed(c)
  BY <1>5 DEF ChannelClosed, TypeOK
<1> QED
  BY <1>1, <1>2, <1>3, <1>4, <1>5

\* Spawn: the three outcomes agree on everything but the session.
LEMMA SpawnTyping ==
  ASSUME TypeOK, NEW c \in Client, NEW i \in Id, HandleSpawn(c, i)
  PROVE  TypeOK'
<1> USE DEF sessionVars, fileVars, reaperVars
<1>1. ASSUME NEW s \in Session, Attach(c, s),
             held' = [held EXCEPT ![c] = s],
             UNCHANGED <<idOf, ring, child, reader, registry>>
      PROVE  TypeOK'
  <2>1. subs' \in [Session -> SUBSET Client] /\ orphaned' \in [Session -> BOOLEAN]
    BY <1>1, AttachTyping
  <2> QED
    BY <1>1, <2>1 DEF HandleSpawn, TypeOK
<1>2. ASSUME NEW s \in Session, Attach(c, s),
             held' = [held EXCEPT ![c] = s],
             idOf' = [idOf EXCEPT ![s] = i],
             ring' = [ring EXCEPT ![s] = Preloaded(i)],
             child' = [child EXCEPT ![s] = "running"],
             reader' = [reader EXCEPT ![s] = "read"],
             registry' = [registry EXCEPT ![i] = s]
      PROVE  TypeOK'
  <2>1. subs' \in [Session -> SUBSET Client] /\ orphaned' \in [Session -> BOOLEAN]
    BY <1>2, AttachTyping
  <2>2. Preloaded(i) \in Nat
    BY PreloadedIsPosition
  <2> QED
    BY <1>2, <2>1, <2>2 DEF HandleSpawn, TypeOK
<1>3. ASSUME held' = [held EXCEPT ![c] = None],
             UNCHANGED <<idOf, ring, subs, orphaned, child, reader, registry>>
      PROVE  TypeOK'
  BY <1>3 DEF HandleSpawn, TypeOK
<1> QED
  BY <1>1, <1>2, <1>3 DEF HandleSpawn

\* The other requests.
LEMMA RequestTyping ==
  ASSUME TypeOK, NEW c \in Client, NEW i \in Id,
         \/ HandleAttach(c, i) \/ HandleInput(c, i) \/ HandleKill(c, i)
         \/ HandleDetach(c, i) \/ HandleQuery(c)
  PROVE  TypeOK'
<1> USE DEF sessionVars, fileVars, reaperVars
<1>1. CASE HandleAttach(c, i)
  <2>1. /\ subs' \in [Session -> SUBSET Client] /\ orphaned' \in [Session -> BOOLEAN]
        /\ step' \in [Client -> {"idle", "pid", "send", "kill", "unlink"}]
    <3>1. ASSUME NEW s \in Session, Attach(c, s), UNCHANGED step
          PROVE  <2>1!1 /\ <2>1!2
      BY <3>1, AttachTyping DEF TypeOK
    <3>2. ASSUME step' = [step EXCEPT ![c] = "send"], UNCHANGED <<subs, orphaned>>
          PROVE  <2>1!1 /\ <2>1!2
      BY <3>2 DEF TypeOK
    <3> QED
      BY <1>1, <3>1, <3>2 DEF HandleAttach
  <2> QED
    BY <1>1, <2>1 DEF HandleAttach, TypeOK
<1>2. CASE HandleInput(c, i)
  BY <1>2, BroadcastOnlyDrops DEF HandleInput, StateChange, handlerVars, TypeOK
<1>3. CASE HandleKill(c, i)
  BY <1>3 DEF HandleKill, TypeOK
<1>4. CASE HandleDetach(c, i)
  <2>1. PICK s \in Session : Detach(c, {s})
    BY <1>4 DEF HandleDetach
  <2>2. subs' \in [Session -> SUBSET Client] /\ orphaned' \in [Session -> BOOLEAN]
    BY <2>1, DetachTyping
  <2> QED
    BY <1>4, <2>2 DEF HandleDetach, handlerVars, TypeOK
<1>5. CASE HandleQuery(c)
  BY <1>5 DEF HandleQuery, TypeOK
<1> QED
  BY <1>1, <1>2, <1>3, <1>4, <1>5

\* The steps that finish a request.
LEMMA FinishTyping ==
  ASSUME TypeOK, NEW c \in Client,
         ReadPid(c) \/ SendReply(c) \/ HandlerKills(c) \/ HandlerUnlinks(c)
  PROVE  TypeOK'
<1> USE DEF sessionVars, fileVars, reaperVars
<1>1. CASE ReadPid(c)
  BY <1>1 DEF ReadPid, TypeOK
<1>2. CASE SendReply(c)
  BY <1>2 DEF SendReply, TypeOK
<1>3. CASE HandlerKills(c)
  <2>1. PICK s \in Session :
          /\ KillBegin(s)
          /\ step' = [step EXCEPT ![c] = IF persist[s] THEN "unlink" ELSE "send"]
          /\ held' = [held EXCEPT ![c] = IF persist[s] THEN s ELSE None]
    BY <1>3 DEF HandlerKills
  <2>2. step' \in [Client -> {"idle", "pid", "send", "kill", "unlink"}]
    BY <2>1 DEF TypeOK
  <2>3. held' \in [Client -> Session \cup {None}]
    BY <2>1 DEF TypeOK
  <2>4. buf' \in [Id -> Nat \cup {None}]
    BY <2>1 DEF KillBegin, TypeOK
  <2> QED
    BY <1>3, <2>1, <2>2, <2>3, <2>4 DEF HandlerKills, KillBegin, TypeOK
<1>4. CASE HandlerUnlinks(c)
  BY <1>4 DEF HandlerUnlinks, KillEnd, TypeOK
<1> QED
  BY <1>1, <1>2, <1>3, <1>4

\* The end of the process.
LEMMA ProcessTyping ==
  ASSUME TypeOK, ProcessExit
  PROVE  TypeOK'
BY DEF ProcessExit, ForgetSessions, All, fileVars, TypeOK

\* The reaper.
LEMMA ReaperTyping ==
  ASSUME TypeOK, ReaperStep
  PROVE  TypeOK'
<1>1. CASE Sweep
  <2>1. PICK drop \in SUBSET Session :
          /\ registry' = [i \in Id |-> IF registry[i] \in drop THEN None ELSE registry[i]]
          /\ toKill' = drop
    <3>1. PICK expired \in SUBSET {s \in Registered : OrphanTtl /\ alive[s] /\ orphaned[s]} :
            LET drop == {s \in Registered : Abandoned(s)} \cup expired
            IN  /\ registry' = [i \in Id |-> IF registry[i] \in drop THEN None
                                             ELSE registry[i]]
                /\ toKill' = drop
      BY <1>1, Zenon DEF Sweep
    <3>2. {s \in Registered : Abandoned(s)} \cup expired \in SUBSET Session
      BY DEF Registered
    <3> QED
      BY <3>1, <3>2
  <2>2. registry' \in [Id -> Session \cup {None}]
    BY <2>1 DEF TypeOK
  <2>3. idle' \in BOOLEAN /\ reaper' \in {"sleep", "kill"}
    BY <1>1 DEF Sweep
  <2> QED
    BY <1>1, <2>1, <2>2, <2>3 DEF Sweep, sessionVars, fileVars, TypeOK
<1>2. ASSUME NEW s \in Session, ReaperKills(s)
      PROVE  TypeOK'
  BY <1>2 DEF ReaperKills, KillBegin, handlerVars, TypeOK
<1>3. CASE ReaperUnlinks
  BY <1>3 DEF ReaperUnlinks, KillEnd, sessionVars, handlerVars, TypeOK
<1>4. CASE ReaperSleeps
  BY <1>4 DEF ReaperSleeps, sessionVars, fileVars, handlerVars, TypeOK
<1>5. CASE ReaperExits
  BY <1>5, ProcessTyping DEF ReaperExits
<1> QED
  BY <1>1, <1>2, <1>3, <1>4, <1>5 DEF ReaperStep

\* Type correctness is inductive on its own.
LEMMA TypeInductive ==
  ASSUME TypeOK, [Next]_vars
  PROVE  TypeOK'
<1>1. CASE UNCHANGED vars
  BY <1>1 DEF vars, sessionVars, fileVars, handlerVars, reaperVars, TypeOK
<1>2. ASSUME NEW c \in Client, Request(c)
      PROVE  TypeOK'
  <2>1. ASSUME NEW i \in Id, HandleSpawn(c, i) PROVE TypeOK'
    BY <2>1, SpawnTyping
  <2>2. ASSUME NEW i \in Id,
               \/ HandleAttach(c, i) \/ HandleInput(c, i) \/ HandleKill(c, i)
               \/ HandleDetach(c, i)
        PROVE  TypeOK'
    BY <2>2, RequestTyping
  <2>3. CASE HandleQuery(c)
    BY <2>3 DEF HandleQuery, sessionVars, fileVars, reaperVars, TypeOK
  <2>4. CASE HandleShutdown(c)
    BY <2>4, ProcessTyping DEF HandleShutdown
  <2> QED
    BY <1>2, <2>1, <2>2, <2>3, <2>4 DEF Request
<1>3. CASE Crash
  BY <1>3, ProcessTyping DEF Crash
<1>4. CASE Start
  BY <1>4 DEF Start, sessionVars, fileVars, handlerVars, reaperVars, TypeOK
<1> QED
  BY <1>1, <1>2, <1>3, <1>4, SessionTyping, ConnectionTyping, FinishTyping,
     ReaperTyping DEF Next, HandlerStep

LEMMA TypeInitially ==
  ASSUME Init
  PROVE  TypeOK
<1>1. /\ idOf \in [Session -> Id \cup {None}] /\ ring \in [Session -> Nat]
      /\ subs \in [Session -> SUBSET Client] /\ alive \in [Session -> BOOLEAN]
      /\ persist \in [Session -> BOOLEAN] /\ sinceDump \in [Session -> Nat]
      /\ orphaned \in [Session -> BOOLEAN] /\ dump \in [Session -> Nat]
  BY DEF Init, InitSessions, All
<1>2. /\ child \in [Session -> {"none", "running", "exited"}]
      /\ reader \in [Session -> {"none", "read", "write", "rename",
                                 "lastWrite", "lastRename", "done"}]
  BY DEF Init, InitSessions, All
<1> QED
  BY <1>1, <1>2 DEF Init, TypeOK

\* Every variable keeps its type: in particular a registry entry is a session
\* object, and positions stay natural numbers through restarts.
THEOREM TypeCorrect == Spec => []TypeOK
BY TypeInitially, TypeInductive, PTL DEF Spec

(***************************************************************************)
(* Ownership: who may kill a session, and who can still find it.           *)
(***************************************************************************)
HandlerOwns(c, s) == held[c] = s /\ step[c] \in {"kill", "unlink"}

ReaperOwns(s) == s \in toKill \/ reaping = s

\* A registered session has the id it is registered under.
RegisteredById ==
  \A i \in Id, s \in Session : registry[i] = s => idOf[s] = i

\* A session somebody is about to kill has been created and removed.
OwnedIsRemoved ==
  \A s \in Session :
    ReaperOwns(s) \/ (\E c \in Client : HandlerOwns(c, s))
      => ~Unused(s) /\ \A i \in Id : registry[i] # s

\* Nobody shares it.
SingleOwner ==
  \A s \in Session, c \in Client : HandlerOwns(c, s) =>
    /\ ~ReaperOwns(s)
    /\ \A d \in Client : HandlerOwns(d, s) => c = d

\* Its shell is reachable or its death is still to come.
ShellIsOwned ==
  \A s \in Session : child[s] = "running" =>
    \/ \E i \in Id : registry[i] = s
    \/ s \in toKill
    \/ \E c \in Client : held[c] = s /\ step[c] = "kill"

\* A sleeping reaper has nothing in hand: the next sweep overwrites nothing.
SleeperIsIdle == reaper = "sleep" => toKill = {} /\ reaping = None

OwnInv == RegisteredById /\ OwnedIsRemoved /\ SingleOwner /\ ShellIsOwned /\ SleeperIsIdle

\* None of this depends on output, subscriptions or files.
LEMMA OwnUnchanged ==
  ASSUME OwnInv, UNCHANGED <<idOf, registry, held, step, toKill, reaping, reaper>>,
         \A s \in Session : child'[s] = "running" => child[s] = "running"
  PROVE  OwnInv'
BY DEF OwnInv, RegisteredById, OwnedIsRemoved, SingleOwner, ShellIsOwned,
       SleeperIsIdle, HandlerOwns, ReaperOwns, Unused

\* A session's own threads and the shell only ever end the shell.
LEMMA SessionOwns ==
  ASSUME TypeOK, OwnInv, NEW s \in Session, SessionStep(s)
  PROVE  OwnInv'
<1>1. UNCHANGED <<idOf, registry, held, step, toKill, reaping, reaper>>
  BY DEF SessionStep, SessionThread, ReadChunk, ReaderEof, DumpWrite, DumpFail,
         DumpRename, ShellExit, Tick, StateChange, handlerVars, reaperVars
<1>2. UNCHANGED child \/ child' = [child EXCEPT ![s] = "exited"]
  BY DEF SessionStep, SessionThread, ReadChunk, ReaderEof, DumpWrite, DumpFail,
         DumpRename, ShellExit, Tick, StateChange
<1>3. \A t \in Session : child'[t] = "running" => child[t] = "running"
  BY <1>2 DEF TypeOK
<1> QED
  BY <1>1, <1>3, OwnUnchanged

\* A handler that was not and does not become a killer changes no ownership.
LEMMA StepOwns ==
  ASSUME TypeOK, OwnInv, NEW c \in Client,
         step[c] \notin {"kill", "unlink"},
         \A d \in Client \ {c} : step'[d] = step[d] /\ held'[d] = held[d],
         step'[c] \notin {"kill", "unlink"},
         UNCHANGED <<idOf, registry, toKill, reaping, reaper, child>>
  PROVE  OwnInv'
<1>1. \A d \in Client, s \in Session : HandlerOwns(d, s)' = HandlerOwns(d, s)
  BY DEF HandlerOwns
<1>2. \A d \in Client, s \in Session :
        (held'[d] = s /\ step'[d] = "kill") = (held[d] = s /\ step[d] = "kill")
  OBVIOUS
<1>3. \A s \in Session : ReaperOwns(s)' = ReaperOwns(s)
  BY DEF ReaperOwns
<1> QED
  BY <1>1, <1>2, <1>3
     DEF OwnInv, RegisteredById, OwnedIsRemoved, SingleOwner, ShellIsOwned,
         SleeperIsIdle, Unused

LEMMA SpawnOwns ==
  ASSUME TypeOK, OwnInv, NEW c \in Client, NEW i \in Id, HandleSpawn(c, i)
  PROVE  OwnInv'
<1>0. /\ step[c] = "idle" /\ step' = [step EXCEPT ![c] = "pid"]
      /\ \E x \in Session \cup {None} : held' = [held EXCEPT ![c] = x]
      /\ UNCHANGED <<toKill, reaping, reaper>>
  BY DEF HandleSpawn, Receives, reaperVars
<1>1. /\ step'[c] = "pid"
      /\ \A d \in Client \ {c} : step'[d] = step[d] /\ held'[d] = held[d]
  BY <1>0 DEF TypeOK
<1>2. CASE UNCHANGED <<idOf, child, registry>>
  BY <1>0, <1>1, <1>2, StepOwns
<1>3. ASSUME NEW s \in Session, registry[i] = None, Unused(s),
             idOf' = [idOf EXCEPT ![s] = i],
             child' = [child EXCEPT ![s] = "running"],
             registry' = [registry EXCEPT ![i] = s]
      PROVE  OwnInv'
  <2>1. \A d \in Client, t \in Session : HandlerOwns(d, t)' = HandlerOwns(d, t)
    BY <1>0, <1>1 DEF HandlerOwns
  <2>2. \A t \in Session : ReaperOwns(t)' = ReaperOwns(t)
    BY <1>0 DEF ReaperOwns
  <2>3. \A t \in Session : t # s => idOf'[t] = idOf[t] /\ child'[t] = child[t]
    BY <1>3 DEF TypeOK
  <2>4. \A j \in Id : j # i => registry'[j] = registry[j]
    BY <1>3 DEF TypeOK
  <2>5. registry'[i] = s /\ idOf'[s] = i
    BY <1>3 DEF TypeOK
  <2>6. \A j \in Id : registry[j] # s
    BY <1>3, ConstantsOk DEF OwnInv, RegisteredById, Unused
  <2>7. RegisteredById'
    BY <2>3, <2>4, <2>5, <2>6 DEF OwnInv, RegisteredById
  <2>8. ~ReaperOwns(s) /\ \A d \in Client : ~HandlerOwns(d, s)
    BY <1>3 DEF OwnInv, OwnedIsRemoved
  <2>9. OwnedIsRemoved'
    BY <2>1, <2>2, <2>3, <2>4, <2>5, <2>8 DEF OwnInv, OwnedIsRemoved, Unused
  <2>10. SingleOwner'
    BY <2>1, <2>2 DEF OwnInv, SingleOwner
  <2>11. \A d \in Client, t \in Session :
           held[d] = t /\ step[d] = "kill" => held'[d] = t /\ step'[d] = "kill"
    BY <1>0, <1>1
  <2>12. ShellIsOwned'
    <3>1. ASSUME NEW t \in Session, child'[t] = "running", t # s
          PROVE  \/ \E j \in Id : registry'[j] = t
                 \/ t \in toKill'
                 \/ \E d \in Client : held'[d] = t /\ step'[d] = "kill"
      <4>1. CASE \E j \in Id : registry[j] = t
        BY <4>1, <3>1, <1>3, <2>4, ConstantsOk DEF TypeOK
      <4>2. CASE t \in toKill
        BY <4>2, <1>0
      <4>3. CASE \E d \in Client : held[d] = t /\ step[d] = "kill"
        BY <4>3, <2>11
      <4> QED
        BY <3>1, <2>3, <4>1, <4>2, <4>3 DEF OwnInv, ShellIsOwned
    <3> QED
      BY <3>1, <2>5 DEF ShellIsOwned
  <2> QED
    BY <1>0, <2>7, <2>9, <2>10, <2>12 DEF OwnInv, SleeperIsIdle
<1> QED
  BY <1>2, <1>3 DEF HandleSpawn

LEMMA KillOwns ==
  ASSUME TypeOK, OwnInv, NEW c \in Client, NEW i \in Id, HandleKill(c, i)
  PROVE  OwnInv'
<1>1. /\ step[c] = "idle"
      /\ registry' = [registry EXCEPT ![i] = None]
      /\ held' = [held EXCEPT ![c] = registry[i]]
      /\ step' = [step EXCEPT ![c] = IF registry[i] = None THEN "send" ELSE "kill"]
      /\ UNCHANGED <<idOf, child, toKill, reaping, reaper>>
  BY DEF HandleKill, Receives, sessionVars, reaperVars
<1>2. \A d \in Client \ {c} : step'[d] = step[d] /\ held'[d] = held[d]
  BY <1>1 DEF TypeOK
<1>3. \A j \in Id : j # i => registry'[j] = registry[j]
  BY <1>1 DEF TypeOK
<1>4. registry'[i] = None /\ held'[c] = registry[i]
  BY <1>1 DEF TypeOK
<1>5. CASE registry[i] = None
  <2>1. step'[c] = "send" /\ registry' = registry
    BY <1>1, <1>5 DEF TypeOK
  <2> QED
    BY <1>1, <1>2, <2>1, StepOwns
<1>6. CASE registry[i] # None
  <2> DEFINE s == registry[i]
  <2>1. s \in Session /\ step'[c] = "kill"
    BY <1>1, <1>6 DEF TypeOK
  <2>2. \A t \in Session : HandlerOwns(c, t)' <=> t = s
    BY <1>4, <2>1 DEF HandlerOwns
  <2>3. \A t \in Session, d \in Client \ {c} : HandlerOwns(d, t)' <=> HandlerOwns(d, t)
    BY <1>2 DEF HandlerOwns
  <2>4. \A t \in Session : ReaperOwns(t)' <=> ReaperOwns(t)
    BY <1>1 DEF ReaperOwns
  <2>5. ~ReaperOwns(s) /\ \A d \in Client : ~HandlerOwns(d, s)
    BY <2>1 DEF OwnInv, OwnedIsRemoved
  <2>6. idOf[s] = i /\ \A j \in Id : registry[j] = s => j = i
    BY <2>1 DEF OwnInv, RegisteredById
  <2>7. \A j \in Id, t \in Session : registry'[j] = t => registry[j] = t
    BY <1>3, <1>4, ConstantsOk
  <2>8. RegisteredById'
    BY <1>1, <2>7 DEF OwnInv, RegisteredById
  <2>9. ~Unused(s)
    BY <2>6, ConstantsOk DEF Unused
  <2>10. \A j \in Id : registry'[j] # s
    BY <1>3, <1>4, <2>1, <2>6, ConstantsOk
  <2>11. OwnedIsRemoved'
    <3>1. ASSUME NEW t \in Session, t # s,
                 ReaperOwns(t)' \/ \E d \in Client : HandlerOwns(d, t)'
          PROVE  ~Unused(t)' /\ \A j \in Id : registry'[j] # t
      BY <3>1, <1>1, <2>2, <2>3, <2>4, <2>7 DEF OwnInv, OwnedIsRemoved, Unused
    <3> QED
      BY <3>1, <1>1, <2>9, <2>10 DEF OwnedIsRemoved, Unused
  <2>12. SingleOwner'
    BY <2>2, <2>3, <2>4, <2>5 DEF OwnInv, SingleOwner
  <2>13. ShellIsOwned'
    <3>1. ASSUME NEW t \in Session, child[t] = "running", t # s
          PROVE  \/ \E j \in Id : registry'[j] = t
                 \/ t \in toKill
                 \/ \E d \in Client : held'[d] = t /\ step'[d] = "kill"
      <4>1. CASE \E j \in Id : registry[j] = t
        BY <4>1, <3>1, <1>3
      <4>2. CASE \E d \in Client : held[d] = t /\ step[d] = "kill"
        BY <4>2, <1>1, <1>2
      <4> QED
        BY <3>1, <4>1, <4>2 DEF OwnInv, ShellIsOwned
    <3> QED
      BY <3>1, <1>1, <1>4, <2>1 DEF ShellIsOwned
  <2> QED
    BY <1>1, <2>8, <2>11, <2>12, <2>13 DEF OwnInv, SleeperIsIdle
<1> QED
  BY <1>5, <1>6

LEMMA FinishOwns ==
  ASSUME TypeOK, OwnInv, NEW c \in Client,
         ReadPid(c) \/ SendReply(c) \/ HandlerKills(c) \/ HandlerUnlinks(c)
  PROVE  OwnInv'
<1> USE DEF sessionVars, fileVars, reaperVars
<1>1. CASE ReadPid(c)
  <2>1. /\ step'[c] = "send"
        /\ \A d \in Client \ {c} : step'[d] = step[d] /\ held'[d] = held[d]
    BY <1>1 DEF ReadPid, TypeOK
  <2> QED
    BY <1>1, <2>1, StepOwns DEF ReadPid
<1>2. CASE SendReply(c)
  <2>1. /\ step'[c] = "idle"
        /\ \A d \in Client \ {c} : step'[d] = step[d] /\ held'[d] = held[d]
    BY <1>2 DEF SendReply, TypeOK
  <2> QED
    BY <1>2, <2>1, StepOwns DEF SendReply
<1>3. CASE HandlerKills(c)
  <2>1. PICK s \in Session :
          /\ held[c] = s /\ step[c] = "kill"
          /\ child' = [child EXCEPT ![s] = "exited"]
          /\ step' = [step EXCEPT ![c] = IF persist[s] THEN "unlink" ELSE "send"]
          /\ held' = [held EXCEPT ![c] = IF persist[s] THEN s ELSE None]
          /\ UNCHANGED <<idOf, registry, toKill, reaping, reaper>>
    BY <1>3 DEF HandlerKills, KillBegin
  <2>2. \A d \in Client \ {c} : step'[d] = step[d] /\ held'[d] = held[d]
    BY <2>1 DEF TypeOK
  <2>3. step'[c] \in {"unlink", "send"} /\ held'[c] \in {s, None}
    BY <2>1 DEF TypeOK
  <2>4. \A t \in Session, d \in Client : HandlerOwns(d, t)' => HandlerOwns(d, t)
    BY <2>1, <2>2, <2>3, ConstantsOk DEF HandlerOwns
  <2>5. \A t \in Session : ReaperOwns(t)' <=> ReaperOwns(t)
    BY <2>1 DEF ReaperOwns
  <2>6. child'[s] = "exited" /\ \A t \in Session : t # s => child'[t] = child[t]
    BY <2>1 DEF TypeOK
  <2>7. ShellIsOwned'
    <3>1. ASSUME NEW t \in Session, child'[t] = "running"
          PROVE  \/ \E j \in Id : registry'[j] = t
                 \/ t \in toKill'
                 \/ \E d \in Client : held'[d] = t /\ step'[d] = "kill"
      <4>1. t # s /\ child[t] = "running"
        BY <3>1, <2>6
      <4>2. \A d \in Client : held[d] = t /\ step[d] = "kill" => d # c
        BY <4>1, <2>1
      <4> QED
        BY <2>1, <2>2, <4>1, <4>2 DEF OwnInv, ShellIsOwned
    <3> QED
      BY <3>1 DEF ShellIsOwned
  <2>8. RegisteredById' /\ OwnedIsRemoved' /\ SleeperIsIdle'
    BY <2>1, <2>4, <2>5
       DEF OwnInv, RegisteredById, OwnedIsRemoved, SleeperIsIdle, Unused
  <2>9. SingleOwner'
    BY <2>4, <2>5 DEF OwnInv, SingleOwner
  <2> QED
    BY <2>7, <2>8, <2>9 DEF OwnInv
<1>4. CASE HandlerUnlinks(c)
  <2>1. /\ step[c] = "unlink"
        /\ held' = [held EXCEPT ![c] = None]
        /\ step' = [step EXCEPT ![c] = "send"]
        /\ UNCHANGED <<idOf, registry, toKill, reaping, reaper, child>>
    BY <1>4 DEF HandlerUnlinks, KillEnd
  <2>2. \A d \in Client \ {c} : step'[d] = step[d] /\ held'[d] = held[d]
    BY <2>1 DEF TypeOK
  <2>3. step'[c] = "send"
    BY <2>1 DEF TypeOK
  <2>4. \A t \in Session, d \in Client : HandlerOwns(d, t)' => HandlerOwns(d, t)
    BY <2>2, <2>3 DEF HandlerOwns
  <2>5. \A t \in Session : ReaperOwns(t)' <=> ReaperOwns(t)
    BY <2>1 DEF ReaperOwns
  <2>6. \A t \in Session, d \in Client :
          held[d] = t /\ step[d] = "kill" => held'[d] = t /\ step'[d] = "kill"
    BY <2>1, <2>2
  <2>7. ShellIsOwned'
    BY <2>1, <2>6 DEF OwnInv, ShellIsOwned
  <2>8. RegisteredById' /\ OwnedIsRemoved' /\ SleeperIsIdle'
    BY <2>1, <2>4, <2>5
       DEF OwnInv, RegisteredById, OwnedIsRemoved, SleeperIsIdle, Unused
  <2>9. SingleOwner'
    BY <2>4, <2>5 DEF OwnInv, SingleOwner
  <2> QED
    BY <2>7, <2>8, <2>9 DEF OwnInv
<1> QED
  BY <1>1, <1>2, <1>3, <1>4

\* What a sweep takes was registered, and it takes all of it out.
LEMMA SweepTakes ==
  ASSUME TypeOK, Sweep
  PROVE  /\ reaper = "sleep"
         /\ toKill' \subseteq Registered
         /\ \A s \in toKill' : Abandoned(s) \/ orphaned[s]
         /\ registry' = [i \in Id |-> IF registry[i] \in toKill' THEN None ELSE registry[i]]
         /\ toKill' # {} => reaper' = "kill"
         /\ UNCHANGED <<sessionVars, fileVars, regLock, conn, step, held, reaping, up>>
<1>1. PICK expired \in SUBSET {s \in Registered : OrphanTtl /\ alive[s] /\ orphaned[s]} :
        LET drop == {s \in Registered : Abandoned(s)} \cup expired
        IN  /\ registry' = [i \in Id |-> IF registry[i] \in drop THEN None
                                         ELSE registry[i]]
            /\ toKill' = drop
  BY Zenon DEF Sweep
<1>2. toKill' = {s \in Registered : Abandoned(s)} \cup expired
  BY <1>1
<1>3. registry' = [i \in Id |-> IF registry[i] \in toKill' THEN None ELSE registry[i]]
  BY <1>1
<1>4. reaper' = IF toKill' = {} /\ ~(IdleExit /\ idle') THEN "sleep" ELSE "kill"
  BY DEF Sweep
<1>5. /\ reaper = "sleep"
      /\ UNCHANGED <<sessionVars, fileVars, regLock, conn, step, held, reaping, up>>
  BY DEF Sweep
<1>6. /\ toKill' \subseteq Registered
      /\ \A s \in toKill' : Abandoned(s) \/ orphaned[s]
  BY <1>2
<1> QED
  BY <1>3, <1>4, <1>5, <1>6

LEMMA SweepOwns ==
  ASSUME TypeOK, OwnInv, Sweep
  PROVE  OwnInv'
<1>1. /\ UNCHANGED <<idOf, child, step, held, reaping>>
      /\ reaper = "sleep"
      /\ toKill' \subseteq Registered
      /\ registry' = [i \in Id |-> IF registry[i] \in toKill' THEN None ELSE registry[i]]
      /\ toKill' # {} => reaper' = "kill"
  BY SweepTakes DEF sessionVars
<1>2. toKill = {} /\ reaping = None /\ reaping' = None
  BY <1>1 DEF OwnInv, SleeperIsIdle
<1>3. \A i \in Id : registry'[i] = IF registry[i] \in toKill' THEN None ELSE registry[i]
  BY <1>1
<1>4. \A i \in Id, s \in Session : registry'[i] = s => registry[i] = s /\ s \notin toKill'
  BY <1>3, ConstantsOk
<1>5. \A s \in Session : ReaperOwns(s)' <=> s \in toKill'
  BY <1>2, ConstantsOk DEF ReaperOwns
<1>6. \A s \in Session, d \in Client : HandlerOwns(d, s)' <=> HandlerOwns(d, s)
  BY <1>1 DEF HandlerOwns
<1>7. \A s \in toKill' : s \in Session /\ \E i \in Id : registry[i] = s
  BY <1>1 DEF Registered
<1>8. \A s \in toKill' : idOf[s] # None /\ \A d \in Client : ~HandlerOwns(d, s)
  BY <1>7, ConstantsOk DEF OwnInv, OwnedIsRemoved, RegisteredById
<1>9. RegisteredById'
  BY <1>1, <1>4 DEF OwnInv, RegisteredById
<1>10. OwnedIsRemoved'
  BY <1>1, <1>4, <1>5, <1>6, <1>8 DEF OwnInv, OwnedIsRemoved, Unused
<1>11. SingleOwner'
  BY <1>5, <1>6, <1>8 DEF OwnInv, SingleOwner
<1>12. ShellIsOwned'
  <2>1. ASSUME NEW s \in Session, child'[s] = "running"
        PROVE  \/ \E j \in Id : registry'[j] = s
               \/ s \in toKill'
               \/ \E d \in Client : held'[d] = s /\ step'[d] = "kill"
    <3>1. CASE \E j \in Id : registry[j] = s
      BY <3>1, <1>3
    <3>2. CASE \E d \in Client : held[d] = s /\ step[d] = "kill"
      BY <3>2, <1>1
    <3> QED
      BY <2>1, <1>1, <1>2, <3>1, <3>2 DEF OwnInv, ShellIsOwned
  <2> QED
    BY <2>1 DEF ShellIsOwned
<1>13. SleeperIsIdle'
  BY <1>1, <1>2 DEF SleeperIsIdle
<1> QED
  BY <1>9, <1>10, <1>11, <1>12, <1>13 DEF OwnInv

LEMMA ReaperKillOwns ==
  ASSUME TypeOK, OwnInv, NEW s \in Session, ReaperKills(s)
  PROVE  OwnInv'
<1>1. /\ reaper = "kill" /\ reaper' = "kill" /\ s \in toKill /\ toKill' = toKill \ {s}
      /\ reaping = None /\ reaping' = IF persist[s] THEN s ELSE None
      /\ child' = [child EXCEPT ![s] = "exited"]
      /\ UNCHANGED <<idOf, registry, held, step>>
  BY DEF ReaperKills, KillBegin, handlerVars
<1>2. child'[s] = "exited" /\ \A t \in Session : t # s => child'[t] = child[t]
  BY <1>1 DEF TypeOK
<1>3. \A t \in Session : ReaperOwns(t)' => ReaperOwns(t)
  BY <1>1, ConstantsOk DEF ReaperOwns
<1>4. \A t \in Session, d \in Client : HandlerOwns(d, t)' <=> HandlerOwns(d, t)
  BY <1>1 DEF HandlerOwns
<1>5. RegisteredById' /\ OwnedIsRemoved' /\ SleeperIsIdle'
  BY <1>1, <1>3, <1>4 DEF OwnInv, RegisteredById, OwnedIsRemoved, SleeperIsIdle, Unused
<1>6. SingleOwner'
  BY <1>3, <1>4 DEF OwnInv, SingleOwner
<1>7. ShellIsOwned'
  BY <1>1, <1>2 DEF OwnInv, ShellIsOwned
<1> QED
  BY <1>5, <1>6, <1>7 DEF OwnInv

LEMMA ProcessOwns ==
  ASSUME ProcessExit
  PROVE  OwnInv'
BY ConstantsOk
   DEF ProcessExit, ForgetSessions, All, OwnInv, RegisteredById, OwnedIsRemoved,
       SingleOwner, ShellIsOwned, SleeperIsIdle, HandlerOwns, ReaperOwns, Unused

LEMMA ReaperStepOwns ==
  ASSUME TypeOK, OwnInv, ReaperStep
  PROVE  OwnInv'
<1>1. CASE ReaperUnlinks
  <2>1. /\ reaping' = None
        /\ UNCHANGED <<idOf, registry, held, step, child, toKill, reaper>>
    BY <1>1 DEF ReaperUnlinks, KillEnd, sessionVars, handlerVars
  <2>2. \A t \in Session : ReaperOwns(t)' => ReaperOwns(t)
    BY <2>1, ConstantsOk DEF ReaperOwns
  <2>3. \A t \in Session, d \in Client : HandlerOwns(d, t)' <=> HandlerOwns(d, t)
    BY <2>1 DEF HandlerOwns
  <2> QED
    BY <2>1, <2>2, <2>3
       DEF OwnInv, RegisteredById, OwnedIsRemoved, SingleOwner, ShellIsOwned,
           SleeperIsIdle, Unused
<1>2. CASE ReaperSleeps
  <2>1. /\ toKill = {} /\ reaping = None
        /\ UNCHANGED <<idOf, registry, held, step, child, toKill, reaping>>
    BY <1>2 DEF ReaperSleeps, SweepDone, sessionVars, handlerVars
  <2>2. \A t \in Session : ReaperOwns(t)' <=> ReaperOwns(t)
    BY <2>1 DEF ReaperOwns
  <2>3. \A t \in Session, d \in Client : HandlerOwns(d, t)' <=> HandlerOwns(d, t)
    BY <2>1 DEF HandlerOwns
  <2> QED
    BY <2>1, <2>2, <2>3
       DEF OwnInv, RegisteredById, OwnedIsRemoved, SingleOwner, ShellIsOwned,
           SleeperIsIdle, Unused
<1>3. CASE ReaperExits
  BY <1>3, ProcessOwns DEF ReaperExits
<1> QED
  BY <1>1, <1>2, <1>3, SweepOwns, ReaperKillOwns DEF ReaperStep

LEMMA OwnInductive ==
  ASSUME TypeOK, OwnInv, [Next]_vars
  PROVE  OwnInv'
<1> USE DEF sessionVars, fileVars, handlerVars, reaperVars
<1>1. CASE UNCHANGED vars
  BY <1>1, OwnUnchanged DEF vars
<1>2. ASSUME NEW c \in Client,
             \/ Connect(c) \/ PeerGone(c) \/ HandlerEof(c) \/ HandlerError(c)
             \/ ChannelClosed(c)
      PROVE  OwnInv'
  <2>1. UNCHANGED <<idOf, registry, held, step, toKill, reaping, reaper, child>>
    BY <1>2 DEF Connect, PeerGone, HandlerEof, HandlerError, ChannelClosed
  <2> QED
    BY <2>1, OwnUnchanged
<1>3. ASSUME NEW c \in Client, NEW i \in Id,
             \/ HandleAttach(c, i) \/ HandleQuery(c)
      PROVE  OwnInv'
  <2>1. /\ step[c] = "idle"
        /\ step' = step \/ step' = [step EXCEPT ![c] = "send"]
        /\ UNCHANGED <<idOf, registry, held, toKill, reaping, reaper, child>>
    BY <1>3 DEF HandleAttach, HandleQuery, Receives
  <2>2. step'[c] \in {"idle", "send"} /\ \A d \in Client \ {c} : step'[d] = step[d]
    BY <2>1 DEF TypeOK
  <2> QED
    BY <2>1, <2>2, StepOwns
<1>4. ASSUME NEW c \in Client, NEW i \in Id, HandleInput(c, i) \/ HandleDetach(c, i)
      PROVE  OwnInv'
  <2>1. UNCHANGED <<idOf, registry, held, step, toKill, reaping, reaper, child>>
    BY <1>4 DEF HandleInput, StateChange, HandleDetach
  <2> QED
    BY <2>1, OwnUnchanged
<1>5. ASSUME NEW c \in Client, Request(c)
      PROVE  OwnInv'
  <2>1. ASSUME NEW i \in Id,
               \/ HandleSpawn(c, i) \/ HandleAttach(c, i) \/ HandleInput(c, i)
               \/ HandleKill(c, i) \/ HandleDetach(c, i)
        PROVE  OwnInv'
    BY <2>1, <1>3, <1>4, SpawnOwns, KillOwns
  <2>2. CASE HandleQuery(c)
    <3>1. /\ step[c] = "idle" /\ step' = [step EXCEPT ![c] = "send"]
          /\ UNCHANGED <<idOf, registry, held, toKill, reaping, reaper, child>>
      BY <2>2 DEF HandleQuery, Receives
    <3>2. step'[c] = "send" /\ \A d \in Client \ {c} : step'[d] = step[d]
      BY <3>1 DEF TypeOK
    <3> QED
      BY <3>1, <3>2, StepOwns
  <2>3. CASE HandleShutdown(c)
    BY <2>3, ProcessOwns DEF HandleShutdown
  <2> QED
    BY <1>5, <2>1, <2>2, <2>3 DEF Request
<1>6. CASE Crash
  BY <1>6, ProcessOwns DEF Crash
<1>7. CASE Start
  BY <1>7, OwnUnchanged DEF Start
<1> QED
  BY <1>1, <1>2, <1>5, <1>6, <1>7, SessionOwns, FinishOwns, ReaperStepOwns
     DEF Next, HandlerStep

LEMMA OwnInitially ==
  ASSUME Init
  PROVE  OwnInv
BY ConstantsOk
   DEF Init, InitSessions, All, OwnInv, RegisteredById, OwnedIsRemoved,
       SingleOwner, ShellIsOwned, SleeperIsIdle, HandlerOwns, ReaperOwns, Unused

\* The inductive invariant says what the two properties say of KillersOf.
LEMMA OwnersAreKillers ==
  ASSUME OwnInv
  PROVE  NoLeakedShell /\ OneKiller
<1>1. \A s \in Session, c \in Client : c \in KillersOf(s) <=> HandlerOwns(c, s)
  BY ConstantsOk DEF KillersOf, HandlerOwns
<1>2. \A s \in Session : None \in KillersOf(s) <=> ReaperOwns(s)
  BY ConstantsOk DEF KillersOf, ReaperOwns
<1>3. \A s \in Session : KillersOf(s) \subseteq Client \cup {None}
  BY DEF KillersOf
<1>4. NoLeakedShell
  <2>1. ASSUME NEW s \in Session, child[s] = "running"
        PROVE  s \in Registered \/ KillersOf(s) # {}
    <3>1. CASE s \in toKill
      BY <3>1, <1>2 DEF ReaperOwns
    <3>2. CASE \E c \in Client : held[c] = s /\ step[c] = "kill"
      BY <3>2, <1>1 DEF HandlerOwns
    <3> QED
      BY <2>1, <3>1, <3>2 DEF OwnInv, ShellIsOwned, Registered
  <2> QED
    BY <2>1 DEF NoLeakedShell
<1>5. ASSUME NEW s \in Session, NEW k \in KillersOf(s), NEW l \in KillersOf(s)
      PROVE  k = l
  BY <1>1, <1>2, <1>3 DEF OwnInv, SingleOwner
<1>6. ASSUME NEW s \in Session, KillersOf(s) # {}
      PROVE  s \notin Registered
  BY <1>1, <1>2, <1>3, <1>6 DEF OwnInv, OwnedIsRemoved, Registered
<1> QED
  BY <1>4, <1>5, <1>6 DEF OneKiller

\* No order of Spawn, Kill, sweep, shell exit, crash and restart leaves a running
\* shell that is neither in the registry nor about to be killed, and no session
\* has two killers or can be looked up while it has one.
THEOREM Ownership == Spec => [](NoLeakedShell /\ OneKiller)
<1>1. Init => TypeOK /\ OwnInv
  BY OwnInitially, TypeInitially
<1>2. TypeOK /\ OwnInv /\ [Next]_vars => (TypeOK /\ OwnInv)'
  BY TypeInductive, OwnInductive
<1>3. OwnInv => NoLeakedShell /\ OneKiller
  BY OwnersAreKillers
<1> QED
  BY <1>1, <1>2, <1>3, PTL DEF Spec

(***************************************************************************)
(* The reaper never takes a session somebody watches.                      *)
(***************************************************************************)
WatchInv == \A s \in Session : orphaned[s] \/ ReaperOwns(s) => subs[s] = {}

\* Subscribers only go, marks stay, and the reaper takes nothing more.
LEMMA WatchShrinks ==
  ASSUME WatchInv,
         \A s \in Session : subs'[s] \subseteq subs[s],
         \A s \in Session : orphaned'[s] => orphaned[s] \/ subs'[s] = {},
         \A s \in Session : ReaperOwns(s)' => ReaperOwns(s)
  PROVE  WatchInv'
BY DEF WatchInv

LEMMA SessionWatch ==
  ASSUME TypeOK, WatchInv, NEW s \in Session, SessionStep(s)
  PROVE  WatchInv'
<1> USE DEF fileVars, handlerVars, reaperVars
<1>0. \A t \in Session : ReaperOwns(t)' <=> ReaperOwns(t)
  BY DEF SessionStep, ReaperOwns
<1>1. CASE ReadChunk(s)
  <2>1. PICK left \in AfterBroadcast(s) :
          /\ subs' = [subs EXCEPT ![s] = left]
          /\ orphaned' = [orphaned EXCEPT ![s] = @ \/ left = {}]
    BY <1>1, Zenon DEF ReadChunk
  <2>2. left \subseteq subs[s]
    BY BroadcastOnlyDrops
  <2>3. \A t \in Session : subs'[t] = IF t = s THEN left ELSE subs[t]
    BY <2>1 DEF TypeOK
  <2>4. \A t \in Session : t # s => orphaned'[t] = orphaned[t]
    BY <2>1 DEF TypeOK
  <2>5. orphaned'[s] = (orphaned[s] \/ left = {})
    BY <2>1 DEF TypeOK
  <2>6. \A t \in Session : subs'[t] \subseteq subs[t]
    BY <2>2, <2>3
  <2>7. \A t \in Session : orphaned'[t] => orphaned[t] \/ subs'[t] = {}
    BY <2>3, <2>4, <2>5
  <2> QED
    BY <1>0, <2>6, <2>7, WatchShrinks
<1>2. CASE ReaderEof(s) \/ Tick(s)
  <2>1. PICK left \in AfterBroadcast(s) : subs' = [subs EXCEPT ![s] = left]
    BY <1>2 DEF ReaderEof, Tick, StateChange
  <2>2. orphaned' = orphaned
    BY <1>2 DEF ReaderEof, Tick, StateChange
  <2>3. \A t \in Session : subs'[t] \subseteq subs[t]
    BY <2>1, BroadcastOnlyDrops DEF TypeOK
  <2> QED
    BY <1>0, <2>2, <2>3, WatchShrinks
<1>3. CASE DumpWrite(s) \/ DumpFail(s) \/ DumpRename(s) \/ ShellExit(s)
  <2>1. UNCHANGED <<subs, orphaned>>
    BY <1>3 DEF DumpWrite, DumpFail, DumpRename, ShellExit
  <2> QED
    BY <1>0, <2>1, WatchShrinks
<1> QED
  BY <1>1, <1>2, <1>3 DEF SessionStep, SessionThread

\* Whoever is attached to is not in the reaper's hands.
LEMMA AttachWatch ==
  ASSUME TypeOK, WatchInv, NEW c \in Client, NEW s \in Session, Attach(c, s),
         ~ReaperOwns(s), UNCHANGED <<toKill, reaping>>
  PROVE  WatchInv'
<1>0. \A t \in Session : ReaperOwns(t)' <=> ReaperOwns(t)
  BY DEF ReaperOwns
<1>1. CASE UNCHANGED <<subs, orphaned>>
  BY <1>0, <1>1 DEF WatchInv
<1>2. CASE /\ subs' = [subs EXCEPT ![s] = @ \cup {c}]
           /\ orphaned' = [orphaned EXCEPT ![s] = FALSE]
  <2>1. orphaned'[s] = FALSE
    BY <1>2 DEF TypeOK
  <2>2. \A t \in Session : t # s => subs'[t] = subs[t] /\ orphaned'[t] = orphaned[t]
    BY <1>2 DEF TypeOK
  <2> QED
    BY <1>0, <2>1, <2>2 DEF WatchInv
<1> QED
  BY <1>1, <1>2, Zenon DEF Attach

LEMMA DetachWatch ==
  ASSUME TypeOK, WatchInv, NEW c \in Client, NEW S \in SUBSET Session, Detach(c, S),
         UNCHANGED <<toKill, reaping>>
  PROVE  WatchInv'
<1>1. \A s \in Session : subs'[s] = IF s \in S THEN subs[s] \ {c} ELSE subs[s]
  BY DEF Detach
<1>2. \A s \in Session : orphaned'[s] = (orphaned[s] \/ (s \in S /\ subs[s] \ {c} = {}))
  BY Zenon DEF Detach
<1>3. \A s \in Session : subs'[s] \subseteq subs[s]
  BY <1>1
<1>4. \A s \in Session : orphaned'[s] => orphaned[s] \/ subs'[s] = {}
  BY <1>1, <1>2
<1>5. \A s \in Session : ReaperOwns(s)' => ReaperOwns(s)
  BY DEF ReaperOwns
<1> QED
  BY <1>3, <1>4, <1>5, WatchShrinks

LEMMA RequestWatch ==
  ASSUME TypeOK, OwnInv, WatchInv, NEW c \in Client, Request(c)
  PROVE  WatchInv'
<1> USE DEF sessionVars, fileVars, handlerVars, reaperVars
<1>1. ASSUME NEW i \in Id, HandleSpawn(c, i)
      PROVE  WatchInv'
  <2>1. UNCHANGED <<toKill, reaping>>
    BY <1>1 DEF HandleSpawn
  <2>2. ASSUME NEW s \in Session, Attach(c, s), registry[i] = s \/ Unused(s)
        PROVE  WatchInv'
    <3>1. ~ReaperOwns(s)
      BY <2>2 DEF OwnInv, OwnedIsRemoved
    <3> QED
      BY <2>1, <2>2, <3>1, AttachWatch
  <2>3. ASSUME UNCHANGED <<subs, orphaned>>
        PROVE  WatchInv'
    BY <2>1, <2>3 DEF WatchInv, ReaperOwns
  <2> QED
    BY <1>1, <2>2, <2>3 DEF HandleSpawn
<1>2. ASSUME NEW i \in Id, HandleAttach(c, i)
      PROVE  WatchInv'
  <2>1. UNCHANGED <<toKill, reaping>>
    BY <1>2 DEF HandleAttach
  <2>2. ASSUME NEW s \in Session, Attach(c, s), registry[i] = s
        PROVE  WatchInv'
    <3>1. ~ReaperOwns(s)
      BY <2>2 DEF OwnInv, OwnedIsRemoved
    <3> QED
      BY <2>1, <2>2, <3>1, AttachWatch
  <2>3. ASSUME UNCHANGED <<subs, orphaned>>
        PROVE  WatchInv'
    BY <2>1, <2>3 DEF WatchInv, ReaperOwns
  <2> QED
    BY <1>2, <2>2, <2>3 DEF HandleAttach
<1>3. ASSUME NEW i \in Id, HandleInput(c, i)
      PROVE  WatchInv'
  <2>1. PICK s \in Session : \E left \in AfterBroadcast(s) : subs' = [subs EXCEPT ![s] = left]
    BY <1>3 DEF HandleInput, StateChange
  <2>2. \A t \in Session : subs'[t] \subseteq subs[t]
    BY <2>1, BroadcastOnlyDrops DEF TypeOK
  <2>3. UNCHANGED <<orphaned, toKill, reaping>>
    BY <1>3 DEF HandleInput, StateChange
  <2>4. \A t \in Session : ReaperOwns(t)' => ReaperOwns(t)
    BY <2>3 DEF ReaperOwns
  <2> QED
    BY <2>2, <2>3, <2>4, WatchShrinks
<1>4. ASSUME NEW i \in Id, HandleKill(c, i)
      PROVE  WatchInv'
  BY <1>4 DEF HandleKill, WatchInv, ReaperOwns
<1>5. ASSUME NEW i \in Id, HandleDetach(c, i)
      PROVE  WatchInv'
  <2>1. PICK s \in Session : Detach(c, {s})
    BY <1>5 DEF HandleDetach
  <2> QED
    BY <1>5, <2>1, DetachWatch DEF HandleDetach
<1>6. CASE HandleQuery(c)
  BY <1>6 DEF HandleQuery, WatchInv, ReaperOwns
<1>7. CASE HandleShutdown(c)
  BY <1>7 DEF HandleShutdown, ProcessExit, ForgetSessions, All, WatchInv, ReaperOwns
<1> QED
  BY <1>1, <1>2, <1>3, <1>4, <1>5, <1>6, <1>7 DEF Request

LEMMA ReaperWatch ==
  ASSUME TypeOK, OwnInv, WatchInv, ReaperStep
  PROVE  WatchInv'
<1> USE DEF sessionVars, fileVars, handlerVars
<1>1. CASE Sweep
  <2>1. reaping = None /\ UNCHANGED <<subs, orphaned, reaping>>
    BY <1>1, SweepTakes DEF OwnInv, SleeperIsIdle
  <2>2. \A s \in toKill' : subs[s] = {}
    BY <1>1, SweepTakes DEF WatchInv, Abandoned, Registered
  <2> QED
    BY <2>1, <2>2, ConstantsOk DEF WatchInv, ReaperOwns
<1>2. ASSUME NEW s \in Session, ReaperKills(s)
      PROVE  WatchInv'
  <2>1. /\ UNCHANGED <<subs, orphaned>>
        /\ s \in toKill /\ toKill' = toKill \ {s} /\ reaping' \in {s, None}
    BY <1>2 DEF ReaperKills, KillBegin
  <2> QED
    BY <2>1, ConstantsOk DEF WatchInv, ReaperOwns
<1>3. CASE ReaperUnlinks
  BY <1>3, ConstantsOk DEF ReaperUnlinks, KillEnd, WatchInv, ReaperOwns
<1>4. CASE ReaperSleeps
  BY <1>4 DEF ReaperSleeps, WatchInv, ReaperOwns
<1>5. CASE ReaperExits
  BY <1>5 DEF ReaperExits, ProcessExit, ForgetSessions, All, WatchInv, ReaperOwns
<1> QED
  BY <1>1, <1>2, <1>3, <1>4, <1>5 DEF ReaperStep

LEMMA WatchInductive ==
  ASSUME TypeOK, OwnInv, WatchInv, [Next]_vars
  PROVE  WatchInv'
<1> USE DEF sessionVars, fileVars, handlerVars, reaperVars
<1>1. CASE UNCHANGED vars
  BY <1>1 DEF vars, WatchInv, ReaperOwns
<1>2. ASSUME NEW c \in Client, HandlerEof(c)
      PROVE  WatchInv'
  <2>1. Registered \in SUBSET Session
    BY DEF Registered
  <2> QED
    BY <1>2, <2>1, DetachWatch DEF HandlerEof
<1>3. ASSUME NEW c \in Client,
             \/ Connect(c) \/ PeerGone(c) \/ HandlerError(c) \/ ChannelClosed(c)
             \/ ReadPid(c) \/ SendReply(c) \/ HandlerKills(c) \/ HandlerUnlinks(c)
      PROVE  WatchInv'
  <2>1. UNCHANGED <<subs, orphaned, toKill, reaping>>
    BY <1>3 DEF Connect, PeerGone, HandlerError, ChannelClosed, ReadPid, SendReply,
                HandlerKills, HandlerUnlinks, KillBegin, KillEnd
  <2> QED
    BY <2>1 DEF WatchInv, ReaperOwns
<1>4. CASE Crash
  BY <1>4 DEF Crash, ProcessExit, ForgetSessions, All, WatchInv, ReaperOwns
<1>5. CASE Start
  BY <1>5 DEF Start, WatchInv, ReaperOwns
<1> QED
  BY <1>1, <1>2, <1>3, <1>4, <1>5, SessionWatch, RequestWatch, ReaperWatch
     DEF Next, HandlerStep

\* detached_at is a promise: whoever carries it, and whoever the reaper has taken,
\* has no subscriber, in every order of attach, drop, detach and sweep.
THEOREM ReaperSparesWatched == Spec => []ReaperTakesUnwatched
<1>1. Init => TypeOK /\ OwnInv /\ WatchInv
  BY OwnInitially, TypeInitially DEF Init, InitSessions, All, WatchInv
<1>2. TypeOK /\ OwnInv /\ WatchInv /\ [Next]_vars => (TypeOK /\ OwnInv /\ WatchInv)'
  BY TypeInductive, OwnInductive, WatchInductive
<1>3. WatchInv => ReaperTakesUnwatched
  BY DEF WatchInv, ReaperTakesUnwatched, ReaperOwns
<1> QED
  BY <1>1, <1>2, <1>3, PTL DEF Spec

(***************************************************************************)
(* What a crash loses.                                                     *)
(***************************************************************************)
\* The position a session's output has reached in its file, when it is its own.
Keeps(s) == ~Unused(s) /\ persist[s] /\ OnlyUseOfId(s)

FileLags(s, upto) == ring[s] = Preloaded(idOf[s]) + upto

FileIsNear(s) == ring[s] < Preloaded(idOf[s]) + DumpThreshold + ReadMax

\* What since_dump counts is what the file lacks, except while a dump is on its
\* way; the dump then holds all of the ring, in memory or in <id>.tmp.
SavedAt(s) ==
  \/ /\ reader[s] \in {"read", "lastWrite"}
     /\ FileLags(s, sinceDump[s]) /\ sinceDump[s] < DumpThreshold
     /\ reader[s] = "lastWrite" => dump[s] = ring[s]
  \/ /\ reader[s] = "write"
     /\ dump[s] = ring[s] /\ sinceDump[s] = 0 /\ FileIsNear(s)
  \/ /\ reader[s] \in {"rename", "lastRename"}
     /\ tmp[idOf[s]] = ring[s] /\ FileIsNear(s)
     /\ reader[s] = "rename" => sinceDump[s] = 0
  \/ reader[s] = "done" /\ FileLags(s, 0)

\* An object that is not in use has no reader and has counted nothing.
FreshUntouched ==
  \A s \in Session : Unused(s) => reader[s] = "none" /\ sinceDump[s] = 0

\* Whoever is about to unlink <id>.tmp has taken the persist path before.
UnlinkerHasKilled ==
  \A s \in Session :
    reaping = s \/ (\E c \in Client : held[c] = s /\ step[c] = "unlink") => ~persist[s]

SavedInv ==
  /\ FreshUntouched
  /\ UnlinkerHasKilled
  /\ \A s \in Session : Keeps(s) => SavedAt(s)

\* A session is as it was when neither it nor the files of its id have changed.
LEMMA SavedUnchanged ==
  ASSUME TypeOK, NEW s \in Session, Keeps(s) => SavedAt(s),
         Keeps(s)' => Keeps(s),
         idOf'[s] = idOf[s], ring'[s] = ring[s], sinceDump'[s] = sinceDump[s],
         reader'[s] = reader[s], dump'[s] = dump[s],
         Keeps(s)' => buf'[idOf[s]] = buf[idOf[s]] /\ tmp'[idOf[s]] = tmp[idOf[s]]
  PROVE  (Keeps(s) => SavedAt(s))'
BY DEF SavedAt, FileLags, FileIsNear, Preloaded

\* The files of another id are not those of a session that is alone with its id.
LEMMA OthersHaveOtherIds ==
  ASSUME NEW s \in Session, NEW t \in Session, s # t, Keeps(s)
  PROVE  idOf[t] # idOf[s]
BY DEF Keeps, OnlyUseOfId

\* Only the two ways of killing a session make an unlinker.
LEMMA UnlinkersStay ==
  ASSUME UnlinkerHasKilled,
         \A s \in Session : persist'[s] => persist[s],
         \A s \in Session : reaping' = s => reaping = s,
         \A c \in Client : step'[c] = "unlink" => step[c] = "unlink" /\ held'[c] = held[c]
  PROVE  UnlinkerHasKilled'
BY DEF UnlinkerHasKilled

\* Most steps write neither the ring nor a file.
LEMMA SavedElsewhere ==
  ASSUME TypeOK, SavedInv, UNCHANGED <<idOf, ring, sinceDump, reader, dump, buf, tmp>>,
         \A s \in Session : persist'[s] => persist[s],
         UnlinkerHasKilled'
  PROVE  SavedInv'
<1>1. FreshUntouched'
  BY DEF SavedInv, FreshUntouched, Unused
<1>2. ASSUME NEW s \in Session
      PROVE  (Keeps(s) => SavedAt(s))'
  <2>1. Keeps(s)' => Keeps(s)
    BY DEF Keeps, OnlyUseOfId, Unused
  <2> QED
    BY <2>1, SavedUnchanged DEF SavedInv
<1> QED
  BY <1>1, <1>2 DEF SavedInv

\* A step of session s that leaves the files of the other ids alone.
LEMMA SavedOthers ==
  ASSUME TypeOK, SavedInv, NEW s \in Session, NEW t \in Session, t # s,
         idOf' = idOf, persist'[t] => persist[t],
         ring'[t] = ring[t], sinceDump'[t] = sinceDump[t],
         reader'[t] = reader[t], dump'[t] = dump[t],
         \A i \in Id : i # idOf[s] => buf'[i] = buf[i] /\ tmp'[i] = tmp[i]
  PROVE  (Keeps(t) => SavedAt(t))'
<1>1. Keeps(t)' => Keeps(t)
  BY DEF Keeps, OnlyUseOfId, Unused
<1>2. Keeps(t) => idOf[t] \in Id /\ idOf[t] # idOf[s]
  BY OthersHaveOtherIds DEF TypeOK, Keeps, Unused
<1> QED
  BY <1>1, <1>2, SavedUnchanged DEF SavedInv

\* The reader: what it counts and what it hands to dump_to.
LEMMA ReadChunkSaves ==
  ASSUME TypeOK, SavedInv, NEW s \in Session, ReadChunk(s)
  PROVE  \A t \in Session : (Keeps(t) => SavedAt(t))'
<1>1. PICK n \in 1..ReadMax, left \in AfterBroadcast(s) :
        LET due == persist[s] /\ SinceDump(s, n) >= DumpThreshold
        IN  /\ ring' = [ring EXCEPT ![s] = ring[s] + n]
            /\ subs' = [subs EXCEPT ![s] = left]
            /\ orphaned' = [orphaned EXCEPT ![s] = @ \/ left = {}]
            /\ sinceDump' = [sinceDump EXCEPT ![s] =
                                IF due THEN 0 ELSE SinceDump(s, n)]
            /\ dump' = [dump EXCEPT ![s] = IF due THEN ring[s] + n ELSE @]
            /\ reader' = [reader EXCEPT ![s] = IF due THEN "write" ELSE "read"]
  BY Zenon DEF ReadChunk
<1>2. reader[s] = "read" /\ UNCHANGED <<idOf, persist, buf, tmp>>
  BY DEF ReadChunk, fileVars
<1>3. ASSUME NEW t \in Session, t # s
      PROVE  (Keeps(t) => SavedAt(t))'
  <2>1. /\ ring'[t] = ring[t] /\ sinceDump'[t] = sinceDump[t]
        /\ reader'[t] = reader[t] /\ dump'[t] = dump[t]
    BY <1>1, <1>3 DEF TypeOK
  <2> QED
    BY <1>2, <1>3, <2>1, SavedOthers
<1>4. ASSUME Keeps(s)'
      PROVE  SavedAt(s)'
  <2>1. Keeps(s) /\ persist[s]
    BY <1>2, <1>4 DEF Keeps, OnlyUseOfId, Unused
  <2>2. FileLags(s, sinceDump[s]) /\ sinceDump[s] < DumpThreshold
    BY <1>2, <2>1 DEF SavedInv, SavedAt
  <2>3. SinceDump(s, n) = sinceDump[s] + n
    BY <2>1 DEF SinceDump
  <2>4. idOf[s] \in Id /\ Preloaded(idOf[s]) \in Nat /\ Preloaded(idOf[s])' = Preloaded(idOf[s])
    BY <1>2, <2>1, PreloadedIsPosition DEF TypeOK, Keeps, Unused, Preloaded
  <2>5. ring'[s] = ring[s] + n /\ ring[s] \in Nat /\ sinceDump[s] \in Nat
    BY <1>1 DEF TypeOK
  <2>6. CASE sinceDump[s] + n >= DumpThreshold
    <3>1. reader'[s] = "write" /\ dump'[s] = ring'[s] /\ sinceDump'[s] = 0
      BY <1>1, <2>1, <2>3, <2>5, <2>6 DEF TypeOK
    <3>2. FileIsNear(s)'
      BY <2>2, <2>4, <2>5, ConstantsOk, <1>2 DEF FileLags, FileIsNear
    <3> QED
      BY <3>1, <3>2 DEF SavedAt
  <2>7. CASE ~(sinceDump[s] + n >= DumpThreshold)
    <3>1. reader'[s] = "read" /\ sinceDump'[s] = sinceDump[s] + n
      BY <1>1, <2>1, <2>3, <2>7 DEF TypeOK
    <3>2. FileLags(s, sinceDump[s])'
      BY <2>2, <2>4, <2>5, <3>1, <1>2 DEF FileLags
    <3>3. sinceDump'[s] < DumpThreshold
      BY <2>5, <2>7, <3>1, ConstantsOk
    <3> QED
      BY <3>1, <3>2, <3>3 DEF SavedAt
  <2> QED
    BY <2>6, <2>7
<1> QED
  BY <1>3, <1>4

LEMMA ReaderEofSaves ==
  ASSUME TypeOK, SavedInv, NEW s \in Session, ReaderEof(s)
  PROVE  \A t \in Session : (Keeps(t) => SavedAt(t))'
<1>1. /\ reader[s] = "read"
      /\ dump' = [dump EXCEPT ![s] = IF persist[s] THEN ring[s] ELSE @]
      /\ reader' = [reader EXCEPT ![s] = IF persist[s] THEN "lastWrite" ELSE "done"]
      /\ UNCHANGED <<idOf, ring, persist, sinceDump, buf, tmp>>
  BY DEF ReaderEof, fileVars
<1>2. ASSUME NEW t \in Session, t # s
      PROVE  (Keeps(t) => SavedAt(t))'
  <2>1. reader'[t] = reader[t] /\ dump'[t] = dump[t]
    BY <1>1, <1>2 DEF TypeOK
  <2> QED
    BY <1>1, <1>2, <2>1, SavedOthers
<1>3. ASSUME Keeps(s)'
      PROVE  SavedAt(s)'
  <2>1. Keeps(s) /\ persist[s]
    BY <1>1, <1>3 DEF Keeps, OnlyUseOfId, Unused
  <2>2. reader'[s] = "lastWrite" /\ dump'[s] = ring[s]
    BY <1>1, <2>1 DEF TypeOK
  <2>3. FileLags(s, sinceDump[s]) /\ sinceDump[s] < DumpThreshold
    BY <1>1, <2>1 DEF SavedInv, SavedAt
  <2>4. FileLags(s, sinceDump[s])' /\ sinceDump'[s] < DumpThreshold
    BY <1>1, <2>3 DEF FileLags, Preloaded
  <2> QED
    BY <1>1, <2>2, <2>4 DEF SavedAt
<1> QED
  BY <1>2, <1>3

LEMMA DumpWriteSaves ==
  ASSUME TypeOK, SavedInv, NEW s \in Session, DumpWrite(s)
  PROVE  \A t \in Session : (Keeps(t) => SavedAt(t))'
<1>1. /\ reader[s] \in {"write", "lastWrite"}
      /\ tmp' = [tmp EXCEPT ![idOf[s]] = dump[s]]
      /\ dump' = [dump EXCEPT ![s] = 0]
      /\ reader' = [reader EXCEPT ![s] = IF @ = "write" THEN "rename" ELSE "lastRename"]
      /\ UNCHANGED <<idOf, ring, persist, sinceDump, buf>>
  BY DEF DumpWrite
<1>2. ASSUME NEW t \in Session, t # s
      PROVE  (Keeps(t) => SavedAt(t))'
  <2>1. reader'[t] = reader[t] /\ dump'[t] = dump[t]
    BY <1>1, <1>2 DEF TypeOK
  <2>2. \A i \in Id : i # idOf[s] => buf'[i] = buf[i] /\ tmp'[i] = tmp[i]
    BY <1>1 DEF TypeOK
  <2> QED
    BY <1>1, <1>2, <2>1, <2>2, SavedOthers
<1>3. ASSUME Keeps(s)'
      PROVE  SavedAt(s)'
  <2>1. Keeps(s) /\ idOf[s] \in Id
    BY <1>1, <1>3 DEF Keeps, OnlyUseOfId, Unused, TypeOK
  <2>2. tmp'[idOf[s]] = dump[s]
    BY <1>1, <2>1 DEF TypeOK
  <2>3. Preloaded(idOf[s]) \in Nat /\ ring[s] \in Nat /\ sinceDump[s] \in Nat
    BY <2>1, PreloadedIsPosition DEF TypeOK
  <2>4. /\ dump[s] = ring[s] /\ FileIsNear(s)
        /\ reader[s] = "write" => sinceDump[s] = 0
    <3>1. CASE reader[s] = "write"
      BY <2>1, <3>1 DEF SavedInv, SavedAt
    <3>2. CASE reader[s] = "lastWrite"
      <4>1. /\ dump[s] = ring[s]
            /\ FileLags(s, sinceDump[s]) /\ sinceDump[s] < DumpThreshold
        BY <2>1, <3>2 DEF SavedInv, SavedAt
      <4>2. FileIsNear(s)
        BY <2>3, <4>1, ConstantsOk DEF FileLags, FileIsNear
      <4> QED
        BY <3>2, <4>1, <4>2
    <3> QED
      BY <1>1, <3>1, <3>2
  <2>5. FileIsNear(s)'
    BY <1>1, <2>4 DEF FileIsNear, Preloaded
  <2>6. \/ reader[s] = "write" /\ reader'[s] = "rename"
        \/ reader[s] = "lastWrite" /\ reader'[s] = "lastRename"
    BY <1>1 DEF TypeOK
  <2> QED
    BY <1>1, <2>2, <2>4, <2>5, <2>6 DEF SavedAt
<1> QED
  BY <1>2, <1>3

LEMMA DumpRenameSaves ==
  ASSUME TypeOK, SavedInv, NEW s \in Session, DumpRename(s)
  PROVE  \A t \in Session : (Keeps(t) => SavedAt(t))'
<1>1. /\ reader[s] \in {"rename", "lastRename"}
      /\ reader' = [reader EXCEPT ![s] = IF @ = "rename" THEN "read" ELSE "done"]
      /\ UNCHANGED <<idOf, ring, persist, sinceDump, dump>>
      /\ \/ tmp[idOf[s]] = None /\ UNCHANGED <<buf, tmp>>
         \/ /\ buf' = [buf EXCEPT ![idOf[s]] = tmp[idOf[s]]]
            /\ tmp' = [tmp EXCEPT ![idOf[s]] = None]
  BY DEF DumpRename, fileVars
<1>2. ASSUME NEW t \in Session, t # s
      PROVE  (Keeps(t) => SavedAt(t))'
  <2>1. reader'[t] = reader[t]
    BY <1>1, <1>2 DEF TypeOK
  <2>2. \A i \in Id : i # idOf[s] => buf'[i] = buf[i] /\ tmp'[i] = tmp[i]
    BY <1>1 DEF TypeOK
  <2> QED
    BY <1>1, <1>2, <2>1, <2>2, SavedOthers
<1>3. ASSUME Keeps(s)'
      PROVE  SavedAt(s)'
  <2>1. Keeps(s) /\ idOf[s] \in Id /\ ring[s] \in Nat
    BY <1>1, <1>3 DEF Keeps, OnlyUseOfId, Unused, TypeOK
  <2>2. tmp[idOf[s]] = ring[s] /\ (reader[s] = "rename" => sinceDump[s] = 0)
    BY <1>1, <2>1 DEF SavedInv, SavedAt
  <2>3. buf'[idOf[s]] = ring[s]
    BY <1>1, <2>1, <2>2, ConstantsOk DEF TypeOK
  <2>4. FileLags(s, 0)'
    BY <1>1, <2>1, <2>3, ConstantsOk DEF FileLags, Preloaded
  <2>5. \/ reader[s] = "rename" /\ reader'[s] = "read"
        \/ reader[s] = "lastRename" /\ reader'[s] = "done"
    BY <1>1 DEF TypeOK
  <2> QED
    BY <1>1, <2>2, <2>4, <2>5, ConstantsOk DEF SavedAt
<1> QED
  BY <1>2, <1>3

\* A session's own threads.  A dump that cannot be written is left out: since_dump
\* has been reset by then, and the file stays behind by more than the bound.
LEMMA SessionSaves ==
  ASSUME TypeOK, SavedInv, "disk" \notin Faults, NEW s \in Session, SessionStep(s)
  PROVE  SavedInv'
<1> USE DEF fileVars, handlerVars, reaperVars
<1>1. /\ UNCHANGED <<idOf, persist, held, step, reaping>>
      /\ ~DumpFail(s)
  BY DEF SessionStep, SessionThread, ReadChunk, ReaderEof, DumpWrite, DumpFail,
         DumpRename, ShellExit, Tick, StateChange
<1>2. UnlinkerHasKilled'
  BY <1>1, UnlinkersStay DEF SavedInv
<1>3. CASE ShellExit(s) \/ Tick(s)
  BY <1>1, <1>2, <1>3, SavedElsewhere DEF ShellExit, Tick, StateChange
<1>4. CASE ReadChunk(s) \/ ReaderEof(s) \/ DumpWrite(s) \/ DumpRename(s)
  <2>1. reader[s] # "none" /\ ~Unused(s)
    BY <1>4 DEF ReadChunk, ReaderEof, DumpWrite, DumpRename, SavedInv, FreshUntouched
  <2>2. \A t \in Session : t # s => reader'[t] = reader[t] /\ sinceDump'[t] = sinceDump[t]
    BY <1>4 DEF ReadChunk, ReaderEof, DumpWrite, DumpRename, TypeOK
  <2>3. FreshUntouched'
    BY <1>1, <2>1, <2>2 DEF SavedInv, FreshUntouched, Unused
  <2>4. \A t \in Session : (Keeps(t) => SavedAt(t))'
    BY <1>4, ReadChunkSaves, ReaderEofSaves, DumpWriteSaves, DumpRenameSaves
  <2> QED
    BY <1>2, <2>3, <2>4 DEF SavedInv
<1> QED
  BY <1>1, <1>3, <1>4 DEF SessionStep, SessionThread

\* A new session starts with what its file holds.
LEMMA SpawnSaves ==
  ASSUME TypeOK, SavedInv, NEW c \in Client, NEW i \in Id, HandleSpawn(c, i)
  PROVE  SavedInv'
<1>1. /\ UNCHANGED <<persist, sinceDump, dump, buf, tmp, reaping>>
      /\ step' = [step EXCEPT ![c] = "pid"]
      /\ \E x \in Session \cup {None} : held' = [held EXCEPT ![c] = x]
  BY DEF HandleSpawn, fileVars, reaperVars
<1>2. UnlinkerHasKilled'
  <2>1. \A d \in Client : step'[d] = "unlink" => step[d] = "unlink" /\ held'[d] = held[d]
    BY <1>1 DEF TypeOK
  <2> QED
    BY <1>1, <2>1, UnlinkersStay DEF SavedInv
<1>3. CASE UNCHANGED <<idOf, ring, reader>>
  BY <1>1, <1>2, <1>3, SavedElsewhere
<1>4. ASSUME NEW s \in Session, Unused(s),
             idOf' = [idOf EXCEPT ![s] = i],
             ring' = [ring EXCEPT ![s] = Preloaded(i)],
             reader' = [reader EXCEPT ![s] = "read"]
      PROVE  SavedInv'
  <2>1. idOf'[s] = i /\ ring'[s] = Preloaded(i) /\ reader'[s] = "read" /\ sinceDump'[s] = 0
    BY <1>1, <1>4 DEF TypeOK, SavedInv, FreshUntouched
  <2>2. \A t \in Session : t # s =>
          idOf'[t] = idOf[t] /\ ring'[t] = ring[t] /\ reader'[t] = reader[t]
    BY <1>4 DEF TypeOK
  <2>3. FreshUntouched'
    BY <1>1, <2>1, <2>2, ConstantsOk DEF SavedInv, FreshUntouched, Unused
  <2>4. SavedAt(s)'
    <3>1. Preloaded(i) \in Nat /\ Preloaded(i)' = Preloaded(i)
      BY <1>1, PreloadedIsPosition DEF Preloaded
    <3> QED
      BY <2>1, <3>1, ConstantsOk DEF SavedAt, FileLags
  <2>5. ASSUME NEW t \in Session, t # s
        PROVE  (Keeps(t) => SavedAt(t))'
    <3>1. Keeps(t)' => Keeps(t)
      <4>1. ASSUME Keeps(t)', NEW u \in Session \ {t}
            PROVE  idOf[u] # idOf[t]
        BY <4>1, <2>2, <2>5, <1>4 DEF Keeps, OnlyUseOfId, Unused
      <4> QED
        BY <4>1, <1>1, <2>2, <2>5 DEF Keeps, OnlyUseOfId, Unused
    <3> QED
      BY <1>1, <2>2, <2>5, <3>1, SavedUnchanged DEF SavedInv
  <2> QED
    BY <1>2, <2>3, <2>4, <2>5 DEF SavedInv
<1> QED
  BY <1>3, <1>4 DEF HandleSpawn

\* Both halves of a kill touch the files of their own id only, the second one
\* after the persist path has been taken.
LEMMA KillSaves ==
  ASSUME TypeOK, SavedInv, NEW s \in Session,
         KillBegin(s) \/ (KillEnd(s) /\ ~persist[s]), UnlinkerHasKilled'
  PROVE  SavedInv'
<1>1. /\ UNCHANGED <<idOf, ring, sinceDump, reader, dump>>
      /\ ~persist'[s]
      /\ \A t \in Session : persist'[t] => persist[t]
      /\ \A i \in Id : i # idOf[s] => buf'[i] = buf[i] /\ tmp'[i] = tmp[i]
  BY DEF KillBegin, KillEnd, sessionVars, TypeOK
<1>2. FreshUntouched'
  BY <1>1 DEF SavedInv, FreshUntouched, Unused
<1>3. \A t \in Session : (Keeps(t) => SavedAt(t))'
  <2>1. ~Keeps(s)'
    BY <1>1 DEF Keeps
  <2>2. ASSUME NEW t \in Session, t # s
        PROVE  (Keeps(t) => SavedAt(t))'
    BY <1>1, <2>2, SavedOthers
  <2> QED
    BY <2>1, <2>2
<1> QED
  BY <1>2, <1>3 DEF SavedInv

LEMMA HandlerSaves ==
  ASSUME TypeOK, SavedInv, NEW c \in Client, HandlerKills(c) \/ HandlerUnlinks(c)
  PROVE  SavedInv'
<1>1. CASE HandlerKills(c)
  <2>1. PICK s \in Session :
          /\ held[c] = s
          /\ KillBegin(s)
          /\ step' = [step EXCEPT ![c] = IF persist[s] THEN "unlink" ELSE "send"]
          /\ held' = [held EXCEPT ![c] = IF persist[s] THEN s ELSE None]
    BY <1>1 DEF HandlerKills
  <2>2. persist' = [persist EXCEPT ![s] = FALSE] /\ reaping' = reaping
    BY <1>1, <2>1 DEF KillBegin, HandlerKills, reaperVars
  <2>3. ~persist'[s] /\ \A t \in Session : persist'[t] => persist[t]
    BY <2>2 DEF TypeOK
  <2>4. \A d \in Client : d # c => step'[d] = step[d] /\ held'[d] = held[d]
    BY <2>1 DEF TypeOK
  <2>5. step'[c] = "unlink" => held'[c] = s
    BY <2>1 DEF TypeOK
  <2>6. UnlinkerHasKilled'
    BY <2>2, <2>3, <2>4, <2>5 DEF SavedInv, UnlinkerHasKilled
  <2> QED
    BY <2>1, <2>6, KillSaves
<1>2. CASE HandlerUnlinks(c)
  <2>1. PICK s \in Session : held[c] = s /\ KillEnd(s)
    BY <1>2 DEF HandlerUnlinks
  <2>2. ~persist[s]
    BY <1>2, <2>1 DEF HandlerUnlinks, SavedInv, UnlinkerHasKilled
  <2>3. UnlinkerHasKilled'
    <3>1. \A d \in Client : step'[d] = "unlink" => step[d] = "unlink" /\ held'[d] = held[d]
      BY <1>2 DEF HandlerUnlinks, TypeOK
    <3>2. UNCHANGED <<persist, reaping>>
      BY <1>2, <2>1 DEF HandlerUnlinks, KillEnd, sessionVars, reaperVars
    <3> QED
      BY <3>1, <3>2, UnlinkersStay DEF SavedInv
  <2> QED
    BY <2>1, <2>2, <2>3, KillSaves
<1> QED
  BY <1>1, <1>2

\* The end of the process: no session is left to keep anything.
LEMMA ProcessSaves ==
  ASSUME TypeOK, ProcessExit
  PROVE  SavedInv'
<1>1. \A s \in Session : /\ Unused(s)'
                         /\ reader'[s] = "none" /\ sinceDump'[s] = 0
  BY DEF ProcessExit, ForgetSessions, All, Unused
<1>2. UnlinkerHasKilled'
  BY ConstantsOk DEF ProcessExit, UnlinkerHasKilled
<1> QED
  BY <1>1, <1>2 DEF SavedInv, FreshUntouched, Keeps

LEMMA ReaperSaves ==
  ASSUME TypeOK, SavedInv, ReaperStep
  PROVE  SavedInv'
<1> USE DEF sessionVars, fileVars, handlerVars
<1>1. CASE Sweep \/ ReaperSleeps
  <2>1. UNCHANGED <<sessionVars, fileVars, step, held, reaping>>
    BY <1>1 DEF Sweep, ReaperSleeps
  <2>2. UnlinkerHasKilled'
    BY <2>1, UnlinkersStay DEF SavedInv
  <2> QED
    BY <2>1, <2>2, SavedElsewhere
<1>2. ASSUME NEW s \in Session, ReaperKills(s)
      PROVE  SavedInv'
  <2>1. /\ persist' = [persist EXCEPT ![s] = FALSE]
        /\ reaping' = IF persist[s] THEN s ELSE None
        /\ UNCHANGED <<step, held>>
    BY <1>2 DEF ReaperKills, KillBegin
  <2>2. ~persist'[s] /\ \A t \in Session : persist'[t] => persist[t]
    BY <2>1 DEF TypeOK
  <2>3. UnlinkerHasKilled'
    BY <2>1, <2>2, ConstantsOk DEF SavedInv, UnlinkerHasKilled
  <2> QED
    BY <1>2, <2>3, KillSaves DEF ReaperKills
<1>3. CASE ReaperUnlinks
  <2>1. PICK s \in Session : reaping = s /\ KillEnd(s)
    BY <1>3 DEF ReaperUnlinks
  <2>2. ~persist[s]
    BY <2>1 DEF SavedInv, UnlinkerHasKilled
  <2>3. UnlinkerHasKilled'
    BY <1>3, <2>1, ConstantsOk, UnlinkersStay DEF ReaperUnlinks, KillEnd, SavedInv
  <2> QED
    BY <2>1, <2>2, <2>3, KillSaves
<1>4. CASE ReaperExits
  BY <1>4, ProcessSaves DEF ReaperExits
<1> QED
  BY <1>1, <1>2, <1>3, <1>4 DEF ReaperStep

LEMMA SavedInductive ==
  ASSUME TypeOK, SavedInv, "disk" \notin Faults, [Next]_vars
  PROVE  SavedInv'
<1> USE DEF sessionVars, fileVars, handlerVars, reaperVars
<1>1. ASSUME UNCHANGED <<idOf, ring, sinceDump, reader, dump, buf, tmp, persist, reaping>>,
             \A c \in Client :
               step'[c] = "unlink" => step[c] = "unlink" /\ held'[c] = held[c]
      PROVE  SavedInv'
  <2>1. UnlinkerHasKilled'
    BY <1>1, UnlinkersStay DEF SavedInv
  <2> QED
    BY <1>1, <2>1, SavedElsewhere
<1>2. CASE UNCHANGED vars \/ Start
  BY <1>1, <1>2 DEF vars, Start
<1>3. ASSUME NEW c \in Client,
             \/ Connect(c) \/ PeerGone(c) \/ HandlerEof(c) \/ HandlerError(c)
             \/ ChannelClosed(c)
      PROVE  SavedInv'
  BY <1>1, <1>3 DEF Connect, PeerGone, HandlerEof, HandlerError, ChannelClosed
<1>4. ASSUME NEW c \in Client, ReadPid(c) \/ SendReply(c)
      PROVE  SavedInv'
  <2>1. \A d \in Client : step'[d] = "unlink" => step[d] = "unlink" /\ held'[d] = held[d]
    BY <1>4 DEF ReadPid, SendReply, TypeOK
  <2> QED
    BY <1>1, <1>4, <2>1 DEF ReadPid, SendReply
<1>5. ASSUME NEW c \in Client, NEW i \in Id,
             \/ HandleAttach(c, i) \/ HandleInput(c, i) \/ HandleKill(c, i)
             \/ HandleDetach(c, i) \/ HandleQuery(c)
      PROVE  SavedInv'
  <2>1. \A d \in Client : step'[d] = "unlink" => step[d] = "unlink" /\ held'[d] = held[d]
    BY <1>5 DEF HandleAttach, HandleInput, HandleKill, HandleDetach, HandleQuery,
                StateChange, TypeOK
  <2> QED
    BY <1>1, <1>5, <2>1
       DEF HandleAttach, HandleInput, HandleKill, HandleDetach, HandleQuery, StateChange
<1>6. ASSUME NEW c \in Client, Request(c)
      PROVE  SavedInv'
  <2>1. CASE HandleQuery(c)
    BY <1>1, <2>1 DEF HandleQuery, TypeOK
  <2>2. CASE HandleShutdown(c)
    BY <2>2, ProcessSaves DEF HandleShutdown
  <2> QED
    BY <1>5, <1>6, <2>1, <2>2, SpawnSaves DEF Request
<1>7. CASE Crash
  BY <1>7, ProcessSaves DEF Crash
<1> QED
  BY <1>2, <1>3, <1>4, <1>6, <1>7, SessionSaves, HandlerSaves, ReaperSaves
     DEF Next, HandlerStep

\* What the reader has counted bounds what the file lacks.
LEMMA SavedBounds ==
  ASSUME TypeOK, SavedInv
  PROVE  CrashLossBounded
<1>1. SUFFICES ASSUME NEW s \in Session, Keeps(s)
               PROVE  Unsaved(s) < DumpThreshold + ReadMax
  BY DEF CrashLossBounded, Keeps
<1>2. /\ Preloaded(idOf[s]) \in Nat /\ ring[s] \in Nat /\ sinceDump[s] \in Nat
      /\ DumpThreshold \in Nat \ {0} /\ ReadMax \in Nat \ {0}
  BY <1>1, PreloadedIsPosition, ConstantsOk DEF TypeOK, Keeps, Unused
<1>3. CASE FileIsNear(s)
  BY <1>2, <1>3 DEF FileIsNear, Unsaved
<1>4. CASE FileLags(s, sinceDump[s]) /\ sinceDump[s] < DumpThreshold
  BY <1>2, <1>4 DEF FileLags, Unsaved
<1>5. CASE FileLags(s, 0)
  BY <1>2, <1>5 DEF FileLags, Unsaved
<1> QED
  BY <1>1, <1>3, <1>4, <1>5 DEF SavedInv, SavedAt

LEMMA SavedInitially ==
  ASSUME Init
  PROVE  SavedInv
<1>1. \A s \in Session : Unused(s) /\ reader[s] = "none" /\ sinceDump[s] = 0
  BY DEF Init, InitSessions, All, Unused
<1>2. UnlinkerHasKilled
  BY ConstantsOk DEF Init, UnlinkerHasKilled
<1> QED
  BY <1>1, <1>2 DEF SavedInv, FreshUntouched, Keeps

\* As long as every dump can be written, a crash at any moment loses less than
\* DUMP_THRESHOLD plus one read of a session that still persists and is the first
\* of its id: through reads, dumps half done, kills, restarts and leftover files.
THEOREM CrashLoses == "disk" \notin Faults => (Spec => []CrashLossBounded)
<1>1. ASSUME "disk" \notin Faults
      PROVE  Spec => []CrashLossBounded
  <2>1. Init => TypeOK /\ SavedInv
    BY TypeInitially, SavedInitially
  <2>2. TypeOK /\ SavedInv /\ [Next]_vars => (TypeOK /\ SavedInv)'
    BY <1>1, TypeInductive, SavedInductive
  <2>3. TypeOK /\ SavedInv => CrashLossBounded
    BY SavedBounds
  <2> QED
    BY <2>1, <2>2, <2>3, PTL DEF Spec
<1> QED
  BY <1>1

(***************************************************************************)
(* Nobody is left running without a mark, as long as no queue overflows.   *)
(***************************************************************************)
MarkInv == \A s \in Session : alive[s] /\ subs[s] = {} => orphaned[s]

\* Without a full queue a broadcast loses nobody.
LEMMA BroadcastKeepsAll ==
  ASSUME "slow" \notin Faults, NEW s \in Session, NEW left \in AfterBroadcast(s)
  PROVE  left = subs[s]
BY DEF AfterBroadcast

LEMMA SessionMarks ==
  ASSUME TypeOK, MarkInv, "slow" \notin Faults, NEW s \in Session, SessionStep(s)
  PROVE  MarkInv'
<1>1. CASE ReadChunk(s)
  <2>1. PICK left \in AfterBroadcast(s) :
          /\ subs' = [subs EXCEPT ![s] = left]
          /\ orphaned' = [orphaned EXCEPT ![s] = @ \/ left = {}]
    BY <1>1, Zenon DEF ReadChunk
  <2>2. subs' = subs
    BY <2>1, BroadcastKeepsAll DEF TypeOK
  <2>3. \A t \in Session : orphaned[t] => orphaned'[t]
    BY <2>1 DEF TypeOK
  <2> QED
    BY <1>1, <2>2, <2>3 DEF ReadChunk, MarkInv
<1>2. CASE ReaderEof(s) \/ Tick(s)
  <2>1. PICK left \in AfterBroadcast(s) : subs' = [subs EXCEPT ![s] = left]
    BY <1>2 DEF ReaderEof, Tick, StateChange
  <2>2. subs' = subs
    BY <2>1, BroadcastKeepsAll DEF TypeOK
  <2>3. orphaned' = orphaned /\ \A t \in Session : alive'[t] => alive[t]
    BY <1>2 DEF ReaderEof, Tick, StateChange, TypeOK
  <2> QED
    BY <2>2, <2>3 DEF MarkInv
<1>3. CASE DumpWrite(s) \/ DumpFail(s) \/ DumpRename(s) \/ ShellExit(s)
  BY <1>3 DEF DumpWrite, DumpFail, DumpRename, ShellExit, MarkInv
<1> QED
  BY <1>1, <1>2, <1>3 DEF SessionStep, SessionThread

\* attach subscribes a live session's client or finds it dead; detach looks at
\* who is left.
LEMMA AttachMarks ==
  ASSUME TypeOK, MarkInv, "slow" \notin Faults, NEW c \in Client, NEW s \in Session,
         Attach(c, s), UNCHANGED alive
  PROVE  MarkInv'
<1>1. CASE UNCHANGED <<subs, orphaned>>
  BY <1>1 DEF MarkInv
<1>2. CASE /\ subs' = [subs EXCEPT ![s] = @ \cup {c}]
           /\ orphaned' = [orphaned EXCEPT ![s] = FALSE]
  <2>1. c \in subs'[s]
    BY <1>2 DEF TypeOK
  <2>2. \A t \in Session : t # s => subs'[t] = subs[t] /\ orphaned'[t] = orphaned[t]
    BY <1>2 DEF TypeOK
  <2> QED
    BY <2>1, <2>2 DEF MarkInv
<1> QED
  BY <1>1, <1>2, Zenon DEF Attach

LEMMA DetachMarks ==
  ASSUME MarkInv, NEW c \in Client, NEW S \in SUBSET Session, Detach(c, S),
         UNCHANGED alive
  PROVE  MarkInv'
<1>1. \A s \in Session : subs'[s] = IF s \in S THEN subs[s] \ {c} ELSE subs[s]
  BY DEF Detach
<1>2. \A s \in Session : orphaned'[s] = (orphaned[s] \/ (s \in S /\ subs[s] \ {c} = {}))
  BY Zenon DEF Detach
<1> QED
  BY <1>1, <1>2 DEF MarkInv

LEMMA RequestMarks ==
  ASSUME TypeOK, MarkInv, "slow" \notin Faults, NEW c \in Client, Request(c)
  PROVE  MarkInv'
<1> USE DEF sessionVars
<1>1. ASSUME NEW i \in Id, HandleSpawn(c, i) \/ HandleAttach(c, i)
      PROVE  MarkInv'
  <2>1. UNCHANGED alive
    BY <1>1 DEF HandleSpawn, HandleAttach
  <2>2. ASSUME UNCHANGED <<subs, orphaned>>
        PROVE  MarkInv'
    BY <2>1, <2>2 DEF MarkInv
  <2> QED
    BY <1>1, <2>1, <2>2, AttachMarks DEF HandleSpawn, HandleAttach
<1>2. ASSUME NEW i \in Id, HandleInput(c, i)
      PROVE  MarkInv'
  <2>1. PICK s \in Session : \E left \in AfterBroadcast(s) : subs' = [subs EXCEPT ![s] = left]
    BY <1>2 DEF HandleInput, StateChange
  <2>2. subs' = subs
    BY <2>1, BroadcastKeepsAll DEF TypeOK
  <2> QED
    BY <1>2, <2>2 DEF HandleInput, StateChange, MarkInv
<1>3. ASSUME NEW i \in Id, HandleKill(c, i)
      PROVE  MarkInv'
  BY <1>3 DEF HandleKill, MarkInv
<1>4. ASSUME NEW i \in Id, HandleDetach(c, i)
      PROVE  MarkInv'
  BY <1>4, DetachMarks DEF HandleDetach
<1>5. CASE HandleQuery(c)
  BY <1>5 DEF HandleQuery, MarkInv
<1>6. CASE HandleShutdown(c)
  BY <1>6 DEF HandleShutdown, ProcessExit, ForgetSessions, All, MarkInv
<1> QED
  BY <1>1, <1>2, <1>3, <1>4, <1>5, <1>6 DEF Request

\* Killers take the life of a session with it.
LEMMA KillMarks ==
  ASSUME TypeOK, MarkInv, NEW s \in Session, KillBegin(s) \/ KillEnd(s)
  PROVE  MarkInv'
<1>1. UNCHANGED <<subs, orphaned>> /\ \A t \in Session : alive'[t] => alive[t]
  BY DEF KillBegin, KillEnd, sessionVars, TypeOK
<1> QED
  BY <1>1 DEF MarkInv

LEMMA MarkInductive ==
  ASSUME TypeOK, MarkInv, "slow" \notin Faults, [Next]_vars
  PROVE  MarkInv'
<1> USE DEF sessionVars
<1>1. CASE UNCHANGED vars \/ Start
  BY <1>1 DEF vars, Start, MarkInv
<1>2. ASSUME NEW c \in Client, HandlerEof(c)
      PROVE  MarkInv'
  <2>1. Registered \in SUBSET Session
    BY DEF Registered
  <2> QED
    BY <1>2, <2>1, DetachMarks DEF HandlerEof
<1>3. ASSUME NEW c \in Client,
             \/ Connect(c) \/ PeerGone(c) \/ HandlerError(c) \/ ChannelClosed(c)
             \/ ReadPid(c) \/ SendReply(c)
      PROVE  MarkInv'
  BY <1>3 DEF Connect, PeerGone, HandlerError, ChannelClosed, ReadPid, SendReply, MarkInv
<1>4. ASSUME NEW c \in Client, HandlerKills(c) \/ HandlerUnlinks(c)
      PROVE  MarkInv'
  BY <1>4, KillMarks DEF HandlerKills, HandlerUnlinks
<1>5. CASE Crash \/ ReaperExits
  BY <1>5 DEF Crash, ReaperExits, ProcessExit, ForgetSessions, All, MarkInv
<1>6. CASE Sweep \/ ReaperSleeps
  BY <1>6 DEF Sweep, ReaperSleeps, MarkInv
<1>7. CASE ReaperUnlinks \/ \E s \in Session : ReaperKills(s)
  BY <1>7, KillMarks DEF ReaperKills, ReaperUnlinks
<1> QED
  BY <1>1, <1>2, <1>3, <1>4, <1>5, <1>6, <1>7, SessionMarks, RequestMarks
     DEF Next, HandlerStep, ReaperStep

LEMMA MarkInitially ==
  ASSUME Init
  PROVE  MarkInv
BY DEF Init, InitSessions, All, MarkInv

\* The crash instance of the run is a behaviour of the daemon.
CrashMarked == part = "crash" => TypeOK /\ MarkInv

LEMMA CrashMarkedInductive ==
  ASSUME CrashMarked, "slow" \notin Faults, [MCNext]_<<vars, part>>
  PROVE  CrashMarked'
<1>1. CASE UNCHANGED <<vars, part>>
  <2>1. UNCHANGED vars /\ UNCHANGED part
    BY <1>1
  <2> QED
    BY <2>1, TypeInductive, MarkInductive DEF CrashMarked
<1>2. CASE OwnersStep
  BY <1>2 DEF OwnersStep, CrashMarked
<1>3. CASE CrashStep
  BY <1>3, TypeInductive, MarkInductive DEF CrashStep, CrashMarked
<1> QED
  BY <1>1, <1>2, <1>3 DEF MCNext

\* A live registered session without a subscriber carries the mark the TTL goes
\* by, in every order of spawn, attach, detach, hang-up, output and sweep, as long
\* as no queue overflows.
THEOREM OrphansAreMarked == "slow" \notin Faults => (Spec => []UnwatchedIsOrphaned)
<1>1. ASSUME "slow" \notin Faults
      PROVE  Spec => []UnwatchedIsOrphaned
  <2>1. Init => TypeOK /\ MarkInv
    BY TypeInitially, MarkInitially
  <2>2. TypeOK /\ MarkInv /\ [Next]_vars => (TypeOK /\ MarkInv)'
    BY <1>1, TypeInductive, MarkInductive
  <2>3. MarkInv => UnwatchedIsOrphaned
    BY DEF MarkInv, UnwatchedIsOrphaned, Registered
  <2> QED
    BY <2>1, <2>2, <2>3, PTL DEF Spec
<1> QED
  BY <1>1

\* The same of the crash instance of the run, next to the one of the owners.
THEOREM CrashOrphansAreMarked == "slow" \notin Faults => (MCSpec => []SubscribedOrOrphan)
<1>1. ASSUME "slow" \notin Faults
      PROVE  MCSpec => []SubscribedOrOrphan
  <2>1. MCInit => CrashMarked
    BY TypeInitially, MarkInitially DEF MCInit, CrashMarked
  <2>2. CrashMarked /\ [MCNext]_<<vars, part>> => CrashMarked'
    BY <1>1, CrashMarkedInductive
  <2>3. CrashMarked => SubscribedOrOrphan
    BY DEF CrashMarked, SubscribedOrOrphan, MarkInv, UnwatchedIsOrphaned, Registered
  <2> QED
    BY <2>1, <2>2, <2>3, PTL DEF MCSpec
<1> QED
  BY <1>1

=============================================================================

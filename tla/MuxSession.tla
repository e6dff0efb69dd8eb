----------------------------- MODULE MuxSession -----------------------------
(***************************************************************************)
(* One PTY session of the shirei-mux daemon (mux/src/session.rs).          *)
(*                                                                         *)
(* A Session is an object shared by the registry, the client handlers, the *)
(* reaper, the ticker and its own reader thread.  Its Inner is behind one  *)
(* mutex, so a block that runs under that mutex is one step here; what the *)
(* reader does after releasing it (the two file operations of dump_to) are *)
(* steps of their own.  Ids are reused: a killed or reaped session may be  *)
(* recreated under the same id while the old object still has a reader     *)
(* thread, which is why the state is indexed by object and not by id.      *)
(*                                                                         *)
(* Abstractions.                                                           *)
(*  - Scrollback is a position in the session's output stream: the ring    *)
(*    and the dump files always hold the last bytes up to a position, so   *)
(*    the position is all that tells two of them apart.                    *)
(*  - The messages themselves are in MuxStream.  Here a broadcast is what  *)
(*    it does to the subscriptions: any subscriber whose queue is full, or *)
(*    whose writer thread is gone, is dropped, and an attach whose greeting*)
(*    does not fit leaves no subscription.  Which try_sends fail is a      *)
(*    choice, made only where "slow" is among the Faults.                  *)
(*  - The agent detector (detect.rs) is a choice of whether a State        *)
(*    message is broadcast.                                                *)
(***************************************************************************)
EXTENDS Naturals

CONSTANTS
  Id,             \* the session ids clients use
  Session,        \* pool of session objects (bounds creations per daemon run)
  Client,         \* client connections
  None,           \* the absent value
  DumpThreshold,  \* DUMP_THRESHOLD, in output units
  ReadMax,        \* READ_BUFFER_LEN, in output units
  MaxOutput,      \* bound: no stream grows past this position
  Faults          \* what the environment does in this instance: "spawn" (a PTY
                  \*   cannot be opened), "disk" (a dump cannot be written),
                  \*   "slow" (client queues fill up), "gone" (clients leave),
                  \*   "badframe" (inside a frame), "crash" (the daemon dies)

ASSUME ConstantsOk ==
  /\ None \notin Id \cup Session \cup Client
  /\ None \notin Nat
  /\ DumpThreshold \in Nat \ {0}
  /\ ReadMax \in Nat \ {0}
  /\ MaxOutput \in Nat

VARIABLES
  idOf,       \* id the object was created under, None while it is unused
  ring,       \* stream position the ring reaches
  subs,       \* subs[s]: the clients that have a Sub in s
  alive,      \* Inner.alive
  persist,    \* Inner.persist.is_some()
  sinceDump,  \* Inner.since_dump
  orphaned,   \* Inner.detached_at.is_some()
  child,      \* the shell process: "none", "running", "exited"
  reader,     \* where the reader thread is
  dump,       \* the reader's local dump / final_dump: position to be written
  buf,        \* buf[i]: position held by <i>.buf, None when there is no file
  tmp         \* tmp[i]: the same for <i>.tmp

sessionVars == <<idOf, ring, subs, alive, persist, sinceDump, orphaned, child,
                 reader, dump>>
fileVars    == <<buf, tmp>>

(***************************************************************************)
(* Session::spawn, broadcast, attach, detach                               *)
(***************************************************************************)
Unused(s) == idOf[s] = None

\* What a new ring is preloaded with.
Preloaded(i) == IF buf[i] = None THEN 0 ELSE buf[i]

\* The subscribers left by a broadcast.
AfterBroadcast(s) == IF "slow" \in Faults THEN SUBSET subs[s] ELSE {subs[s]}

\* Mutant of Attach: a new subscriber leaves detached_at as it was.
AttachKeepsMark(c, s) ==
  \/ alive[s] /\ subs' = [subs EXCEPT ![s] = @ \cup {c}] /\ UNCHANGED orphaned
  \/ ~alive[s] /\ UNCHANGED <<subs, orphaned>>

\* attach: greet the client; subscribe it if the greeting fits and s is alive.
Attach(c, s) ==
  \/ /\ alive[s]
     /\ subs' = [subs EXCEPT ![s] = @ \cup {c}]
     /\ orphaned' = [orphaned EXCEPT ![s] = FALSE]
  \/ /\ ~alive[s] \/ "slow" \in Faults
     /\ UNCHANGED <<subs, orphaned>>

\* Mutant of Detach: mark_detached_if_empty is forgotten.
DetachUnmarked(c, S) ==
  /\ subs' = [s \in Session |-> IF s \in S THEN subs[s] \ {c} ELSE subs[s]]
  /\ UNCHANGED orphaned

\* detach: drop the client's Subs, then mark_detached_if_empty.
Detach(c, S) ==
  /\ subs' = [s \in Session |-> IF s \in S THEN subs[s] \ {c} ELSE subs[s]]
  /\ orphaned' = [s \in Session |-> orphaned[s] \/ (s \in S /\ subs[s] \ {c} = {})]

(***************************************************************************)
(* The reader thread                                                       *)
(***************************************************************************)

\* Mutant of SinceDump: reads are counted in place of bytes.
SinceDumpReads(s, n) == IF persist[s] THEN sinceDump[s] + 1 ELSE sinceDump[s]

\* pending_dump: what has been read since the last dump, counted while persisting.
SinceDump(s, n) == IF persist[s] THEN sinceDump[s] + n ELSE sinceDump[s]

\* One read: push to the ring, fan out, mark the orphan, and decide on a dump.
\* A killed shell's leftover output is still read, hence no guard on the child.
ReadChunk(s) ==
  /\ reader[s] = "read"
  /\ \E n \in 1..ReadMax, left \in AfterBroadcast(s) :
       LET upto == ring[s] + n
           due  == persist[s] /\ SinceDump(s, n) >= DumpThreshold
       IN  /\ upto <= MaxOutput
           /\ ring' = [ring EXCEPT ![s] = upto]
           /\ subs' = [subs EXCEPT ![s] = left]
           /\ orphaned' = [orphaned EXCEPT ![s] = @ \/ left = {}]
           /\ sinceDump' = [sinceDump EXCEPT ![s] =
                              IF due THEN 0 ELSE SinceDump(s, n)]
           /\ dump' = [dump EXCEPT ![s] = IF due THEN upto ELSE @]
           /\ reader' = [reader EXCEPT ![s] = IF due THEN "write" ELSE "read"]
  /\ UNCHANGED <<idOf, alive, persist, child, fileVars>>

\* End of file: the shell is gone and its output is drained.
ReaderEof(s) ==
  /\ reader[s] = "read"
  /\ child[s] = "exited"
  /\ \E left \in AfterBroadcast(s) : subs' = [subs EXCEPT ![s] = left]
  /\ alive' = [alive EXCEPT ![s] = FALSE]
  /\ dump' = [dump EXCEPT ![s] = IF persist[s] THEN ring[s] ELSE @]
  /\ reader' = [reader EXCEPT ![s] = IF persist[s] THEN "lastWrite" ELSE "done"]
  /\ UNCHANGED <<idOf, ring, persist, sinceDump, orphaned, child, fileVars>>

\* dump_to, first half: write and chmod <id>.tmp.  Runs with no lock held.
DumpWrite(s) ==
  /\ reader[s] \in {"write", "lastWrite"}
  /\ tmp' = [tmp EXCEPT ![idOf[s]] = dump[s]]
  /\ dump' = [dump EXCEPT ![s] = 0]
  /\ reader' = [reader EXCEPT ![s] = IF @ = "write" THEN "rename" ELSE "lastRename"]
  /\ UNCHANGED <<idOf, ring, subs, alive, persist, sinceDump, orphaned, child,
                 buf>>

\* The write fails half way: the error is ignored and since_dump stays reset.
DumpFail(s) ==
  /\ "disk" \in Faults
  /\ reader[s] \in {"write", "lastWrite"}
  /\ tmp' = [tmp EXCEPT ![idOf[s]] = 0]
  /\ dump' = [dump EXCEPT ![s] = 0]
  /\ reader' = [reader EXCEPT ![s] = IF @ = "write" THEN "read" ELSE "done"]
  /\ UNCHANGED <<idOf, ring, subs, alive, persist, sinceDump, orphaned, child,
                 buf>>

\* dump_to, second half: the rename, which fails when <id>.tmp is gone.
DumpRename(s) ==
  /\ reader[s] \in {"rename", "lastRename"}
  /\ LET i == idOf[s]
     IN  IF tmp[i] = None
           THEN UNCHANGED fileVars
           ELSE /\ buf' = [buf EXCEPT ![i] = tmp[i]]
                /\ tmp' = [tmp EXCEPT ![i] = None]
  /\ reader' = [reader EXCEPT ![s] = IF @ = "rename" THEN "read" ELSE "done"]
  /\ UNCHANGED <<idOf, ring, subs, alive, persist, sinceDump, orphaned, child,
                 dump>>

(***************************************************************************)
(* The shell, Session::input / Session::tick, Session::kill                *)
(***************************************************************************)

\* The shell ends by itself (external: the child process).
ShellExit(s) ==
  /\ child[s] = "running"
  /\ child' = [child EXCEPT ![s] = "exited"]
  /\ UNCHANGED <<idOf, ring, subs, alive, persist, sinceDump, orphaned, reader,
                 dump, fileVars>>

\* A detector change outside the reader (input, tick): the broadcast may drop
\* subscribers, and nobody calls mark_detached_if_empty afterwards.
StateChange(s) ==
  /\ \E left \in AfterBroadcast(s) : subs' = [subs EXCEPT ![s] = left]
  /\ UNCHANGED <<idOf, ring, alive, persist, sinceDump, orphaned, child, reader,
                 dump, fileVars>>

\* tick returns at once on a dead session.
Tick(s) == ~Unused(s) /\ alive[s] /\ StateChange(s)

\* Mutant of KillBegin: the shell outlives the signal, nobody waits for it.
KillBeginUnreaped(s) ==
  /\ alive' = [alive EXCEPT ![s] = FALSE]
  /\ persist' = [persist EXCEPT ![s] = FALSE]
  /\ buf' = IF persist[s] THEN [buf EXCEPT ![idOf[s]] = None] ELSE buf
  /\ UNCHANGED <<idOf, ring, subs, sinceDump, orphaned, child, reader, dump, tmp>>

\* kill up to the removal of <id>.buf: the shell is dead and reaped, the persist
\* path is taken.
KillBegin(s) ==
  /\ child' = [child EXCEPT ![s] = "exited"]
  /\ alive' = [alive EXCEPT ![s] = FALSE]
  /\ persist' = [persist EXCEPT ![s] = FALSE]
  /\ buf' = IF persist[s] THEN [buf EXCEPT ![idOf[s]] = None] ELSE buf
  /\ UNCHANGED <<idOf, ring, subs, sinceDump, orphaned, reader, dump, tmp>>

\* kill's second removal, of <id>.tmp: the reader's dump_to, which takes no
\* lock, may run between the two.
KillEnd(s) ==
  /\ tmp' = [tmp EXCEPT ![idOf[s]] = None]
  /\ UNCHANGED <<sessionVars, buf>>

SessionThread(s) ==
  \/ ReadChunk(s)
  \/ ReaderEof(s)
  \/ DumpWrite(s)
  \/ DumpFail(s)
  \/ DumpRename(s)
  \/ ShellExit(s)
  \/ Tick(s)

(***************************************************************************)
(* The value a session object has before it is created: the fields         *)
(* Session::spawn gives every new Inner.  A process that ends leaves none. *)
(***************************************************************************)
All(value) == [s \in Session |-> value]

InitSessions ==
  /\ idOf = All(None)        /\ ring = All(0)
  /\ subs = All({})          /\ alive = All(TRUE)
  /\ persist = All(TRUE)     /\ sinceDump = All(0)
  /\ orphaned = All(TRUE)    /\ child = All("none")
  /\ reader = All("none")    /\ dump = All(0)

ForgetSessions ==
  /\ idOf' = All(None)       /\ ring' = All(0)
  /\ subs' = All({})         /\ alive' = All(TRUE)
  /\ persist' = All(TRUE)    /\ sinceDump' = All(0)
  /\ orphaned' = All(TRUE)   /\ child' = All("none")
  /\ reader' = All("none")   /\ dump' = All(0)

=============================================================================

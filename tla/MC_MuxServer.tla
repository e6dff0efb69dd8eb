---------------------------- MODULE MC_MuxServer ----------------------------
(***************************************************************************)
(* Two instances of MuxServer in one run.  "owners": two clients and the   *)
(* reaper race for one id, with every fault but the crash, and no output.  *)
(* "crash": one client, output, dumps, crashes and restarts; its constants *)
(* are those of the configuration.                                         *)
(***************************************************************************)
EXTENDS MuxServer, TLC

CONSTANT Lone   \* the clients of "crash"

VARIABLE part   \* the instance a behaviour is one of

Owners == INSTANCE MuxServer WITH
    DumpThreshold <- 1, ReadMax <- 1, MaxOutput <- 0,
    Faults <- {"slow", "gone", "badframe", "spawn", "disk"},
    Requests <- {"spawn", "attach", "kill", "input", "query"},
    OrphanTtl <- TRUE, IdleExit <- FALSE

MCInit == part \in {"owners", "crash"} /\ Init
OwnersStep == part = "owners" /\ Owners!Next /\ UNCHANGED part
CrashStep ==
  /\ part = "crash" /\ Next
  /\ \A c \in Client \ Lone : conn'[c] = "closed"
  /\ UNCHANGED part
MCNext == OwnersStep \/ CrashStep
MCSpec == MCInit /\ [][MCNext]_<<vars, part>>

\* A live session without subscribers is marked as an orphan, as long as no queue
\* overflows (mux/src/session.rs detach, broadcast).
SubscribedOrOrphan == part = "crash" => UnwatchedIsOrphaned

Symmetry == Permutations(Session) \cup Permutations(Client)
=============================================================================

------------------------------- MODULE MuxLocks -------------------------------
(***************************************************************************)
(* Who waits for whom in the shirei-mux daemon: the registry mutex         *)
(* (mux/src/server.rs), the mutex of every session (mux/src/session.rs),   *)
(* the pseudo-terminal buffers between a session and its shell, and the    *)
(* replies a client may be slow to read.                                   *)
(*                                                                         *)
(* A section that cannot block once it has its mutex is one step.  Those   *)
(* that can are open: Input writes to the terminal with both mutexes held, *)
(* the reader waits for its child with the session's, the ticker makes its *)
(* system calls with the session's, and the reaper looks at every session  *)
(* with the registry's.                                                    *)
(*                                                                         *)
(* Sessions exist from the start here (creation and ids are in MuxServer). *)
(***************************************************************************)
EXTENDS Naturals

CONSTANTS
  Client,     \* clients, one handler thread each; none is "reader", "ticker", "reaper"
  Session,    \* the sessions
  None,       \* the absent value, neither a client nor a session
  PtyCap,     \* units a terminal buffers in each direction, at least 1
  InputSize,  \* units of one Input message
  Behaviour   \* what shells may do: "echo" (write what they read before they
              \*   read on), "close" (give up the terminal and live on)

VARIABLES
  regLock,   \* the thread that holds the registry mutex
  sessLock,  \* sessLock[s]: the thread that holds the mutex of s
  registry,  \* the sessions in the registry
  pc,        \* where the handler of a client is
  op,        \* the request it works on: "input", "kill" or "touch" (the others)
  target,    \* the session of that request
  left,      \* units of its Input still to be written
  reader,    \* where the reader thread of a session is
  ticker,    \* where the ticker is: "sleep", "tick", or the session in hand
  due,       \* sessions the ticker has still to tick
  reaper,    \* where the reaper is: "sleep", "sweep" or "kill"
  unseen,    \* sessions it has still to look at or to kill
  dropped,   \* sessions it has removed
  child,     \* the shell: "running", "closed" or "exited"
  input,     \* units in the terminal on their way to the shell
  output,    \* units on their way from it
  owed       \* units the shell is about to write

handlerVars == <<pc, op, target, left>>
tickerVars  == <<ticker, due>>
reaperVars  == <<reaper, unseen, dropped>>
childVars   == <<child, input, output, owed>>
vars == <<regLock, sessLock, registry, handlerVars, reader, tickerVars,
          reaperVars, childVars>>

(***************************************************************************)
(* The handlers                                                            *)
(***************************************************************************)
\* Requests that look a session up keep the registry while they work on it.
Request(c, kind, s) ==
  /\ pc[c] = "idle" /\ regLock = None
  /\ s \in registry
  /\ op' = [op EXCEPT ![c] = kind]
  /\ target' = [target EXCEPT ![c] = s]
  /\ pc' = [pc EXCEPT ![c] = "want"]

HandleInputOrTouch(c, s) ==
  /\ \E kind \in {"input", "touch"} : Request(c, kind, s)
  /\ regLock' = c
  /\ UNCHANGED <<sessLock, registry, left, reader, tickerVars, reaperVars,
                 childVars>>

\* Kill removes the session and lets the registry go.
HandleKill(c, s) ==
  /\ Request(c, "kill", s)
  /\ registry' = registry \ {s}
  /\ UNCHANGED <<regLock, sessLock, left, reader, tickerVars, reaperVars,
                 childVars>>

\* The session's mutex is free.  Kill and the short requests are done with it at
\* once; Input keeps it.
EnterInput(c) ==
  /\ pc[c] = "want" /\ op[c] = "input"
  /\ sessLock[target[c]] = None
  /\ sessLock' = [sessLock EXCEPT ![target[c]] = c]
  /\ left' = [left EXCEPT ![c] = InputSize]
  /\ pc' = [pc EXCEPT ![c] = "write"]
  /\ UNCHANGED <<regLock, registry, op, target, reader, tickerVars, reaperVars,
                 childVars>>

\* Mutant of WriteInput: a write to a shell that is gone is tried again.
WriteInputRetries(c) ==
  /\ pc[c] = "write" /\ left[c] > 0
  /\ child[target[c]] = "running" /\ input[target[c]] < PtyCap
  /\ input' = [input EXCEPT ![target[c]] = @ + 1]
  /\ left' = [left EXCEPT ![c] = @ - 1]
  /\ UNCHANGED <<regLock, sessLock, registry, pc, op, target, reader, tickerVars,
                 reaperVars, child, output, owed>>

\* write_all: one unit more reaches the terminal, or fails as the shell is gone.
WriteInput(c) ==
  /\ pc[c] = "write" /\ left[c] > 0
  /\ LET s == target[c]
     IN  IF child[s] = "running"
           THEN /\ input[s] < PtyCap
                /\ input' = [input EXCEPT ![s] = @ + 1]
                /\ left' = [left EXCEPT ![c] = @ - 1]
           ELSE left' = [left EXCEPT ![c] = 0] /\ UNCHANGED input
  /\ UNCHANGED <<regLock, sessLock, registry, pc, op, target, reader, tickerVars,
                 reaperVars, child, output, owed>>

\* Both guards are dropped; an Input has no reply.
LeaveInput(c) ==
  /\ pc[c] = "write" /\ left[c] = 0
  /\ sessLock' = [sessLock EXCEPT ![target[c]] = None]
  /\ regLock' = None
  /\ pc' = [pc EXCEPT ![c] = "idle"]
  /\ UNCHANGED <<registry, op, target, left, reader, tickerVars, reaperVars,
                 childVars>>

\* The others take the session's mutex, give back both, and owe a reply.
Touch(c) ==
  /\ pc[c] = "want" /\ op[c] = "touch"
  /\ sessLock[target[c]] = None
  /\ regLock' = None
  /\ pc' = [pc EXCEPT ![c] = "reply"]
  /\ UNCHANGED <<sessLock, registry, op, target, left, reader, tickerVars,
                 reaperVars, childVars>>

\* Session::kill: kill and wait (external: the signal is not ignored for long).
Killed(s) ==
  /\ sessLock[s] = None
  /\ child' = [child EXCEPT ![s] = "exited"]
  /\ input' = [input EXCEPT ![s] = 0]
  /\ owed' = [owed EXCEPT ![s] = 0]
  /\ UNCHANGED output

Kill(c) ==
  /\ pc[c] = "want" /\ op[c] = "kill"
  /\ Killed(target[c])
  /\ pc' = [pc EXCEPT ![c] = "reply"]
  /\ UNCHANGED <<regLock, sessLock, registry, op, target, left, reader,
                 tickerVars, reaperVars>>

\* A blocking send: it returns when the client has read enough, if it ever does.
SendReply(c) ==
  /\ pc[c] = "reply"
  /\ pc' = [pc EXCEPT ![c] = "idle"]
  /\ UNCHANGED <<regLock, sessLock, registry, op, target, left, reader,
                 tickerVars, reaperVars, childVars>>

ReaderReads(s) ==
  /\ reader[s] = "read"
  /\ \/ /\ output[s] > 0
        /\ output' = [output EXCEPT ![s] = @ - 1]
        /\ reader' = [reader EXCEPT ![s] = "chunk"]
     \/ /\ output[s] = 0 /\ child[s] # "running"
        /\ reader' = [reader EXCEPT ![s] = "eof"]
        /\ UNCHANGED output
  /\ UNCHANGED <<regLock, sessLock, registry, handlerVars, tickerVars, reaperVars,
                 child, input, owed>>

\* The chunk goes to the ring and, by try_send, to the subscribers.
ReaderPushes(s) ==
  /\ reader[s] = "chunk"
  /\ sessLock[s] = None
  /\ reader' = [reader EXCEPT ![s] = "read"]
  /\ UNCHANGED <<regLock, sessLock, registry, handlerVars, tickerVars, reaperVars,
                 childVars>>

\* End of file: child.wait() with the mutex held.
ReaderLocks(s) ==
  /\ reader[s] = "eof"
  /\ sessLock[s] = None
  /\ sessLock' = [sessLock EXCEPT ![s] = "reader"]
  /\ reader' = [reader EXCEPT ![s] = "wait"]
  /\ UNCHANGED <<regLock, registry, handlerVars, tickerVars, reaperVars, childVars>>

ReaderEnds(s) ==
  /\ reader[s] = "wait"
  /\ child[s] = "exited"
  /\ sessLock' = [sessLock EXCEPT ![s] = None]
  /\ reader' = [reader EXCEPT ![s] = "done"]
  /\ UNCHANGED <<regLock, registry, handlerVars, tickerVars, reaperVars, childVars>>

(***************************************************************************)
(* The ticker and the reaper                                               *)
(***************************************************************************)
\* The handles are copied under a short registry section.
TickerWakes ==
  /\ ticker = "sleep" /\ regLock = None
  /\ due' = registry
  /\ ticker' = "tick"
  /\ UNCHANGED <<regLock, sessLock, registry, handlerVars, reader, reaperVars,
                 childVars>>

TickerLocks(s) ==
  /\ ticker = "tick" /\ s \in due
  /\ sessLock[s] = None
  /\ sessLock' = [sessLock EXCEPT ![s] = "ticker"]
  /\ due' = due \ {s}
  /\ ticker' = s
  /\ UNCHANGED <<regLock, registry, handlerVars, reader, reaperVars, childVars>>

\* proc_status, cpu_ticks and foreground_command have returned.
TickerUnlocks ==
  /\ ticker \in Session
  /\ sessLock' = [sessLock EXCEPT ![ticker] = None]
  /\ ticker' = "tick"
  /\ UNCHANGED <<regLock, registry, handlerVars, reader, due, reaperVars, childVars>>

TickerSleeps ==
  /\ ticker = "tick" /\ due = {}
  /\ ticker' = "sleep"
  /\ UNCHANGED <<regLock, sessLock, registry, handlerVars, reader, due, reaperVars,
                 childVars>>

ReaperWakes ==
  /\ reaper = "sleep" /\ regLock = None
  /\ regLock' = "reaper"
  /\ unseen' = registry
  /\ dropped' = {}
  /\ reaper' = "sweep"
  /\ UNCHANGED <<sessLock, registry, handlerVars, reader, tickerVars, childVars>>

\* reap_state of one session; whether it is due is a matter of time and clients.
ReaperLooks(s) ==
  /\ reaper = "sweep" /\ s \in unseen
  /\ sessLock[s] = None
  /\ unseen' = unseen \ {s}
  /\ \/ dropped' = dropped \cup {s}
     \/ UNCHANGED dropped
  /\ UNCHANGED <<regLock, sessLock, registry, handlerVars, reader, tickerVars,
                 reaper, childVars>>

ReaperRemoves ==
  /\ reaper = "sweep" /\ unseen = {}
  /\ registry' = registry \ dropped
  /\ regLock' = None
  /\ reaper' = IF dropped = {} THEN "sleep" ELSE "kill"
  /\ UNCHANGED <<sessLock, handlerVars, reader, tickerVars, unseen, dropped,
                 childVars>>

ReaperKills(s) ==
  /\ reaper = "kill" /\ s \in dropped
  /\ Killed(s)
  /\ dropped' = dropped \ {s}
  /\ reaper' = IF dropped = {s} THEN "sleep" ELSE "kill"
  /\ UNCHANGED <<regLock, sessLock, registry, handlerVars, reader, tickerVars,
                 unseen>>

(***************************************************************************)
(* The shell at the other end of the terminal (external)                   *)
(***************************************************************************)
Echoes == "echo" \in Behaviour

\* It reads.  An echoing shell has to write what it owes first.
ShellReads(s) ==
  /\ child[s] = "running" /\ input[s] > 0
  /\ Echoes => owed[s] = 0
  /\ input' = [input EXCEPT ![s] = @ - 1]
  /\ owed' = [owed EXCEPT ![s] = IF Echoes THEN 1 ELSE @]
  /\ UNCHANGED <<regLock, sessLock, registry, handlerVars, reader, tickerVars,
                 reaperVars, child, output>>

ShellWrites(s) ==
  /\ child[s] = "running"
  /\ output[s] < PtyCap
  /\ output' = [output EXCEPT ![s] = @ + 1]
  /\ owed' = [owed EXCEPT ![s] = 0]
  /\ UNCHANGED <<regLock, sessLock, registry, handlerVars, reader, tickerVars,
                 reaperVars, child, input>>

\* It exits, or closes the terminal and goes on.
ShellEnds(s) ==
  /\ \/ child[s] # "exited" /\ child' = [child EXCEPT ![s] = "exited"]
     \/ /\ "close" \in Behaviour
        /\ child[s] = "running" /\ child' = [child EXCEPT ![s] = "closed"]
  /\ input' = [input EXCEPT ![s] = 0]
  /\ owed' = [owed EXCEPT ![s] = 0]
  /\ UNCHANGED <<regLock, sessLock, registry, handlerVars, reader, tickerVars,
                 reaperVars, output>>

(***************************************************************************)
(* Specification                                                           *)
(***************************************************************************)
Init ==
  /\ regLock = None
  /\ sessLock = [s \in Session |-> None]
  /\ registry = Session
  /\ pc = [c \in Client |-> "idle"]
  /\ op = [c \in Client |-> "touch"]
  /\ target = [c \in Client |-> None]
  /\ left = [c \in Client |-> 0]
  /\ reader = [s \in Session |-> "read"]
  /\ ticker = "sleep" /\ due = {}
  /\ reaper = "sleep" /\ unseen = {} /\ dropped = {}
  /\ child = [s \in Session |-> "running"]
  /\ input = [s \in Session |-> 0]
  /\ output = [s \in Session |-> 0]
  /\ owed = [s \in Session |-> 0]

Handler(c) == EnterInput(c) \/ WriteInput(c) \/ LeaveInput(c) \/ Touch(c) \/ Kill(c)

Reader(s) == ReaderReads(s) \/ ReaderPushes(s) \/ ReaderLocks(s) \/ ReaderEnds(s)

Ticker == TickerWakes \/ (\E s \in Session : TickerLocks(s)) \/ TickerUnlocks
            \/ TickerSleeps

Reaper == ReaperWakes \/ (\E s \in Session : ReaperLooks(s) \/ ReaperKills(s))
            \/ ReaperRemoves

\* A shell that owes output is not idle.
OwedIsWritten(s) == owed[s] > 0 /\ ShellWrites(s)

Shell(s) == ShellReads(s) \/ ShellWrites(s) \/ ShellEnds(s)

Next ==
  \/ \E c \in Client : \/ Handler(c)
                       \/ SendReply(c)
                       \/ \E s \in Session : HandleInputOrTouch(c, s) \/ HandleKill(c, s)
  \/ \E s \in Session : Reader(s) \/ Shell(s)
  \/ Ticker
  \/ Reaper

Spec == Init /\ [][Next]_vars

(***************************************************************************)
(* Fairness: every daemon thread that can run does, and no mutex starves a *)
(* thread that waits for it (strong fairness).  A shell reads what it is   *)
(* sent and writes what it owes when it can.  Nothing is assumed of the    *)
(* clients: SendReply may never happen.  A shell need not end.             *)
(***************************************************************************)
Fairness ==
  /\ \A c \in Client : SF_vars(Handler(c))
  /\ \A s \in Session :
       /\ SF_vars(Reader(s))
       /\ SF_vars(ShellReads(s))
       /\ WF_vars(OwedIsWritten(s))
       /\ SF_vars(ReaperLooks(s))
  /\ WF_vars(TickerUnlocks)
  /\ WF_vars(ReaperRemoves)

FairSpec == Spec /\ Fairness

(***************************************************************************)
(* Properties                                                              *)
(***************************************************************************)
RegistryHeld == regLock # None

\* The registry is never held for good: "a stalled client may block its own handler
\* thread, never the whole daemon" (handle_msg).
RegistryComesFree == RegistryHeld ~> ~RegistryHeld

=============================================================================

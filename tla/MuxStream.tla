------------------------------ MODULE MuxStream ------------------------------
(***************************************************************************)
(* The path of one session's output to the panes that watch it:            *)
(* Session::attach and broadcast (mux/src/session.rs), the bounded queue   *)
(* and the writer thread of each client (mux/src/server.rs), and the pane  *)
(* at the end of it (src/terminal.ts reconnect, src-tauri/src/             *)
(* mux_client.rs spawn_reader).                                            *)
(*                                                                         *)
(* Output comes in units; the ring is the position it reaches.  A queue    *)
(* holds what the client has not been shown yet (the socket only makes it  *)
(* longer).  A message is its kind and, for output, its position.          *)
(***************************************************************************)
EXTENDS Naturals, Sequences

CONSTANTS
  Client,      \* client connections, one pane each
  Garbled,     \* the view of a pane that was shown something out of place
  QueueCap,    \* CLIENT_QUEUE_CAP
  MaxOutput,   \* bound: units of output
  Hiding,      \* the panes that may be hidden, on a tab in the background
  FlushAt,     \* HIDDEN_FLUSH_BYTES, in units
  MaxAttach,   \* bound: attaches of a pane per connection
  MaxOther     \* bound: state changes and probes, which only fill queues

ASSUME StreamConstantsOk ==
  /\ Garbled \notin Nat
  /\ QueueCap \in Nat \ {0}
  /\ MaxOutput \in Nat
  /\ FlushAt \in Nat \ {0}
  /\ MaxAttach \in Nat
  /\ MaxOther \in Nat

VARIABLES
  ring,      \* position the session's ring reaches
  alive,     \* Inner.alive
  subs,      \* subs[c]: how many Subs of the client Inner.subs holds
  queue,     \* the client's sync_channel, head next to be written
  writer,    \* the client's writer thread still receives
  handler,   \* the client's handler: "idle", "reply" (blocked in a send) or "gone"
  asked,     \* an attach request of the client is on its way
  attaches,  \* attaches the pane has asked for on this connection
  view,      \* what the pane shows: the output up to here, or Garbled
  visible,   \* TerminalSession.visible
  pending,   \* TerminalSession.pending, what a hidden pane holds back
  draining,  \* the pane is writing pending out, which nothing interrupts
  told,      \* the pane has been told that the session ended
  other      \* messages of no interest sent so far

paneVars == <<view, visible, pending, draining>>

streamVars == <<ring, alive, subs, queue, writer, handler, asked, attaches,
                paneVars, told, other>>

Msg(kind, at) == [kind |-> kind, at |-> at]

Room(c, q) == IF writer[c] THEN QueueCap - Len(q) ELSE 0

Lesser(m, n) == IF m < n THEN m ELSE n

(***************************************************************************)
(* broadcast: every Sub try_sends the message, those that fail are dropped *)
(* (the single-Sub fast path does the same).  A client with two Subs gets  *)
(* the message twice.                                                      *)
(***************************************************************************)
Sent(c, q, n) == Lesser(n, Room(c, q))

\* Mutant of Fan: a full queue costs the client the message, not the subscription.
FanDropsMessage(st, m) ==
  [subs  |-> st.subs,
   queue |-> [c \in Client |->
                st.queue[c] \o [k \in 1..Sent(c, st.queue[c], st.subs[c]) |-> m]]]

Fan(st, m) ==
  [subs  |-> [c \in Client |-> Sent(c, st.queue[c], st.subs[c])],
   queue |-> [c \in Client |->
                st.queue[c] \o [k \in 1..Sent(c, st.queue[c], st.subs[c]) |-> m]]]

Now == [subs |-> subs, queue |-> queue]

Becomes(st) == subs' = st.subs /\ queue' = st.queue

(***************************************************************************)
(* The session                                                             *)
(***************************************************************************)
\* One read by the reader thread, with or without a detector change after it.
ReadChunk ==
  /\ alive
  /\ ring < MaxOutput
  /\ ring' = ring + 1
  /\ LET out == Fan(Now, Msg("output", ring + 1))
     IN  \/ Becomes(out) /\ UNCHANGED other
         \/ /\ other < MaxOther
            /\ other' = other + 1
            /\ Becomes(Fan(out, Msg("state", 0)))
  /\ UNCHANGED <<alive, writer, handler, asked, attaches, paneVars, told>>

\* Mutant of ReaderEof: nobody is told.
ReaderEofUntold ==
  /\ alive
  /\ alive' = FALSE
  /\ Becomes(Fan(Now, Msg("state", 0)))
  /\ UNCHANGED <<ring, writer, handler, asked, attaches, paneVars, told, other>>

\* The end of the reader thread: on_exit's change, then Exit.
ReaderEof ==
  /\ alive
  /\ alive' = FALSE
  /\ Becomes(Fan(Fan(Now, Msg("state", 0)), Msg("exit", 0)))
  /\ UNCHANGED <<ring, writer, handler, asked, attaches, paneVars, told, other>>

\* A detector change of tick or input.
StateChange ==
  /\ alive
  /\ other < MaxOther
  /\ other' = other + 1
  /\ Becomes(Fan(Now, Msg("state", 0)))
  /\ UNCHANGED <<ring, alive, writer, handler, asked, attaches, paneVars, told>>

(***************************************************************************)
(* attach: snapshot unless the ring is empty, NORMALIZE, the modes to      *)
(* restore if there are any; a greeting that does not fit is cut short and *)
(* leaves the client without a Sub.                                        *)
(***************************************************************************)
Greeting(restore) ==
  (IF ring > 0 THEN <<Msg("snapshot", ring)>> ELSE <<>>)
    \o <<Msg("modes", 0)>> \o (IF restore THEN <<Msg("modes", 0)>> ELSE <<>>)

Farewell == IF alive THEN <<>> ELSE <<Msg("exit", 0)>>

Attach(c, restore) ==
  LET messages == Greeting(restore) \o Farewell
      room     == Room(c, queue[c])
  IN  /\ queue' = [queue EXCEPT ![c] =
                     @ \o SubSeq(messages, 1, Lesser(room, Len(messages)))]
      /\ subs' = [subs EXCEPT ![c] =
                    IF alive /\ Len(Greeting(restore)) <= room THEN @ + 1 ELSE @]

(***************************************************************************)
(* The client's threads in the daemon                                      *)
(***************************************************************************)
HandleSpawn(c) ==
  /\ handler[c] = "idle" /\ asked[c]
  /\ \E restore \in BOOLEAN : Attach(c, restore)
  /\ asked' = [asked EXCEPT ![c] = FALSE]
  /\ handler' = [handler EXCEPT ![c] = "reply"]
  /\ UNCHANGED <<ring, alive, writer, attaches, paneVars, told, other>>

\* Hello, Probe and List.
HandleQuery(c) ==
  /\ handler[c] = "idle"
  /\ other < MaxOther
  /\ other' = other + 1
  /\ handler' = [handler EXCEPT ![c] = "reply"]
  /\ UNCHANGED <<ring, alive, subs, queue, writer, asked, attaches, paneVars, told>>

\* A blocking send: it waits for room, or fails because the writer is gone.
SendReply(c) ==
  /\ handler[c] = "reply"
  /\ \/ Room(c, queue[c]) > 0 /\ queue' = [queue EXCEPT ![c] = Append(@, Msg("reply", 0))]
     \/ ~writer[c] /\ UNCHANGED queue
  /\ handler' = [handler EXCEPT ![c] = "idle"]
  /\ UNCHANGED <<ring, alive, subs, writer, asked, attaches, paneVars, told, other>>

\* Detach, as the pane's dispose asks for it while others keep the connection.
HandleDetach(c) ==
  /\ handler[c] = "idle"
  /\ subs[c] > 0
  /\ subs' = [subs EXCEPT ![c] = 0]
  /\ UNCHANGED <<ring, alive, queue, writer, handler, asked, attaches, paneVars, told,
                 other>>

\* The peer is gone: write_all fails and the writer drops the receiver.
WriterFails(c) ==
  /\ writer[c]
  /\ writer' = [writer EXCEPT ![c] = FALSE]
  /\ queue' = [queue EXCEPT ![c] = <<>>]
  /\ UNCHANGED <<ring, alive, subs, handler, asked, attaches, paneVars, told, other>>

\* The handler sees the end of file and detaches.
HandlerEof(c) ==
  /\ ~writer[c] /\ handler[c] = "idle"
  /\ subs' = [subs EXCEPT ![c] = 0]
  /\ handler' = [handler EXCEPT ![c] = "gone"]
  /\ UNCHANGED <<ring, alive, queue, writer, asked, attaches, paneVars, told, other>>

(***************************************************************************)
(* The pane                                                                *)
(***************************************************************************)
\* The pane's view after a message: a snapshot belongs on a blank terminal, an
\* output unit right after the one before it.
Shown(v, m) ==
  IF m.kind = "snapshot" THEN IF v = 0 THEN m.at ELSE Garbled
  ELSE IF m.kind = "output" THEN IF v # Garbled /\ v + 1 = m.at THEN m.at ELSE Garbled
  ELSE v

\* spawn_reader routes output to the channel of the pane; makeOnData holds it
\* back while the pane is hidden, up to a limit (the few bytes of modes do not count).
OnData(c, m) ==
  IF visible[c] \/ m.kind \notin {"snapshot", "output"}
  THEN view' = [view EXCEPT ![c] = Shown(@, m)] /\ UNCHANGED <<pending, draining>>
  ELSE /\ pending' = [pending EXCEPT ![c] = Append(@, m)]
       /\ draining' = [draining EXCEPT ![c] = Len(pending[c]) + 1 >= FlushAt]
       /\ UNCHANGED view

\* One message travels from the queue to the pane (writer, socket, spawn_reader).
Deliver(c) ==
  /\ writer[c] /\ queue[c] # <<>> /\ ~draining[c]
  /\ OnData(c, Head(queue[c]))
  /\ told' = [told EXCEPT ![c] = @ \/ Head(queue[c]).kind = "exit"]
  /\ queue' = [queue EXCEPT ![c] = Tail(@)]
  /\ UNCHANGED <<ring, alive, subs, writer, handler, asked, attaches, visible, other>>

\* drainPending, a chunk at a time.
DrainPending(c) ==
  /\ draining[c]
  /\ view' = [view EXCEPT ![c] = Shown(@, Head(pending[c]))]
  /\ pending' = [pending EXCEPT ![c] = Tail(@)]
  /\ draining' = [draining EXCEPT ![c] = Len(pending[c]) > 1]
  /\ UNCHANGED <<ring, alive, subs, queue, writer, handler, asked, attaches, visible, told,
                 other>>

\* setVisible: the tab of the pane comes to the front or leaves it.
SetVisible(c) ==
  /\ c \in Hiding /\ ~draining[c]
  /\ visible' = [visible EXCEPT ![c] = ~@]
  /\ draining' = [draining EXCEPT ![c] = ~visible[c] /\ pending[c] # <<>>]
  /\ UNCHANGED <<ring, alive, subs, queue, writer, handler, asked, attaches, view, pending,
                 told, other>>

\* Mutant of AskAttach: what was held back survives the reset.
AskAttachKeepsPending(c) ==
  /\ writer[c] /\ ~asked[c] /\ handler[c] = "idle" /\ ~draining[c]
  /\ attaches[c] < MaxAttach
  /\ attaches' = [attaches EXCEPT ![c] = @ + 1]
  /\ asked' = [asked EXCEPT ![c] = TRUE]
  /\ view' = [view EXCEPT ![c] = 0]
  /\ UNCHANGED <<ring, alive, subs, queue, writer, handler, visible, pending, draining, told,
                 other>>

\* open or reconnect: the terminal is reset, what it holds back is dropped and a Spawn
\* is sent.
AskAttach(c) ==
  /\ writer[c] /\ ~asked[c] /\ handler[c] = "idle" /\ ~draining[c]
  /\ attaches[c] < MaxAttach
  /\ attaches' = [attaches EXCEPT ![c] = @ + 1]
  /\ asked' = [asked EXCEPT ![c] = TRUE]
  /\ view' = [view EXCEPT ![c] = 0] /\ pending' = [pending EXCEPT ![c] = <<>>]
  /\ UNCHANGED <<ring, alive, subs, queue, writer, handler, visible, draining, told, other>>

\* A new connection of the app, once the old one has been cleaned up.
Connect(c) ==
  /\ handler[c] = "gone"
  /\ other < MaxOther
  /\ other' = other + 1
  /\ writer' = [writer EXCEPT ![c] = TRUE]
  /\ handler' = [handler EXCEPT ![c] = "idle"]
  /\ asked' = [asked EXCEPT ![c] = FALSE]
  /\ attaches' = [attaches EXCEPT ![c] = 0]
  /\ UNCHANGED <<ring, alive, subs, queue, paneVars, told>>

(***************************************************************************)
(* Specification                                                           *)
(***************************************************************************)
StreamInit ==
  /\ ring \in {n \in {0, 1} : n <= MaxOutput}     \* the ring may be preloaded
  /\ alive = TRUE
  /\ subs = [c \in Client |-> 0]
  /\ queue = [c \in Client |-> <<>>]
  /\ writer = [c \in Client |-> TRUE]
  /\ handler = [c \in Client |-> "idle"]
  /\ asked = [c \in Client |-> FALSE]
  /\ attaches = [c \in Client |-> 0]
  /\ view = [c \in Client |-> 0]
  /\ visible = [c \in Client |-> TRUE]
  /\ pending = [c \in Client |-> <<>>]
  /\ draining = [c \in Client |-> FALSE]
  /\ told = [c \in Client |-> FALSE]
  /\ other = 0

Daemon(c) == HandleSpawn(c) \/ HandleQuery(c) \/ SendReply(c) \/ HandleDetach(c)
               \/ HandlerEof(c)

StreamNext ==
  \/ ReadChunk
  \/ ReaderEof
  \/ StateChange
  \/ \E c \in Client : \/ Daemon(c)
                       \/ WriterFails(c)
                       \/ Deliver(c)
                       \/ DrainPending(c)
                       \/ SetVisible(c)
                       \/ AskAttach(c)
                       \/ Connect(c)

StreamSpec == StreamInit /\ [][StreamNext]_streamVars

(***************************************************************************)
(* Fairness: the app keeps reading its socket, and a handler that can go   *)
(* on does; a blocked send is not overtaken for ever by try_sends.         *)
(***************************************************************************)
StreamFairness ==
  \A c \in Client :
    /\ WF_streamVars(Deliver(c))
    /\ WF_streamVars(DrainPending(c))
    /\ WF_streamVars(HandleSpawn(c))
    /\ SF_streamVars(SendReply(c))

FairStreamSpec == StreamSpec /\ StreamFairness

\* What the pane will show when what it holds back and its queue are drained.
Drained(v, q) ==
  LET after[k \in 0..Len(q)] == IF k = 0 THEN v ELSE Shown(after[k - 1], q[k])
  IN  after[Len(q)]

\* A pane that still has a Sub misses nothing, hidden or not: once all is drained it shows
\* everything the session has written, however often others were dropped or the
\* queue was full (broadcast drops a client rather than a message; attach holds
\* the session lock from the snapshot to the push of the Sub).
SubscriberMissesNothing ==
  \A c \in Client : subs[c] > 0 /\ writer[c] => Drained(view[c], pending[c] \o queue[c]) = ring

\* The daemon and the pane implement the feed: nothing is skipped or repeated.
Feed == INSTANCE TerminalFeed WITH Pane <- Client, made <- ring
ImplementsFeed == Feed!FeedSpec

\* What a pane is owed reaches it: an Exit in the queue is delivered unless the
\* connection fails.
ExitArrives ==
  \A c \in Client :
    (~alive /\ subs[c] > 0) ~> (told[c] \/ ~writer[c] \/ subs[c] = 0)

=============================================================================

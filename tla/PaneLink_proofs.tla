--------------------------- MODULE PaneLink_proofs ---------------------------
(***************************************************************************)
(* A daemon pane at rest is attached, and replies reach the calls that     *)
(* asked for them (PaneLink, MuxClient): the inductive invariants and their*)
(* proofs.                                                                 *)
(*                                                                         *)
(* The queue of waiters of an id is an account of the calls that wait for  *)
(* a reply: on a live link, each such call has its entry in it until its   *)
(* reply has come (QueueOK).  So no mux_spawn times out on a live link, and*)
(* the route it made stays.  What keeps a pane attached, or gets it back,  *)
(* is then always in sight: a loss still to be handled, a spawn on its way *)
(* or an Exit that will close the pane (Hopeful).                          *)
(***************************************************************************)
EXTENDS PaneLink, FiniteSetTheorems, SequenceTheorems, TLAPS

(***************************************************************************)
(* The invariant of the client.                                            *)
(***************************************************************************)
Request == [kind : {"spawn", "probe", "detach", "kill"}, pane : Pane]
Answer  == [kind : {"spawn", "probe", "exit"}, pane : Pane]

ClientTypeOK ==
  /\ cur \in {0} \cup Conn
  /\ link \in [Conn -> {"unused", "up", "down", "lost"}]
  /\ routes \in [Conn -> SUBSET Pane]
  /\ waiters \in [Conn -> [Pane \X Kind -> Seq(Call \cup {Nobody})]]
  /\ pc \in [Call -> {"idle", "called", "send", "wait", "nudge"}]
  /\ via \in [Call -> {0} \cup Conn]
  /\ got \in [Call -> BOOLEAN]
  /\ toDaemon \in [Conn -> Seq(Request)]
  /\ toApp \in [Conn -> Seq(Answer)]
  /\ shell \in [Pane -> {"none", "running", "ended"}]
  /\ subs \in [Pane -> SUBSET Conn]
  /\ dying \in [Pane -> SUBSET Conn]

\* Only the cached connection has a daemon, or a reader thread, at the other end.
OneLink ==
  /\ cur # 0 => link[cur] \in {"up", "down"}
  /\ \A n \in Conn : link[n] \in {"up", "down"} => n = cur

\* Nothing concerns a connection that has not been made.
Fresh(n) ==
  /\ toDaemon[n] = <<>> /\ toApp[n] = <<>>
  /\ \A q \in Pane \X Kind : waiters[n][q] = <<>>
  /\ \A k \in Call : via[k] # n

Active(k) == pc[k] \in {"send", "wait"}

\* The call waits for a reply on the connection.
Waits(k, n) == via[k] = n /\ Active(k) /\ ~got[k]

\* An entry of the queue of an id is nobody's or that of one waiting call.
QueueSound(n, p, kind) ==
  LET q == waiters[n][<<p, kind>>]
  IN  /\ \A i \in DOMAIN q : q[i] # Nobody =>
           PaneOf(q[i]) = p /\ KindOf(q[i]) = kind /\ Waits(q[i], n)
      /\ \A i, j \in DOMAIN q : q[i] # Nobody /\ q[i] = q[j] => i = j

\* On a live link, every waiting call has an entry, unless callers may give up.
QueueComplete(n, p, kind) ==
  LET q == waiters[n][<<p, kind>>]
  IN  link[n] = "up" /\ kind \notin Slow =>
        /\ \A i \in DOMAIN q : q[i] # Nobody
        /\ \A k \in Call : PaneOf(k) = p /\ KindOf(k) = kind /\ Waits(k, n) =>
             \E i \in DOMAIN q : q[i] = k

QueueOK(n, p, kind) == QueueSound(n, p, kind) /\ QueueComplete(n, p, kind)

CallOK(k) == /\ Active(k) => via[k] \in Conn
             /\ got[k] => Active(k)

ClientInv ==
  /\ ClientTypeOK
  /\ OneLink
  /\ \A n \in Conn : link[n] = "unused" => Fresh(n)
  /\ \A k \in Call : CallOK(k)
  /\ \A n \in Conn, p \in Pane, kind \in Kind : QueueOK(n, p, kind)

\* The limit on the waiters of an id (64) is beyond what the calls can fill.
RoomForWaiters ==
  /\ IsFiniteSet(Again) /\ Cardinality(Again) < MaxWaiters
  /\ IsFiniteSet(Ask) /\ Cardinality(Ask) <= MaxWaiters
  /\ MaxQueued <= MaxWaiters

(***************************************************************************)
(* The invariant of the panes.                                             *)
(***************************************************************************)
PaneTypeOK ==
  /\ term \in [Pane -> {"new", "opening", "open", "disposed"}]
  /\ useDaemon \in [Pane -> BOOLEAN]
  /\ local \in [Pane -> BOOLEAN]
  /\ exits \subseteq Pane
  /\ losses \in Nat
  /\ window \in BOOLEAN

Down == \E n \in Conn : link[n] = "down"

\* A loss is handled before the next one, and never within the debounce time.
LossesApart ==
  /\ losses > 0 \/ Down => ~window
  /\ losses > 0 => losses = 1 /\ ~Down

Has(q, m) == \E i \in DOMAIN q : q[i] = m

\* An Exit will close the pane.
Doomed(p) ==
  \/ p \in exits
  \/ cur # 0 /\ Has(toApp[cur], Msg("exit", p))
  \/ cur # 0 /\ cur \in dying[p]

Called(p) == \E k \in Call : PaneOf(k) = p /\ KindOf(k) = "spawn" /\ pc[k] = "called"

\* A spawn of the pane is on its way on the cached connection.
SpawnSent(p) ==
  \/ Has(toDaemon[cur], Msg("spawn", p))
  \/ \E k \in Call : PaneOf(k) = p /\ KindOf(k) = "spawn" /\ pc[k] = "send" /\ via[k] = cur

\* The pane has a route, and a session that runs feeds it or will.
Feeds(p) ==
  p \in routes[cur] /\ ((cur \in subs[p] /\ shell[p] = "running") \/ SpawnSent(p))

\* A daemon pane on screen is fed, or something is under way that will see to it.
Hopeful(p) ==
  losses > 0 \/ Down \/ Called(p) \/ Doomed(p) \/ (cur # 0 /\ Feeds(p))

\* Only what has left the screen is detached.
DetachedLast(p) ==
  \A n \in Conn : Has(toDaemon[n], Msg("detach", p)) => term[p] = "disposed"

PaneOK(p) ==
  /\ DetachedLast(p)
  /\ p \notin Pinned /\ OnScreen(p) /\ useDaemon[p] => Hopeful(p)

LinkInv ==
  /\ ClientInv
  /\ PaneTypeOK
  /\ LossesApart
  /\ \A p \in Pane : PaneOK(p)

(***************************************************************************)
(* Calls and queues.                                                       *)
(***************************************************************************)
LEMMA CallFacts ==
  /\ \A k \in Call : PaneOf(k) \in Pane /\ KindOf(k) \in Kind
  /\ Nobody \notin Call /\ 0 \notin Conn
  /\ \A p \in Pane : Opening(p) \in Call /\ PaneOf(Opening(p)) = p
                       /\ KindOf(Opening(p)) = "spawn"
  /\ \A p \in Pane, r \in Again : <<p, r>> \in Call /\ PaneOf(<<p, r>>) = p
                                    /\ KindOf(<<p, r>>) = "spawn"
  /\ \A p \in Pane, a \in Ask : <<p, a>> \in Call /\ PaneOf(<<p, a>>) = p
                                  /\ KindOf(<<p, a>>) = "probe"
BY ClientConstantsOk DEF Call, Kind, PaneOf, KindOf, Opening, Conn

Slot == Call \cup {Nobody}

\* The waiters when one queue changes.
WithQueue(n, p, kind, upd) == [waiters EXCEPT ![n][<<p, kind>>] = upd]

LEMMA OneQueue ==
  ASSUME ClientTypeOK, NEW n \in Conn, NEW p \in Pane, NEW kind \in Kind,
         NEW upd \in Seq(Slot), waiters' = WithQueue(n, p, kind, upd)
  PROVE  /\ waiters' \in [Conn -> [Pane \X Kind -> Seq(Slot)]]
         /\ waiters'[n][<<p, kind>>] = upd
         /\ \A m \in Conn, r \in Pane, other \in Kind :
              m # n \/ r # p \/ other # kind => waiters'[m][<<r, other>>] = waiters[m][<<r, other>>]
<1>1. waiters \in [Conn -> [Pane \X Kind -> Seq(Slot)]]
  BY DEF ClientTypeOK, Slot
<1> DEFINE w == waiters[n]
           v == [w EXCEPT ![<<p, kind>>] = upd]
<1>2. waiters' = [waiters EXCEPT ![n] = v]
  BY DEF WithQueue
<1>3. w \in [Pane \X Kind -> Seq(Slot)]
  BY <1>1
<1>4. <<p, kind>> \in Pane \X Kind
  OBVIOUS
<1>5. v \in [Pane \X Kind -> Seq(Slot)] /\ v[<<p, kind>>] = upd
  BY <1>3, <1>4
<1>6. \A r \in Pane, other \in Kind :
        r # p \/ other # kind => v[<<r, other>>] = w[<<r, other>>]
  BY <1>3
<1> HIDE DEF v
<1>7. waiters'[n] = v /\ \A m \in Conn \ {n} : waiters'[m] = waiters[m]
  BY <1>1, <1>2
<1>8. waiters' \in [Conn -> [Pane \X Kind -> Seq(Slot)]]
  BY <1>1, <1>2, <1>5
<1> QED
  BY <1>5, <1>6, <1>7, <1>8

LEMMA DroppedFacts ==
  ASSUME NEW q \in Seq(Slot), NEW k \in Call
  PROVE  /\ Dropped(q, k) \in Seq(Slot) /\ Len(Dropped(q, k)) = Len(q)
         /\ \A i \in 1..Len(q) : Dropped(q, k)[i] = IF q[i] = k THEN Nobody ELSE q[i]
         /\ DOMAIN Dropped(q, k) = 1..Len(q) /\ DOMAIN q = 1..Len(q)
BY DEF Dropped, Slot

LEMMA FrontFacts ==
  ASSUME NEW q \in Seq(Slot), q # <<>>
  PROVE  /\ Front(q) \in Seq(Slot) /\ Len(Front(q)) = Len(q) - 1
         /\ \A i \in 1..(Len(q) - 1) : Front(q)[i] = q[i]
<1>1. Len(q) \in Nat \ {0} /\ \A i \in 1..(Len(q) - 1) : q[i] \in Slot
  OBVIOUS
<1>2. Front(q) = SubSeq(q, 1, Len(q) - 1)
  BY DEF Front
<1> DEFINE n == Len(q) - 1
<1>3. n \in Nat
  BY <1>1
<1> HIDE DEF n
<1>4. \A i \in 1..n : q[i] \in Slot
  BY <1>1 DEF n
<1>5. /\ SubSeq(q, 1, n) \in Seq(Slot) /\ Len(SubSeq(q, 1, n)) = IF 1 <= n THEN n - 1 + 1 ELSE 0
      /\ \A i \in 1..(n - 1 + 1) : SubSeq(q, 1, n)[i] = q[1 + i - 1]
  BY <1>3, <1>4, SubSeqProperties
<1>6. /\ SubSeq(q, 1, n) \in Seq(Slot) /\ Len(SubSeq(q, 1, n)) = n
      /\ \A i \in 1..n : SubSeq(q, 1, n)[i] = q[i]
  BY <1>3, <1>5
<1> QED
  BY <1>2, <1>6 DEF n

LEMMA TailFacts ==
  ASSUME NEW S, NEW q \in Seq(S), q # <<>>
  PROVE  /\ Head(q) \in S /\ Tail(q) \in Seq(S) /\ Head(q) = q[1]
         /\ Len(q) \in Nat \ {0} /\ Len(Tail(q)) = Len(q) - 1
         /\ \A i \in 1..(Len(q) - 1) : Tail(q)[i] = q[i + 1]
OBVIOUS

\* What joining a queue gives: the last `e` entries, after `d` that made room, and the call.
LEMMA JoinFacts ==
  ASSUME NEW q \in Seq(Slot), NEW k \in Call
  PROVE  /\ Join(q, k) \in Seq(Slot)
         /\ \E d, e \in Nat :
              /\ e + d = Len(q) /\ (Len(q) < MaxWaiters => d = 0)
              /\ DOMAIN Join(q, k) = 1..(e + 1) /\ Join(q, k)[e + 1] = k
              /\ \A i \in 1..e : Join(q, k)[i] = q[i + d] /\ i + d \in 1..Len(q)
<1> DEFINE e == IF Len(q) < MaxWaiters THEN Len(q) ELSE MaxWaiters - 1
           d == Len(q) - e
           s == SubSeq(q, d + 1, Len(q))
<1>1. e \in Nat /\ d \in Nat /\ e + d = Len(q) /\ (Len(q) < MaxWaiters => d = 0)
  BY ClientConstantsOk
<1>3. Join(q, k) = Append(s, k) /\ k \in Slot
  BY DEF Join, Slot
<1>2. s \in Seq(Slot) /\ Len(s) = e /\ \A i \in 1..e : s[i] = q[i + d] /\ i + d \in 1..Len(q)
  <2> HIDE DEF e, d
  <2> QED
    BY <1>1
<1> HIDE DEF e, d, s
<1>4. /\ Append(s, k) \in Seq(Slot) /\ DOMAIN Append(s, k) = 1..(e + 1)
      /\ Append(s, k)[e + 1] = k
      /\ \A i \in 1..e : Append(s, k)[i] = s[i]
  BY <1>1, <1>2, <1>3
<1> QED
  BY <1>1, <1>2, <1>3, <1>4

LEMMA QueueFacts ==
  ASSUME ClientInv, NEW n \in Conn, NEW p \in Pane, NEW kind \in Kind
  PROVE  /\ waiters[n][<<p, kind>>] \in Seq(Slot) /\ QueueOK(n, p, kind)
         /\ DOMAIN waiters[n][<<p, kind>>] = 1..Len(waiters[n][<<p, kind>>])
         /\ \A i \in 1..Len(waiters[n][<<p, kind>>]) :
              waiters[n][<<p, kind>>][i] # Nobody => waiters[n][<<p, kind>>][i] \in Call
<1>1. QueueOK(n, p, kind)
  BY DEF ClientInv
<1>2. waiters[n][<<p, kind>>] \in Seq(Slot)
  BY DEF ClientInv, ClientTypeOK, Slot
<1>3. \A q \in Seq(Slot) : /\ DOMAIN q = 1..Len(q)
                           /\ \A i \in 1..Len(q) : q[i] # Nobody => q[i] \in Call
  BY DEF Slot
<1> QED
  BY <1>1, <1>2, <1>3

(***************************************************************************)
(* What changes no queue, and no call that waits in it, keeps it.          *)
(***************************************************************************)
LEMMA SameQueue ==
  ASSUME NEW n \in Conn, NEW p \in Pane, NEW kind \in Kind, QueueOK(n, p, kind),
         waiters'[n][<<p, kind>>] = waiters[n][<<p, kind>>],
         \A k \in Call : PaneOf(k) = p /\ KindOf(k) = kind => (Waits(k, n)' <=> Waits(k, n)),
         link'[n] = "up" => link[n] = "up" \/ Fresh(n),
         waiters[n][<<p, kind>>] \in Seq(Slot)
  PROVE  QueueOK(n, p, kind)'
<1> DEFINE q == waiters[n][<<p, kind>>]
<1>1. \A i \in DOMAIN q : q[i] # Nobody => q[i] \in Call
  BY DEF Slot
<1>2. QueueSound(n, p, kind)'
  BY <1>1 DEF QueueOK, QueueSound
<1>3. QueueComplete(n, p, kind)'
  <2>1. CASE Fresh(n)
    <3>1. q = <<>> /\ \A k \in Call : ~Waits(k, n)
      BY <2>1 DEF Fresh, Waits
    <3> QED
      BY <3>1 DEF QueueComplete
  <2>2. CASE link'[n] = "up" => link[n] = "up"
    BY <2>2 DEF QueueOK, QueueComplete
  <2> QED
    BY <2>1, <2>2
<1> QED
  BY <1>2, <1>3 DEF QueueOK

\* The steps that leave the calls and their waiters alone.
LEMMA QueuesKept ==
  ASSUME ClientInv, UNCHANGED <<waiters, pc, via, got>>,
         \A n \in Conn : link'[n] = "up" => link[n] = "up" \/ Fresh(n)
  PROVE  /\ \A k \in Call : CallOK(k)'
         /\ \A n \in Conn, p \in Pane, kind \in Kind : QueueOK(n, p, kind)'
<1>1. \A k \in Call : CallOK(k)'
  BY DEF ClientInv, CallOK, Active
<1>2. ASSUME NEW n \in Conn, NEW p \in Pane, NEW kind \in Kind
      PROVE  QueueOK(n, p, kind)'
  <2>1. QueueOK(n, p, kind) /\ waiters[n][<<p, kind>>] \in Seq(Slot)
    BY DEF ClientInv, ClientTypeOK, Slot
  <2>2. \A k \in Call : Waits(k, n)' <=> Waits(k, n)
    BY DEF Waits, Active
  <2> QED
    BY <2>1, <2>2, SameQueue
<1> QED
  BY <1>1, <1>2

\* A call changes, but no waiter: it did not wait before and does not now, or waits on.
LEMMA CallKept ==
  ASSUME ClientInv, NEW k \in Call, UNCHANGED waiters,
         \A n \in Conn : link'[n] = "up" => link[n] = "up" \/ Fresh(n),
         \A j \in Call \ {k} : pc'[j] = pc[j] /\ via'[j] = via[j] /\ got'[j] = got[j],
         \A n \in Conn : Waits(k, n)' <=> Waits(k, n),
         CallOK(k)'
  PROVE  /\ \A j \in Call : CallOK(j)'
         /\ \A n \in Conn, p \in Pane, kind \in Kind : QueueOK(n, p, kind)'
<1>1. \A j \in Call \ {k} : CallOK(j)'
  BY DEF ClientInv, CallOK, Active
<1>2. ASSUME NEW n \in Conn, NEW p \in Pane, NEW kind \in Kind
      PROVE  QueueOK(n, p, kind)'
  <2>1. QueueOK(n, p, kind) /\ waiters[n][<<p, kind>>] \in Seq(Slot)
    BY DEF ClientInv, ClientTypeOK, Slot
  <2>2. \A j \in Call : Waits(j, n)' <=> Waits(j, n)
    <3>1. \A j \in Call \ {k} : Waits(j, n)' <=> Waits(j, n)
      BY DEF Waits, Active
    <3> QED
      BY <3>1
  <2> QED
    BY <2>1, <2>2, SameQueue
<1> QED
  BY <1>1, <1>2

(***************************************************************************)
(* The steps of a call.                                                    *)
(***************************************************************************)
\* The connection that a command finds or makes.
LEMMA EnsureFacts ==
  ASSUME ClientInv, NEW n \in Conn, Ensure(n)
  PROVE  /\ cur' = n /\ link' \in [Conn -> {"unused", "up", "down", "lost"}]
         /\ OneLink'
         /\ link'[n] \in {"up", "down"}
         /\ \A m \in Conn : /\ link'[m] = "up" => link[m] = "up" \/ Fresh(m)
                            /\ link'[m] = "unused" => link[m] = "unused" /\ m # n
                            /\ m # n => link'[m] = link[m]
         /\ \/ cur = n /\ link' = link
            \/ cur = 0 /\ link[n] = "unused" /\ link'[n] = "up" /\ Fresh(n)
<1>0. /\ cur \in {0} \cup Conn /\ link \in [Conn -> {"unused", "up", "down", "lost"}]
      /\ OneLink /\ 0 \notin Conn /\ \A m \in Conn : link[m] = "unused" => Fresh(m)
  BY CallFacts DEF ClientInv, ClientTypeOK
<1>1. CASE cur # 0
  <2>1. n = cur /\ UNCHANGED <<cur, link>>
    BY <1>1 DEF Ensure
  <2> QED
    BY <1>0, <1>1, <2>1 DEF OneLink
<1>2. CASE cur = 0
  <2>1. link[n] = "unused" /\ cur' = n /\ link' = [link EXCEPT ![n] = "up"]
    BY <1>2 DEF Ensure
  <2>2. link'[n] = "up" /\ \A m \in Conn \ {n} : link'[m] = link[m]
    BY <1>0, <2>1
  <2>3. \A m \in Conn : link[m] \notin {"up", "down"}
    BY <1>0, <1>2 DEF OneLink
  <2>4. OneLink'
    BY <2>1, <2>2, <2>3 DEF OneLink
  <2>5. link' \in [Conn -> {"unused", "up", "down", "lost"}]
    BY <1>0, <2>1
  <2> QED
    BY <1>0, <1>2, <2>1, <2>2, <2>4, <2>5
<1> QED
  BY <1>1, <1>2

\* The queue of an id never fills up while its link is live.
LEMMA QueueHasRoom ==
  ASSUME ClientInv, RoomForWaiters, NEW k \in Call, NEW n \in Conn,
         pc[k] = "called", link[n] = "up", KindOf(k) \notin Slow
  PROVE  Len(waiters[n][QueueOf(k)]) < MaxWaiters
<1> DEFINE p == PaneOf(k)
           kind == KindOf(k)
           q == waiters[n][<<p, kind>>]
           slots == IF kind = "probe" THEN Ask ELSE {"open"} \cup Again
<1>0. p \in Pane /\ kind \in Kind /\ <<p, kind>> = QueueOf(k)
  BY CallFacts DEF QueueOf
<1>1. q \in Seq(Slot) /\ QueueOK(n, p, kind)
  BY <1>0 DEF ClientInv, ClientTypeOK, Slot
<1>2. IsFiniteSet(slots) /\ Cardinality(slots) \in Nat /\ Cardinality(slots) <= MaxWaiters
  <2>1. CASE kind = "probe"
    BY <2>1, FS_CardinalityType DEF RoomForWaiters
  <2>2. CASE kind # "probe"
    <3>1. /\ IsFiniteSet(Again \cup {"open"})
          /\ Cardinality(Again \cup {"open"}) = Cardinality(Again) + 1
      BY FS_AddElement, ClientConstantsOk DEF RoomForWaiters
    <3>2. slots = Again \cup {"open"}
      BY <2>2
    <3>3. Cardinality(Again) \in Nat /\ MaxWaiters \in Nat
      BY FS_CardinalityType, ClientConstantsOk DEF RoomForWaiters
    <3> HIDE DEF slots
    <3> QED
      BY <3>1, <3>2, <3>3 DEF RoomForWaiters
  <2> QED
    BY <2>1, <2>2
<1>3. \A c \in Call : PaneOf(c) = p /\ KindOf(c) = kind => c = <<p, c[2]>> /\ c[2] \in slots
  BY ClientConstantsOk DEF Call, PaneOf, KindOf
<1>4. k = <<p, k[2]>> /\ k[2] \in slots
  BY <1>3
<1>5. \A i \in 1..Len(q) : /\ q[i] \in Call /\ PaneOf(q[i]) = p /\ KindOf(q[i]) = kind
                           /\ q[i] # k
  BY <1>1 DEF QueueOK, QueueSound, QueueComplete, Waits, Active, Slot
<1>6. \A i, j \in 1..Len(q) : q[i] = q[j] => i = j
  <2>1. DOMAIN q = 1..Len(q)
    BY <1>1
  <2> QED
    BY <1>1, <1>5, <2>1, CallFacts, ZenonT(60) DEF QueueOK, QueueSound
<1> DEFINE rest == slots \ {k[2]}
           f == [i \in 1..Len(q) |-> q[i][2]]
<1> HIDE DEF q, slots, p, kind
<1>7. \A i \in 1..Len(q) : q[i] = <<p, q[i][2]>> /\ q[i][2] \in rest
  BY <1>3, <1>4, <1>5
<1>8. f \in [1..Len(q) -> rest] /\ \A i, j \in 1..Len(q) : f[i] = f[j] => i = j
  BY <1>6, <1>7
<1>9. IsFiniteSet(rest) /\ Cardinality(rest) = Cardinality(slots) - 1
  BY <1>2, <1>4, FS_RemoveElement
<1>10. /\ Cardinality(1..Len(q)) = Len(q) /\ Len(q) \in Nat
       /\ IsFiniteSet(1..Len(q))
  <2>1. Len(q) \in Nat
    BY <1>1
  <2>2. /\ IsFiniteSet(1..Len(q))
        /\ Cardinality(1..Len(q)) = IF 1 > Len(q) THEN 0 ELSE Len(q) - 1 + 1
    BY <2>1, FS_Interval
  <2> QED
    BY <2>1, <2>2
<1> HIDE DEF f, rest
<1>11. ~(Cardinality(rest) < Cardinality(1..Len(q)))
  <2> SUFFICES ASSUME Cardinality(rest) < Cardinality(1..Len(q))
               PROVE  FALSE
    OBVIOUS
  <2>1. PICK i, j \in 1..Len(q) : i # j /\ f[i] = f[j]
    BY <1>8, <1>9, <1>10, FS_PigeonHole
  <2> QED
    BY <1>8, <2>1
<1> QED
  BY <1>0, <1>2, <1>9, <1>10, <1>11, ClientConstantsOk DEF q

\* A call joins the queue of its id.
LEMMA JoinKeeps ==
  ASSUME ClientInv, RoomForWaiters, NEW n \in Conn, NEW p \in Pane, NEW kind \in Kind,
         NEW k \in Call, PaneOf(k) = p, KindOf(k) = kind, pc[k] = "called",
         kind \in Slow => Len(waiters[n][<<p, kind>>]) < MaxQueued,
         waiters'[n][<<p, kind>>] = Join(waiters[n][<<p, kind>>], k),
         link'[n] = "up" => link[n] = "up" \/ Fresh(n),
         ~Waits(k, n), Waits(k, n)',
         \A j \in Call \ {k} : Waits(j, n)' <=> Waits(j, n)
  PROVE  QueueOK(n, p, kind)'
<1>q. PICK q \in Seq(Slot) : q = waiters[n][<<p, kind>>]
  BY QueueFacts
<1>1. q \in Seq(Slot) /\ QueueOK(n, p, kind) /\ DOMAIN q = 1..Len(q)
      /\ \A i \in 1..Len(q) : q[i] # Nobody => q[i] \in Call
  BY <1>q, QueueFacts
<1>2. \A i \in 1..Len(q) : q[i] # Nobody =>
        q[i] # k /\ PaneOf(q[i]) = p /\ KindOf(q[i]) = kind /\ Waits(q[i], n)
  BY <1>1, <1>q DEF QueueOK, QueueSound
<1>3. \A i, j \in 1..Len(q) : q[i] # Nobody /\ q[i] = q[j] => i = j
  BY <1>1, <1>q DEF QueueOK, QueueSound
<1>4. k # Nobody
  BY CallFacts
<1>5. link[n] = "up" /\ kind \notin Slow =>
        /\ \A i \in 1..Len(q) : q[i] # Nobody
        /\ \A j \in Call : PaneOf(j) = p /\ KindOf(j) = kind /\ Waits(j, n) =>
             \E i \in 1..Len(q) : q[i] = j
  BY <1>1, <1>q DEF QueueOK, QueueComplete
<1>6. link[n] = "up" /\ kind \notin Slow => Len(q) < MaxWaiters
  BY <1>q, QueueHasRoom DEF QueueOf
<1>7. Fresh(n) => q = <<>> /\ \A j \in Call : ~Waits(j, n)
  BY <1>q DEF Fresh, Waits
<1>v. PICK v \in Seq(Slot) : v = Join(q, k)
  BY <1>1, JoinFacts
<1>8. PICK d, e \in Nat :
        /\ e + d = Len(q) /\ (Len(q) < MaxWaiters => d = 0)
        /\ DOMAIN v = 1..(e + 1) /\ v[e + 1] = k
        /\ \A i \in 1..e : v[i] = q[i + d] /\ i + d \in 1..Len(q)
  <2>1. \E d, e \in Nat :
          /\ e + d = Len(q) /\ (Len(q) < MaxWaiters => d = 0)
          /\ DOMAIN Join(q, k) = 1..(e + 1) /\ Join(q, k)[e + 1] = k
          /\ \A i \in 1..e : Join(q, k)[i] = q[i + d] /\ i + d \in 1..Len(q)
    BY JoinFacts, ZenonT(60)
  <2> QED
    BY ONLY <1>v, <2>1
<1>9. \A i \in 1..(e + 1) : i \in 1..e \/ i = e + 1
  BY <1>8
<1>10. \A i \in 1..e : v[i] # k
  BY <1>2, <1>4, <1>8
<1>11. \A i \in 1..(e + 1) : v[i] # Nobody =>
         PaneOf(v[i]) = p /\ KindOf(v[i]) = kind /\ Waits(v[i], n)'
  <2>1. \A i \in 1..e : v[i] # Nobody =>
          PaneOf(v[i]) = p /\ KindOf(v[i]) = kind /\ Waits(v[i], n)'
    BY <1>1, <1>2, <1>8
  <2> QED
    BY <1>8, <1>9, <2>1
<1>12. \A i, j \in 1..(e + 1) : v[i] # Nobody /\ v[i] = v[j] => i = j
  <2>1. \A i, j \in 1..e : v[i] # Nobody /\ v[i] = v[j] => i = j
    <3>1. \A i, j \in 1..e : i + d = j + d => i = j
      BY <1>8
    <3> QED
      BY <1>3, <1>8, <3>1
  <2>2. \A i \in 1..(e + 1) : i \in 1..e \/ (i = e + 1 /\ v[i] = k)
    BY ONLY <1>8, <1>9
  <2> QED
    BY ONLY <1>10, <2>1, <2>2
<1>13. ASSUME link'[n] = "up", kind \notin Slow
       PROVE  /\ \A i \in 1..(e + 1) : v[i] # Nobody
              /\ \A j \in Call : PaneOf(j) = p /\ KindOf(j) = kind /\ Waits(j, n)' =>
                   \E i \in 1..(e + 1) : v[i] = j
  <2>1. CASE link[n] = "up"
    <3>1. d = 0 /\ e = Len(q)
      BY <1>6, <1>8, <1>13, <2>1
    <3>2. \A i \in 1..e : v[i] = q[i] /\ i \in 1..(e + 1) /\ i \in 1..Len(q)
      BY <1>8, <3>1
    <3>3. \A i \in 1..(e + 1) : v[i] # Nobody
      BY <1>4, <1>5, <1>8, <1>9, <1>13, <2>1, <3>1, <3>2
    <3>4. e + 1 \in 1..(e + 1)
      BY <1>8
    <3> QED
      BY <1>5, <1>8, <1>13, <2>1, <3>1, <3>2, <3>3, <3>4
  <2>2. CASE Fresh(n)
    <3>1. e = 0
      BY <1>7, <1>8, <2>2
    <3> QED
      BY <1>4, <1>7, <1>8, <2>2, <3>1
  <2> QED
    BY <1>13, <2>1, <2>2
<1>14. QueueSound(n, p, kind)'
  <2>1. waiters'[n][<<p, kind>>] = v
    BY <1>q, <1>v
  <2> QED
    BY <1>8, <1>11, <1>12, <2>1 DEF QueueSound, Waits, Active
<1>15. QueueComplete(n, p, kind)'
  <2>1. waiters'[n][<<p, kind>>] = v
    BY <1>q, <1>v
  <2>2. link'[n] = "up" /\ kind \notin Slow =>
          /\ \A i \in DOMAIN v : v[i] # Nobody
          /\ \A j \in Call : PaneOf(j) = p /\ KindOf(j) = kind /\ Waits(j, n)' =>
               \E i \in DOMAIN v : v[i] = j
    BY ONLY <1>8, <1>13
  <2> QED
    BY ONLY <2>1, <2>2 DEF QueueComplete
<1> QED
  BY <1>14, <1>15 DEF QueueOK

LEMMA EnterKeeps ==
  ASSUME ClientInv, RoomForWaiters, NEW k \in Call, Enter(k)
  PROVE  ClientInv'
<1>0. PICK p \in Pane, kind \in Kind : PaneOf(k) = p /\ KindOf(k) = kind
  BY CallFacts
<1>1. PICK n \in Conn :
        /\ Ensure(n) /\ (kind \in Slow => Len(waiters[n][<<p, kind>>]) < MaxQueued)
        /\ via' = [via EXCEPT ![k] = n]
        /\ waiters' = [waiters EXCEPT ![n][<<p, kind>>] = Join(waiters[n][<<p, kind>>], k)]
        /\ routes' = IF kind = "spawn" THEN [routes EXCEPT ![n] = @ \cup {p}] ELSE routes
  BY <1>0 DEF Enter, QueueOf
<1>2. /\ pc[k] = "called" /\ pc' = [pc EXCEPT ![k] = "send"]
      /\ UNCHANGED <<got, toDaemon, toApp, shell, subs, dying>>
  BY DEF Enter, daemonVars
<1>3. ClientTypeOK
  BY DEF ClientInv
<1>4. PICK v \in Seq(Slot) : v = Join(waiters[n][<<p, kind>>], k)
  BY QueueFacts, JoinFacts
<1>5. /\ waiters' \in [Conn -> [Pane \X Kind -> Seq(Slot)]]
      /\ waiters'[n][<<p, kind>>] = v
      /\ \A m \in Conn, r \in Pane, other \in Kind :
           m # n \/ r # p \/ other # kind
             => waiters'[m][<<r, other>>] = waiters[m][<<r, other>>]
  <2>1. waiters' = WithQueue(n, p, kind, v)
    BY <1>1, <1>4 DEF WithQueue
  <2> QED
    BY <1>3, <2>1, OneQueue, ZenonT(60)
<1>6. /\ cur' = n /\ link' \in [Conn -> {"unused", "up", "down", "lost"}] /\ OneLink'
      /\ \A m \in Conn : /\ link'[m] = "up" => link[m] = "up" \/ Fresh(m)
                         /\ link'[m] = "unused" => link[m] = "unused" /\ m # n
  BY <1>1, EnsureFacts
<1>7. /\ pc'[k] = "send" /\ via'[k] = n /\ ~got[k] /\ got' = got
      /\ \A j \in Call \ {k} : pc'[j] = pc[j] /\ via'[j] = via[j]
  BY <1>1, <1>2, <1>3 DEF ClientInv, ClientTypeOK, CallOK, Active
<1>8. /\ \A j \in Call \ {k}, m \in Conn : Waits(j, m)' <=> Waits(j, m)
      /\ \A m \in Conn : ~Waits(k, m) /\ (Waits(k, m)' <=> m = n)
  BY <1>2, <1>7 DEF Waits, Active
<1>9. ClientTypeOK'
  <2>1. /\ routes' \in [Conn -> SUBSET Pane] /\ via' \in [Call -> {0} \cup Conn]
        /\ pc' \in [Call -> {"idle", "called", "send", "wait", "nudge"}]
    BY <1>1, <1>2, <1>3 DEF ClientTypeOK
  <2> QED
    BY <1>2, <1>3, <1>5, <1>6, <2>1 DEF ClientTypeOK, Slot
<1>10. \A m \in Conn : link'[m] = "unused" => Fresh(m)'
  <2> SUFFICES ASSUME NEW m \in Conn, link'[m] = "unused"
               PROVE  Fresh(m)'
    OBVIOUS
  <2>1. Fresh(m) /\ m # n
    BY <1>6 DEF ClientInv
  <2>2. \A r \in Pane, other \in Kind : waiters'[m][<<r, other>>] = waiters[m][<<r, other>>]
    BY <1>5, <2>1, ZenonT(60)
  <2>3. \A x \in Pane \X Kind : waiters'[m][x] = waiters[m][x]
    BY <2>2
  <2>4. \A j \in Call : via'[j] # m
    BY <1>7, <2>1 DEF Fresh
  <2> QED
    BY <1>2, <2>1, <2>3, <2>4 DEF Fresh
<1>11. \A j \in Call : CallOK(j)'
  BY <1>7 DEF ClientInv, CallOK, Active
<1>12. QueueOK(n, p, kind)'
  BY <1>0, <1>1, <1>2, <1>4, <1>5, <1>6, <1>8, JoinKeeps
<1>13. ASSUME NEW m \in Conn, NEW r \in Pane, NEW other \in Kind,
              m # n \/ r # p \/ other # kind
       PROVE  QueueOK(m, r, other)'
  <2>1. QueueOK(m, r, other) /\ waiters[m][<<r, other>>] \in Seq(Slot)
    BY QueueFacts
  <2>2. \A j \in Call : PaneOf(j) = r /\ KindOf(j) = other => (Waits(j, m)' <=> Waits(j, m))
    BY <1>0, <1>8, <1>13
  <2> QED
    BY <1>5, <1>6, <1>13, <2>1, <2>2, SameQueue
<1> QED
  BY <1>6, <1>9, <1>10, <1>11, <1>12, <1>13 DEF ClientInv

LEMMA MsgFacts ==
  \A p \in Pane : /\ Msg("spawn", p) \in Request /\ Msg("probe", p) \in Request
                  /\ Msg("detach", p) \in Request /\ Msg("kill", p) \in Request
                  /\ Msg("spawn", p) \in Answer /\ Msg("probe", p) \in Answer
                  /\ Msg("exit", p) \in Answer
BY DEF Msg, Request, Answer

\* One call changes; the queues and the connections do not.
LEMMA CallMoves ==
  ASSUME ClientInv, NEW k \in Call, NEW state \in {"idle", "wait", "nudge"},
         NEW to \in {0} \cup Conn, NEW flag \in BOOLEAN,
         pc' = [pc EXCEPT ![k] = state], via' = [via EXCEPT ![k] = to],
         got' = [got EXCEPT ![k] = flag],
         UNCHANGED <<cur, link, waiters, toApp, shell, subs, dying>>,
         routes' \in [Conn -> SUBSET Pane], toDaemon' \in [Conn -> Seq(Request)],
         \A n \in Conn : link[n] = "unused" => toDaemon'[n] = toDaemon[n],
         \/ state = "wait" /\ pc[k] = "send" /\ to = via[k] /\ (flag <=> got[k])
         \/ state # "wait" /\ (~Active(k) \/ got[k]) /\ to = 0 /\ ~flag
  PROVE  ClientInv'
<1>0. ClientTypeOK /\ CallOK(k) /\ 0 \notin Conn
  BY CallFacts DEF ClientInv
<1>1. /\ pc'[k] = state /\ via'[k] = to /\ got'[k] = flag
      /\ \A j \in Call \ {k} : pc'[j] = pc[j] /\ via'[j] = via[j] /\ got'[j] = got[j]
  BY <1>0 DEF ClientTypeOK
<1>2. /\ pc' \in [Call -> {"idle", "called", "send", "wait", "nudge"}]
      /\ via' \in [Call -> {0} \cup Conn] /\ got' \in [Call -> BOOLEAN]
  BY <1>0 DEF ClientTypeOK
<1>3. ClientTypeOK'
  BY <1>0, <1>2 DEF ClientTypeOK
<1>4. OneLink'
  BY DEF ClientInv, OneLink
<1>5. \A n \in Conn : Waits(k, n)' <=> Waits(k, n)
  BY <1>1 DEF Waits, Active
<1>6. CallOK(k)'
  BY <1>0, <1>1 DEF CallOK, Active
<1>7. /\ \A j \in Call : CallOK(j)'
      /\ \A n \in Conn, p \in Pane, kind \in Kind : QueueOK(n, p, kind)'
  BY <1>1, <1>5, <1>6, CallKept
<1>8. ASSUME NEW n \in Conn, link[n] = "unused"
      PROVE  Fresh(n)'
  <2>1. Fresh(n) /\ toDaemon'[n] = toDaemon[n]
    BY <1>8 DEF ClientInv
  <2>2. \A j \in Call : via'[j] # n
    BY <1>0, <1>1, <2>1 DEF Fresh
  <2> QED
    BY <2>1, <2>2 DEF Fresh
<1> QED
  BY <1>3, <1>4, <1>7, <1>8 DEF ClientInv

LEMMA SendKeeps ==
  ASSUME ClientInv, NEW k \in Call, Send(k)
  PROVE  ClientInv'
<1>1. /\ pc[k] = "send" /\ link[via[k]] = "up" /\ via[k] \in Conn
      /\ toDaemon' = [toDaemon EXCEPT ![via[k]] = Append(@, Msg(KindOf(k), PaneOf(k)))]
      /\ pc' = [pc EXCEPT ![k] = "wait"]
      /\ UNCHANGED <<cur, link, routes, waiters, via, got, toApp, shell, subs, dying>>
  BY DEF Send, ClientInv, CallOK, Active, daemonVars
<1>2. PICK to \in {0} \cup Conn, flag \in BOOLEAN :
        to = via[k] /\ flag = got[k]
  BY <1>1 DEF ClientInv, ClientTypeOK
<1>5. /\ via' = [via EXCEPT ![k] = to] /\ got' = [got EXCEPT ![k] = flag]
      /\ routes' \in [Conn -> SUBSET Pane]
  BY <1>1, <1>2 DEF ClientInv, ClientTypeOK
<1>3. Msg(KindOf(k), PaneOf(k)) \in Request
  BY CallFacts, MsgFacts DEF Kind
<1>4. /\ toDaemon' \in [Conn -> Seq(Request)]
      /\ \A n \in Conn : link[n] = "unused" => toDaemon'[n] = toDaemon[n]
  BY <1>1, <1>3 DEF ClientInv, ClientTypeOK
<1> QED
  BY <1>1, <1>2, <1>4, <1>5, CallMoves, ZenonT(60)

LEMMA ReturnKeeps ==
  ASSUME ClientInv, NEW k \in Call, Return(k)
  PROVE  ClientInv'
<1>1. PICK state \in {"nudge", "idle"} : pc' = [pc EXCEPT ![k] = state]
  BY DEF Return
<1>2. /\ got[k] /\ via' = [via EXCEPT ![k] = 0] /\ got' = [got EXCEPT ![k] = FALSE]
      /\ UNCHANGED <<cur, link, routes, waiters, toDaemon, toApp, shell, subs, dying>>
  BY DEF Return, daemonVars
<1>3. routes' \in [Conn -> SUBSET Pane] /\ toDaemon' \in [Conn -> Seq(Request)]
  BY <1>2 DEF ClientInv, ClientTypeOK
<1> QED
  BY <1>1, <1>2, <1>3, CallMoves

\* Nudge, NudgeFails and Skips.
LEMMA NudgeKeeps ==
  ASSUME ClientInv, NEW k \in Call, pc[k] = "nudge", Ends(k),
         UNCHANGED <<cur, link, routes, waiters, toDaemon, toApp, daemonVars>>
  PROVE  ClientInv'
<1>1. /\ pc' = [pc EXCEPT ![k] = "idle"] /\ via' = [via EXCEPT ![k] = 0]
      /\ got' = [got EXCEPT ![k] = FALSE] /\ ~Active(k)
      /\ UNCHANGED <<cur, link, routes, waiters, toDaemon, toApp, shell, subs, dying>>
  BY DEF Ends, Active, daemonVars
<1>2. routes' \in [Conn -> SUBSET Pane] /\ toDaemon' \in [Conn -> Seq(Request)]
  BY <1>1 DEF ClientInv, ClientTypeOK
<1> QED
  BY <1>1, <1>2, CallMoves

\* The frontend invokes commands.
LEMMA InvokeKeeps ==
  ASSUME ClientInv, NEW calls \in SUBSET Call, \A k \in calls : pc[k] = "idle",
         pc' = [k \in Call |-> IF k \in calls THEN "called" ELSE pc[k]],
         UNCHANGED <<cur, link, routes, waiters, via, got, toDaemon, toApp, daemonVars>>
  PROVE  ClientInv'
<1>1. /\ \A k \in Call : pc'[k] = IF k \in calls THEN "called" ELSE pc[k]
      /\ UNCHANGED <<cur, link, routes, waiters, via, got, toDaemon, toApp, shell, subs, dying>>
  BY DEF daemonVars
<1>2. ClientTypeOK'
  <2>1. pc' \in [Call -> {"idle", "called", "send", "wait", "nudge"}]
    BY DEF ClientInv, ClientTypeOK
  <2> QED
    BY <1>1, <2>1 DEF ClientInv, ClientTypeOK
<1>3. OneLink' /\ \A n \in Conn : link'[n] = "unused" => Fresh(n)'
  BY <1>1 DEF ClientInv, OneLink, Fresh
<1>4. \A k \in Call : Active(k)' <=> Active(k)
  BY <1>1 DEF Active
<1>5. \A k \in Call : CallOK(k)'
  BY <1>1, <1>4 DEF ClientInv, CallOK
<1>6. ASSUME NEW n \in Conn, NEW p \in Pane, NEW kind \in Kind
      PROVE  QueueOK(n, p, kind)'
  <2>1. \A k \in Call : Waits(k, n)' <=> Waits(k, n)
    BY <1>1, <1>4 DEF Waits
  <2> QED
    BY <1>1, <2>1, QueueFacts, SameQueue
<1> QED
  BY <1>2, <1>3, <1>5, <1>6 DEF ClientInv

\* What is left of a queue when the call ends: its beginning, without the call.
Retired(q, upd, k) ==
  /\ Len(upd) <= Len(q)
  /\ \A i \in 1..Len(upd) : upd[i] = IF q[i] = k THEN Nobody ELSE q[i]

\* A call ends without a reply: its entry, if it is still there, is nobody's.
LEMMA CallFailsKeeps ==
  ASSUME ClientInv, NEW k \in Call, NEW n \in Conn, n = via[k], Active(k),
         NEW p \in Pane, NEW kind \in Kind, PaneOf(k) = p, KindOf(k) = kind,
         link[n] = "up" => kind \in Slow,
         NEW q \in Seq(Slot), q = waiters[n][<<p, kind>>],
         NEW upd \in Seq(Slot), Retired(q, upd, k),
         waiters' = WithQueue(n, p, kind, upd), Ends(k),
         routes' \in [Conn -> SUBSET Pane],
         UNCHANGED <<cur, link, toDaemon, toApp, daemonVars>>
  PROVE  ClientInv'
<1>0. ClientTypeOK /\ 0 \notin Conn
  BY CallFacts DEF ClientInv
<1>1. /\ pc' = [pc EXCEPT ![k] = "idle"] /\ via' = [via EXCEPT ![k] = 0]
      /\ got' = [got EXCEPT ![k] = FALSE]
      /\ UNCHANGED <<cur, link, toDaemon, toApp, shell, subs, dying>>
  BY DEF Ends, daemonVars
<1>2. /\ pc'[k] = "idle" /\ via'[k] = 0 /\ ~got'[k]
      /\ \A j \in Call \ {k} : pc'[j] = pc[j] /\ via'[j] = via[j] /\ got'[j] = got[j]
  BY <1>0, <1>1 DEF ClientTypeOK
<1>3. /\ waiters' \in [Conn -> [Pane \X Kind -> Seq(Slot)]]
      /\ waiters'[n][<<p, kind>>] = upd
      /\ \A m \in Conn, r \in Pane, other \in Kind :
           m # n \/ r # p \/ other # kind
             => waiters'[m][<<r, other>>] = waiters[m][<<r, other>>]
  <2>1. waiters' = WithQueue(n, p, kind, upd)
    OBVIOUS
  <2>2. n \in Conn /\ p \in Pane /\ kind \in Kind /\ upd \in Seq(Slot)
    OBVIOUS
  <2> QED
    BY ONLY <1>0, <2>1, <2>2, OneQueue, ZenonT(60)
<1>4. /\ \A j \in Call \ {k}, m \in Conn : Waits(j, m)' <=> Waits(j, m)
      /\ \A m \in Conn : ~Waits(k, m)' /\ (m # n => ~Waits(k, m))
  BY <1>2 DEF Waits, Active
<1>5. ClientTypeOK'
  <2>1. /\ pc' \in [Call -> {"idle", "called", "send", "wait", "nudge"}]
        /\ via' \in [Call -> {0} \cup Conn] /\ got' \in [Call -> BOOLEAN]
    BY <1>0, <1>1 DEF ClientTypeOK
  <2> QED
    BY <1>0, <1>1, <1>3, <2>1 DEF ClientTypeOK, Slot
<1>6. OneLink'
  BY <1>1 DEF ClientInv, OneLink
<1>7. ASSUME NEW m \in Conn, link'[m] = "unused"
      PROVE  Fresh(m)'
  <2>1. Fresh(m) /\ m # n
    BY <1>1, <1>7 DEF ClientInv, Fresh
  <2>2. \A r \in Pane, other \in Kind : waiters'[m][<<r, other>>] = waiters[m][<<r, other>>]
    BY <1>3, <2>1, ZenonT(60)
  <2>3. \A x \in Pane \X Kind : waiters'[m][x] = waiters[m][x]
    BY <2>2
  <2>4. \A j \in Call : via'[j] # m
    BY <1>0, <1>2, <2>1 DEF Fresh
  <2> QED
    BY <1>1, <2>1, <2>3, <2>4 DEF Fresh
<1>8. \A j \in Call : CallOK(j)'
  BY <1>2 DEF ClientInv, CallOK, Active
<1>9. QueueOK(n, p, kind)'
  <2>1. /\ QueueOK(n, p, kind) /\ DOMAIN q = 1..Len(q) /\ DOMAIN upd = 1..Len(upd)
        /\ \A i \in 1..Len(q) : q[i] # Nobody => q[i] \in Call
    BY QueueFacts
  <2>s. \A i \in 1..Len(q) : q[i] # Nobody =>
          PaneOf(q[i]) = p /\ KindOf(q[i]) = kind /\ Waits(q[i], n)
    BY <2>1 DEF QueueOK, QueueSound
  <2>2. \A i, j \in 1..Len(q) : q[i] # Nobody /\ q[i] = q[j] => i = j
    BY <2>1, ZenonT(60) DEF QueueOK, QueueSound
  <2>n. Len(q) \in Nat /\ Len(upd) \in Nat
    OBVIOUS
  <2>3. ASSUME NEW i \in 1..Len(upd), upd[i] # Nobody
        PROVE  i \in 1..Len(q) /\ upd[i] = q[i] /\ q[i] # k /\ q[i] \in Call
    <3>1. i \in 1..Len(q)
      BY <2>n DEF Retired
    <3>2. upd[i] = IF q[i] = k THEN Nobody ELSE q[i]
      BY DEF Retired
    <3> QED
      BY <2>1, <2>3, <3>1, <3>2
  <2>4. /\ \A i \in 1..Len(upd) : upd[i] # Nobody =>
             PaneOf(upd[i]) = p /\ KindOf(upd[i]) = kind /\ Waits(upd[i], n)'
        /\ \A i, j \in 1..Len(upd) : upd[i] # Nobody /\ upd[i] = upd[j] => i = j
    <3>1. ASSUME NEW i \in 1..Len(upd), upd[i] # Nobody
          PROVE  PaneOf(upd[i]) = p /\ KindOf(upd[i]) = kind /\ Waits(upd[i], n)'
      <4>1. PICK c \in Call \ {k} : c = upd[i] /\ c = q[i] /\ i \in 1..Len(q)
        BY <2>3, <3>1
      <4>2. PaneOf(c) = p /\ KindOf(c) = kind /\ Waits(c, n)
        BY ONLY <2>s, <3>1, <4>1
      <4>3. Waits(c, n)'
        BY <1>4, <4>2
      <4> QED
        BY <4>1, <4>2, <4>3
    <3>2. \A i, j \in 1..Len(upd) : upd[i] # Nobody /\ upd[i] = upd[j] => i = j
      BY ONLY <2>2, <2>3
    <3> QED
      BY <3>1, <3>2
  <2>5. QueueSound(n, p, kind)'
    BY <1>3, <2>1, <2>4 DEF QueueSound, Waits, Active
  <2>6. QueueComplete(n, p, kind)'
    BY <1>1 DEF QueueComplete
  <2> QED
    BY <2>5, <2>6 DEF QueueOK
<1>10. ASSUME NEW m \in Conn, NEW r \in Pane, NEW other \in Kind,
              m # n \/ r # p \/ other # kind
       PROVE  QueueOK(m, r, other)'
  <2>1. QueueOK(m, r, other) /\ waiters[m][<<r, other>>] \in Seq(Slot)
    BY QueueFacts
  <2>2. \A j \in Call : PaneOf(j) = r /\ KindOf(j) = other => (Waits(j, m)' <=> Waits(j, m))
    BY <1>4, <1>10
  <2> QED
    BY <1>1, <1>3, <1>10, <2>1, <2>2, SameQueue
<1> QED
  BY <1>5, <1>6, <1>7, <1>8, <1>9, <1>10 DEF ClientInv

LEMMA SendFailsKeeps ==
  ASSUME ClientInv, NEW k \in Call, SendFails(k)
  PROVE  ClientInv'
<1>0. PICK p \in Pane, kind \in Kind : PaneOf(k) = p /\ KindOf(k) = kind
  BY CallFacts
<1>1. PICK n \in Conn : n = via[k]
  BY DEF SendFails, ClientInv, CallOK, Active
<1>2. PICK q \in Seq(Slot) : q = waiters[n][<<p, kind>>]
  BY QueueFacts
<1>3. PICK upd \in Seq(Slot) :
        upd = (IF q = <<>> THEN q ELSE Dropped(Front(q), k)) /\ Retired(q, upd, k)
  <2>1. CASE q = <<>>
    <3>1. Len(q) = 0
      BY <2>1
    <3>2. Retired(q, q, k)
      BY <3>1 DEF Retired
    <3> QED
      BY <2>1, <3>2
  <2>2. CASE q # <<>>
    <3>1. /\ Front(q) \in Seq(Slot) /\ Len(Front(q)) = Len(q) - 1 /\ Len(q) \in Nat
          /\ \A i \in 1..(Len(q) - 1) : Front(q)[i] = q[i]
      BY <2>2, FrontFacts
    <3>2. /\ Dropped(Front(q), k) \in Seq(Slot)
          /\ Len(Dropped(Front(q), k)) = Len(Front(q))
          /\ \A i \in 1..Len(Front(q)) :
               Dropped(Front(q), k)[i] = IF Front(q)[i] = k THEN Nobody ELSE Front(q)[i]
      BY <3>1, DroppedFacts
    <3>3. Retired(q, Dropped(Front(q), k), k)
      BY <3>1, <3>2 DEF Retired
    <3> QED
      BY <2>2, <3>2, <3>3
  <2> QED
    BY <2>1, <2>2
<1>4. /\ pc[k] = "send" /\ link[n] # "up" /\ Ends(k)
      /\ waiters' = WithQueue(n, p, kind, upd)
      /\ routes' = IF kind = "spawn" THEN [routes EXCEPT ![n] = @ \ {p}] ELSE routes
      /\ UNCHANGED <<cur, link, toDaemon, toApp, daemonVars>>
  BY <1>0, <1>1, <1>2, <1>3 DEF SendFails, WithQueue, QueueOf
<1>5. routes' \in [Conn -> SUBSET Pane]
  BY <1>4 DEF ClientInv, ClientTypeOK
<1>6. Active(k)
  BY <1>4 DEF Active
<1> QED
  BY <1>0, <1>1, <1>2, <1>3, <1>4, <1>5, <1>6, CallFailsKeeps

\* On a live link only callers that may be slow give up.
LEMMA GivesUpWhy ==
  ASSUME ClientInv, NEW k \in Call, GiveUp(k)
  PROVE  via[k] \in Conn /\ (link[via[k]] = "up" => KindOf(k) \in Slow)
<1>0. PICK p \in Pane, kind \in Kind : PaneOf(k) = p /\ KindOf(k) = kind
  BY CallFacts
<1>1. PICK n \in Conn : n = via[k]
  BY DEF GiveUp, TimesOut, ClientInv, CallOK, Active
<1>2. Waits(k, n)
  BY <1>1 DEF GiveUp, TimesOut, Waits, Active
<1>3. PICK q \in Seq(Slot) : q = waiters[n][<<p, kind>>]
  BY QueueFacts
<1>4. DOMAIN q = 1..Len(q) /\ QueueOK(n, p, kind)
  BY <1>3, QueueFacts
<1>5. link[n] = "up" /\ kind \notin Slow => Contains(q, k)
  BY <1>0, <1>2, <1>3, <1>4 DEF QueueOK, QueueComplete, Contains
<1> QED
  BY <1>0, <1>1, <1>3, <1>5 DEF GiveUp, TimesOut, QueueOf

LEMMA GiveUpKeeps ==
  ASSUME ClientInv, NEW k \in Call, GiveUp(k)
  PROVE  ClientInv'
<1>0. PICK p \in Pane, kind \in Kind : PaneOf(k) = p /\ KindOf(k) = kind
  BY CallFacts
<1>1. PICK n \in Conn : n = via[k] /\ (link[n] = "up" => kind \in Slow)
  BY <1>0, GivesUpWhy
<1>2. PICK q \in Seq(Slot) : q = waiters[n][<<p, kind>>]
  BY QueueFacts
<1>3. PICK upd \in Seq(Slot) :
        upd = Dropped(q, k) /\ Retired(q, upd, k)
  BY DroppedFacts DEF Retired
<1>4. /\ pc[k] = "wait" /\ Ends(k)
      /\ waiters' = WithQueue(n, p, kind, upd)
      /\ routes' = IF kind = "spawn" THEN [routes EXCEPT ![n] = @ \ {p}] ELSE routes
      /\ UNCHANGED <<cur, link, toDaemon, toApp, daemonVars>>
  BY <1>0, <1>1, <1>2, <1>3 DEF GiveUp, GivenUp, TimesOut, WithQueue, QueueOf
<1>5. routes' \in [Conn -> SUBSET Pane]
  BY <1>4 DEF ClientInv, ClientTypeOK
<1>6. Active(k)
  BY <1>4 DEF Active
<1> QED
  BY <1>0, <1>1, <1>2, <1>3, <1>4, <1>5, <1>6, CallFailsKeeps

\* The steps that leave the calls and their waiters alone.
LEMMA LinkMoves ==
  ASSUME ClientInv, UNCHANGED <<waiters, pc, via, got>>,
         cur' \in {0} \cup Conn, link' \in [Conn -> {"unused", "up", "down", "lost"}],
         routes' \in [Conn -> SUBSET Pane],
         toDaemon' \in [Conn -> Seq(Request)], toApp' \in [Conn -> Seq(Answer)],
         shell' \in [Pane -> {"none", "running", "ended"}],
         subs' \in [Pane -> SUBSET Conn], dying' \in [Pane -> SUBSET Conn],
         OneLink',
         \A n \in Conn : link'[n] = "up" => link[n] = "up" \/ Fresh(n),
         \A n \in Conn : link'[n] = "unused" =>
           link[n] = "unused" /\ toDaemon'[n] = toDaemon[n] /\ toApp'[n] = toApp[n]
  PROVE  ClientInv'
<1>1. ClientTypeOK'
  BY DEF ClientInv, ClientTypeOK
<1>2. ASSUME NEW n \in Conn, link'[n] = "unused"
      PROVE  Fresh(n)'
  <2>1. Fresh(n) /\ toDaemon'[n] = toDaemon[n] /\ toApp'[n] = toApp[n]
    BY <1>2 DEF ClientInv
  <2> QED
    BY <2>1 DEF Fresh
<1>3. /\ \A k \in Call : CallOK(k)'
      /\ \A n \in Conn, p \in Pane, kind \in Kind : QueueOK(n, p, kind)'
  BY QueuesKept
<1> QED
  BY <1>1, <1>2, <1>3 DEF ClientInv

LEMMA TellKeeps ==
  ASSUME ClientInv, NEW p \in Pane, NEW kind \in {"detach", "kill"}, Tell(p, kind)
  PROVE  ClientInv'
<1>0. ClientTypeOK
  BY DEF ClientInv
<1>1. PICK n \in Conn :
        /\ Ensure(n)
        /\ toDaemon' = IF link'[n] = "up"
                         THEN [toDaemon EXCEPT ![n] = Append(@, Msg(kind, p))]
                         ELSE toDaemon
        /\ routes' = IF kind = "detach" THEN [routes EXCEPT ![n] = @ \ {p}] ELSE routes
  BY DEF Tell
<1>2. UNCHANGED <<waiters, pc, via, got, toApp, shell, subs, dying>>
  BY DEF Tell, callVars, daemonVars
<1>3. /\ cur' = n /\ link' \in [Conn -> {"unused", "up", "down", "lost"}] /\ OneLink'
      /\ \A m \in Conn : /\ link'[m] = "up" => link[m] = "up" \/ Fresh(m)
                         /\ link'[m] = "unused" => link[m] = "unused" /\ m # n
  BY <1>1, EnsureFacts
<1>4. Msg(kind, p) \in Request
  BY MsgFacts
<1>5. /\ toDaemon' \in [Conn -> Seq(Request)] /\ routes' \in [Conn -> SUBSET Pane]
      /\ \A m \in Conn \ {n} : toDaemon'[m] = toDaemon[m]
  BY <1>0, <1>1, <1>4 DEF ClientTypeOK
<1> QED
  BY <1>0, <1>2, <1>3, <1>5, LinkMoves DEF ClientTypeOK

LEMMA WriteKeeps ==
  ASSUME ClientInv, Write
  PROVE  ClientInv'
<1>1. PICK n \in Conn : Ensure(n)
  BY DEF Write
<1>2. UNCHANGED <<routes, waiters, pc, via, got, toDaemon, toApp, shell, subs, dying>>
  BY DEF Write, callVars, daemonVars
<1>3. /\ cur' = n /\ link' \in [Conn -> {"unused", "up", "down", "lost"}] /\ OneLink'
      /\ \A m \in Conn : /\ link'[m] = "up" => link[m] = "up" \/ Fresh(m)
                         /\ link'[m] = "unused" => link[m] = "unused" /\ m # n
  BY <1>1, EnsureFacts
<1> QED
  BY <1>2, <1>3, LinkMoves DEF ClientInv, ClientTypeOK

(***************************************************************************)
(* The steps of the daemon.                                                *)
(***************************************************************************)
\* What a request is, and what its handler does.
LEMMA ServeFacts ==
  ASSUME ClientInv, NEW n \in Conn, Serve(n)
  PROVE  \E p \in Pane, kind \in {"spawn", "probe", "detach", "kill"} :
           /\ link[n] = "up" /\ toDaemon[n] # <<>> /\ Head(toDaemon[n]) = Msg(kind, p)
           /\ \/ kind = "spawn" /\ ServeSpawn(n, p)
              \/ kind = "probe" /\ ServeProbe(n, p)
              \/ kind = "detach" /\ ServeDetach(n, p)
              \/ kind = "kill" /\ ServeKill(p)
           /\ toDaemon' = [toDaemon EXCEPT ![n] = Tail(@)]
           /\ UNCHANGED <<cur, link, routes, waiters, pc, via, got>>
<1>1. /\ link[n] = "up" /\ toDaemon[n] # <<>>
      /\ LET m == Head(toDaemon[n])
         IN  \/ m.kind = "spawn" /\ ServeSpawn(n, m.pane)
             \/ m.kind = "probe" /\ ServeProbe(n, m.pane)
             \/ m.kind = "detach" /\ ServeDetach(n, m.pane)
             \/ m.kind = "kill" /\ ServeKill(m.pane)
      /\ toDaemon' = [toDaemon EXCEPT ![n] = Tail(@)]
      /\ UNCHANGED <<cur, link, routes, waiters, pc, via, got>>
  BY DEF Serve, callVars
<1>2. toDaemon[n] \in Seq(Request)
  BY DEF ClientInv, ClientTypeOK
<1>3. PICK m \in Request : m = Head(toDaemon[n])
  BY <1>1, <1>2, TailFacts
<1>4. PICK p \in Pane, kind \in {"spawn", "probe", "detach", "kill"} :
        m = Msg(kind, p) /\ m.kind = kind /\ m.pane = p
  BY DEF Request, Msg
<1> QED
  BY <1>1, <1>3, <1>4

\* The answers to a spawn: an Exit first if the session has ended.
Answers(q, p, ended) ==
  q \o (IF ended THEN <<Msg("exit", p)>> ELSE <<>>) \o <<Msg("spawn", p)>>

LEMMA AnswersFacts ==
  ASSUME NEW q \in Seq(Answer), NEW p \in Pane, NEW ended \in BOOLEAN
  PROVE  /\ Answers(q, p, ended) \in Seq(Answer)
         /\ \A m : Has(q, m) => Has(Answers(q, p, ended), m)
         /\ ended => Has(Answers(q, p, ended), Msg("exit", p))
<1>0. PICK upd : upd = Answers(q, p, ended)
  OBVIOUS
<1> DEFINE e == IF ended THEN <<Msg("exit", p)>> ELSE <<>>
<1>1. Msg("exit", p) \in Answer /\ Msg("spawn", p) \in Answer
  BY MsgFacts
<1>2. e \in Seq(Answer) /\ (ended => Len(e) = 1 /\ e[1] = Msg("exit", p))
  BY <1>1
<1>3. <<Msg("spawn", p)>> \in Seq(Answer)
  BY <1>1
<1>5. upd = q \o e \o <<Msg("spawn", p)>>
  BY <1>0 DEF Answers
<1> HIDE DEF e
<1>6. /\ q \o e \in Seq(Answer) /\ Len(q \o e) = Len(q) + Len(e)
      /\ \A i \in 1..(Len(q) + Len(e)) : (q \o e)[i] = IF i <= Len(q) THEN q[i] ELSE e[i - Len(q)]
  BY <1>2, ConcatProperties
<1> DEFINE s == q \o e
<1> HIDE DEF s
<1>7. PICK y \in Nat, z \in Nat :
        /\ y = Len(q) /\ z = Len(e) /\ s \in Seq(Answer) /\ Len(s) = y + z
        /\ \A i \in 1..(y + z) : s[i] = IF i <= y THEN q[i] ELSE e[i - y]
  BY <1>2, <1>6 DEF s
<1>8. upd = Append(s, Msg("spawn", p))
  <2>1. upd = s \o <<Msg("spawn", p)>>
    BY <1>5 DEF s
  <2>2. s \o <<Msg("spawn", p)>> = Append(s, Msg("spawn", p))
    BY <1>1, <1>7, AppendIsConcat
  <2> QED
    BY <2>1, <2>2
<1>9. /\ upd \in Seq(Answer) /\ DOMAIN upd = 1..(y + z + 1)
      /\ \A i \in 1..(y + z) : upd[i] = s[i]
  <2>1. PICK m \in Answer : m = Msg("spawn", p)
    BY <1>1
  <2>2. PICK x \in Nat : x = y + z /\ x = Len(s)
    BY <1>7
  <2>3. /\ Append(s, m) \in Seq(Answer) /\ DOMAIN Append(s, m) = 1..(x + 1)
        /\ \A i \in 1..x : Append(s, m)[i] = s[i]
    BY ONLY <1>7, <2>1, <2>2
  <2> QED
    BY <1>8, <2>1, <2>2, <2>3
<1>10. DOMAIN q = 1..y
  BY <1>7
<1>11. \A i \in 1..y : i \in 1..(y + z + 1) /\ upd[i] = q[i]
  BY <1>7, <1>9
<1>12. ended => y + 1 \in 1..(y + z + 1) /\ upd[y + 1] = Msg("exit", p)
  <2> SUFFICES ASSUME ended
               PROVE  y + 1 \in 1..(y + z + 1) /\ upd[y + 1] = Msg("exit", p)
    OBVIOUS
  <2>0. y \in Nat /\ z \in Nat
    OBVIOUS
  <2>1. z = 1 /\ e[1] = Msg("exit", p)
    BY <1>2, <1>7
  <2>2. y + 1 \in 1..(y + z) /\ y + 1 \in 1..(y + z + 1) /\ ~(y + 1 <= y) /\ y + 1 - y = 1
    BY ONLY <2>0, <2>1
  <2>3. s[y + 1] = e[1]
    BY ONLY <1>7, <2>2
  <2>4. upd[y + 1] = s[y + 1]
    BY ONLY <1>9, <2>2
  <2> QED
    BY ONLY <2>1, <2>2, <2>3, <2>4
<1> QED
  BY <1>0, <1>9, <1>10, <1>11, <1>12 DEF Has

LEMMA ServeKeeps ==
  ASSUME ClientInv, NEW n \in Conn, Serve(n)
  PROVE  ClientInv'
<1>0. ClientTypeOK /\ OneLink
  BY DEF ClientInv
<1>1. PICK p \in Pane, kind \in {"spawn", "probe", "detach", "kill"} :
        /\ link[n] = "up" /\ toDaemon[n] # <<>> /\ Head(toDaemon[n]) = Msg(kind, p)
        /\ \/ kind = "spawn" /\ ServeSpawn(n, p)
           \/ kind = "probe" /\ ServeProbe(n, p)
           \/ kind = "detach" /\ ServeDetach(n, p)
           \/ kind = "kill" /\ ServeKill(p)
        /\ toDaemon' = [toDaemon EXCEPT ![n] = Tail(@)]
        /\ UNCHANGED <<cur, link, routes, waiters, pc, via, got>>
  BY ServeFacts
<1>2. toDaemon[n] \in Seq(Request) /\ toApp[n] \in Seq(Answer)
  BY <1>0 DEF ClientTypeOK
<1>3. /\ toDaemon' \in [Conn -> Seq(Request)]
      /\ \A m \in Conn \ {n} : toDaemon'[m] = toDaemon[m]
  <2>1. Tail(toDaemon[n]) \in Seq(Request)
    BY <1>1, <1>2, TailFacts
  <2> QED
    BY <1>0, <1>1, <2>1 DEF ClientTypeOK
<1>4. PICK ended \in BOOLEAN : ended = (shell[p] = "ended")
  OBVIOUS
<1>5. PICK upd \in Seq(Answer) : upd = Answers(toApp[n], p, ended)
  BY <1>2, AnswersFacts
<1>6. /\ shell' \in [Pane -> {"none", "running", "ended"}]
      /\ subs' \in [Pane -> SUBSET Conn] /\ dying' \in [Pane -> SUBSET Conn]
      /\ toApp' \in [Conn -> Seq(Answer)]
      /\ \A m \in Conn \ {n} : toApp'[m] = toApp[m]
  <2>1. CASE kind = "spawn" /\ ServeSpawn(n, p)
    <3>1. toApp' = [toApp EXCEPT ![n] = upd]
      BY <1>4, <1>5, <2>1 DEF ServeSpawn, Answers
    <3>2. toApp' \in [Conn -> Seq(Answer)] /\ \A m \in Conn \ {n} : toApp'[m] = toApp[m]
      BY <1>0, <3>1 DEF ClientTypeOK
    <3>3. /\ shell' = [shell EXCEPT ![p] = IF @ = "none" THEN "running" ELSE @]
          /\ subs' = [subs EXCEPT ![p] = IF shell[p] = "ended" THEN @ ELSE @ \cup {n}]
          /\ dying' = dying
      BY <2>1 DEF ServeSpawn
    <3>4. /\ shell' \in [Pane -> {"none", "running", "ended"}]
          /\ subs' \in [Pane -> SUBSET Conn] /\ dying' \in [Pane -> SUBSET Conn]
      BY <1>0, <3>3 DEF ClientTypeOK
    <3> QED
      BY <3>2, <3>4
  <2>2. CASE kind = "probe" /\ ServeProbe(n, p)
    <3>1. Append(toApp[n], Msg("probe", p)) \in Seq(Answer)
      BY <1>2, MsgFacts
    <3> QED
      BY <1>0, <2>2, <3>1 DEF ClientTypeOK, ServeProbe, daemonVars
  <2>3. CASE kind = "detach" /\ ServeDetach(n, p)
    BY <1>0, <2>3 DEF ClientTypeOK, ServeDetach
  <2>4. CASE kind = "kill" /\ ServeKill(p)
    BY <1>0, <2>4 DEF ClientTypeOK, ServeKill
  <2> QED
    BY <1>1, <2>1, <2>2, <2>3, <2>4
<1>7. OneLink'
  BY <1>0, <1>1 DEF OneLink
<1>8. \A m \in Conn : link'[m] = "unused" =>
        link[m] = "unused" /\ toDaemon'[m] = toDaemon[m] /\ toApp'[m] = toApp[m]
  BY <1>1, <1>3, <1>6
<1> QED
  BY <1>0, <1>1, <1>3, <1>6, <1>7, <1>8, LinkMoves DEF ClientTypeOK

\* An Exit goes to the connections of the session that are live.
LEMMA TellExitFacts ==
  ASSUME ClientTypeOK, NEW conns, NEW p \in Pane, TellExit(conns, p)
  PROVE  /\ toApp' \in [Conn -> Seq(Answer)]
         /\ \A n \in Conn : /\ link[n] # "up" => toApp'[n] = toApp[n]
                            /\ \A m : Has(toApp[n], m) => Has(toApp'[n], m)
                            /\ n \in conns /\ link[n] = "up" => Has(toApp'[n], Msg("exit", p))
<1> SUFFICES ASSUME NEW n \in Conn
             PROVE  /\ toApp'[n] \in Seq(Answer)
                    /\ link[n] # "up" => toApp'[n] = toApp[n]
                    /\ \A m : Has(toApp[n], m) => Has(toApp'[n], m)
                    /\ n \in conns /\ link[n] = "up" => Has(toApp'[n], Msg("exit", p))
  BY DEF TellExit
<1>1. PICK q \in Seq(Answer) : q = toApp[n]
  BY DEF ClientTypeOK
<1>2. PICK x \in Answer : x = Msg("exit", p)
  BY MsgFacts
<1>3. toApp'[n] = IF n \in conns /\ link[n] = "up" THEN Append(q, x) ELSE q
  BY <1>1, <1>2 DEF TellExit
<1>4. PICK y \in Nat : y = Len(q)
  OBVIOUS
<1>5. /\ Append(q, x) \in Seq(Answer) /\ DOMAIN Append(q, x) = 1..(y + 1) /\ DOMAIN q = 1..y
      /\ Append(q, x)[y + 1] = x /\ \A i \in 1..y : Append(q, x)[i] = q[i]
  BY ONLY <1>1, <1>2, <1>4
<1>6. \A m : Has(q, m) => Has(Append(q, x), m)
  BY <1>5 DEF Has
<1>7. Has(Append(q, x), x)
  BY <1>5 DEF Has
<1> QED
  BY <1>1, <1>2, <1>3, <1>5, <1>6, <1>7

\* DyingEnds, ShellEnds and Reap.
LEMMA ShellsKeep ==
  ASSUME ClientInv, NEW p \in Pane, DyingEnds(p) \/ ShellEnds(p) \/ Reap(p)
  PROVE  ClientInv'
<1>0. ClientTypeOK /\ OneLink
  BY DEF ClientInv
<1>1. UNCHANGED <<cur, link, routes, waiters, pc, via, got, toDaemon, subs>>
  BY DEF DyingEnds, ShellEnds, Reap, callVars
<1>2. /\ shell' \in [Pane -> {"none", "running", "ended"}]
      /\ dying' \in [Pane -> SUBSET Conn]
  <2>1. shell' = shell \/ \E s \in {"none", "ended"} : shell' = [shell EXCEPT ![p] = s]
    BY DEF DyingEnds, ShellEnds, Reap
  <2>2. dying' = dying \/ dying' = [dying EXCEPT ![p] = {}]
    BY DEF DyingEnds, ShellEnds, Reap
  <2> QED
    BY <1>0, <2>1, <2>2 DEF ClientTypeOK
<1>3. /\ toApp' \in [Conn -> Seq(Answer)]
      /\ \A n \in Conn : link[n] # "up" => toApp'[n] = toApp[n]
  <2>1. CASE Reap(p)
    BY <1>0, <2>1 DEF Reap, ClientTypeOK
  <2>2. CASE DyingEnds(p)
    BY <1>0, <2>2, TellExitFacts DEF DyingEnds
  <2>3. CASE ShellEnds(p)
    BY <1>0, <2>3, TellExitFacts DEF ShellEnds
  <2> QED
    BY <2>1, <2>2, <2>3
<1>4. OneLink'
  BY <1>0, <1>1 DEF OneLink
<1> QED
  BY <1>0, <1>1, <1>2, <1>3, <1>4, LinkMoves DEF ClientTypeOK

LEMMA DaemonDiesKeeps ==
  ASSUME ClientInv, DaemonDies
  PROVE  ClientInv'
<1>0. ClientTypeOK /\ OneLink
  BY DEF ClientInv
<1>1. /\ link' = [n \in Conn |-> IF link[n] = "up" THEN "down" ELSE link[n]]
      /\ toDaemon' = [n \in Conn |-> <<>>]
      /\ shell' = [p \in Pane |-> "none"] /\ subs' = [p \in Pane |-> {}]
      /\ dying' = [p \in Pane |-> {}]
      /\ UNCHANGED <<cur, routes, waiters, pc, via, got, toApp>>
  BY DEF DaemonDies, callVars
<1>2. /\ link' \in [Conn -> {"unused", "up", "down", "lost"}]
      /\ toDaemon' \in [Conn -> Seq(Request)]
      /\ shell' \in [Pane -> {"none", "running", "ended"}]
      /\ subs' \in [Pane -> SUBSET Conn] /\ dying' \in [Pane -> SUBSET Conn]
  BY <1>0, <1>1 DEF ClientTypeOK
<1>3. OneLink' /\ \A n \in Conn : link'[n] # "up"
  BY <1>0, <1>1 DEF OneLink, ClientTypeOK
<1>4. \A n \in Conn : link'[n] = "unused" =>
        link[n] = "unused" /\ toDaemon'[n] = toDaemon[n] /\ toApp'[n] = toApp[n]
  BY <1>1 DEF ClientInv, Fresh
<1> QED
  BY <1>0, <1>1, <1>2, <1>3, <1>4, LinkMoves DEF ClientTypeOK

(***************************************************************************)
(* The steps of the reader thread.                                         *)
(***************************************************************************)
LEMMA ReaderEndsKeeps ==
  ASSUME ClientInv, NEW n \in Conn, ReaderEnds(n)
  PROVE  ClientInv'
<1>0. ClientTypeOK /\ OneLink /\ 0 \notin Conn
  BY CallFacts DEF ClientInv
<1>1. /\ link[n] = "down" /\ link' = [link EXCEPT ![n] = "lost"]
      /\ cur' = IF cur = n THEN 0 ELSE cur
      /\ routes' = [routes EXCEPT ![n] = {}]
      /\ waiters' = [waiters EXCEPT ![n] = [q \in Pane \X Kind |-> <<>>]]
      /\ UNCHANGED <<pc, via, got, toDaemon, toApp, shell, subs, dying>>
  BY DEF ReaderEnds, callVars, daemonVars
<1>2. /\ cur' = 0 /\ \A m \in Conn \ {n} : link'[m] = link[m] /\ link'[m] \notin {"up", "down"}
      /\ link'[n] = "lost"
  BY <1>0, <1>1 DEF OneLink, ClientTypeOK
<1>3. OneLink'
  BY <1>2 DEF OneLink
<1>4. <<>> \in Seq(Slot)
  OBVIOUS
<1>5. /\ waiters' \in [Conn -> [Pane \X Kind -> Seq(Slot)]]
      /\ \A q \in Pane \X Kind : waiters'[n][q] = <<>>
      /\ \A m \in Conn \ {n} : waiters'[m] = waiters[m]
  BY <1>0, <1>1, <1>4 DEF ClientTypeOK, Slot
<1>6. ClientTypeOK'
  <2>1. /\ cur' \in {0} \cup Conn /\ link' \in [Conn -> {"unused", "up", "down", "lost"}]
        /\ routes' \in [Conn -> SUBSET Pane]
    BY <1>0, <1>1, <1>2 DEF ClientTypeOK
  <2> QED
    BY <1>0, <1>1, <1>5, <2>1 DEF ClientTypeOK, Slot
<1>7. ASSUME NEW m \in Conn, link'[m] = "unused"
      PROVE  Fresh(m)'
  <2>1. m # n /\ Fresh(m) /\ waiters'[m] = waiters[m]
    BY <1>2, <1>5, <1>7 DEF ClientInv
  <2> QED
    BY <1>1, <2>1 DEF Fresh
<1>8. \A k \in Call : CallOK(k)'
  BY <1>1 DEF ClientInv, CallOK, Active
<1>9. ASSUME NEW m \in Conn, NEW p \in Pane, NEW kind \in Kind
      PROVE  QueueOK(m, p, kind)'
  <2>0. link'[m] # "up"
    BY <1>2, <1>9
  <2>1. QueueComplete(m, p, kind)'
    BY <2>0 DEF QueueComplete
  <2>2. CASE m = n
    <3>1. waiters'[m][<<p, kind>>] = <<>>
      BY <1>5, <2>2
    <3>2. QueueSound(m, p, kind)'
      BY <3>1 DEF QueueSound
    <3> QED
      BY <2>1, <3>2 DEF QueueOK
  <2>3. CASE m # n
    <3>1. QueueSound(m, p, kind) /\ waiters'[m] = waiters[m]
      BY <1>5, <2>3 DEF ClientInv, QueueOK
    <3>2. QueueSound(m, p, kind)'
      BY <1>1, <3>1 DEF QueueSound, Waits, Active
    <3> QED
      BY <2>1, <3>2 DEF QueueOK
  <2> QED
    BY <2>2, <2>3
<1> QED
  BY <1>3, <1>6, <1>7, <1>8, <1>9 DEF ClientInv

\* What the reader thread finds.
LEMMA ReadsFacts ==
  ASSUME ClientInv, NEW n \in Conn, Reads(n)
  PROVE  \E p \in Pane, kind \in {"spawn", "probe", "exit"} :
           /\ link[n] \in {"up", "down"} /\ toApp[n] # <<>> /\ Head(toApp[n]) = Msg(kind, p)
           /\ \/ /\ kind = "exit"
                 /\ routes' = [routes EXCEPT ![n] = @ \ {p}]
                 /\ UNCHANGED <<waiters, got>>
              \/ /\ kind \in Kind
                 /\ waiters' = [waiters EXCEPT ![n][<<p, kind>>] =
                      IF waiters[n][<<p, kind>>] = <<>>
                        THEN waiters[n][<<p, kind>>] ELSE Tail(waiters[n][<<p, kind>>])]
                 /\ got' = [k \in Call |-> got[k] \/ k = Waiter(waiters[n][<<p, kind>>])]
                 /\ UNCHANGED routes
           /\ toApp' = [toApp EXCEPT ![n] = Tail(@)]
           /\ UNCHANGED <<cur, link, pc, via, toDaemon, shell, subs, dying>>
<1>1. toApp[n] # <<>> /\ toApp[n] \in Seq(Answer)
  BY DEF Reads, ClientInv, ClientTypeOK
<1>2. PICK m \in Answer : m = Head(toApp[n])
  BY <1>1, TailFacts
<1>3. PICK p \in Pane, kind \in {"spawn", "probe", "exit"} :
        m = Msg(kind, p) /\ m.kind = kind /\ m.pane = p
  BY DEF Answer, Msg
<1> QED
  BY <1>2, <1>3 DEF Reads, daemonVars, Kind

\* A reply takes the first waiter of its id out of the queue, and is the answer to it.
Shortened(q) == IF q = <<>> THEN q ELSE Tail(q)

Answered(q) == [k \in Call |-> got[k] \/ k = Waiter(q)]

LEMMA ShortenedFacts ==
  ASSUME NEW q \in Seq(Slot)
  PROVE  /\ Shortened(q) \in Seq(Slot)
         /\ \/ q = <<>> /\ Shortened(q) = <<>> /\ Waiter(q) = Nobody
            \/ \E y \in Nat : /\ Len(q) = y + 1 /\ Len(Shortened(q)) = y /\ Waiter(q) = q[1]
                              /\ \A i \in 1..y : Shortened(q)[i] = q[i + 1]
<1>1. CASE q = <<>>
  BY <1>1 DEF Shortened, Waiter
<1>2. CASE q # <<>>
  <2>1. /\ Shortened(q) = Tail(q) /\ Waiter(q) = Head(q)
    BY <1>2 DEF Shortened, Waiter
  <2>2. PICK y \in Nat : Len(q) = y + 1 /\ Len(Tail(q)) = y
    BY <1>2, TailFacts
  <2>3. /\ Tail(q) \in Seq(Slot) /\ Head(q) = q[1]
        /\ \A i \in 1..y : Tail(q)[i] = q[i + 1]
    BY <1>2, <2>2, TailFacts
  <2> QED
    BY <2>1, <2>2, <2>3
<1> QED
  BY <1>1, <1>2

LEMMA ReplyKeeps ==
  ASSUME ClientInv, NEW n \in Conn, NEW p \in Pane, NEW kind \in Kind,
         NEW q \in Seq(Slot), q = waiters[n][<<p, kind>>],
         NEW upd \in Seq(Slot), upd = Shortened(q),
         waiters' = WithQueue(n, p, kind, upd),
         got' = Answered(q),
         UNCHANGED <<link, pc, via>>
  PROVE  /\ \A k \in Call : CallOK(k)'
         /\ \A m \in Conn, r \in Pane, other \in Kind : QueueOK(m, r, other)'
<1>0. ClientTypeOK
  BY DEF ClientInv
<1>1. PICK w \in Slot :
        /\ w = Waiter(q)
        /\ \/ q = <<>> /\ upd = <<>> /\ w = Nobody
           \/ \E y \in Nat : /\ Len(q) = y + 1 /\ Len(upd) = y /\ w = q[1]
                             /\ \A i \in 1..y : upd[i] = q[i + 1]
  <2>1. Waiter(q) \in Slot
    BY TailFacts DEF Waiter, Slot
  <2> QED
    BY <2>1, ShortenedFacts
<1>2. /\ QueueOK(n, p, kind) /\ DOMAIN q = 1..Len(q) /\ DOMAIN upd = 1..Len(upd)
      /\ \A i \in 1..Len(q) : q[i] # Nobody => q[i] \in Call
  BY QueueFacts
<1>3. /\ \A i \in 1..Len(q) : q[i] # Nobody =>
           PaneOf(q[i]) = p /\ KindOf(q[i]) = kind /\ Waits(q[i], n)
      /\ \A i, j \in 1..Len(q) : q[i] # Nobody /\ q[i] = q[j] => i = j
  BY <1>2 DEF QueueOK, QueueSound
<1>6. w # Nobody => w \in Call /\ PaneOf(w) = p /\ KindOf(w) = kind /\ Waits(w, n)
  <2>1. w = Nobody \/ (w = q[1] /\ 1 \in 1..Len(q))
    BY ONLY <1>1
  <2> QED
    BY ONLY <1>2, <1>3, <2>1
<1>7. \A k \in Call : got'[k] <=> got[k] \/ k = w
  BY <1>1 DEF Answered
<1>8. \A k \in Call, m \in Conn : Waits(k, m)' <=> Waits(k, m) /\ k # w
  BY <1>7 DEF Waits, Active
<1>9. \A k \in Call : CallOK(k)'
  <2> SUFFICES ASSUME NEW k \in Call PROVE CallOK(k)'
    OBVIOUS
  <2>1. CallOK(k) /\ (Active(k)' <=> Active(k))
    BY DEF ClientInv, Active
  <2>2. k = w => Active(k)
    BY <1>6, CallFacts DEF Waits
  <2> QED
    BY <1>7, <2>1, <2>2 DEF CallOK
<1>10. /\ waiters'[n][<<p, kind>>] = upd
       /\ \A m \in Conn, r \in Pane, other \in Kind :
            m # n \/ r # p \/ other # kind
              => waiters'[m][<<r, other>>] = waiters[m][<<r, other>>]
  <2>1. /\ waiters' = WithQueue(n, p, kind, upd) /\ upd \in Seq(Slot)
        /\ n \in Conn /\ p \in Pane /\ kind \in Kind
    OBVIOUS
  <2> QED
    BY ONLY <1>0, <2>1, OneQueue
<1>11. QueueOK(n, p, kind)'
  <2>1. CASE q = <<>> /\ upd = <<>> /\ w = Nobody
    <3>1. \A k \in Call : Waits(k, n)' <=> Waits(k, n)
      BY <1>8, <2>1, CallFacts
    <3>2. waiters'[n][<<p, kind>>] = waiters[n][<<p, kind>>]
      BY <1>10, <2>1
    <3> QED
      BY <1>2, <3>1, <3>2, SameQueue
  <2>2. ASSUME NEW y \in Nat, Len(q) = y + 1, Len(upd) = y, w = q[1],
               \A i \in 1..y : upd[i] = q[i + 1]
        PROVE  QueueOK(n, p, kind)'
    <3>1. DOMAIN q = 1..(y + 1) /\ DOMAIN upd = 1..y
      BY <1>2, <2>2
    <3>0. y \in Nat
      OBVIOUS
    <3>2. /\ \A i \in 1..y : i + 1 \in 1..(y + 1) /\ i + 1 # 1
          /\ 1 \in 1..(y + 1)
      BY ONLY <3>0
    <3>3. \A i, j \in 1..(y + 1) : q[i] # Nobody /\ q[i] = q[j] => i = j
      BY ONLY <1>3, <2>2
    <3>4. \A i \in 1..(y + 1) : q[i] # Nobody =>
            q[i] \in Call /\ PaneOf(q[i]) = p /\ KindOf(q[i]) = kind /\ Waits(q[i], n)
      BY <1>2, <1>3, <2>2
    <3>5. \A i \in 1..y : q[i + 1] # Nobody => q[i + 1] # w
      BY ONLY <2>2, <3>2, <3>3
    <3>6. \A i \in 1..y : upd[i] # Nobody =>
            PaneOf(upd[i]) = p /\ KindOf(upd[i]) = kind /\ Waits(upd[i], n)'
      <4> SUFFICES ASSUME NEW i \in 1..y, upd[i] # Nobody
                   PROVE  PaneOf(upd[i]) = p /\ KindOf(upd[i]) = kind /\ Waits(upd[i], n)'
        OBVIOUS
      <4>0. i \in 1..y /\ upd[i] # Nobody
        OBVIOUS
      <4>1. PICK c \in Call : c = upd[i] /\ c = q[i + 1]
        BY ONLY <2>2, <3>2, <3>4, <4>0
      <4>2. PaneOf(c) = p /\ KindOf(c) = kind /\ Waits(c, n) /\ c # w
        BY ONLY <2>2, <3>2, <3>4, <3>5, <4>0, <4>1
      <4>3. Waits(c, n)'
        BY <1>8, <4>2
      <4> QED
        BY <4>1, <4>2, <4>3 DEF Waits, Active
    <3>7. \A i, j \in 1..y : upd[i] # Nobody /\ upd[i] = upd[j] => i = j
      <4> SUFFICES ASSUME NEW i \in 1..y, NEW j \in 1..y, upd[i] # Nobody, upd[i] = upd[j]
                   PROVE  i = j
        OBVIOUS
      <4>1. i \in 1..y /\ j \in 1..y /\ upd[i] # Nobody /\ upd[i] = upd[j]
        OBVIOUS
      <4>2. i + 1 = j + 1
        BY ONLY <2>2, <3>2, <3>3, <4>1
      <4> QED
        BY ONLY <3>0, <4>1, <4>2
    <3>8. QueueSound(n, p, kind)'
      <4>1. waiters'[n][<<p, kind>>] = upd
        BY <1>10
      <4> QED
        BY ONLY <3>1, <3>6, <3>7, <4>1 DEF QueueSound, Waits, Active
    <3>9. QueueComplete(n, p, kind)'
      <4> SUFFICES ASSUME link'[n] = "up", kind \notin Slow
                   PROVE  /\ \A i \in 1..y : upd[i] # Nobody
                          /\ \A k \in Call : PaneOf(k) = p /\ KindOf(k) = kind /\ Waits(k, n)'
                               => \E i \in 1..y : upd[i] = k
        BY <1>10, <3>1 DEF QueueComplete
      <4>1. /\ \A i \in 1..(y + 1) : q[i] # Nobody
            /\ \A k \in Call : PaneOf(k) = p /\ KindOf(k) = kind /\ Waits(k, n)
                 => \E i \in 1..(y + 1) : q[i] = k
        BY <1>2, <3>1 DEF QueueOK, QueueComplete
      <4>2. ASSUME NEW k \in Call, PaneOf(k) = p, KindOf(k) = kind, Waits(k, n)'
            PROVE  \E i \in 1..y : upd[i] = k
        <5>0. Waits(k, n) /\ k # w
          BY <1>8, <4>2
        <5>1. PICK i \in 1..(y + 1) : q[i] = k
          BY <4>1, <4>2, <5>0
        <5>2. i - 1 \in 1..y /\ (i - 1) + 1 = i
          BY ONLY <2>2, <5>0, <5>1
        <5>3. upd[i - 1] = k
          BY <2>2, <5>1, <5>2
        <5> QED
          BY <5>2, <5>3
      <4>3. \A i \in 1..y : upd[i] # Nobody
        BY ONLY <2>2, <3>2, <4>1
      <4> QED
        BY <4>2, <4>3
    <3> QED
      BY <3>8, <3>9 DEF QueueOK
  <2> QED
    BY <1>1, <2>1, <2>2
<1>12. ASSUME NEW m \in Conn, NEW r \in Pane, NEW other \in Kind,
              m # n \/ r # p \/ other # kind
       PROVE  QueueOK(m, r, other)'
  <2>1. QueueOK(m, r, other) /\ waiters[m][<<r, other>>] \in Seq(Slot)
    BY QueueFacts
  <2>2. \A k \in Call : PaneOf(k) = r /\ KindOf(k) = other => (Waits(k, m)' <=> Waits(k, m))
    BY <1>6, <1>8, <1>12, CallFacts DEF Waits
  <2> QED
    BY <1>10, <1>12, <2>1, <2>2, SameQueue
<1> QED
  BY <1>9, <1>11, <1>12

LEMMA ReadsKeeps ==
  ASSUME ClientInv, NEW n \in Conn, Reads(n)
  PROVE  ClientInv'
<1>0. ClientTypeOK /\ OneLink
  BY DEF ClientInv
<1>1. PICK p \in Pane, kind \in {"spawn", "probe", "exit"} :
        /\ link[n] \in {"up", "down"} /\ toApp[n] # <<>> /\ Head(toApp[n]) = Msg(kind, p)
        /\ \/ /\ kind = "exit"
              /\ routes' = [routes EXCEPT ![n] = @ \ {p}]
              /\ UNCHANGED <<waiters, got>>
           \/ /\ kind \in Kind
              /\ waiters' = [waiters EXCEPT ![n][<<p, kind>>] =
                   IF waiters[n][<<p, kind>>] = <<>>
                     THEN waiters[n][<<p, kind>>] ELSE Tail(waiters[n][<<p, kind>>])]
              /\ got' = [k \in Call |-> got[k] \/ k = Waiter(waiters[n][<<p, kind>>])]
              /\ UNCHANGED routes
        /\ toApp' = [toApp EXCEPT ![n] = Tail(@)]
        /\ UNCHANGED <<cur, link, pc, via, toDaemon, shell, subs, dying>>
  BY ReadsFacts
<1>2. toApp' \in [Conn -> Seq(Answer)] /\ \A m \in Conn \ {n} : toApp'[m] = toApp[m]
  <2>1. Tail(toApp[n]) \in Seq(Answer)
    BY <1>0, <1>1, TailFacts DEF ClientTypeOK
  <2> QED
    BY <1>0, <1>1, <2>1 DEF ClientTypeOK
<1>3. OneLink'
  BY <1>0, <1>1 DEF OneLink
<1>4. CASE kind = "exit" /\ routes' = [routes EXCEPT ![n] = @ \ {p}] /\ UNCHANGED <<waiters, got>>
  <2>1. routes' \in [Conn -> SUBSET Pane]
    BY <1>0, <1>4 DEF ClientTypeOK
  <2>2. \A m \in Conn : link'[m] = "unused" => toApp'[m] = toApp[m]
    BY <1>1, <1>2
  <2> QED
    BY <1>0, <1>1, <1>2, <1>3, <1>4, <2>1, <2>2, LinkMoves DEF ClientTypeOK
<1>5. CASE /\ kind \in Kind
           /\ waiters' = [waiters EXCEPT ![n][<<p, kind>>] =
                IF waiters[n][<<p, kind>>] = <<>>
                  THEN waiters[n][<<p, kind>>] ELSE Tail(waiters[n][<<p, kind>>])]
           /\ got' = [k \in Call |-> got[k] \/ k = Waiter(waiters[n][<<p, kind>>])]
           /\ UNCHANGED routes
  <2>0. kind \in Kind
    BY <1>5
  <2>1. PICK q \in Seq(Slot) : q = waiters[n][<<p, kind>>]
    BY <2>0, QueueFacts
  <2>2. PICK upd \in Seq(Slot) : upd = Shortened(q)
    BY ShortenedFacts
  <2>3. waiters' = WithQueue(n, p, kind, upd) /\ got' = Answered(q)
    BY <1>5, <2>1, <2>2 DEF WithQueue, Shortened, Answered
  <2>4. /\ \A k \in Call : CallOK(k)'
        /\ \A m \in Conn, r \in Pane, other \in Kind : QueueOK(m, r, other)'
    BY <1>1, <2>0, <2>1, <2>2, <2>3, ReplyKeeps
  <2>5. /\ waiters' \in [Conn -> [Pane \X Kind -> Seq(Slot)]]
        /\ \A m \in Conn, r \in Pane, other \in Kind :
             m # n => waiters'[m][<<r, other>>] = waiters[m][<<r, other>>]
    <3>1. upd \in Seq(Slot) /\ n \in Conn /\ p \in Pane
      OBVIOUS
    <3>2. /\ waiters' \in [Conn -> [Pane \X Kind -> Seq(Slot)]]
          /\ \A m \in Conn, r \in Pane, other \in Kind :
               m # n \/ r # p \/ other # kind
                 => waiters'[m][<<r, other>>] = waiters[m][<<r, other>>]
      BY ONLY <1>0, <2>0, <2>3, <3>1, OneQueue, ZenonT(60)
    <3> QED
      BY ONLY <3>2
  <2>6. ClientTypeOK'
    <3>1. got' \in [Call -> BOOLEAN]
      BY <2>3 DEF Answered
    <3> QED
      BY <1>0, <1>1, <1>2, <1>5, <2>5, <3>1 DEF ClientTypeOK, Slot
  <2>7. ASSUME NEW m \in Conn, link'[m] = "unused"
        PROVE  Fresh(m)'
    <3>1. m # n /\ Fresh(m)
      BY <1>1, <2>7 DEF ClientInv
    <3>2. \A x \in Pane \X Kind : waiters'[m][x] = waiters[m][x]
      BY <2>5, <3>1
    <3> QED
      BY <1>1, <1>2, <3>1, <3>2 DEF Fresh
  <2> QED
    BY <1>3, <2>4, <2>6, <2>7 DEF ClientInv
<1> QED
  BY <1>1, <1>4, <1>5

(***************************************************************************)
(* The panes: what keeps one hopeful.                                      *)
(***************************************************************************)
\* It is enough to look at what may be lost in a step.
LEMMA HopeKept ==
  ASSUME NEW p \in Pane, Hopeful(p),
         losses > 0 => losses' > 0 \/ Hopeful(p)',
         \A n \in Conn : link[n] = "down" => link'[n] = "down" \/ Hopeful(p)',
         Called(p) => Called(p)' \/ Hopeful(p)',
         p \in exits => p \in exits' \/ Hopeful(p)',
         cur # 0 =>
           /\ cur' = cur \/ Hopeful(p)'
           /\ Has(toApp[cur], Msg("exit", p)) =>
                Has(toApp'[cur], Msg("exit", p)) \/ Hopeful(p)'
           /\ cur \in dying[p] => cur \in dying'[p] \/ Hopeful(p)'
           /\ Feeds(p) => p \in routes'[cur] \/ Hopeful(p)'
           /\ Feeds(p) /\ cur \in subs[p] /\ shell[p] = "running" =>
                (cur \in subs'[p] /\ shell'[p] = "running") \/ Hopeful(p)'
           /\ Feeds(p) /\ SpawnSent(p) => SpawnSent(p)' \/ Hopeful(p)'
  PROVE  Hopeful(p)'
<1> SUFFICES ASSUME ~Hopeful(p)'
             PROVE  FALSE
  OBVIOUS
<1>1. /\ ~(losses' > 0) /\ \A n \in Conn : link'[n] # "down"
      /\ ~Called(p)' /\ p \notin exits'
      /\ cur' # 0 => /\ ~Has(toApp'[cur'], Msg("exit", p)) /\ cur' \notin dying'[p]
                     /\ ~Feeds(p)'
  BY DEF Hopeful, Down, Doomed, Has, Msg
<1>2. /\ ~(losses > 0) /\ ~Down /\ ~Called(p) /\ p \notin exits
  BY <1>1 DEF Down
<1>3. cur # 0 /\ cur' = cur
  BY <1>2 DEF Hopeful, Doomed
<1>4. ~Doomed(p)
  BY <1>1, <1>2, <1>3 DEF Doomed, Has, Msg
<1>5. Feeds(p)
  BY <1>2, <1>4 DEF Hopeful
<1>6. p \in routes'[cur] /\ ((cur \in subs'[p] /\ shell'[p] = "running") \/ SpawnSent(p)')
  BY <1>3, <1>5 DEF Feeds
<1>7. Feeds(p)'
  BY <1>3, <1>6 DEF Feeds
<1> QED
  BY <1>1, <1>3, <1>7

\* The signs of hope after a step.
LEMMA HopeSigns ==
  ASSUME NEW p \in Pane
  PROVE  /\ losses' > 0 => Hopeful(p)'
         /\ \A n \in Conn : link'[n] = "down" => Hopeful(p)'
         /\ Called(p)' => Hopeful(p)'
         /\ p \in exits' => Hopeful(p)'
         /\ cur' # 0 => /\ Has(toApp'[cur'], Msg("exit", p)) => Hopeful(p)'
                        /\ cur' \in dying'[p] => Hopeful(p)'
                        /\ Feeds(p)' => Hopeful(p)'
BY DEF Hopeful, Down, Doomed, Has, Msg

LEMMA HasAppended ==
  ASSUME NEW S, NEW q \in Seq(S), NEW x \in S
  PROVE  \A m : Has(Append(q, x), m) <=> Has(q, m) \/ m = x
<1>1. PICK y \in Nat : y = Len(q)
  OBVIOUS
<1>2. /\ DOMAIN Append(q, x) = 1..(y + 1) /\ DOMAIN q = 1..y
      /\ Append(q, x)[y + 1] = x /\ \A i \in 1..y : Append(q, x)[i] = q[i]
  BY <1>1
<1>3. \A i \in 1..(y + 1) : i \in 1..y \/ i = y + 1
  BY <1>1
<1> QED
  BY <1>2, <1>3 DEF Has

LEMMA HasFirst ==
  ASSUME NEW S, NEW q \in Seq(S), q # <<>>
  PROVE  \A m : Has(q, m) <=> m = Head(q) \/ Has(Tail(q), m)
<1>1. PICK y \in Nat : Len(q) = y + 1 /\ Len(Tail(q)) = y
  BY TailFacts
<1>2. /\ DOMAIN q = 1..(y + 1) /\ Head(q) = q[1] /\ Tail(q) \in Seq(S)
      /\ \A i \in 1..y : Tail(q)[i] = q[i + 1]
  BY <1>1, TailFacts
<1>3. DOMAIN Tail(q) = 1..y
  BY <1>1, <1>2
<1>4. /\ \A i \in 1..(y + 1) : i = 1 \/ (i - 1 \in 1..y /\ (i - 1) + 1 = i)
      /\ \A i \in 1..y : i + 1 \in 1..(y + 1) /\ 1 \in 1..(y + 1)
  BY <1>1
<1>5. ASSUME NEW m, Has(q, m)
      PROVE  m = Head(q) \/ Has(Tail(q), m)
  BY <1>2, <1>3, <1>4, <1>5 DEF Has
<1>6. ASSUME NEW m, Has(Tail(q), m)
      PROVE  Has(q, m)
  BY <1>2, <1>3, <1>4, <1>6 DEF Has
<1>7. Has(q, Head(q))
  BY <1>1, <1>2 DEF Has
<1> QED
  BY <1>5, <1>6, <1>7

\* The messages on their way when one is sent, and when the first one is taken.
Post(f, n, x) == [f EXCEPT ![n] = Append(@, x)]

Take(f, n) == [f EXCEPT ![n] = Tail(@)]

LEMMA Posted ==
  ASSUME NEW S, NEW f \in [Conn -> Seq(S)], NEW n \in Conn, NEW x \in S
  PROVE  \A m \in Conn : \A y : Has(Post(f, n, x)[m], y) <=> Has(f[m], y) \/ (m = n /\ y = x)
<1> DEFINE g == Post(f, n, x)
<1>1. g[n] = Append(f[n], x) /\ f[n] \in Seq(S) /\ \A m \in Conn \ {n} : g[m] = f[m]
  BY DEF Post
<1>2. \A y : Has(Append(f[n], x), y) <=> Has(f[n], y) \/ y = x
  BY <1>1, HasAppended
<1> HIDE DEF g
<1>3. \A m \in Conn : \A y : Has(g[m], y) <=> Has(f[m], y) \/ (m = n /\ y = x)
  BY <1>1, <1>2
<1> QED
  BY <1>3 DEF g

LEMMA Taken ==
  ASSUME NEW S, NEW f \in [Conn -> Seq(S)], NEW n \in Conn, f[n] # <<>>
  PROVE  /\ \A m \in Conn \ {n} : Take(f, n)[m] = f[m]
         /\ \A y : Has(f[n], y) <=> y = Head(f[n]) \/ Has(Take(f, n)[n], y)
<1>1. /\ Take(f, n)[n] = Tail(f[n]) /\ f[n] \in Seq(S)
      /\ \A m \in Conn \ {n} : Take(f, n)[m] = f[m]
  BY DEF Take
<1>2. \A y : Has(f[n], y) <=> y = Head(f[n]) \/ Has(Tail(f[n]), y)
  BY <1>1, HasFirst
<1> QED
  BY <1>1, <1>2

\* A connection that is found or made takes no hope away.
LEMMA EnsureHope ==
  ASSUME ClientInv, NEW n \in Conn, Ensure(n)
  PROVE  /\ cur' = n /\ n # 0 /\ (cur # 0 => n = cur)
         /\ \A m \in Conn : link'[m] = "down" <=> link[m] = "down"
<1>1. n # 0
  BY CallFacts
<1> QED
  BY <1>1, EnsureFacts

LEMMA EnterHope ==
  ASSUME ClientInv, NEW k \in Call, Enter(k), NEW p \in Pane, Hopeful(p),
         UNCHANGED <<losses, exits>>
  PROVE  Hopeful(p)'
<1>1. PICK n \in Conn :
        /\ Ensure(n) /\ via' = [via EXCEPT ![k] = n]
        /\ routes' = IF KindOf(k) = "spawn"
                       THEN [routes EXCEPT ![n] = @ \cup {PaneOf(k)}] ELSE routes
  BY DEF Enter
<1>2. /\ pc[k] = "called" /\ pc' = [pc EXCEPT ![k] = "send"]
      /\ UNCHANGED <<toDaemon, toApp, shell, subs, dying>>
  BY DEF Enter, daemonVars
<1>3. ClientTypeOK
  BY DEF ClientInv
<1>4. /\ cur' = n /\ n # 0 /\ (cur # 0 => n = cur)
      /\ \A m \in Conn : link'[m] = "down" <=> link[m] = "down"
  BY <1>1, EnsureHope
<1>5. /\ pc'[k] = "send" /\ via'[k] = n
      /\ \A j \in Call \ {k} : pc'[j] = pc[j] /\ via'[j] = via[j]
  BY <1>1, <1>2, <1>3 DEF ClientTypeOK
<1>6. /\ p \in routes[n] => p \in routes'[n]
      /\ KindOf(k) = "spawn" /\ PaneOf(k) = p => p \in routes'[n]
  BY <1>1, <1>3 DEF ClientTypeOK
<1>7. Called(p) => Called(p)' \/ Hopeful(p)'
  <2>1. CASE KindOf(k) = "spawn" /\ PaneOf(k) = p
    <3>1. SpawnSent(p)'
      BY <1>4, <1>5, <2>1 DEF SpawnSent
    <3>2. Feeds(p)'
      BY <1>4, <1>6, <2>1, <3>1 DEF Feeds
    <3> QED
      BY <1>4, <3>2, HopeSigns
  <2>2. CASE ~(KindOf(k) = "spawn" /\ PaneOf(k) = p)
    BY <1>5, <2>2 DEF Called
  <2> QED
    BY <2>1, <2>2
<1>8. cur # 0 /\ SpawnSent(p) => SpawnSent(p)'
  BY <1>2, <1>4, <1>5 DEF SpawnSent, Has, Msg
<1>9. cur # 0 /\ Feeds(p) => p \in routes'[cur]
  BY <1>4, <1>6 DEF Feeds
<1> QED
  BY <1>2, <1>4, <1>7, <1>8, <1>9, HopeKept

LEMMA SendFacts ==
  ASSUME ClientInv, NEW k \in Call, Send(k)
  PROVE  \A m \in Conn : \A y : Has(toDaemon'[m], y) <=>
           Has(toDaemon[m], y) \/ (m = via[k] /\ y = Msg(KindOf(k), PaneOf(k)))
<1>1. /\ via[k] \in Conn
      /\ toDaemon' = [toDaemon EXCEPT ![via[k]] = Append(@, Msg(KindOf(k), PaneOf(k)))]
  BY DEF Send, ClientInv, CallOK, Active
<1>2. PICK x \in Request : x = Msg(KindOf(k), PaneOf(k))
  BY CallFacts, MsgFacts DEF Kind
<1>3. PICK n \in Conn : n = via[k]
  BY <1>1
<1>4. /\ toDaemon \in [Conn -> Seq(Request)] /\ toDaemon' = Post(toDaemon, n, x)
      /\ n \in Conn /\ x \in Request
  BY <1>1, <1>2, <1>3 DEF ClientInv, ClientTypeOK, Post
<1>5. \A m \in Conn : \A y :
        Has(Post(toDaemon, n, x)[m], y) <=> Has(toDaemon[m], y) \/ (m = n /\ y = x)
  BY ONLY <1>4, Posted, ZenonT(60)
<1>6. \A m \in Conn : \A y : Has(toDaemon'[m], y) <=> Has(toDaemon[m], y) \/ (m = n /\ y = x)
  BY ONLY <1>4, <1>5
<1> QED
  BY <1>2, <1>3, <1>6

LEMMA SendHope ==
  ASSUME ClientInv, NEW k \in Call, Send(k), NEW p \in Pane, Hopeful(p),
         UNCHANGED <<losses, exits>>
  PROVE  Hopeful(p)'
<1>1. /\ pc[k] = "send" /\ link[via[k]] = "up" /\ via[k] \in Conn
      /\ toDaemon' = [toDaemon EXCEPT ![via[k]] = Append(@, Msg(KindOf(k), PaneOf(k)))]
      /\ pc' = [pc EXCEPT ![k] = "wait"]
      /\ UNCHANGED <<cur, link, routes, via, toApp, shell, subs, dying>>
  BY DEF Send, ClientInv, CallOK, Active, daemonVars
<1>2. ClientTypeOK
  BY DEF ClientInv
<1>3. \A j \in Call : pc'[j] = IF j = k THEN "wait" ELSE pc[j]
  BY <1>1, <1>2 DEF ClientTypeOK
<1>4. Called(p) => Called(p)'
  BY <1>1, <1>3 DEF Called
<1>6. \A n \in Conn : \A y : Has(toDaemon'[n], y) <=>
        Has(toDaemon[n], y) \/ (n = via[k] /\ y = Msg(KindOf(k), PaneOf(k)))
  BY SendFacts
<1>7. cur # 0 /\ SpawnSent(p) => SpawnSent(p)'
  <2> SUFFICES ASSUME cur # 0, SpawnSent(p)
               PROVE  Has(toDaemon'[cur], Msg("spawn", p))
                        \/ \E j \in Call : /\ PaneOf(j) = p /\ KindOf(j) = "spawn"
                                           /\ pc'[j] = "send" /\ via[j] = cur
    BY <1>1 DEF SpawnSent, Has, Msg
  <2>1. cur \in Conn
    BY <1>2 DEF ClientTypeOK
  <2> QED
    BY <1>1, <1>3, <1>6, <2>1 DEF SpawnSent
<1> QED
  BY <1>1, <1>4, <1>7, HopeKept DEF Feeds

\* A call ends, and takes a route with it only if its link is not live.
LEMMA CallOverHope ==
  ASSUME ClientInv, NEW k \in Call, NEW p \in Pane, Hopeful(p), pc[k] # "called",
         NEW state, state # "called", pc' = [pc EXCEPT ![k] = state],
         via' = [via EXCEPT ![k] = 0],
         \/ UNCHANGED routes /\ pc[k] # "send"
         \/ /\ via[k] \in Conn /\ link[via[k]] # "up"
            /\ \A m \in Conn : m # via[k] => routes'[m] = routes[m],
         UNCHANGED <<cur, link, toDaemon, toApp, shell, subs, dying, losses, exits>>
  PROVE  Hopeful(p)'
<1>1. ClientTypeOK /\ OneLink
  BY DEF ClientInv
<1>2. \A j \in Call : j # k => pc'[j] = pc[j] /\ via'[j] = via[j]
  BY <1>1 DEF ClientTypeOK
<1>3. Called(p) => Called(p)'
  BY <1>2 DEF Called
<1>4. ASSUME cur # 0
      PROVE  /\ Feeds(p) => p \in routes'[cur] \/ Hopeful(p)'
             /\ Feeds(p) /\ SpawnSent(p) => SpawnSent(p)' \/ Hopeful(p)'
  <2>1. cur \in Conn /\ link[cur] \in {"up", "down"}
    BY <1>1, <1>4 DEF ClientTypeOK, OneLink
  <2>2. CASE via[k] = cur /\ link[via[k]] # "up"
    BY <2>1, <2>2, HopeSigns
  <2>3. CASE ~(via[k] = cur /\ link[via[k]] # "up")
    <3>1. routes'[cur] = routes[cur] /\ (pc[k] # "send" \/ via[k] # cur)
      BY <2>1, <2>3
    <3>2. SpawnSent(p) => SpawnSent(p)'
      BY <1>2, <3>1 DEF SpawnSent, Has, Msg
    <3> QED
      BY <3>1, <3>2 DEF Feeds
  <2> QED
    BY <2>2, <2>3
<1> QED
  BY <1>3, <1>4, HopeKept

\* What a kill or a detach changes.
LEMMA TellFacts ==
  ASSUME ClientInv, NEW p \in Pane, NEW kind \in {"detach", "kill"}, Tell(p, kind)
  PROVE  /\ cur' # 0 /\ (cur # 0 => cur' = cur)
         /\ UNCHANGED <<pc, via, toApp, shell, subs, dying>>
         /\ \A m \in Conn : link'[m] = "down" <=> link[m] = "down"
         /\ \A m \in Conn, r \in Pane :
              r \in routes[m] /\ (r # p \/ kind = "kill") => r \in routes'[m]
         /\ \A m \in Conn : \A y :
              /\ Has(toDaemon[m], y) => Has(toDaemon'[m], y)
              /\ Has(toDaemon'[m], y) => Has(toDaemon[m], y) \/ y = Msg(kind, p)
<1>0. ClientTypeOK
  BY DEF ClientInv
<1>1. PICK n \in Conn :
        /\ Ensure(n)
        /\ toDaemon' = IF link'[n] = "up"
                         THEN [toDaemon EXCEPT ![n] = Append(@, Msg(kind, p))]
                         ELSE toDaemon
        /\ routes' = IF kind = "detach" THEN [routes EXCEPT ![n] = @ \ {p}] ELSE routes
  BY DEF Tell
<1>2. UNCHANGED <<pc, via, toApp, shell, subs, dying>>
  BY DEF Tell, callVars, daemonVars
<1>3. /\ cur' = n /\ n # 0 /\ (cur # 0 => n = cur)
      /\ \A m \in Conn : link'[m] = "down" <=> link[m] = "down"
  BY <1>1, EnsureHope
<1>4. \A m \in Conn, r \in Pane :
        r \in routes[m] /\ (r # p \/ kind = "kill") => r \in routes'[m]
  BY <1>0, <1>1 DEF ClientTypeOK
<1>5. PICK x \in Request : x = Msg(kind, p)
  BY MsgFacts
<1>6. toDaemon' = toDaemon \/ toDaemon' = Post(toDaemon, n, x)
  BY <1>1, <1>5 DEF Post
<1>7. \A m \in Conn : \A y :
        Has(Post(toDaemon, n, x)[m], y) <=> Has(toDaemon[m], y) \/ (m = n /\ y = x)
  <2>1. toDaemon \in [Conn -> Seq(Request)] /\ n \in Conn /\ x \in Request
    BY <1>0 DEF ClientTypeOK
  <2> QED
    BY <2>1, Posted, ZenonT(60)
<1>8. \A m \in Conn : \A y : /\ Has(toDaemon[m], y) => Has(toDaemon'[m], y)
                             /\ Has(toDaemon'[m], y) => Has(toDaemon[m], y) \/ y = x
  BY ONLY <1>6, <1>7
<1> QED
  BY <1>2, <1>3, <1>4, <1>5, <1>8

LEMMA TellHope ==
  ASSUME ClientInv, NEW q \in Pane, NEW kind \in {"detach", "kill"}, Tell(q, kind),
         NEW p \in Pane, Hopeful(p), p # q \/ kind = "kill", losses' = losses,
         p \in exits => p \in exits'
  PROVE  Hopeful(p)'
<1>1. /\ cur' # 0 /\ (cur # 0 => cur' = cur)
      /\ UNCHANGED <<pc, via, toApp, shell, subs, dying>>
      /\ \A m \in Conn : link'[m] = "down" <=> link[m] = "down"
      /\ \A m \in Conn, r \in Pane :
           r \in routes[m] /\ (r # q \/ kind = "kill") => r \in routes'[m]
      /\ \A m \in Conn : \A y : Has(toDaemon[m], y) => Has(toDaemon'[m], y)
  BY TellFacts
<1>2. cur \in {0} \cup Conn
  BY DEF ClientInv, ClientTypeOK
<1>3. Called(p) => Called(p)'
  BY <1>1 DEF Called
<1>4. cur # 0 /\ SpawnSent(p) => SpawnSent(p)'
  <2> SUFFICES ASSUME cur # 0, SpawnSent(p)
               PROVE  Has(toDaemon'[cur], Msg("spawn", p))
                        \/ \E j \in Call : /\ PaneOf(j) = p /\ KindOf(j) = "spawn"
                                           /\ pc[j] = "send" /\ via[j] = cur
    BY <1>1 DEF SpawnSent, Has, Msg
  <2> QED
    BY <1>1, <1>2 DEF SpawnSent
<1>5. cur # 0 /\ Feeds(p) => p \in routes'[cur]
  BY <1>1, <1>2 DEF Feeds
<1> QED
  BY <1>1, <1>3, <1>4, <1>5, HopeKept

LEMMA WriteHope ==
  ASSUME ClientInv, Write, NEW p \in Pane, Hopeful(p), UNCHANGED <<losses, exits>>
  PROVE  Hopeful(p)'
<1>1. PICK n \in Conn : Ensure(n)
  BY DEF Write
<1>2. /\ cur = 0
      /\ UNCHANGED <<routes, pc, via, toDaemon, toApp, shell, subs, dying>>
  BY DEF Write, callVars, daemonVars
<1>3. \A m \in Conn : link'[m] = "down" <=> link[m] = "down"
  BY <1>1, EnsureHope
<1>4. Called(p) => Called(p)'
  BY <1>2 DEF Called
<1> QED
  BY <1>2, <1>3, <1>4, HopeKept

\* The frontend invokes commands, which may be the last step of handling a loss.
LEMMA InvokeHope ==
  ASSUME NEW calls \in SUBSET Call, \A k \in calls : pc[k] = "idle",
         pc' = [k \in Call |-> IF k \in calls THEN "called" ELSE pc[k]],
         UNCHANGED <<cur, link, routes, via, toDaemon, toApp, shell, subs, dying, exits>>,
         NEW p \in Pane, Hopeful(p),
         losses' = losses \/ \E k \in calls : PaneOf(k) = p /\ KindOf(k) = "spawn"
  PROVE  Hopeful(p)'
<1>1. \A k \in Call : pc'[k] = IF k \in calls THEN "called" ELSE pc[k]
  OBVIOUS
<1>2. Called(p) => Called(p)'
  BY <1>1 DEF Called
<1>3. CASE \E k \in calls : PaneOf(k) = p /\ KindOf(k) = "spawn"
  <2>1. Called(p)'
    BY <1>1, <1>3 DEF Called
  <2> QED
    BY <2>1, HopeSigns
<1>4. CASE losses' = losses
  <2>1. SpawnSent(p) => SpawnSent(p)'
    BY <1>1 DEF SpawnSent, Has, Msg
  <2> QED
    BY <1>2, <1>4, <2>1, HopeKept DEF Feeds
<1> QED
  BY <1>3, <1>4

\* The daemon takes a request: nothing of what has been sent is added to.
LEMMA ServeTakes ==
  ASSUME ClientInv, NEW n \in Conn, Serve(n)
  PROVE  /\ toDaemon[n] # <<>> /\ n = cur /\ cur # 0
         /\ \A m \in Conn \ {n} : toDaemon'[m] = toDaemon[m]
         /\ \A y : Has(toDaemon[n], y) <=> y = Head(toDaemon[n]) \/ Has(toDaemon'[n], y)
<1>1. /\ link[n] = "up" /\ toDaemon[n] # <<>> /\ toDaemon' = Take(toDaemon, n)
  BY DEF Serve, Take
<1>2. toDaemon \in [Conn -> Seq(Request)] /\ n \in Conn /\ n = cur /\ n # 0
  BY <1>1, CallFacts DEF ClientInv, ClientTypeOK, OneLink
<1>3. /\ \A m \in Conn \ {n} : Take(toDaemon, n)[m] = toDaemon[m]
      /\ \A y : Has(toDaemon[n], y) <=> y = Head(toDaemon[n]) \/ Has(Take(toDaemon, n)[n], y)
  <2>1. \A m \in Conn \ {n} : Take(toDaemon, n)[m] = toDaemon[m]
    BY <1>2 DEF Take
  <2>2. \A y : Has(toDaemon[n], y) <=> y = Head(toDaemon[n]) \/ Has(Take(toDaemon, n)[n], y)
    BY <1>1, <1>2, Taken
  <2> QED
    BY <2>1, <2>2
<1> QED
  BY ONLY <1>1, <1>2, <1>3

LEMMA MsgsDiffer ==
  \A p, r, kind, other : Msg(kind, p) = Msg(other, r) <=> kind = other /\ p = r
BY DEF Msg

LEMMA ServeHope ==
  ASSUME ClientInv, NEW n \in Conn, Serve(n), NEW p \in Pane, Hopeful(p),
         DetachedLast(p), OnScreen(p), UNCHANGED <<losses, exits>>
  PROVE  Hopeful(p)'
<1>1. PICK r \in Pane, kind \in {"spawn", "probe", "detach", "kill"} :
        /\ link[n] = "up" /\ toDaemon[n] # <<>> /\ Head(toDaemon[n]) = Msg(kind, r)
        /\ \/ kind = "spawn" /\ ServeSpawn(n, r)
           \/ kind = "probe" /\ ServeProbe(n, r)
           \/ kind = "detach" /\ ServeDetach(n, r)
           \/ kind = "kill" /\ ServeKill(r)
        /\ toDaemon' = [toDaemon EXCEPT ![n] = Tail(@)]
        /\ UNCHANGED <<cur, link, routes, waiters, pc, via, got>>
  BY ServeFacts
<1>2. /\ n = cur /\ cur # 0
      /\ \A y : Has(toDaemon[n], y) <=> y = Msg(kind, r) \/ Has(toDaemon'[n], y)
  BY <1>1, ServeTakes
<1>0. ClientTypeOK
  BY DEF ClientInv
<1>3. ~(kind = "detach" /\ r = p)
  BY <1>2 DEF DetachedLast, OnScreen
<1>4. Called(p) => Called(p)'
  BY <1>1 DEF Called
<1>5. /\ Has(toApp[n], Msg("exit", p)) => Has(toApp'[n], Msg("exit", p))
      /\ kind = "spawn" /\ shell[r] = "ended" => Has(toApp'[n], Msg("exit", r))
  <2>0. PICK q \in Seq(Answer) : q = toApp[n]
    BY <1>0 DEF ClientTypeOK
  <2>1. CASE kind = "spawn" /\ ServeSpawn(n, r)
    <3>1. PICK ended \in BOOLEAN : ended = (shell[r] = "ended")
      OBVIOUS
    <3>2. toApp'[n] = Answers(q, r, ended)
      BY <1>0, <2>0, <2>1, <3>1 DEF ServeSpawn, ClientTypeOK, Answers
    <3>3. /\ \A m : Has(q, m) => Has(Answers(q, r, ended), m)
          /\ ended => Has(Answers(q, r, ended), Msg("exit", r))
      BY AnswersFacts
    <3> QED
      BY <2>0, <3>1, <3>2, <3>3
  <2>2. CASE kind = "probe" /\ ServeProbe(n, r)
    <3>1. PICK x \in Answer : x = Msg("probe", r)
      BY MsgFacts
    <3>2. toApp'[n] = Append(q, x)
      BY <1>0, <2>0, <2>2, <3>1 DEF ServeProbe, ClientTypeOK
    <3>3. \A m : Has(Append(q, x), m) <=> Has(q, m) \/ m = x
      BY HasAppended
    <3> QED
      BY <2>0, <2>2, <3>2, <3>3
  <2>3. CASE kind \in {"detach", "kill"} /\ (ServeDetach(n, r) \/ ServeKill(r))
    BY <2>3 DEF ServeDetach, ServeKill
  <2> QED
    BY <1>1, <2>1, <2>2, <2>3
<1>6. CASE r = p /\ kind = "spawn" /\ ServeSpawn(n, p)
  <2>1. /\ cur \in dying[p] => cur \in dying'[p]
        /\ shell'[p] = IF shell[p] = "none" THEN "running" ELSE shell[p]
        /\ subs'[p] = IF shell[p] = "ended" THEN subs[p] ELSE subs[p] \cup {n}
    BY <1>0, <1>6 DEF ServeSpawn, ClientTypeOK
  <2>2. shell[p] = "ended" => Hopeful(p)'
    <3>1. shell[p] = "ended" => cur' = n /\ Has(toApp'[cur'], Msg("exit", p))
      BY <1>1, <1>2, <1>5, <1>6
    <3> QED
      BY <1>2, <3>1, HopeSigns
  <2>3. ASSUME shell[p] # "ended", Feeds(p)
        PROVE  Hopeful(p)'
    <3>1. n \in subs'[p] /\ shell'[p] = "running" /\ cur' = n /\ p \in routes'[n]
      BY <1>0, <1>1, <1>2, <2>1, <2>3 DEF ClientTypeOK, Feeds
    <3>2. Feeds(p)'
      BY <3>1 DEF Feeds
    <3> QED
      BY <1>2, <3>1, <3>2, HopeSigns
  <2> QED
    BY <1>1, <1>2, <1>4, <1>5, <2>1, <2>2, <2>3, HopeKept
<1>7. CASE ~(r = p /\ kind = "spawn")
  <2>1. SpawnSent(p) => SpawnSent(p)'
    <3>1. Has(toDaemon[n], Msg("spawn", p)) => Has(toDaemon'[n], Msg("spawn", p))
      BY <1>2, <1>7, MsgsDiffer
    <3>2. SpawnSent(p) => Has(toDaemon'[n], Msg("spawn", p))
                            \/ \E j \in Call : /\ PaneOf(j) = p /\ KindOf(j) = "spawn"
                                               /\ pc[j] = "send" /\ via[j] = cur
      BY <1>2, <3>1 DEF SpawnSent
    <3> QED
      BY <1>1, <1>2, <3>2 DEF SpawnSent, Has, Msg
  <2>2. cur \in dying[p] => cur \in dying'[p]
    BY <1>0, <1>1 DEF ServeSpawn, ServeProbe, ServeDetach, ServeKill, daemonVars, ClientTypeOK
  <2>3. cur \in subs[p] /\ shell[p] = "running" =>
          (cur \in subs'[p] /\ shell'[p] = "running") \/ Hopeful(p)'
    <3>1. CASE r = p /\ kind = "kill" /\ ServeKill(p)
      <4>1. shell[p] = "running" => subs[p] \subseteq dying'[p]
        BY <1>0, <3>1 DEF ServeKill, ClientTypeOK
      <4>2. cur' # 0 /\ cur' = cur
        BY <1>1, <1>2
      <4> QED
        BY <4>1, <4>2, HopeSigns
    <3>2. CASE r # p \/ kind = "probe"
      BY <1>0, <1>1, <3>2
      DEF ServeSpawn, ServeProbe, ServeDetach, ServeKill, daemonVars, ClientTypeOK
    <3> QED
      BY <1>1, <1>3, <1>7, <3>1, <3>2
  <2> QED
    BY <1>1, <1>2, <1>4, <1>5, <2>1, <2>2, <2>3, HopeKept DEF Feeds
<1> QED
  BY <1>1, <1>6, <1>7

\* DyingEnds, ShellEnds and Reap.
LEMMA ShellsHope ==
  ASSUME ClientInv, NEW q \in Pane, DyingEnds(q) \/ ShellEnds(q) \/ Reap(q),
         NEW p \in Pane, Hopeful(p), UNCHANGED <<losses, exits>>
  PROVE  Hopeful(p)'
<1>0. ClientTypeOK /\ OneLink /\ cur \in {0} \cup Conn
  BY DEF ClientInv, ClientTypeOK
<1>1. UNCHANGED <<cur, link, routes, waiters, pc, via, got, toDaemon, subs>>
  BY DEF DyingEnds, ShellEnds, Reap, callVars
<1>2. Called(p) => Called(p)'
  BY <1>1 DEF Called
<1>3. SpawnSent(p) => SpawnSent(p)'
  BY <1>1 DEF SpawnSent, Has, Msg
<1>4. cur # 0 /\ link[cur] = "down" => Hopeful(p)'
  BY <1>0, <1>1, HopeSigns
<1>5. cur # 0 => link[cur] \in {"up", "down"}
  BY <1>0 DEF OneLink
<1>6. ASSUME NEW conns, TellExit(conns, q)
      PROVE  cur # 0 => /\ Has(toApp[cur], Msg("exit", p)) => Has(toApp'[cur], Msg("exit", p))
                        /\ p = q /\ cur \in conns => Hopeful(p)'
  <2> SUFFICES ASSUME cur # 0
               PROVE  /\ Has(toApp[cur], Msg("exit", p)) => Has(toApp'[cur], Msg("exit", p))
                      /\ p = q /\ cur \in conns => Hopeful(p)'
    OBVIOUS
  <2>1. \A n \in Conn : /\ \A m : Has(toApp[n], m) => Has(toApp'[n], m)
                        /\ n \in conns /\ link[n] = "up" => Has(toApp'[n], Msg("exit", q))
    BY <1>0, <1>6, TellExitFacts
  <2>2. cur \in Conn /\ cur' = cur /\ cur' # 0
    BY <1>0, <1>1
  <2> QED
    BY <1>4, <1>5, <2>1, <2>2, HopeSigns
<1>7. CASE DyingEnds(q)
  <2>1. /\ TellExit(dying[q], q) /\ shell' = shell
        /\ \A r \in Pane : r # q => dying'[r] = dying[r]
    BY <1>0, <1>7 DEF DyingEnds, ClientTypeOK
  <2>2. cur # 0 => /\ Has(toApp[cur], Msg("exit", p)) => Has(toApp'[cur], Msg("exit", p))
                   /\ p = q /\ cur \in dying[q] => Hopeful(p)'
    BY <1>6, <2>1
  <2> QED
    BY <1>1, <1>2, <1>3, <2>1, <2>2, HopeKept DEF Feeds
<1>8. CASE ShellEnds(q)
  <2>1. /\ TellExit(subs[q], q) /\ dying' = dying
        /\ \A r \in Pane : r # q => shell'[r] = shell[r]
    BY <1>0, <1>8 DEF ShellEnds, ClientTypeOK
  <2>2. cur # 0 => /\ Has(toApp[cur], Msg("exit", p)) => Has(toApp'[cur], Msg("exit", p))
                   /\ p = q /\ cur \in subs[q] => Hopeful(p)'
    BY <1>6, <2>1
  <2> QED
    BY <1>1, <1>2, <1>3, <2>1, <2>2, HopeKept DEF Feeds
<1>9. CASE Reap(q)
  <2>1. /\ shell[q] = "ended" /\ UNCHANGED <<toApp, dying>>
        /\ \A r \in Pane : r # q => shell'[r] = shell[r]
    BY <1>0, <1>9 DEF Reap, ClientTypeOK
  <2> QED
    BY <1>1, <1>2, <1>3, <2>1, HopeKept DEF Feeds
<1> QED
  BY <1>7, <1>8, <1>9

\* The daemon is lost: every pane has that to hope for.
LEMMA DaemonDiesHope ==
  ASSUME ClientInv, DaemonDies, NEW p \in Pane
  PROVE  Hopeful(p)'
<1>1. PICK n \in Conn : link[n] = "up"
  BY DEF DaemonDies
<1>2. link'[n] = "down"
  BY <1>1 DEF DaemonDies
<1> QED
  BY <1>2, HopeSigns

LEMMA ArrivesHope ==
  ASSUME ClientInv, NEW n \in Conn, Arrives(n), NEW p \in Pane, Hopeful(p)
  PROVE  Hopeful(p)'
<1>0. ClientTypeOK /\ OneLink
  BY DEF ClientInv
<1>1. PICK r \in Pane, kind \in {"spawn", "probe", "exit"} :
        /\ link[n] \in {"up", "down"} /\ toApp[n] # <<>> /\ Head(toApp[n]) = Msg(kind, r)
        /\ \/ kind = "exit" /\ routes' = [routes EXCEPT ![n] = @ \ {r}]
           \/ kind \in Kind /\ UNCHANGED routes
        /\ toApp' = [toApp EXCEPT ![n] = Tail(@)]
        /\ UNCHANGED <<cur, link, pc, via, toDaemon, shell, subs, dying>>
  BY ReadsFacts DEF Arrives
<1>2. n = cur /\ cur # 0
  BY <1>0, <1>1, CallFacts DEF OneLink
<1>3. exits' = exits \cup ExitRead(n) /\ UNCHANGED losses
  BY DEF Arrives
<1>4. kind = "exit" => r \in exits'
  BY <1>1, <1>3 DEF ExitRead, Msg
<1>5. \A y : Has(toApp[n], y) <=> y = Msg(kind, r) \/ Has(toApp'[n], y)
  <2>1. toApp \in [Conn -> Seq(Answer)] /\ n \in Conn /\ toApp' = Take(toApp, n)
    BY <1>0, <1>1 DEF ClientTypeOK, Take
  <2>2. \A y : Has(toApp[n], y) <=> y = Head(toApp[n]) \/ Has(Take(toApp, n)[n], y)
    BY <1>1, <2>1, Taken
  <2> QED
    BY ONLY <1>1, <2>1, <2>2
<1>6. Has(toApp[n], Msg("exit", p)) => Has(toApp'[n], Msg("exit", p)) \/ Hopeful(p)'
  BY <1>4, <1>5, MsgsDiffer, HopeSigns
<1>7. p \in routes[n] => p \in routes'[n] \/ Hopeful(p)'
  BY <1>0, <1>1, <1>4, HopeSigns DEF ClientTypeOK
<1>8. Called(p) => Called(p)'
  BY <1>1 DEF Called
<1>9. SpawnSent(p) => SpawnSent(p)'
  BY <1>1 DEF SpawnSent, Has, Msg
<1> QED
  BY <1>1, <1>2, <1>3, <1>6, <1>7, <1>8, <1>9, HopeKept DEF Feeds

LEMMA LostFacts ==
  ASSUME ClientInv, losses \in Nat, NEW n \in Conn, Lost(n)
  PROVE  cur = n /\ losses' = losses + 1 /\ \A m \in Conn : link'[m] # "down"
<1>1. link[n] = "down" /\ link' = [link EXCEPT ![n] = "lost"]
  BY DEF Lost, ReaderEnds
<1>2. cur = n /\ \A m \in Conn : link'[m] # "down"
  BY <1>1 DEF ClientInv, ClientTypeOK, OneLink
<1> QED
  BY <1>2 DEF Lost

(***************************************************************************)
(* Every step of the panes keeps the invariant.                            *)
(***************************************************************************)
\* The steps that are not about a loss, and put no pane on screen.
LEMMA LinkKept ==
  ASSUME LinkInv, ClientInv', PaneTypeOK', UNCHANGED <<losses, window>>,
         \A n \in Conn : link'[n] = "down" => link[n] = "down",
         \A p \in Pane : /\ term'[p] = term[p] \/ term'[p] = "disposed"
                              \/ (term[p] = "opening" /\ term'[p] = "open")
                         /\ useDaemon'[p] => useDaemon[p],
         \A p \in Pane : OnScreen(p) /\ Hopeful(p) => Hopeful(p)' \/ term'[p] = "disposed",
         \A p \in Pane, n \in Conn : Has(toDaemon'[n], Msg("detach", p)) =>
           Has(toDaemon[n], Msg("detach", p)) \/ term'[p] = "disposed"
  PROVE  LinkInv'
<1>1. LossesApart'
  BY DEF LinkInv, LossesApart, Down
<1>2. ASSUME NEW p \in Pane
      PROVE  PaneOK(p)'
  <2>1. PaneOK(p)
    BY DEF LinkInv
  <2>2. DetachedLast(p)'
    <3> SUFFICES ASSUME NEW n \in Conn, Has(toDaemon'[n], Msg("detach", p))
                 PROVE  term'[p] = "disposed"
      BY DEF DetachedLast, Has, Msg
    <3>1. term[p] = "disposed" \/ term'[p] = "disposed"
      BY <2>1 DEF PaneOK, DetachedLast
    <3> QED
      BY <3>1
  <2>3. OnScreen(p)' => OnScreen(p) /\ term'[p] # "disposed"
    BY DEF OnScreen
  <2>4. useDaemon'[p] => useDaemon[p]
    OBVIOUS
  <2>5. p \notin Pinned /\ OnScreen(p)' /\ useDaemon'[p] => Hopeful(p)'
    BY <2>1, <2>3, <2>4 DEF PaneOK
  <2> QED
    BY <2>2, <2>5 DEF PaneOK
<1> QED
  BY <1>1, <1>2 DEF LinkInv

\* A step that concerns neither the terminals nor what is on its way to the daemon.
LEMMA PanesRest ==
  ASSUME LinkInv, ClientInv', UNCHANGED <<term, useDaemon, local, exits, losses, window>>,
         \A n \in Conn : link'[n] = "down" => link[n] = "down",
         \A p \in Pane : OnScreen(p) /\ Hopeful(p) => Hopeful(p)',
         \A p \in Pane, n \in Conn : Has(toDaemon'[n], Msg("detach", p)) =>
           Has(toDaemon[n], Msg("detach", p))
  PROVE  LinkInv'
<1>1. PaneTypeOK'
  BY DEF LinkInv, PaneTypeOK
<1> QED
  BY <1>1, LinkKept

LEMMA CallOver ==
  ASSUME ClientInv, "spawn" \notin Slow, NEW k \in Call,
         \/ SendFails(k) \/ GiveUp(k) \/ Nudge(k) \/ NudgeFails(k) \/ Return(k)
         \/ /\ pc[k] = "nudge" /\ Ends(k)
            /\ UNCHANGED <<cur, link, routes, waiters, toDaemon, toApp, daemonVars>>
  PROVE  /\ ClientInv' /\ UNCHANGED <<link, toDaemon>>
         /\ UNCHANGED <<losses, exits>> => \A p \in Pane : Hopeful(p) => Hopeful(p)'
<1>0. ClientTypeOK
  BY DEF ClientInv
<1>1. ClientInv'
  BY SendFailsKeeps, GiveUpKeeps, ReturnKeeps, NudgeKeeps DEF Nudge, NudgeFails
<1>2. UNCHANGED <<cur, link, toDaemon, toApp, shell, subs, dying>>
  BY DEF SendFails, GiveUp, Nudge, NudgeFails, Return, daemonVars
<1>3. /\ pc[k] # "called" /\ via' = [via EXCEPT ![k] = 0]
      /\ \E state : state # "called" /\ pc' = [pc EXCEPT ![k] = state]
  BY DEF SendFails, GiveUp, TimesOut, Nudge, NudgeFails, Return, Ends
<1>4. \/ UNCHANGED routes /\ pc[k] # "send"
      \/ /\ via[k] \in Conn /\ link[via[k]] # "up"
         /\ \A m \in Conn : m # via[k] => routes'[m] = routes[m]
  <2>1. CASE SendFails(k)
    <3>1. via[k] \in Conn /\ link[via[k]] # "up"
      BY <2>1 DEF SendFails, ClientInv, CallOK, Active
    <3>2. routes' = routes \/ routes' = [routes EXCEPT ![via[k]] = @ \ {PaneOf(k)}]
      BY <2>1 DEF SendFails
    <3> QED
      BY <1>0, <3>1, <3>2 DEF ClientTypeOK
  <2>2. CASE GiveUp(k)
    <3>1. via[k] \in Conn /\ (link[via[k]] = "up" => KindOf(k) # "spawn")
      BY <2>2, GivesUpWhy
    <3>2. /\ pc[k] # "send"
          /\ routes' = IF KindOf(k) = "spawn"
                         THEN [routes EXCEPT ![via[k]] = @ \ {PaneOf(k)}] ELSE routes
      BY <2>2 DEF GiveUp, TimesOut
    <3> QED
      BY <1>0, <3>1, <3>2 DEF ClientTypeOK
  <2>3. CASE ~SendFails(k) /\ ~GiveUp(k)
    BY <2>3 DEF Nudge, NudgeFails, Return
  <2> QED
    BY <2>1, <2>2, <2>3
<1>5. ASSUME UNCHANGED <<losses, exits>>, NEW p \in Pane, Hopeful(p)
      PROVE  Hopeful(p)'
  BY <1>2, <1>3, <1>4, <1>5, CallOverHope
<1> QED
  BY <1>1, <1>2, <1>5

LEMMA CallRunsKeeps ==
  ASSUME LinkInv, "spawn" \notin Slow, RoomForWaiters, NEW k \in Call, CallRuns(k)
  PROVE  LinkInv'
<1>0. ClientInv
  BY DEF LinkInv
<1>1. UNCHANGED <<term, useDaemon, local, exits, losses, window>>
  BY DEF CallRuns, Returns, CallEnds, Skips, paneVars
<1>2. CASE Enter(k)
  <2>1. ClientInv' /\ UNCHANGED toDaemon
    BY <1>0, <1>2, EnterKeeps DEF Enter
  <2>2. \A n \in Conn : link'[n] = "down" => link[n] = "down"
    BY <1>0, <1>2, EnsureHope DEF Enter
  <2>3. \A p \in Pane : Hopeful(p) => Hopeful(p)'
    BY <1>0, <1>1, <1>2, EnterHope
  <2> QED
    BY <1>1, <2>1, <2>2, <2>3, PanesRest
<1>3. CASE Send(k)
  <2>1. ClientInv' /\ UNCHANGED link
    BY <1>0, <1>3, SendKeeps DEF Send
  <2>2. \A p \in Pane : Hopeful(p) => Hopeful(p)'
    BY <1>0, <1>1, <1>3, SendHope
  <2>3. \A p \in Pane, n \in Conn : Has(toDaemon'[n], Msg("detach", p)) =>
          Has(toDaemon[n], Msg("detach", p))
    <3>1. \A p \in Pane : Msg("detach", p) # Msg(KindOf(k), PaneOf(k))
      BY CallFacts, MsgsDiffer DEF Kind
    <3> QED
      BY <1>0, <1>3, <3>1, SendFacts
  <2> QED
    BY <1>1, <2>1, <2>2, <2>3, PanesRest
<1>4. CASE pc[k] = "nudge" /\ Write
  <2>1. ClientInv' /\ UNCHANGED toDaemon
    BY <1>0, <1>4, WriteKeeps DEF Write
  <2>2. \A n \in Conn : link'[n] = "down" => link[n] = "down"
    BY <1>0, <1>4, EnsureHope DEF Write
  <2>3. \A p \in Pane : Hopeful(p) => Hopeful(p)'
    BY <1>0, <1>1, <1>4, WriteHope
  <2> QED
    BY <1>1, <2>1, <2>2, <2>3, PanesRest
<1>5. CASE \/ SendFails(k) \/ GiveUp(k) \/ Nudge(k) \/ NudgeFails(k) \/ Return(k)
           \/ /\ pc[k] = "nudge" /\ Ends(k)
              /\ UNCHANGED <<cur, link, routes, waiters, toDaemon, toApp, daemonVars>>
  <2>1. /\ ClientInv' /\ UNCHANGED <<link, toDaemon>>
        /\ \A p \in Pane : Hopeful(p) => Hopeful(p)'
    BY <1>0, <1>1, <1>5, CallOver
  <2> QED
    BY <1>1, <2>1, PanesRest
<1> QED
  BY <1>2, <1>3, <1>4, <1>5 DEF CallRuns, Returns, CallEnds, Skips

\* Nothing changes on the client's side.
LEMMA StillClient ==
  ASSUME ClientInv,
         UNCHANGED <<cur, link, routes, waiters, pc, via, got, toDaemon, toApp, shell, subs, dying>>
  PROVE  ClientInv'
<1>1. OneLink'
  BY DEF ClientInv, OneLink
<1> QED
  BY <1>1, LinkMoves DEF ClientInv, ClientTypeOK

LEMMA StillHope ==
  ASSUME NEW p \in Pane, Hopeful(p), losses' = losses, p \in exits => p \in exits',
         UNCHANGED <<cur, link, routes, pc, via, toDaemon, toApp, shell, subs, dying>>
  PROVE  Hopeful(p)'
<1>1. (Called(p) => Called(p)') /\ (SpawnSent(p) => SpawnSent(p)')
  BY DEF Called, SpawnSent, Has, Msg
<1> QED
  BY <1>1, HopeKept DEF Feeds

\* A pane that opens is on screen, and has called.
LEMMA OpenKeeps ==
  ASSUME LinkInv, NEW p \in Pane, Open(p)
  PROVE  LinkInv'
<1>0. ClientInv /\ PaneTypeOK /\ LossesApart
  BY DEF LinkInv
<1>1. PICK k \in Call : k = Opening(p) /\ PaneOf(k) = p /\ KindOf(k) = "spawn"
  BY CallFacts
<1>2. /\ term[p] = "new" /\ term' = [term EXCEPT ![p] = "opening"]
      /\ pc[k] = "idle" /\ pc' = [pc EXCEPT ![k] = "called"]
      /\ UNCHANGED <<cur, link, routes, waiters, via, got, toDaemon, toApp, daemonVars,
                     useDaemon, local, exits, losses, window>>
  BY <1>1 DEF Open, Invoke
<1>3. pc' = [j \in Call |-> IF j \in {k} THEN "called" ELSE pc[j]]
  BY <1>0, <1>2 DEF ClientInv, ClientTypeOK
<1>4. ClientInv'
  BY <1>0, <1>2, <1>3, InvokeKeeps
<1>5. PaneTypeOK' /\ LossesApart'
  BY <1>0, <1>2 DEF PaneTypeOK, LossesApart, Down
<1>6. ASSUME NEW q \in Pane
      PROVE  PaneOK(q)'
  <2>1. PaneOK(q)
    BY DEF LinkInv
  <2>2. q # p => term'[q] = term[q]
    BY <1>0, <1>2 DEF PaneTypeOK
  <2>3. DetachedLast(q)'
    BY <1>0, <1>2, <2>1, <2>2 DEF PaneOK, DetachedLast, Has, Msg
  <2>4. Hopeful(q) \/ q = p => Hopeful(q)'
    <3>1. CASE q = p
      <4>1. pc'[k] = "called"
        BY <1>3
      <4>2. Called(q)'
        BY <1>1, <3>1, <4>1 DEF Called
      <4> QED
        BY <4>2, HopeSigns
    <3>2. CASE Hopeful(q)
      BY <1>2, <1>3, <3>2, InvokeHope DEF daemonVars
    <3> QED
      BY <3>1, <3>2
  <2> QED
    BY <1>2, <2>1, <2>2, <2>3, <2>4 DEF PaneOK, OnScreen
<1> QED
  BY <1>4, <1>5, <1>6 DEF LinkInv

LEMMA OpenedKeeps ==
  ASSUME LinkInv, "spawn" \notin Slow, NEW p \in Pane, Opened(p) \/ FallsBack(p)
  PROVE  LinkInv'
<1>0. ClientInv /\ PaneTypeOK
  BY DEF LinkInv
<1>1. PICK k \in Call : k = Opening(p)
  BY CallFacts
<1>2. /\ SendFails(k) \/ GiveUp(k) \/ Nudge(k) \/ NudgeFails(k)
      /\ UNCHANGED <<exits, losses, window>>
      /\ term' = [term EXCEPT ![p] = IF @ = "opening" THEN "open" ELSE @]
      /\ useDaemon' = useDaemon \/ useDaemon' = [useDaemon EXCEPT ![p] = FALSE]
      /\ local' = local \/ local' = [local EXCEPT ![p] = TRUE]
  BY <1>1 DEF Opened, FallsBack
<1>3. /\ ClientInv' /\ UNCHANGED <<link, toDaemon>>
      /\ \A q \in Pane : Hopeful(q) => Hopeful(q)'
  BY <1>0, <1>2, CallOver
<1>4. PaneTypeOK'
  BY <1>0, <1>2 DEF PaneTypeOK
<1>5. \A q \in Pane : /\ term'[q] = term[q] \/ (term[q] = "opening" /\ term'[q] = "open")
                      /\ useDaemon'[q] => useDaemon[q]
  BY <1>0, <1>2 DEF PaneTypeOK
<1> QED
  BY <1>2, <1>3, <1>4, <1>5, LinkKept

\* The calls of a reconnect, of the panes in P that are on screen.
LEMMA ReconnectsFacts ==
  ASSUME NEW P \in SUBSET Pane, Reconnects(P)
  PROVE  \E calls \in SUBSET Call :
           /\ \A k \in calls : pc[k] = "idle"
           /\ pc' = [k \in Call |-> IF k \in calls THEN "called" ELSE pc[k]]
           /\ \A p \in P : OnScreen(p) /\ useDaemon[p] =>
                \E k \in calls : PaneOf(k) = p /\ KindOf(k) = "spawn"
<1>1. PICK slot \in [Pane -> Again] :
        LET calls == {<<p, slot[p]>> : p \in {q \in P : OnScreen(q) /\ useDaemon[q]}}
        IN  /\ \A k \in calls : pc[k] = "idle"
            /\ pc' = [k \in Call |-> IF k \in calls THEN "called" ELSE pc[k]]
  BY DEF Reconnects
<1> DEFINE calls == {<<p, slot[p]>> : p \in {q \in P : OnScreen(q) /\ useDaemon[q]}}
<1>2. calls \in SUBSET Call
  BY CallFacts
<1>3. \A p \in P : OnScreen(p) /\ useDaemon[p] =>
        \E k \in calls : PaneOf(k) = p /\ KindOf(k) = "spawn"
  <2> SUFFICES ASSUME NEW p \in P, OnScreen(p), useDaemon[p]
               PROVE  \E k \in calls : PaneOf(k) = p /\ KindOf(k) = "spawn"
    OBVIOUS
  <2>1. <<p, slot[p]>> \in calls
    OBVIOUS
  <2>2. PaneOf(<<p, slot[p]>>) = p /\ KindOf(<<p, slot[p]>>) = "spawn"
    BY CallFacts
  <2> QED
    BY <2>1, <2>2
<1> QED
  BY <1>1, <1>2, <1>3

LEMMA CommandsKeep ==
  ASSUME LinkInv, NEW p \in Pane, Commands(p)
  PROVE  LinkInv'
<1>0. ClientInv
  BY DEF LinkInv
<1>1. UNCHANGED <<cur, link, routes, waiters, via, got, toDaemon, toApp, daemonVars,
                  term, useDaemon, local, exits, losses, window>>
  BY DEF Commands, paneVars
<1>2. PICK calls \in SUBSET Call :
        /\ \A k \in calls : pc[k] = "idle"
        /\ pc' = [k \in Call |-> IF k \in calls THEN "called" ELSE pc[k]]
  <2>1. CASE Reconnect(p)
    BY <2>1, ReconnectsFacts DEF Reconnect
  <2>2. CASE Probe(p)
    <3>1. PICK a \in Ask : Invoke(<<p, a>>)
      BY <2>2 DEF Probe
    <3>2. PICK k \in Call : k = <<p, a>>
      BY CallFacts
    <3>3. pc[k] = "idle" /\ pc' = [pc EXCEPT ![k] = "called"]
      BY <3>1, <3>2 DEF Invoke
    <3>4. pc' = [j \in Call |-> IF j \in {k} THEN "called" ELSE pc[j]]
      BY <1>0, <3>3 DEF ClientInv, ClientTypeOK
    <3> QED
      BY <3>3, <3>4
  <2> QED
    BY <2>1, <2>2 DEF Commands
<1>3. ClientInv'
  BY <1>0, <1>1, <1>2, InvokeKeeps
<1>4. ASSUME NEW q \in Pane, Hopeful(q)
      PROVE  Hopeful(q)'
  BY <1>1, <1>2, <1>4, InvokeHope DEF daemonVars
<1> QED
  BY <1>1, <1>3, <1>4, PanesRest

\* Dispose, by a close or an exit.
LEMMA DisposeKeeps ==
  ASSUME LinkInv, NEW p \in Pane, Dispose(p), exits' \subseteq exits,
         \A q \in Pane \ {p} : q \in exits => q \in exits'
  PROVE  LinkInv'
<1>0. ClientInv /\ PaneTypeOK
  BY DEF LinkInv
<1>1. /\ term' = [term EXCEPT ![p] = "disposed"]
      /\ UNCHANGED <<useDaemon, losses, window>>
      /\ local' = local \/ local' = [local EXCEPT ![p] = FALSE]
  BY DEF Dispose
<1>2. PaneTypeOK'
  BY <1>0, <1>1 DEF PaneTypeOK
<1>3. /\ term'[p] = "disposed" /\ \A q \in Pane \ {p} : term'[q] = term[q]
  BY <1>0, <1>1 DEF PaneTypeOK
<1>4. CASE useDaemon[p]
  <2>1. PICK kind \in {"detach", "kill"} : Tell(p, kind)
    BY <1>4 DEF Dispose
  <2>2. ClientInv'
    BY <1>0, <2>1, TellKeeps
  <2>3. ASSUME NEW q \in Pane, Hopeful(q)
        PROVE  Hopeful(q)' \/ term'[q] = "disposed"
    BY <1>0, <1>1, <1>3, <2>1, <2>3, TellHope
  <2>4. /\ \A n \in Conn : link'[n] = "down" => link[n] = "down"
        /\ \A n \in Conn : \A y : Has(toDaemon'[n], y) => Has(toDaemon[n], y) \/ y = Msg(kind, p)
    BY <1>0, <2>1, TellFacts
  <2>5. \A q \in Pane, n \in Conn : Has(toDaemon'[n], Msg("detach", q)) =>
          Has(toDaemon[n], Msg("detach", q)) \/ term'[q] = "disposed"
    BY <1>3, <2>4, MsgsDiffer
  <2>6. \A q \in Pane : (term'[q] = term[q] \/ term'[q] = "disposed") /\ useDaemon'[q] = useDaemon[q]
    BY <1>1, <1>3
  <2> QED
    BY <1>1, <1>2, <2>2, <2>3, <2>4, <2>5, <2>6, LinkKept
<1>5. CASE ~useDaemon[p]
  <2>1. UNCHANGED <<cur, link, routes, waiters, pc, via, got, toDaemon, toApp, shell, subs, dying>>
    BY <1>5 DEF Dispose, clientVars, callVars, daemonVars
  <2>2. ClientInv'
    BY <1>0, <2>1, StillClient
  <2>3. ASSUME NEW q \in Pane, Hopeful(q)
        PROVE  Hopeful(q)' \/ term'[q] = "disposed"
    BY <1>1, <1>3, <2>1, <2>3, StillHope
  <2>6. \A q \in Pane : (term'[q] = term[q] \/ term'[q] = "disposed") /\ useDaemon'[q] = useDaemon[q]
    BY <1>1, <1>3
  <2> QED
    BY <1>1, <1>2, <2>1, <2>2, <2>3, <2>6, LinkKept
<1> QED
  BY <1>4, <1>5

\* Close, KillSession, Exited and LocalEnds.
LEMMA LeavesKeep ==
  ASSUME LinkInv, NEW p \in Pane, Close(p) \/ KillSession(p) \/ Exited(p) \/ LocalEnds(p)
  PROVE  LinkInv'
<1>0. ClientInv /\ PaneTypeOK
  BY DEF LinkInv
<1>1. CASE Close(p)
  BY <1>1, DisposeKeeps DEF Close
<1>2. CASE Exited(p) /\ Dispose(p)
  BY <1>2, DisposeKeeps DEF Exited
<1>3. ASSUME UNCHANGED <<cur, link, routes, waiters, pc, via, got, toDaemon, toApp,
                         shell, subs, dying, term, useDaemon, losses, window>>,
             PaneTypeOK', \A q \in Pane : q \in exits /\ q # p => q \in exits',
             OnScreen(p) => exits \subseteq exits'
      PROVE  LinkInv'
  <2>1. ClientInv'
    BY <1>0, <1>3, StillClient
  <2>2. ASSUME NEW q \in Pane, OnScreen(q), Hopeful(q)
        PROVE  Hopeful(q)'
    BY <1>3, <2>2, StillHope
  <2> QED
    BY <1>3, <2>1, <2>2, LinkKept
<1>4. CASE Exited(p) /\ ~Dispose(p)
  <2>1. /\ exits' = exits \ {p} /\ ~OnScreen(p)
        /\ UNCHANGED <<cur, link, routes, waiters, pc, via, got, toDaemon, toApp,
                       shell, subs, dying, term, useDaemon, local, losses, window>>
    BY <1>4 DEF Exited, clientVars, callVars, daemonVars
  <2>2. PaneTypeOK'
    BY <1>0, <2>1 DEF PaneTypeOK
  <2> QED
    BY <1>3, <2>1, <2>2
<1>5. CASE KillLocal(p) /\ UNCHANGED <<term, useDaemon, losses, window>>
  <2>1. /\ exits' = exits \cup {p} /\ local' = [local EXCEPT ![p] = FALSE]
        /\ UNCHANGED <<cur, link, routes, waiters, pc, via, got, toDaemon, toApp,
                       shell, subs, dying>>
    BY <1>5 DEF KillLocal, clientVars, callVars, daemonVars
  <2>2. PaneTypeOK'
    BY <1>0, <1>5, <2>1 DEF PaneTypeOK
  <2> QED
    BY <1>3, <1>5, <2>1, <2>2
<1>6. CASE /\ Tell(p, "kill")
           /\ UNCHANGED <<local, exits, term, useDaemon, losses, window>>
  <2>1. ClientInv'
    BY <1>0, <1>6, TellKeeps
  <2>2. ASSUME NEW q \in Pane, Hopeful(q)
        PROVE  Hopeful(q)'
    BY <1>0, <1>6, <2>2, TellHope
  <2>3. /\ \A n \in Conn : link'[n] = "down" => link[n] = "down"
        /\ \A n \in Conn : \A y : Has(toDaemon'[n], y) => Has(toDaemon[n], y) \/ y = Msg("kill", p)
    BY <1>0, <1>6, TellFacts
  <2>4. \A q \in Pane, n \in Conn : Has(toDaemon'[n], Msg("detach", q)) =>
          Has(toDaemon[n], Msg("detach", q))
    BY <2>3, MsgsDiffer
  <2> QED
    BY <1>6, <2>1, <2>2, <2>3, <2>4, PanesRest
<1> QED
  BY <1>1, <1>2, <1>4, <1>5, <1>6 DEF KillSession, LocalEnds

LEMMA KeyStrokeKeeps ==
  ASSUME LinkInv, NEW p \in Pane, KeyStroke(p)
  PROVE  LinkInv'
<1>1. ClientInv /\ Write /\ UNCHANGED <<term, useDaemon, local, exits, losses, window>>
  BY DEF LinkInv, KeyStroke, paneVars
<1>2. ClientInv' /\ UNCHANGED toDaemon
  BY <1>1, WriteKeeps DEF Write
<1>3. \A n \in Conn : link'[n] = "down" => link[n] = "down"
  BY <1>1, EnsureHope DEF Write
<1>4. \A q \in Pane : Hopeful(q) => Hopeful(q)'
  BY <1>1, WriteHope
<1> QED
  BY <1>1, <1>2, <1>3, <1>4, PanesRest

\* The daemon's handlers and the threads of its sessions.
LEMMA DaemonKeeps ==
  ASSUME LinkInv,
         \/ \E p \in Pane : Shells(p)
         \/ \E n \in Conn : Daemon(n)
  PROVE  LinkInv'
<1>0. ClientInv
  BY DEF LinkInv
<1>1. UNCHANGED <<term, useDaemon, local, exits, losses, window>>
  BY DEF Shells, Daemon, paneVars
<1>2. ASSUME NEW p \in Pane, Shells(p)
      PROVE  LinkInv'
  <2>1. DyingEnds(p) \/ ShellEnds(p) \/ Reap(p)
    BY <1>2 DEF Shells
  <2>2. ClientInv' /\ UNCHANGED <<link, toDaemon>>
    BY <1>0, <2>1, ShellsKeep DEF DyingEnds, ShellEnds, Reap
  <2>3. \A q \in Pane : Hopeful(q) => Hopeful(q)'
    BY <1>0, <1>1, <2>1, ShellsHope
  <2> QED
    BY <1>1, <2>2, <2>3, PanesRest
<1>3. ASSUME NEW n \in Conn, Daemon(n)
      PROVE  LinkInv'
  <2>1. Serve(n) /\ UNCHANGED link
    BY <1>3 DEF Daemon, Serve
  <2>2. ClientInv'
    BY <1>0, <2>1, ServeKeeps
  <2>3. \A m \in Conn : \A y : Has(toDaemon'[m], y) => Has(toDaemon[m], y)
    BY <1>0, <2>1, ServeTakes
  <2>4. ASSUME NEW q \in Pane, OnScreen(q), Hopeful(q)
        PROVE  Hopeful(q)'
    <3>1. DetachedLast(q)
      BY DEF LinkInv, PaneOK
    <3> QED
      BY <1>0, <1>1, <2>1, <2>4, <3>1, ServeHope
  <2> QED
    BY <1>1, <2>1, <2>2, <2>3, <2>4, PanesRest
<1> QED
  BY <1>2, <1>3

LEMMA ArrivesKeeps ==
  ASSUME LinkInv, NEW n \in Conn, Arrives(n)
  PROVE  LinkInv'
<1>0. ClientInv /\ PaneTypeOK
  BY DEF LinkInv
<1>1. PICK p \in Pane, kind \in {"spawn", "probe", "exit"} : Head(toApp[n]) = Msg(kind, p)
  BY <1>0, ReadsFacts DEF Arrives
<1>2. ExitRead(n) \subseteq {p}
  BY <1>1 DEF ExitRead, Msg
<1>3. /\ Reads(n) /\ exits' = exits \cup ExitRead(n)
      /\ UNCHANGED <<link, toDaemon, term, useDaemon, local, losses, window>>
  BY DEF Arrives, Reads
<1>4. PaneTypeOK'
  BY <1>0, <1>2, <1>3 DEF PaneTypeOK
<1>5. ClientInv'
  BY <1>0, <1>3, ReadsKeeps
<1>6. \A q \in Pane : Hopeful(q) => Hopeful(q)'
  BY <1>0, ArrivesHope
<1> QED
  BY <1>3, <1>4, <1>5, <1>6, LinkKept

(***************************************************************************)
(* The losses.                                                             *)
(***************************************************************************)
LEMMA LossKeeps ==
  ASSUME LinkInv, LossesFarApart,
         (\E n \in Conn : Lost(n)) \/ ConnectionLost \/ WindowPasses \/ DaemonLost
  PROVE  LinkInv'
<1>0. ClientInv /\ PaneTypeOK /\ LossesApart
  BY DEF LinkInv
<1>1. UNCHANGED <<term, useDaemon, local, exits>>
  BY DEF Lost, ConnectionLost, WindowPasses, DaemonLost, paneVars
<1>2. ASSUME ClientInv', losses' \in Nat, window' \in BOOLEAN, LossesApart',
             \A n \in Conn : toDaemon'[n] = toDaemon[n] \/ toDaemon'[n] = <<>>,
             \A p \in Pane : Hopeful(p) /\ p \notin Pinned /\ OnScreen(p) /\ useDaemon[p]
               => Hopeful(p)'
      PROVE  LinkInv'
  <2>1. PaneTypeOK'
    BY <1>0, <1>1, <1>2 DEF PaneTypeOK
  <2>2. ASSUME NEW p \in Pane
        PROVE  PaneOK(p)'
    <3>1. PaneOK(p)
      BY DEF LinkInv
    <3>2. \A m : ~Has(<<>>, m)
      BY DEF Has
    <3>3. \A n \in Conn : Has(toDaemon'[n], Msg("detach", p)) => term[p] = "disposed"
      BY <1>2, <3>1, <3>2 DEF PaneOK, DetachedLast
    <3>4. DetachedLast(p)'
      BY <1>1, <3>3 DEF DetachedLast, Has, Msg
    <3> QED
      BY <1>1, <1>2, <3>1, <3>4 DEF PaneOK, OnScreen
  <2> QED
    BY <1>2, <2>1, <2>2 DEF LinkInv
<1>3. ASSUME NEW n \in Conn, Lost(n)
      PROVE  LinkInv'
  <2>0. losses \in Nat /\ window \in BOOLEAN
    BY <1>0 DEF PaneTypeOK
  <2>1. ClientInv' /\ UNCHANGED <<toDaemon, window>>
    BY <1>0, <1>3, ReaderEndsKeeps DEF Lost, ReaderEnds
  <2>2. Down
    BY <1>3 DEF Lost, ReaderEnds, Down
  <2>3. cur = n /\ \A m \in Conn : link'[m] # "down"
    BY <1>0, <1>3, <2>0, LostFacts
  <2>4. losses = 0 /\ ~window
    BY <1>0, <2>0, <2>2 DEF LossesApart
  <2>5. losses' = 1
    BY <1>3, <2>3, <2>4 DEF Lost
  <2>6. LossesApart'
    BY <2>1, <2>3, <2>4, <2>5 DEF LossesApart, Down
  <2>7. \A p \in Pane : Hopeful(p)'
    BY <2>5, HopeSigns
  <2> QED
    BY <1>2, <2>0, <2>1, <2>5, <2>6, <2>7
<1>4. CASE ConnectionLost
  <2>1. losses = 1 /\ ~Down /\ ~window
    BY <1>0, <1>4 DEF ConnectionLost, LossesApart, PaneTypeOK
  <2>2. /\ losses' = 0 /\ window' = TRUE /\ Reconnects(Pane \ Pinned)
        /\ UNCHANGED <<cur, link, routes, waiters, via, got, toDaemon, toApp, daemonVars>>
    BY <1>4, <2>1 DEF ConnectionLost
  <2>3. PICK calls \in SUBSET Call :
          /\ \A k \in calls : pc[k] = "idle"
          /\ pc' = [k \in Call |-> IF k \in calls THEN "called" ELSE pc[k]]
          /\ \A p \in Pane \ Pinned : OnScreen(p) /\ useDaemon[p] =>
               \E k \in calls : PaneOf(k) = p /\ KindOf(k) = "spawn"
    BY <2>2, ReconnectsFacts
  <2>4. ClientInv'
    BY <1>0, <2>2, <2>3, InvokeKeeps
  <2>5. LossesApart'
    BY <2>1, <2>2 DEF LossesApart, Down
  <2>6. ASSUME NEW p \in Pane, Hopeful(p), p \notin Pinned, OnScreen(p), useDaemon[p]
        PROVE  Hopeful(p)'
    <3>1. \E k \in calls : PaneOf(k) = p /\ KindOf(k) = "spawn"
      BY <2>3, <2>6
    <3> QED
      BY <1>1, <2>2, <2>3, <2>6, <3>1, InvokeHope DEF daemonVars
  <2> QED
    BY <1>2, <2>2, <2>4, <2>5, <2>6
<1>5. CASE WindowPasses
  <2>1. /\ window' = FALSE
        /\ UNCHANGED <<cur, link, routes, waiters, pc, via, got, toDaemon, toApp,
                       shell, subs, dying, losses>>
    BY <1>5 DEF WindowPasses, clientVars, callVars, daemonVars
  <2>2. ClientInv'
    BY <1>0, <2>1, StillClient
  <2>3. LossesApart' /\ losses' \in Nat
    BY <1>0, <2>1 DEF LossesApart, Down, PaneTypeOK
  <2>4. ASSUME NEW p \in Pane, Hopeful(p)
        PROVE  Hopeful(p)'
    BY <1>1, <2>1, <2>4, StillHope
  <2> QED
    BY <1>2, <2>1, <2>2, <2>3, <2>4
<1>6. CASE DaemonLost
  <2>1. /\ DaemonDies /\ losses = 0 /\ ~window /\ UNCHANGED <<losses, window>>
        /\ \A n \in Conn : toDaemon'[n] = <<>>
    BY <1>6 DEF DaemonLost, DaemonDies, paneVars
  <2>2. ClientInv'
    BY <1>0, <2>1, DaemonDiesKeeps
  <2>3. LossesApart' /\ losses' \in Nat /\ window' \in BOOLEAN
    BY <1>0, <2>1 DEF LossesApart, Down, PaneTypeOK
  <2>4. \A p \in Pane : Hopeful(p)'
    BY <1>0, <2>1, DaemonDiesHope
  <2> QED
    BY <1>2, <2>1, <2>2, <2>3, <2>4
<1> QED
  BY <1>3, <1>4, <1>5, <1>6

(***************************************************************************)
(* The theorems.                                                           *)
(***************************************************************************)
LEMMA LinkInitially ==
  Init => LinkInv
<1> SUFFICES ASSUME Init
             PROVE  LinkInv
  OBVIOUS
<1>1. /\ cur = 0 /\ link = [n \in Conn |-> "unused"] /\ routes = [n \in Conn |-> {}]
      /\ waiters = [n \in Conn |-> [q \in Pane \X Kind |-> <<>>]]
      /\ pc = [k \in Call |-> "idle"] /\ via = [k \in Call |-> 0]
      /\ got = [k \in Call |-> FALSE]
      /\ toDaemon = [n \in Conn |-> <<>>] /\ toApp = [n \in Conn |-> <<>>]
      /\ shell = [p \in Pane |-> "none"] /\ subs = [p \in Pane |-> {}]
      /\ dying = [p \in Pane |-> {}]
  BY DEF Init, ClientInit
<1>2. ClientTypeOK
  BY <1>1 DEF ClientTypeOK
<1>3. OneLink
  BY <1>1 DEF OneLink
<1>4. \A n \in Conn : Fresh(n)
  BY <1>1, CallFacts DEF Fresh
<1>5. \A k \in Call : CallOK(k)
  BY <1>1 DEF CallOK, Active
<1>6. ASSUME NEW n \in Conn, NEW p \in Pane, NEW kind \in Kind
      PROVE  QueueOK(n, p, kind)
  <2>1. waiters[n][<<p, kind>>] = <<>>
    BY <1>1
  <2>2. link[n] # "up"
    BY <1>1
  <2> QED
    BY <2>1, <2>2 DEF QueueOK, QueueSound, QueueComplete
<1>7. PaneTypeOK /\ LossesApart
  <2>1. PaneTypeOK /\ losses = 0 /\ window = FALSE
    BY DEF Init, PaneTypeOK
  <2>2. ~Down
    BY <1>1 DEF Down
  <2> QED
    BY <2>1, <2>2 DEF LossesApart
<1>8. \A p \in Pane : PaneOK(p)
  BY <1>1 DEF Init, PaneOK, DetachedLast, Has, OnScreen
<1> QED
  BY <1>2, <1>3, <1>4, <1>5, <1>6, <1>7, <1>8 DEF LinkInv, ClientInv

\* What keeps a pane attached, or gets it back, is always in sight.
THEOREM LinkIsKept ==
  LossesFarApart /\ "spawn" \notin Slow /\ RoomForWaiters => (Spec => []LinkInv)
<1> SUFFICES ASSUME LossesFarApart, "spawn" \notin Slow, RoomForWaiters
             PROVE  Spec => []LinkInv
  OBVIOUS
<1>1. ASSUME LinkInv, [Next]_vars
      PROVE  LinkInv'
  <2>1. CASE UNCHANGED vars
    <3>1. UNCHANGED <<cur, link, routes, waiters, pc, via, got, toDaemon, toApp,
                      shell, subs, dying, term, useDaemon, local, exits, losses, window>>
      BY <2>1 DEF vars, clientVars, callVars, daemonVars, paneVars
    <3>2. ClientInv'
      BY <1>1, <3>1, StillClient DEF LinkInv
    <3>3. \A p \in Pane : Hopeful(p) => Hopeful(p)'
      BY <3>1, StillHope
    <3> QED
      BY <1>1, <3>1, <3>2, <3>3, PanesRest
  <2>2. ASSUME NEW p \in Pane,
               \/ Open(p) \/ Opened(p) \/ FallsBack(p) \/ Commands(p)
               \/ Close(p) \/ KillSession(p) \/ Exited(p) \/ LocalEnds(p)
               \/ KeyStroke(p) \/ Shells(p)
        PROVE  LinkInv'
    <3>1. CASE Open(p)
      BY <1>1, <3>1, OpenKeeps
    <3>2. CASE Opened(p) \/ FallsBack(p)
      BY <1>1, <3>2, OpenedKeeps
    <3>3. CASE Commands(p)
      BY <1>1, <3>3, CommandsKeep
    <3>4. CASE Close(p) \/ KillSession(p) \/ Exited(p) \/ LocalEnds(p)
      BY <1>1, <3>4, LeavesKeep
    <3>5. CASE KeyStroke(p)
      BY <1>1, <3>5, KeyStrokeKeeps
    <3>6. CASE Shells(p)
      BY <1>1, <3>6, DaemonKeeps
    <3> QED
      BY <2>2, <3>1, <3>2, <3>3, <3>4, <3>5, <3>6
  <2>3. ASSUME NEW k \in Call, CallRuns(k)
        PROVE  LinkInv'
    BY <1>1, <2>3, CallRunsKeeps
  <2>4. ASSUME NEW n \in Conn, Daemon(n) \/ Arrives(n)
        PROVE  LinkInv'
    <3>1. CASE Daemon(n)
      BY <1>1, <3>1, DaemonKeeps
    <3>2. CASE Arrives(n)
      BY <1>1, <3>2, ArrivesKeeps
    <3> QED
      BY <2>4, <3>1, <3>2
  <2>5. CASE (\E n \in Conn : Lost(n)) \/ ConnectionLost \/ WindowPasses \/ DaemonLost
    BY <1>1, <2>5, LossKeeps
  <2> QED
    BY <1>1, <2>1, <2>2, <2>3, <2>4, <2>5 DEF Next
<1> QED
  BY <1>1, LinkInitially, PTL DEF Spec

\* At rest there is nothing left to hope for: the pane is attached.
LEMMA RestMeansFed ==
  ASSUME LinkInv, NEW p \in Pane \ Pinned
  PROVE  RestsAttached(p)
<1> SUFFICES ASSUME term[p] = "open", useDaemon[p], AtRest(p)
             PROVE  Attached(p)
  BY DEF RestsAttached
<1>1. Hopeful(p)
  BY DEF LinkInv, PaneOK, OnScreen
<1>2. /\ \A k \in Call : PaneOf(k) = p => pc[k] = "idle"
      /\ \A n \in Conn : \A m \in ToSet(toDaemon[n]) \cup ToSet(toApp[n]) : m.pane # p
      /\ \A n \in Conn : link[n] # "down"
      /\ losses = 0 /\ p \notin exits /\ dying[p] = {}
  BY DEF AtRest
<1>3. \A n \in Conn : \A kind : /\ ~Has(toDaemon[n], Msg(kind, p))
                                /\ ~Has(toApp[n], Msg(kind, p))
  <2>1. \A kind : Msg(kind, p).pane = p
    BY DEF Msg
  <2>2. \A q, m : Has(q, m) => m \in ToSet(q)
    BY DEF Has, ToSet
  <2> QED
    BY <1>2, <2>1, <2>2
<1>4. cur \in {0} \cup Conn /\ (cur # 0 => link[cur] \in {"up", "down"})
  BY DEF LinkInv, ClientInv, ClientTypeOK, OneLink
<1>5. ~(losses > 0) /\ ~Down /\ ~Called(p) /\ ~Doomed(p)
  BY <1>2, <1>3, <1>4 DEF Down, Called, Doomed
<1>6. cur # 0 /\ Feeds(p) /\ ~SpawnSent(p)
  BY <1>1, <1>2, <1>3, <1>4, <1>5 DEF Hopeful, SpawnSent
<1> QED
  BY <1>2, <1>4, <1>6 DEF Attached, Fed, Feeds

\* Every daemon pane at rest that is not pinned is attached to its session, whatever
\* the user, the shells, the daemon and the threads of the app do, as long as losses
\* of the daemon are handled one by one and no spawn outlasts its timeout on a live link.
THEOREM RestingIsAttached ==
  LossesFarApart /\ "spawn" \notin Slow /\ RoomForWaiters
    => (Spec => [](\A p \in Pane \ Pinned : RestsAttached(p)))
<1>1. LinkInv => \A p \in Pane \ Pinned : RestsAttached(p)
  BY RestMeansFed
<1> QED
  BY <1>1, LinkIsKept, PTL

\* RestingPaneIsAttached, for a project without pinned terminals (which are not reconnected).
THEOREM RestingPanesAreAttached ==
  LossesFarApart /\ "spawn" \notin Slow /\ RoomForWaiters /\ Pinned = {}
    => (Spec => []RestingPaneIsAttached)
<1> SUFFICES ASSUME LossesFarApart, "spawn" \notin Slow, RoomForWaiters, Pinned = {}
             PROVE  Spec => []RestingPaneIsAttached
  OBVIOUS
<1>1. LinkInv => RestingPaneIsAttached
  BY RestMeansFed DEF RestingPaneIsAttached
<1> QED
  BY <1>1, LinkIsKept, PTL

(***************************************************************************)
(* Replies and waiters.                                                    *)
(***************************************************************************)
LEMMA CountAppended ==
  ASSUME NEW S, NEW q \in Seq(S), NEW x \in S, NEW m
  PROVE  /\ Count(q, m) \in Nat
         /\ Count(Append(q, x), m) = Count(q, m) + IF x = m THEN 1 ELSE 0
<1>1. PICK y \in Nat : y = Len(q)
  OBVIOUS
<1>2. /\ DOMAIN Append(q, x) = 1..(y + 1) /\ DOMAIN q = 1..y
      /\ Append(q, x)[y + 1] = x /\ \A i \in 1..y : Append(q, x)[i] = q[i]
  BY <1>1
<1> DEFINE D == {i \in 1..y : q[i] = m}
           E == {i \in 1..(y + 1) : Append(q, x)[i] = m}
<1>3. Count(q, m) = Cardinality(D) /\ Count(Append(q, x), m) = Cardinality(E)
  BY <1>2 DEF Count
<1>4. IsFiniteSet(1..y)
  BY FS_Interval
<1>5. IsFiniteSet(D) /\ Cardinality(D) \in Nat
  BY <1>4, FS_Subset, FS_CardinalityType
<1>6. \A i \in 1..(y + 1) : i \in 1..y \/ i = y + 1
  OBVIOUS
<1>7. y + 1 \notin 1..y /\ y + 1 \in 1..(y + 1) /\ \A i \in 1..y : i \in 1..(y + 1)
  OBVIOUS
<1>8. E = IF x = m THEN D \cup {y + 1} ELSE D
  BY <1>2, <1>6, <1>7
<1>9. y + 1 \notin D
  BY <1>7
<1> HIDE DEF D, E
<1>10. Cardinality(D \cup {y + 1}) = Cardinality(D) + 1
  BY <1>5, <1>9, FS_AddElement
<1> QED
  BY <1>3, <1>5, <1>8, <1>10

LEMMA CountFirst ==
  ASSUME NEW S, NEW q \in Seq(S), q # <<>>, NEW m
  PROVE  /\ Count(Tail(q), m) \in Nat
         /\ Count(q, m) = Count(Tail(q), m) + IF Head(q) = m THEN 1 ELSE 0
<1>1. PICK y \in Nat : Len(q) = y + 1 /\ Len(Tail(q)) = y
  BY TailFacts
<1>2. /\ Tail(q) \in Seq(S) /\ Head(q) = q[1] /\ DOMAIN q = 1..(y + 1)
      /\ \A i \in 1..y : Tail(q)[i] = q[i + 1]
  BY <1>1, TailFacts
<1>3. DOMAIN Tail(q) = 1..y
  BY <1>1, <1>2
<1> DEFINE D == {i \in 1..y : Tail(q)[i] = m}
           E == {i \in 1..(y + 1) : q[i] = m}
           f == [i \in D |-> i + 1]
<1>4. Count(Tail(q), m) = Cardinality(D) /\ Count(q, m) = Cardinality(E)
  BY <1>2, <1>3 DEF Count
<1>5. /\ IsFiniteSet(D) /\ Cardinality(D) \in Nat
      /\ IsFiniteSet(E) /\ Cardinality(E) \in Nat
  <2>1. IsFiniteSet(1..y) /\ IsFiniteSet(1..(y + 1))
    BY FS_Interval
  <2> QED
    BY <2>1, FS_Subset, FS_CardinalityType
<1>6. /\ \A i \in 1..(y + 1) : i # 1 => i - 1 \in 1..y /\ (i - 1) + 1 = i
      /\ \A i \in 1..y : i + 1 \in 1..(y + 1) /\ i + 1 # 1
      /\ \A i, j \in 1..y : i + 1 = j + 1 => i = j
      /\ 1 \in 1..(y + 1)
  BY <1>1
<1>7. f \in [D -> E \ {1}]
  BY <1>2, <1>6
<1>8. \A i, j \in D : f[i] = f[j] => i = j
  BY <1>6
<1>9. \A j \in E \ {1} : \E i \in D : f[i] = j
  <2> SUFFICES ASSUME NEW j \in E \ {1}
               PROVE  \E i \in D : f[i] = j
    OBVIOUS
  <2>1. j \in 1..(y + 1) /\ j # 1 /\ q[j] = m
    OBVIOUS
  <2>2. j - 1 \in 1..y /\ (j - 1) + 1 = j
    BY <1>6, <2>1
  <2>3. j - 1 \in D
    BY <1>2, <2>1, <2>2
  <2> QED
    BY <2>2, <2>3
<1>10. 1 \in E <=> Head(q) = m
  BY <1>2, <1>6
<1> HIDE DEF D, E, f
<1>11. ExistsBijection(D, E \ {1})
  BY <1>7, <1>8, <1>9 DEF ExistsBijection, Bijection, Injection, Surjection, IsInjective
<1>12. Cardinality(E \ {1}) = Cardinality(D)
  BY <1>5, <1>11, FS_Bijection
<1>13. Cardinality(E \ {1}) = IF 1 \in E THEN Cardinality(E) - 1 ELSE Cardinality(E)
  BY <1>5, FS_RemoveElement
<1> QED
  BY <1>4, <1>5, <1>10, <1>12, <1>13

LEMMA CountAnswers ==
  ASSUME NEW q \in Seq(Answer), NEW p \in Pane, NEW ended \in BOOLEAN, NEW m,
         m # Msg("exit", p)
  PROVE  Count(Answers(q, p, ended), m) = Count(q, m) + IF Msg("spawn", p) = m THEN 1 ELSE 0
<1>1. PICK x \in Answer, e \in Answer : x = Msg("spawn", p) /\ e = Msg("exit", p)
  BY MsgFacts
<1>2. PICK s \in Seq(Answer) : s = IF ended THEN Append(q, e) ELSE q
  <2>1. Append(q, e) \in Seq(Answer)
    OBVIOUS
  <2>2. CASE ended
    BY ONLY <2>1, <2>2
  <2>3. CASE ~ended
    BY ONLY <2>3, q \in Seq(Answer)
  <2> QED
    BY <2>2, <2>3
<1>3. q \o (IF ended THEN <<e>> ELSE <<>>) = s
  <2>1. q \o <<e>> = Append(q, e) /\ q \o <<>> = q
    BY AppendIsConcat, ConcatEmptySeq
  <2> QED
    BY <1>2, <2>1
<1>4. Answers(q, p, ended) = s \o <<x>>
  BY <1>1, <1>3 DEF Answers
<1>5. s \o <<x>> = Append(s, x)
  BY AppendIsConcat
<1>6. Count(q, m) \in Nat /\ Count(Append(q, e), m) = Count(q, m)
  BY <1>1, CountAppended
<1>7. Count(s, m) = Count(q, m)
  BY <1>2, <1>6
<1>8. Count(Append(s, x), m) = Count(s, m) + IF x = m THEN 1 ELSE 0
  BY CountAppended
<1> QED
  BY <1>1, <1>4, <1>5, <1>7, <1>8

\* The calls of an id are few.
LEMMA SendingFinite ==
  ASSUME RoomForWaiters, NEW n, NEW p \in Pane, NEW kind \in Kind
  PROVE  /\ IsFiniteSet(Sending(n, p, kind))
         /\ Cardinality(Sending(n, p, kind)) \in Nat
<1> DEFINE slots == {"open"} \cup Again \cup Ask
<1>1. IsFiniteSet(slots)
  <2>1. IsFiniteSet({"open"})
    BY FS_Singleton
  <2>2. IsFiniteSet({"open"} \cup Again)
    BY <2>1, FS_Union DEF RoomForWaiters
  <2> QED
    BY <2>2, FS_Union DEF RoomForWaiters
<1>2. IsFiniteSet({p} \X slots)
  BY <1>1, FS_Singleton, FS_Product
<1>3. Sending(n, p, kind) \subseteq {p} \X slots
  BY DEF Sending, Call, PaneOf
<1> QED
  BY <1>2, <1>3, FS_Subset, FS_CardinalityType

\* The account of an id on a connection.
Queued(n, p, kind) == Len(waiters[n][<<p, kind>>])
Asked(n, p, kind)  == Count(toDaemon[n], Msg(kind, p))
Told(n, p, kind)   == Count(toApp[n], Msg(kind, p))
Unsent(n, p, kind) == Cardinality(Sending(n, p, kind))

Even(n, p, kind) ==
  /\ Queued(n, p, kind) \in Nat /\ Asked(n, p, kind) \in Nat
  /\ Told(n, p, kind) \in Nat /\ Unsent(n, p, kind) \in Nat
  /\ Queued(n, p, kind) = Asked(n, p, kind) + Told(n, p, kind) + Unsent(n, p, kind)

LEMMA AccountsAre ==
  ASSUME ClientInv, RoomForWaiters, NEW n \in Conn, NEW p \in Pane, NEW kind \in Kind
  PROVE  /\ Queued(n, p, kind) \in Nat /\ Asked(n, p, kind) \in Nat
         /\ Told(n, p, kind) \in Nat /\ Unsent(n, p, kind) \in Nat
<1>1. /\ toDaemon[n] \in Seq(Request) /\ toApp[n] \in Seq(Answer)
      /\ waiters[n][<<p, kind>>] \in Seq(Slot)
  BY DEF ClientInv, ClientTypeOK, Slot
<1>2. PICK s \in Seq(Request), t \in Seq(Answer), x \in Request, y \in Answer :
        s = toDaemon[n] /\ t = toApp[n] /\ x = Msg("spawn", p) /\ y = Msg("spawn", p)
  BY <1>1, MsgFacts
<1>3. Count(s, Msg(kind, p)) \in Nat /\ Count(t, Msg(kind, p)) \in Nat
  BY CountAppended
<1> QED
  BY <1>1, <1>2, <1>3, SendingFinite DEF Queued, Asked, Told, Unsent

LEMMA FreshIsEven ==
  ASSUME NEW n \in Conn, NEW p \in Pane, NEW kind \in Kind, Fresh(n)
  PROVE  Even(n, p, kind)
<1>1. toDaemon[n] = <<>> /\ toApp[n] = <<>> /\ waiters[n][<<p, kind>>] = <<>>
  BY DEF Fresh
<1>2. Sending(n, p, kind) = {}
  BY DEF Fresh, Sending
<1>3. \A m : Count(<<>>, m) = 0
  BY FS_EmptySet DEF Count
<1> QED
  BY <1>1, <1>2, <1>3, FS_EmptySet DEF Even, Queued, Asked, Told, Unsent

\* What keeps every account even on the links that are live afterwards.
LEMMA AccountsKept ==
  ASSUME ClientInv, RoomForWaiters, RepliesAligned,
         \A n \in Conn, p \in Pane, kind \in Kind :
           link'[n] = "up" => /\ link[n] = "up" \/ Fresh(n)
                              /\ Even(n, p, kind) => Even(n, p, kind)'
  PROVE  RepliesAligned'
<1>1. ASSUME NEW n \in Conn, NEW p \in Pane, NEW kind \in Kind, link[n] = "up" \/ Fresh(n)
      PROVE  Even(n, p, kind)
  <2>1. CASE link[n] = "up"
    BY <2>1, AccountsAre DEF RepliesAligned, Even, Queued, Asked, Told, Unsent
  <2> QED
    BY <1>1, <2>1, FreshIsEven
<1>2. ASSUME NEW n \in Conn, NEW p \in Pane, NEW kind \in Kind, link'[n] = "up"
      PROVE  Even(n, p, kind)'
  BY <1>1, <1>2
<1> QED
  BY <1>2 DEF RepliesAligned, Even, Queued, Asked, Told, Unsent

\* An account that nothing has touched.
LEMMA EvenKept ==
  ASSUME NEW n \in Conn, NEW p \in Pane, NEW kind \in Kind, Even(n, p, kind),
         Queued(n, p, kind)' = Queued(n, p, kind), Asked(n, p, kind)' = Asked(n, p, kind),
         Told(n, p, kind)' = Told(n, p, kind), Unsent(n, p, kind)' = Unsent(n, p, kind)
  PROVE  Even(n, p, kind)'
BY DEF Even

LEMMA UnsentKept ==
  ASSUME NEW n \in Conn, NEW p \in Pane, NEW kind \in Kind,
         \A k \in Call : PaneOf(k) = p /\ KindOf(k) = kind =>
           (via'[k] = n /\ pc'[k] = "send" <=> via[k] = n /\ pc[k] = "send")
  PROVE  Unsent(n, p, kind)' = Unsent(n, p, kind)
<1>1. Sending(n, p, kind)' = Sending(n, p, kind)
  BY DEF Sending
<1> QED
  BY <1>1 DEF Unsent

LEMMA UnsentMore ==
  ASSUME RoomForWaiters, NEW k \in Call, NEW n \in Conn, NEW p \in Pane, NEW kind \in Kind,
         PaneOf(k) = p, KindOf(k) = kind, pc[k] # "send", via'[k] = n, pc'[k] = "send",
         \A j \in Call \ {k} : pc'[j] = pc[j] /\ via'[j] = via[j]
  PROVE  Unsent(n, p, kind)' = Unsent(n, p, kind) + 1
<1>1. Sending(n, p, kind)' = Sending(n, p, kind) \cup {k} /\ k \notin Sending(n, p, kind)
  BY DEF Sending
<1>2. PICK S : S = Sending(n, p, kind)
  OBVIOUS
<1>3. IsFiniteSet(S) /\ k \notin S
  BY <1>1, <1>2, SendingFinite
<1>4. Cardinality(S \cup {k}) = Cardinality(S) + 1
  BY <1>3, FS_AddElement
<1> QED
  BY <1>1, <1>2, <1>4 DEF Unsent

LEMMA UnsentLess ==
  ASSUME RoomForWaiters, NEW k \in Call, NEW n \in Conn, NEW p \in Pane, NEW kind \in Kind,
         PaneOf(k) = p, KindOf(k) = kind, pc[k] = "send", via[k] = n, pc'[k] # "send",
         \A j \in Call \ {k} : pc'[j] = pc[j] /\ via'[j] = via[j]
  PROVE  /\ Unsent(n, p, kind)' \in Nat
         /\ Unsent(n, p, kind) = Unsent(n, p, kind)' + 1
<1>1. Sending(n, p, kind)' = Sending(n, p, kind) \ {k} /\ k \in Sending(n, p, kind)
  BY DEF Sending
<1>2. PICK S : S = Sending(n, p, kind)
  OBVIOUS
<1>3. IsFiniteSet(S) /\ k \in S /\ Cardinality(S) \in Nat
  BY <1>1, <1>2, SendingFinite
<1>4. /\ IsFiniteSet(S \ {k}) /\ Cardinality(S \ {k}) \in Nat
      /\ Cardinality(S \ {k}) = Cardinality(S) - 1
  BY <1>3, FS_RemoveElement, FS_CardinalityType
<1>5. Cardinality(S) = Cardinality(S \ {k}) + 1
  BY <1>3, <1>4
<1> QED
  BY <1>1, <1>2, <1>4, <1>5 DEF Unsent

\* A request that nobody waits for, an Exit: they are on no account.
LEMMA CountNot ==
  ASSUME NEW kind \in Kind, NEW p, NEW r
  PROVE  /\ Msg("exit", r) # Msg(kind, p) /\ Msg("detach", r) # Msg(kind, p)
         /\ Msg("kill", r) # Msg(kind, p)
BY MsgsDiffer DEF Kind

\* The steps that leave every account as it is, on the links that are live afterwards.
LEMMA Quiet ==
  ASSUME ClientInv, RoomForWaiters, RepliesAligned,
         \A n \in Conn : link'[n] = "up" => link[n] = "up" \/ Fresh(n),
         \A n \in Conn, p \in Pane, kind \in Kind : link'[n] = "up" =>
           /\ Queued(n, p, kind)' = Queued(n, p, kind)
           /\ Asked(n, p, kind)' = Asked(n, p, kind)
           /\ Told(n, p, kind)' = Told(n, p, kind),
         \A n \in Conn, k \in Call : link'[n] = "up" =>
           (via'[k] = n /\ pc'[k] = "send" <=> via[k] = n /\ pc[k] = "send")
  PROVE  RepliesAligned'
<1>1. ASSUME NEW n \in Conn, NEW p \in Pane, NEW kind \in Kind, link'[n] = "up",
             Even(n, p, kind)
      PROVE  Even(n, p, kind)'
  <2>1. Unsent(n, p, kind)' = Unsent(n, p, kind)
    BY <1>1, UnsentKept
  <2> QED
    BY <1>1, <2>1, EvenKept
<1> QED
  BY <1>1, AccountsKept

\* What the account reads when a variable has not moved.
LEMMA SameQueued ==
  ASSUME NEW n \in Conn, NEW p \in Pane, NEW kind \in Kind,
         waiters'[n][<<p, kind>>] = waiters[n][<<p, kind>>]
  PROVE  Queued(n, p, kind)' = Queued(n, p, kind)
BY DEF Queued

LEMMA SameAsked ==
  ASSUME NEW n \in Conn, NEW p \in Pane, NEW kind \in Kind, toDaemon'[n] = toDaemon[n]
  PROVE  Asked(n, p, kind)' = Asked(n, p, kind)
BY DEF Asked, Count

LEMMA SameTold ==
  ASSUME NEW n \in Conn, NEW p \in Pane, NEW kind \in Kind, toApp'[n] = toApp[n]
  PROVE  Told(n, p, kind)' = Told(n, p, kind)
BY DEF Told, Count

\* A message that goes out, and one that is taken.
LEMMA AskedPosted ==
  ASSUME ClientTypeOK, NEW m \in Conn, NEW x \in Request, toDaemon' = Post(toDaemon, m, x),
         NEW n \in Conn, NEW p \in Pane, NEW kind \in Kind
  PROVE  /\ Asked(n, p, kind) \in Nat
         /\ Asked(n, p, kind)' = Asked(n, p, kind) + IF n = m /\ x = Msg(kind, p) THEN 1 ELSE 0
<1>0. PICK y : y = Msg(kind, p)
  OBVIOUS
<1>1. PICK q \in Seq(Request) : q = toDaemon[n]
  BY DEF ClientTypeOK
<1>2. /\ Count(q, y) \in Nat
      /\ Count(Append(q, x), y) = Count(q, y) + IF x = y THEN 1 ELSE 0
  BY CountAppended
<1>3. toDaemon'[n] = IF n = m THEN Append(q, x) ELSE q
  BY <1>1 DEF Post, ClientTypeOK
<1>4. Asked(n, p, kind) = Count(q, y)
  BY <1>0, <1>1 DEF Asked
<1>5. Asked(n, p, kind)' = Count(IF n = m THEN Append(q, x) ELSE q, y)
  <2>1. Asked(n, p, kind)' = Cardinality({i \in DOMAIN toDaemon'[n] : toDaemon'[n][i] = y})
    BY <1>0 DEF Asked, Count
  <2> QED
    BY ONLY <1>3, <2>1 DEF Count
<1> QED
  BY ONLY <1>0, <1>2, <1>4, <1>5

LEMMA AskedTaken ==
  ASSUME ClientTypeOK, NEW m \in Conn, toDaemon' = Take(toDaemon, m), toDaemon[m] # <<>>,
         NEW z, z = Head(toDaemon[m]), NEW n \in Conn, NEW p \in Pane, NEW kind \in Kind
  PROVE  /\ n # m => Asked(n, p, kind)' = Asked(n, p, kind)
         /\ n = m => /\ Asked(n, p, kind)' \in Nat
                     /\ Asked(n, p, kind) =
                          Asked(n, p, kind)' + IF z = Msg(kind, p) THEN 1 ELSE 0
<1>0. PICK y : y = Msg(kind, p)
  OBVIOUS
<1>1. PICK q \in Seq(Request) : q = toDaemon[n]
  BY DEF ClientTypeOK
<1>2. CASE n # m
  <2>1. toDaemon'[n] = toDaemon[n]
    BY <1>2 DEF Take, ClientTypeOK
  <2> QED
    BY <1>2, <2>1, SameAsked
<1>3. CASE n = m
  <2>1. q # <<>> /\ z = Head(q)
    BY <1>1, <1>3
  <2>2. /\ Count(Tail(q), y) \in Nat
        /\ Count(q, y) = Count(Tail(q), y) + IF Head(q) = y THEN 1 ELSE 0
    BY <2>1, CountFirst
  <2>3. toDaemon'[n] = Tail(q)
    BY <1>1, <1>3 DEF Take, ClientTypeOK
  <2>4. Asked(n, p, kind)' = Count(Tail(q), y)
    <3>1. Asked(n, p, kind)' = Cardinality({i \in DOMAIN toDaemon'[n] : toDaemon'[n][i] = y})
      BY <1>0 DEF Asked, Count
    <3> QED
      BY ONLY <2>3, <3>1 DEF Count
  <2>5. Asked(n, p, kind) = Count(q, y)
    BY <1>0, <1>1 DEF Asked
  <2> QED
    BY ONLY <1>0, <1>3, <2>1, <2>2, <2>4, <2>5
<1> QED
  BY <1>2, <1>3

LEMMA ToldPosted ==
  ASSUME ClientTypeOK, NEW m \in Conn, NEW x \in Answer, toApp' = Post(toApp, m, x),
         NEW n \in Conn, NEW p \in Pane, NEW kind \in Kind
  PROVE  /\ Told(n, p, kind) \in Nat
         /\ Told(n, p, kind)' = Told(n, p, kind) + IF n = m /\ x = Msg(kind, p) THEN 1 ELSE 0
<1>0. PICK y : y = Msg(kind, p)
  OBVIOUS
<1>1. PICK q \in Seq(Answer) : q = toApp[n]
  BY DEF ClientTypeOK
<1>2. /\ Count(q, y) \in Nat
      /\ Count(Append(q, x), y) = Count(q, y) + IF x = y THEN 1 ELSE 0
  BY CountAppended
<1>3. toApp'[n] = IF n = m THEN Append(q, x) ELSE q
  BY <1>1 DEF Post, ClientTypeOK
<1>4. Told(n, p, kind) = Count(q, y)
  BY <1>0, <1>1 DEF Told
<1>5. Told(n, p, kind)' = Count(IF n = m THEN Append(q, x) ELSE q, y)
  <2>1. Told(n, p, kind)' = Cardinality({i \in DOMAIN toApp'[n] : toApp'[n][i] = y})
    BY <1>0 DEF Told, Count
  <2> QED
    BY ONLY <1>3, <2>1 DEF Count
<1> QED
  BY ONLY <1>0, <1>2, <1>4, <1>5

LEMMA ToldTaken ==
  ASSUME ClientTypeOK, NEW m \in Conn, toApp' = Take(toApp, m), toApp[m] # <<>>,
         NEW z, z = Head(toApp[m]), NEW n \in Conn, NEW p \in Pane, NEW kind \in Kind
  PROVE  /\ n # m => Told(n, p, kind)' = Told(n, p, kind)
         /\ n = m => /\ Told(n, p, kind)' \in Nat
                     /\ Told(n, p, kind) =
                          Told(n, p, kind)' + IF z = Msg(kind, p) THEN 1 ELSE 0
<1>0. PICK y : y = Msg(kind, p)
  OBVIOUS
<1>1. PICK q \in Seq(Answer) : q = toApp[n]
  BY DEF ClientTypeOK
<1>2. CASE n # m
  <2>1. toApp'[n] = toApp[n]
    BY <1>2 DEF Take, ClientTypeOK
  <2> QED
    BY <1>2, <2>1, SameTold
<1>3. CASE n = m
  <2>1. q # <<>> /\ z = Head(q)
    BY <1>1, <1>3
  <2>2. /\ Count(Tail(q), y) \in Nat
        /\ Count(q, y) = Count(Tail(q), y) + IF Head(q) = y THEN 1 ELSE 0
    BY <2>1, CountFirst
  <2>3. toApp'[n] = Tail(q)
    BY <1>1, <1>3 DEF Take, ClientTypeOK
  <2>4. Told(n, p, kind)' = Count(Tail(q), y)
    <3>1. Told(n, p, kind)' = Cardinality({i \in DOMAIN toApp'[n] : toApp'[n][i] = y})
      BY <1>0 DEF Told, Count
    <3> QED
      BY ONLY <2>3, <3>1 DEF Count
  <2>5. Told(n, p, kind) = Count(q, y)
    BY <1>0, <1>1 DEF Told
  <2> QED
    BY ONLY <1>0, <1>3, <2>1, <2>2, <2>4, <2>5
<1> QED
  BY <1>2, <1>3

\* A call that joins the queue is one more whose request has not been sent.
LEMMA EnterEven ==
  ASSUME ClientInv, RoomForWaiters, RepliesAligned, NEW k \in Call, Enter(k)
  PROVE  RepliesAligned'
<1>0. PICK p \in Pane, kind \in Kind : PaneOf(k) = p /\ KindOf(k) = kind
  BY CallFacts
<1>1. PICK n \in Conn :
        /\ Ensure(n) /\ (kind \in Slow => Len(waiters[n][<<p, kind>>]) < MaxQueued)
        /\ via' = [via EXCEPT ![k] = n]
        /\ waiters' = [waiters EXCEPT ![n][<<p, kind>>] = Join(waiters[n][<<p, kind>>], k)]
  BY <1>0 DEF Enter, QueueOf
<1>2. /\ pc[k] = "called" /\ pc' = [pc EXCEPT ![k] = "send"]
      /\ UNCHANGED <<toDaemon, toApp>>
  BY DEF Enter
<1>3. ClientTypeOK
  BY DEF ClientInv
<1>4. PICK q \in Seq(Slot), v \in Seq(Slot) : q = waiters[n][<<p, kind>>] /\ v = Join(q, k)
  BY QueueFacts, JoinFacts
<1>5. /\ waiters'[n][<<p, kind>>] = v
      /\ \A m \in Conn, r \in Pane, other \in Kind :
           m # n \/ r # p \/ other # kind
             => waiters'[m][<<r, other>>] = waiters[m][<<r, other>>]
  <2>1. waiters' = WithQueue(n, p, kind, v)
    BY <1>1, <1>4 DEF WithQueue
  <2> QED
    BY <1>3, <2>1, OneQueue
<1>6. \A m \in Conn : link'[m] = "up" => link[m] = "up" \/ Fresh(m)
  BY <1>1, EnsureFacts
<1>7. /\ pc'[k] = "send" /\ via'[k] = n
      /\ \A j \in Call \ {k} : pc'[j] = pc[j] /\ via'[j] = via[j]
  BY <1>1, <1>2, <1>3 DEF ClientTypeOK
<1>8. ASSUME link'[n] = "up"
      PROVE  Len(v) = Len(q) + 1
  <2>1. Len(q) < MaxWaiters
    <3>1. CASE Fresh(n)
      <4>1. q = <<>>
        BY <1>4, <3>1 DEF Fresh
      <4> QED
        BY <4>1, ClientConstantsOk
    <3>2. CASE link[n] = "up" /\ kind \in Slow
      BY <1>1, <1>4, <3>2, ClientConstantsOk DEF RoomForWaiters
    <3>3. CASE link[n] = "up" /\ kind \notin Slow
      BY <1>0, <1>2, <1>4, <3>3, QueueHasRoom DEF QueueOf
    <3> QED
      BY <1>6, <1>8, <3>1, <3>2, <3>3
  <2>2. PICK d \in Nat, e \in Nat : e + d = Len(q) /\ d = 0 /\ DOMAIN v = 1..(e + 1)
    <3>1. PICK d \in Nat, e \in Nat :
            /\ e + d = Len(q) /\ (Len(q) < MaxWaiters => d = 0)
            /\ DOMAIN Join(q, k) = 1..(e + 1) /\ Join(q, k)[e + 1] = k
            /\ \A i \in 1..e : Join(q, k)[i] = q[i + d] /\ i + d \in 1..Len(q)
      BY JoinFacts, ZenonT(60)
    <3> QED
      BY <1>4, <2>1, <3>1
  <2>3. PICK y \in Nat, z \in Nat : y = Len(v) /\ DOMAIN v = 1..y /\ z = Len(q)
    OBVIOUS
  <2>4. e \in Nat /\ d \in Nat
    OBVIOUS
  <2>5. y = z + 1
    <3>1. 1..y = 1..(e + 1) /\ e = z
      BY ONLY <2>2, <2>3, <2>4
    <3>2. e + 1 \in 1..y
      BY ONLY <2>4, <3>1
    <3>3. y \in 1..(e + 1)
      BY ONLY <2>3, <2>4, <3>1, <3>2
    <3> QED
      BY ONLY <2>3, <2>4, <3>1, <3>2, <3>3
  <2> QED
    BY ONLY <2>3, <2>5
<1>9. ASSUME NEW m \in Conn, NEW r \in Pane, NEW other \in Kind, link'[m] = "up",
             Even(m, r, other)
      PROVE  Even(m, r, other)'
  <2>1. /\ Asked(m, r, other)' = Asked(m, r, other) /\ Told(m, r, other)' = Told(m, r, other)
    BY <1>2, SameAsked, SameTold
  <2>2. CASE m = n /\ r = p /\ other = kind
    <3>1. Unsent(n, p, kind)' = Unsent(n, p, kind) + 1
      BY <1>0, <1>2, <1>7, UnsentMore
    <3>2. Queued(n, p, kind)' = Queued(n, p, kind) + 1
      <4>1. Len(v) = Len(q) + 1
        BY <1>8, <1>9, <2>2
      <4>2. Queued(n, p, kind)' = Len(waiters'[n][<<p, kind>>])
        BY DEF Queued
      <4>3. Queued(n, p, kind) = Len(q)
        BY <1>4 DEF Queued
      <4> QED
        BY ONLY <1>5, <4>1, <4>2, <4>3
    <3>3. Even(n, p, kind)
      BY <1>9, <2>2
    <3>4. /\ Asked(n, p, kind)' = Asked(n, p, kind) /\ Told(n, p, kind)' = Told(n, p, kind)
      BY <2>1, <2>2
    <3>5. Even(n, p, kind)'
      BY ONLY <3>1, <3>2, <3>3, <3>4 DEF Even
    <3> QED
      BY <2>2, <3>5
  <2>3. CASE ~(m = n /\ r = p /\ other = kind)
    <3>1. \A j \in Call : PaneOf(j) = r /\ KindOf(j) = other =>
            (via'[j] = m /\ pc'[j] = "send" <=> via[j] = m /\ pc[j] = "send")
      BY <1>0, <1>2, <1>7, <2>3
    <3>2. Unsent(m, r, other)' = Unsent(m, r, other)
      BY <3>1, UnsentKept
    <3>3. Queued(m, r, other)' = Queued(m, r, other)
      BY <1>5, <2>3, SameQueued
    <3> QED
      BY <1>9, <2>1, <3>2, <3>3, EvenKept
  <2> QED
    BY <2>2, <2>3
<1> QED
  BY <1>6, <1>9, AccountsKept

\* The request that a call sends takes its place in the account.
LEMMA SendEven ==
  ASSUME ClientInv, RoomForWaiters, RepliesAligned, NEW k \in Call, Send(k)
  PROVE  RepliesAligned'
<1>0. PICK p \in Pane, kind \in Kind : PaneOf(k) = p /\ KindOf(k) = kind
  BY CallFacts
<1>1. PICK n \in Conn : n = via[k]
  BY DEF Send, ClientInv, CallOK, Active
<1>2. PICK x \in Request : x = Msg(kind, p)
  BY MsgFacts DEF Kind
<1>3. /\ pc[k] = "send" /\ pc' = [pc EXCEPT ![k] = "wait"]
      /\ UNCHANGED <<link, waiters, via, toApp>>
      /\ toDaemon' = Post(toDaemon, n, x)
  BY <1>0, <1>1, <1>2 DEF Send, Post
<1>4. ClientTypeOK
  BY DEF ClientInv
<1>5. pc'[k] = "wait" /\ via' = via /\ \A j \in Call \ {k} : pc'[j] = pc[j]
  BY <1>3, <1>4 DEF ClientTypeOK
<1>6. ASSUME NEW m \in Conn, NEW r \in Pane, NEW other \in Kind, Even(m, r, other)
      PROVE  Even(m, r, other)'
  <2>1. Queued(m, r, other)' = Queued(m, r, other) /\ Told(m, r, other)' = Told(m, r, other)
    BY <1>3, SameQueued, SameTold
  <2>2. /\ Asked(m, r, other) \in Nat
        /\ Asked(m, r, other)' =
             Asked(m, r, other) + IF m = n /\ x = Msg(other, r) THEN 1 ELSE 0
    BY <1>3, <1>4, AskedPosted
  <2>3. x = Msg(other, r) <=> r = p /\ other = kind
    BY <1>2, MsgsDiffer
  <2>4. CASE m = n /\ r = p /\ other = kind
    <3>1. /\ Unsent(n, p, kind)' \in Nat
          /\ Unsent(n, p, kind) = Unsent(n, p, kind)' + 1
      BY <1>0, <1>1, <1>3, <1>5, UnsentLess
    <3> QED
      BY <1>6, <2>1, <2>2, <2>3, <2>4, <3>1 DEF Even
  <2>5. CASE ~(m = n /\ r = p /\ other = kind)
    <3>1. \A j \in Call : PaneOf(j) = r /\ KindOf(j) = other =>
            (via'[j] = m /\ pc'[j] = "send" <=> via[j] = m /\ pc[j] = "send")
      BY <1>0, <1>1, <1>5, <2>5
    <3>2. Unsent(m, r, other)' = Unsent(m, r, other)
      BY <3>1, UnsentKept
    <3>3. Asked(m, r, other)' = Asked(m, r, other)
      BY <2>2, <2>3, <2>5
    <3> QED
      BY <1>6, <2>1, <3>2, <3>3, EvenKept
  <2> QED
    BY <2>4, <2>5
<1> QED
  BY <1>3, <1>6, AccountsKept

\* A caller that gives up leaves its entry behind; a send fails on dead links only.
LEMMA FailEven ==
  ASSUME ClientInv, RoomForWaiters, RepliesAligned, NEW k \in Call, SendFails(k) \/ GiveUp(k)
  PROVE  RepliesAligned'
<1>0. PICK p \in Pane, kind \in Kind : PaneOf(k) = p /\ KindOf(k) = kind
  BY CallFacts
<1>1. PICK n \in Conn : n = via[k]
  BY DEF SendFails, GiveUp, TimesOut, ClientInv, CallOK, Active
<1>2. ClientTypeOK
  BY DEF ClientInv
<1>3. /\ Ends(k) /\ UNCHANGED <<cur, link, toDaemon, toApp>>
      /\ pc[k] = "send" => link[n] # "up"
  BY <1>1 DEF SendFails, GiveUp, TimesOut
<1>4. PICK q \in Seq(Slot) : q = waiters[n][<<p, kind>>]
  BY QueueFacts
<1>5. PICK upd \in Seq(Slot) :
        /\ waiters' = WithQueue(n, p, kind, upd)
        /\ Len(upd) = Len(q) \/ link[n] # "up"
  <2>1. CASE SendFails(k)
    <3>1. Front(q) \in Seq(Slot) \/ q = <<>>
      BY FrontFacts
    <3>2. PICK upd \in Seq(Slot) : upd = IF q = <<>> THEN q ELSE Dropped(Front(q), k)
      BY <3>1, DroppedFacts
    <3> QED
      BY <1>0, <1>1, <1>4, <2>1, <3>2 DEF SendFails, WithQueue, QueueOf
  <2>2. CASE GiveUp(k)
    <3>1. PICK upd \in Seq(Slot) : upd = Dropped(q, k) /\ Len(upd) = Len(q)
      BY DroppedFacts
    <3> QED
      BY <1>0, <1>1, <1>4, <2>2, <3>1 DEF GiveUp, GivenUp, WithQueue, QueueOf
  <2> QED
    BY <2>1, <2>2
<1>6. /\ waiters'[n][<<p, kind>>] = upd
      /\ \A m \in Conn, r \in Pane, other \in Kind :
           m # n \/ r # p \/ other # kind
             => waiters'[m][<<r, other>>] = waiters[m][<<r, other>>]
  BY <1>2, <1>5, OneQueue
<1>7. /\ pc'[k] = "idle" /\ via'[k] = 0 /\ 0 \notin Conn
      /\ \A j \in Call \ {k} : pc'[j] = pc[j] /\ via'[j] = via[j]
  BY <1>2, <1>3, CallFacts DEF ClientTypeOK, Ends
<1>8. ASSUME NEW m \in Conn, NEW r \in Pane, NEW other \in Kind, link'[m] = "up"
      PROVE  /\ Queued(m, r, other)' = Queued(m, r, other)
             /\ Asked(m, r, other)' = Asked(m, r, other)
             /\ Told(m, r, other)' = Told(m, r, other)
  <2>1. Queued(m, r, other)' = Queued(m, r, other)
    <3>1. CASE m = n /\ r = p /\ other = kind
      <4>1. Len(upd) = Len(q)
        BY <1>3, <1>5, <1>8, <3>1
      <4>2. Queued(n, p, kind)' = Len(waiters'[n][<<p, kind>>])
        BY DEF Queued
      <4>3. Queued(n, p, kind) = Len(q)
        BY <1>4 DEF Queued
      <4> QED
        BY ONLY <1>6, <3>1, <4>1, <4>2, <4>3
    <3>2. CASE ~(m = n /\ r = p /\ other = kind)
      BY <1>6, <3>2, SameQueued
    <3> QED
      BY <3>1, <3>2
  <2> QED
    BY <1>3, <2>1, SameAsked, SameTold
<1>9. \A m \in Conn, j \in Call : link'[m] = "up" =>
        (via'[j] = m /\ pc'[j] = "send" <=> via[j] = m /\ pc[j] = "send")
  BY <1>1, <1>3, <1>7
<1>10. \A m \in Conn : link'[m] = "up" => link[m] = "up" \/ Fresh(m)
  BY <1>3
<1> QED
  BY <1>8, <1>9, <1>10, Quiet

\* A request that is served is a reply on its way; a Detach or a Kill was on no account.
LEMMA ServeEven ==
  ASSUME ClientInv, RoomForWaiters, RepliesAligned, NEW n \in Conn, Serve(n)
  PROVE  RepliesAligned'
<1>0. ClientTypeOK
  BY DEF ClientInv
<1>1. PICK p \in Pane, kind \in {"spawn", "probe", "detach", "kill"} :
        /\ link[n] = "up" /\ toDaemon[n] # <<>> /\ Head(toDaemon[n]) = Msg(kind, p)
        /\ \/ kind = "spawn" /\ ServeSpawn(n, p)
           \/ kind = "probe" /\ ServeProbe(n, p)
           \/ kind = "detach" /\ ServeDetach(n, p)
           \/ kind = "kill" /\ ServeKill(p)
        /\ toDaemon' = [toDaemon EXCEPT ![n] = Tail(@)]
        /\ UNCHANGED <<cur, link, routes, waiters, pc, via, got>>
  BY ServeFacts
<1>2. toDaemon' = Take(toDaemon, n)
  BY <1>1 DEF Take
<1>3. PICK z : z = Msg(kind, p) /\ z = Head(toDaemon[n])
  BY <1>1
<1>4. ASSUME NEW m \in Conn, NEW r \in Pane, NEW other \in Kind
      PROVE  /\ m # n => Told(m, r, other)' = Told(m, r, other)
             /\ m = n => Told(m, r, other) \in Nat /\
                  Told(m, r, other)' = Told(m, r, other) + IF z = Msg(other, r) THEN 1 ELSE 0
  <2>0. PICK y : y = Msg(other, r)
    OBVIOUS
  <2>1. PICK q \in Seq(Answer) : q = toApp[m]
    BY <1>0 DEF ClientTypeOK
  <2>2. Count(q, y) \in Nat /\ Told(m, r, other) = Count(q, y)
    <3>1. PICK x \in Answer : x = Msg("exit", p)
      BY MsgFacts
    <3>2. Count(q, y) \in Nat
      BY <3>1, CountAppended
    <3> QED
      BY <2>0, <2>1, <3>2 DEF Told
  <2>3. Told(m, r, other)' = Cardinality({i \in DOMAIN toApp'[m] : toApp'[m][i] = y})
    BY <2>0 DEF Told, Count
  <2>4. CASE kind = "spawn" /\ ServeSpawn(n, p)
    <3>1. PICK ended \in BOOLEAN : ended = (shell[p] = "ended")
      OBVIOUS
    <3>2. toApp' = [toApp EXCEPT ![n] = Answers(toApp[n], p, ended)]
      BY <2>4, <3>1 DEF ServeSpawn, Answers
    <3>3. toApp'[m] = IF m = n THEN Answers(q, p, ended) ELSE q
      BY <1>0, <2>1, <3>2 DEF ClientTypeOK
    <3>4. Count(Answers(q, p, ended), y) = Count(q, y) + IF Msg("spawn", p) = y THEN 1 ELSE 0
      BY <2>0, CountNot, CountAnswers
    <3>5. Told(m, r, other)' = Count(IF m = n THEN Answers(q, p, ended) ELSE q, y)
      BY ONLY <2>3, <3>3 DEF Count
    <3>6. z = Msg("spawn", p)
      BY <1>3, <2>4
    <3> QED
      BY ONLY <2>0, <2>2, <3>4, <3>5, <3>6
  <2>5. CASE kind = "probe" /\ ServeProbe(n, p)
    <3>1. PICK x \in Answer : x = Msg("probe", p)
      BY MsgFacts
    <3>2. toApp' = Post(toApp, n, x) /\ z = x
      BY <1>3, <2>5, <3>1 DEF ServeProbe, Post
    <3> QED
      BY <1>0, <3>2, ToldPosted
  <2>6. CASE kind \in {"detach", "kill"} /\ (ServeDetach(n, p) \/ ServeKill(p))
    <3>1. toApp' = toApp
      BY <2>6 DEF ServeDetach, ServeKill
    <3>2. z # Msg(other, r)
      BY <1>3, <2>6, CountNot
    <3> QED
      BY <2>2, <3>1, <3>2, SameTold
  <2> QED
    BY <1>1, <2>4, <2>5, <2>6
<1>5. ASSUME NEW m \in Conn, NEW r \in Pane, NEW other \in Kind, Even(m, r, other)
      PROVE  Even(m, r, other)'
  <2>1. /\ Queued(m, r, other)' = Queued(m, r, other)
        /\ Unsent(m, r, other)' = Unsent(m, r, other)
    BY <1>1, SameQueued, UnsentKept
  <2>2. /\ m # n => Asked(m, r, other)' = Asked(m, r, other)
        /\ m = n => /\ Asked(m, r, other)' \in Nat
                    /\ Asked(m, r, other) =
                         Asked(m, r, other)' + IF z = Msg(other, r) THEN 1 ELSE 0
    BY <1>0, <1>1, <1>2, <1>3, AskedTaken
  <2>3. CASE m # n
    BY <1>4, <1>5, <2>1, <2>2, <2>3, EvenKept
  <2>4. CASE m = n
    <3>1. /\ Told(m, r, other) \in Nat
          /\ Told(m, r, other)' = Told(m, r, other) + IF z = Msg(other, r) THEN 1 ELSE 0
      BY <1>4, <2>4
    <3> QED
      BY ONLY <1>5, <2>1, <2>2, <2>4, <3>1 DEF Even
  <2> QED
    BY <2>3, <2>4
<1> QED
  BY <1>1, <1>5, AccountsKept

\* A reply that arrives takes one waiter out of the queue of its id: there is one.
LEMMA ReadsEven ==
  ASSUME ClientInv, RoomForWaiters, RepliesAligned, NEW n \in Conn, Reads(n)
  PROVE  RepliesAligned'
<1>0. ClientTypeOK
  BY DEF ClientInv
<1>1. PICK p \in Pane, kind \in {"spawn", "probe", "exit"} :
        /\ link[n] \in {"up", "down"} /\ toApp[n] # <<>> /\ Head(toApp[n]) = Msg(kind, p)
        /\ \/ /\ kind = "exit"
              /\ routes' = [routes EXCEPT ![n] = @ \ {p}]
              /\ UNCHANGED <<waiters, got>>
           \/ /\ kind \in Kind
              /\ waiters' = [waiters EXCEPT ![n][<<p, kind>>] =
                   IF waiters[n][<<p, kind>>] = <<>>
                     THEN waiters[n][<<p, kind>>] ELSE Tail(waiters[n][<<p, kind>>])]
              /\ got' = [k \in Call |-> got[k] \/ k = Waiter(waiters[n][<<p, kind>>])]
              /\ UNCHANGED routes
        /\ toApp' = [toApp EXCEPT ![n] = Tail(@)]
        /\ UNCHANGED <<cur, link, pc, via, toDaemon, shell, subs, dying>>
  BY ReadsFacts
<1>2. toApp' = Take(toApp, n)
  BY <1>1 DEF Take
<1>3. PICK z : z = Msg(kind, p) /\ z = Head(toApp[n])
  BY <1>1
<1>4. ASSUME NEW m \in Conn, NEW r \in Pane, NEW other \in Kind, Even(m, r, other)
      PROVE  Even(m, r, other)'
  <2>1. /\ Asked(m, r, other)' = Asked(m, r, other)
        /\ Unsent(m, r, other)' = Unsent(m, r, other)
    BY <1>1, SameAsked, UnsentKept
  <2>2. /\ m # n => Told(m, r, other)' = Told(m, r, other)
        /\ m = n => /\ Told(m, r, other)' \in Nat
                    /\ Told(m, r, other) =
                         Told(m, r, other)' + IF z = Msg(other, r) THEN 1 ELSE 0
    BY <1>0, <1>1, <1>2, <1>3, ToldTaken
  <2>3. z = Msg(other, r) <=> kind = other /\ p = r
    <3>1. Msg(kind, p) = Msg(other, r) <=> kind = other /\ p = r
      BY ONLY MsgsDiffer
    <3> QED
      BY ONLY <1>3, <3>1
  <2>4. CASE m = n /\ z = Msg(other, r)
    <3>0. kind = other /\ p = r /\ kind # "exit"
      BY <2>3, <2>4 DEF Kind
    <3>1. PICK q \in Seq(Slot) : q = waiters[n][<<p, kind>>]
      BY <3>0, QueueFacts
    <3>2. PICK upd \in Seq(Slot) : upd = Shortened(q)
      BY ShortenedFacts
    <3>3. waiters' = WithQueue(n, p, kind, upd) /\ kind \in Kind
      BY <1>1, <3>0, <3>1, <3>2 DEF WithQueue, Shortened
    <3>4. waiters'[n][<<p, kind>>] = upd
      BY <1>0, <3>3, OneQueue
    <3>5. Queued(m, r, other) = Len(q) /\ Queued(m, r, other)' = Len(upd)
      BY <2>4, <3>0, <3>1, <3>4 DEF Queued
    <3>6. Len(q) \in Nat \ {0}
      <4>1. Told(m, r, other) = Told(m, r, other)' + 1 /\ Told(m, r, other)' \in Nat
        BY ONLY <2>2, <2>4
      <4>2. /\ Len(q) \in Nat /\ Asked(m, r, other) \in Nat /\ Unsent(m, r, other) \in Nat
            /\ Len(q) = Asked(m, r, other) + Told(m, r, other) + Unsent(m, r, other)
        BY ONLY <1>4, <3>5 DEF Even
      <4> QED
        BY ONLY <4>1, <4>2
    <3>7. Len(upd) \in Nat /\ Len(q) = Len(upd) + 1
      <4>1. upd = Tail(q) /\ q # <<>>
        BY <3>2, <3>6 DEF Shortened
      <4> QED
        BY <4>1, TailFacts
    <3>8. Told(m, r, other) = Told(m, r, other)' + 1 /\ Told(m, r, other)' \in Nat
      BY ONLY <2>2, <2>4
    <3>9. /\ Queued(m, r, other)' \in Nat
          /\ Queued(m, r, other) = Queued(m, r, other)' + 1
      BY ONLY <3>5, <3>7
    <3> QED
      BY ONLY <1>4, <2>1, <3>8, <3>9 DEF Even
  <2>5. CASE ~(m = n /\ z = Msg(other, r))
    <3>1. Told(m, r, other)' = Told(m, r, other)
      BY <1>4, <2>2, <2>5 DEF Even
    <3>2. waiters'[m][<<r, other>>] = waiters[m][<<r, other>>]
      <4>1. CASE kind = "exit"
        BY <1>1, <4>1 DEF Kind
      <4>2. CASE kind # "exit"
        <5>0. PICK own \in Kind : own = kind
          BY <4>2 DEF Kind
        <5>1. PICK q \in Seq(Slot) : q = waiters[n][<<p, own>>]
          BY QueueFacts
        <5>2. PICK upd \in Seq(Slot) : upd = Shortened(q)
          BY ShortenedFacts
        <5>3. waiters' = WithQueue(n, p, own, upd)
          BY <1>1, <4>2, <5>0, <5>1, <5>2 DEF WithQueue, Shortened
        <5>4. m # n \/ r # p \/ other # own
          BY <2>3, <2>5, <5>0
        <5>5. /\ waiters'[n][<<p, own>>] = upd
              /\ \A at \in Conn, by \in Pane, of \in Kind :
                   at # n \/ by # p \/ of # own
                     => waiters'[at][<<by, of>>] = waiters[at][<<by, of>>]
          BY <1>0, <5>3, OneQueue
        <5> QED
          BY <5>4, <5>5
      <4> QED
        BY <4>1, <4>2
    <3> QED
      BY <1>4, <2>1, <3>1, <3>2, SameQueued, EvenKept
  <2> QED
    BY <2>4, <2>5
<1> QED
  BY <1>1, <1>4, AccountsKept

\* What a command tells the daemon without waiting is on no account.
LEMMA TellEven ==
  ASSUME ClientInv, RoomForWaiters, RepliesAligned,
         Write \/ \E p \in Pane, kind \in {"detach", "kill"} : Tell(p, kind)
  PROVE  RepliesAligned'
<1>0. ClientTypeOK
  BY DEF ClientInv
<1>1. UNCHANGED <<waiters, pc, via, toApp>>
  BY DEF Write, Tell, callVars
<1>2. \A n \in Conn : link'[n] = "up" => link[n] = "up" \/ Fresh(n)
  <2>1. PICK n \in Conn : Ensure(n)
    BY DEF Write, Tell
  <2> QED
    BY <2>1, EnsureFacts
<1>3. ASSUME NEW m \in Conn, NEW r \in Pane, NEW other \in Kind
      PROVE  Asked(m, r, other)' = Asked(m, r, other)
  <2>1. CASE toDaemon' = toDaemon
    BY <2>1, SameAsked
  <2>2. CASE toDaemon' # toDaemon
    <3>1. PICK p \in Pane, kind \in {"detach", "kill"} : Tell(p, kind)
      BY <2>2 DEF Write
    <3>2. PICK x \in Request : x = Msg(kind, p)
      BY MsgFacts
    <3>3. PICK n \in Conn : toDaemon' = Post(toDaemon, n, x)
      BY <2>2, <3>1, <3>2 DEF Tell, Post
    <3>4. x # Msg(other, r)
      BY <3>2, CountNot
    <3>5. /\ Asked(m, r, other) \in Nat
          /\ Asked(m, r, other)' =
               Asked(m, r, other) + IF m = n /\ x = Msg(other, r) THEN 1 ELSE 0
      BY <1>0, <3>3, AskedPosted
    <3> QED
      BY ONLY <3>4, <3>5
  <2> QED
    BY <2>1, <2>2
<1> QED
  BY <1>1, <1>2, <1>3, SameQueued, SameTold, Quiet

\* Nor is an Exit.
LEMMA ShellsEven ==
  ASSUME ClientInv, RoomForWaiters, RepliesAligned, NEW q \in Pane,
         DyingEnds(q) \/ ShellEnds(q) \/ Reap(q)
  PROVE  RepliesAligned'
<1>0. ClientTypeOK
  BY DEF ClientInv
<1>1. UNCHANGED <<link, waiters, pc, via, toDaemon>>
  BY DEF DyingEnds, ShellEnds, Reap, callVars
<1>2. ASSUME NEW m \in Conn, NEW r \in Pane, NEW other \in Kind
      PROVE  Told(m, r, other)' = Told(m, r, other)
  <2>1. PICK x \in Answer : x = Msg("exit", q)
    BY MsgFacts
  <2>2. PICK s \in Seq(Answer) : s = toApp[m]
    BY <1>0 DEF ClientTypeOK
  <2>3. PICK y : y = Msg(other, r) /\ y # x
    BY <2>1, CountNot
  <2>4. toApp'[m] = Append(s, x) \/ toApp'[m] = s
    BY <2>1, <2>2 DEF DyingEnds, ShellEnds, Reap, TellExit
  <2>5. Count(s, y) \in Nat /\ Count(Append(s, x), y) = Count(s, y)
    BY <2>3, CountAppended
  <2>6. Told(m, r, other)' = Cardinality({i \in DOMAIN toApp'[m] : toApp'[m][i] = y})
    BY <2>3 DEF Told, Count
  <2>7. Told(m, r, other) = Count(s, y)
    BY <2>2, <2>3 DEF Told
  <2>8. Told(m, r, other)' = Count(Append(s, x), y) \/ Told(m, r, other)' = Count(s, y)
    BY ONLY <2>4, <2>6 DEF Count
  <2> QED
    BY ONLY <2>5, <2>7, <2>8
<1> QED
  BY <1>1, <1>2, SameQueued, SameAsked, Quiet

(***************************************************************************)
(* Every step of the panes is one of the client.                           *)
(***************************************************************************)
Stirs(calls) ==
  /\ \A k \in calls : pc[k] = "idle"
  /\ pc' = [k \in Call |-> IF k \in calls THEN "called" ELSE pc[k]]
  /\ UNCHANGED <<cur, link, routes, waiters, via, got, toDaemon, toApp, daemonVars>>

Nudged(k) ==
  /\ pc[k] = "nudge" /\ Ends(k)
  /\ UNCHANGED <<cur, link, routes, waiters, toDaemon, toApp, daemonVars>>

Still == UNCHANGED <<cur, link, routes, waiters, pc, via, got, toDaemon, toApp,
                     shell, subs, dying>>

ClientStep ==
  \/ \E k \in Call : \/ Enter(k) \/ Send(k) \/ SendFails(k) \/ GiveUp(k)
                     \/ Return(k) \/ Nudged(k)
  \/ \E calls \in SUBSET Call : Stirs(calls)
  \/ Write \/ \E p \in Pane, kind \in {"detach", "kill"} : Tell(p, kind)
  \/ \E p \in Pane : DyingEnds(p) \/ ShellEnds(p) \/ Reap(p)
  \/ \E n \in Conn : Serve(n) \/ Reads(n) \/ ReaderEnds(n)
  \/ DaemonDies
  \/ Still

LEMMA NudgeIsNudged ==
  \A k : Nudge(k) \/ NudgeFails(k) \/ Skips(k) => Nudged(k)
BY DEF Nudge, NudgeFails, Skips, Nudged

LEMMA PaneStep ==
  ASSUME ClientInv, NEW p \in Pane,
         \/ Open(p) \/ Opened(p) \/ FallsBack(p) \/ Commands(p)
         \/ Close(p) \/ KillSession(p) \/ Exited(p) \/ LocalEnds(p)
         \/ KeyStroke(p) \/ Shells(p)
  PROVE  ClientStep
<1>0. pc \in [Call -> {"idle", "called", "send", "wait", "nudge"}]
  BY DEF ClientInv, ClientTypeOK
<1>1. PICK o \in Call : o = Opening(p)
  BY CallFacts
<1>2. UNCHANGED clientVars => Still
  BY DEF clientVars, callVars, daemonVars, Still
<1>3. ASSUME NEW k \in Call, Invoke(k),
             UNCHANGED <<cur, link, routes, waiters, via, got, toDaemon, toApp, daemonVars>>
      PROVE  ClientStep
  <2>1. Stirs({k})
    <3>1. pc[k] = "idle" /\ pc' = [pc EXCEPT ![k] = "called"]
      BY <1>3 DEF Invoke
    <3>2. pc' = [j \in Call |-> IF j \in {k} THEN "called" ELSE pc[j]]
      BY <1>0, <3>1
    <3> QED
      BY <1>3, <3>1, <3>2 DEF Stirs
  <2> QED
    BY <2>1 DEF ClientStep
<1>4. CASE Open(p)
  BY <1>1, <1>3, <1>4 DEF Open
<1>5. CASE Opened(p) \/ FallsBack(p)
  BY <1>1, <1>5, NudgeIsNudged DEF Opened, FallsBack, ClientStep
<1>6. CASE Commands(p)
  <2>1. UNCHANGED <<cur, link, routes, waiters, via, got, toDaemon, toApp, daemonVars>>
    BY <1>6 DEF Commands
  <2>2. CASE Reconnect(p)
    <3>1. PICK calls \in SUBSET Call :
            /\ \A k \in calls : pc[k] = "idle"
            /\ pc' = [k \in Call |-> IF k \in calls THEN "called" ELSE pc[k]]
      BY <2>2, ReconnectsFacts DEF Reconnect
    <3> QED
      BY <2>1, <3>1 DEF Stirs, ClientStep
  <2>3. CASE Probe(p)
    <3>1. PICK a \in Ask : Invoke(<<p, a>>)
      BY <2>3 DEF Probe
    <3>2. PICK k \in Call : k = <<p, a>>
      BY CallFacts
    <3> QED
      BY <1>3, <2>1, <3>1, <3>2
  <2> QED
    BY <1>6, <2>2, <2>3 DEF Commands
<1>7. CASE Close(p) \/ KillSession(p) \/ Exited(p) \/ LocalEnds(p)
  <2>1. Dispose(p) \/ Tell(p, "kill") \/ KillLocal(p) \/ UNCHANGED clientVars
    BY <1>7 DEF Close, KillSession, Exited, LocalEnds
  <2>2. \/ \E kind \in {"detach", "kill"} : Tell(p, kind)
        \/ UNCHANGED clientVars
    BY <2>1 DEF Dispose, KillLocal
  <2> QED
    BY <1>2, <2>2 DEF ClientStep
<1>8. CASE KeyStroke(p) \/ Shells(p)
  BY <1>8 DEF KeyStroke, Shells, ClientStep
<1> QED
  BY <1>4, <1>5, <1>6, <1>7, <1>8

LEMMA AnyStep ==
  ASSUME ClientInv, [Next]_vars
  PROVE  ClientStep
<1>1. CASE UNCHANGED vars
  BY <1>1 DEF vars, clientVars, callVars, daemonVars, ClientStep, Still
<1>2. ASSUME NEW p \in Pane,
             \/ Open(p) \/ Opened(p) \/ FallsBack(p) \/ Commands(p)
             \/ Close(p) \/ KillSession(p) \/ Exited(p) \/ LocalEnds(p)
             \/ KeyStroke(p) \/ Shells(p)
      PROVE  ClientStep
  BY <1>2, PaneStep
<1>3. ASSUME NEW k \in Call, CallRuns(k)
      PROVE  ClientStep
  BY <1>3, NudgeIsNudged DEF CallRuns, Returns, CallEnds, ClientStep
<1>4. ASSUME NEW n \in Conn, Daemon(n) \/ Arrives(n) \/ Lost(n)
      PROVE  ClientStep
  BY <1>4 DEF Daemon, Arrives, Lost, ClientStep
<1>5. CASE ConnectionLost
  <2>1. CASE UNCHANGED clientVars
    BY <2>1 DEF clientVars, callVars, daemonVars, ClientStep, Still
  <2>2. CASE /\ Reconnects(Pane \ Pinned)
             /\ UNCHANGED <<cur, link, routes, waiters, via, got, toDaemon, toApp, daemonVars>>
    <3>1. PICK calls \in SUBSET Call :
            /\ \A k \in calls : pc[k] = "idle"
            /\ pc' = [k \in Call |-> IF k \in calls THEN "called" ELSE pc[k]]
      BY <2>2, ReconnectsFacts
    <3> QED
      BY <2>2, <3>1 DEF Stirs, ClientStep
  <2> QED
    BY <1>5, <2>1, <2>2 DEF ConnectionLost
<1>6. CASE WindowPasses
  BY <1>6 DEF WindowPasses, clientVars, callVars, daemonVars, ClientStep, Still
<1>7. CASE DaemonLost
  BY <1>7 DEF DaemonLost, ClientStep
<1> QED
  BY <1>1, <1>2, <1>3, <1>4, <1>5, <1>6, <1>7 DEF Next

\* The steps keep the invariant of the client and the accounts.
LEMMA StepKeepsClient ==
  ASSUME ClientInv, RoomForWaiters, ClientStep
  PROVE  ClientInv'
<1>1. ASSUME NEW k \in Call, Enter(k) \/ Send(k) \/ SendFails(k) \/ GiveUp(k)
                               \/ Return(k) \/ Nudged(k)
      PROVE  ClientInv'
  BY <1>1, EnterKeeps, SendKeeps, SendFailsKeeps, GiveUpKeeps, ReturnKeeps, NudgeKeeps
     DEF Nudged
<1>2. ASSUME NEW calls \in SUBSET Call, Stirs(calls)
      PROVE  ClientInv'
  BY <1>2, InvokeKeeps DEF Stirs
<1>3. CASE Write \/ \E p \in Pane, kind \in {"detach", "kill"} : Tell(p, kind)
  BY <1>3, WriteKeeps, TellKeeps
<1>4. ASSUME NEW p \in Pane, DyingEnds(p) \/ ShellEnds(p) \/ Reap(p)
      PROVE  ClientInv'
  BY <1>4, ShellsKeep
<1>5. ASSUME NEW n \in Conn, Serve(n) \/ Reads(n) \/ ReaderEnds(n)
      PROVE  ClientInv'
  BY <1>5, ServeKeeps, ReadsKeeps, ReaderEndsKeeps
<1>6. CASE DaemonDies \/ Still
  BY <1>6, DaemonDiesKeeps, StillClient DEF Still
<1> QED
  BY <1>1, <1>2, <1>3, <1>4, <1>5, <1>6 DEF ClientStep

\* The steps that are on no account.
LEMMA QuietSteps ==
  ASSUME ClientInv, RoomForWaiters, RepliesAligned,
         \/ \E k \in Call : Return(k) \/ Nudged(k)
         \/ \E calls \in SUBSET Call : Stirs(calls)
         \/ \E n \in Conn : ReaderEnds(n)
         \/ DaemonDies
         \/ Still
  PROVE  RepliesAligned'
<1>0. ClientTypeOK
  BY DEF ClientInv
<1>1. \A n \in Conn : link'[n] = "up" =>
        /\ link[n] = "up" /\ toDaemon'[n] = toDaemon[n] /\ toApp'[n] = toApp[n]
        /\ waiters'[n] = waiters[n]
  <2>1. CASE UNCHANGED <<link, waiters, toDaemon, toApp>>
    BY <2>1
  <2>2. ASSUME NEW n \in Conn, ReaderEnds(n)
        PROVE  <1>1!:
    BY <1>0, <2>2 DEF ReaderEnds, ClientTypeOK
  <2>3. CASE DaemonDies
    BY <1>0, <2>3 DEF DaemonDies, ClientTypeOK
  <2> QED
    BY <2>1, <2>2, <2>3 DEF Return, Nudged, Stirs, Still
<1>2. \A n \in Conn, k \in Call :
        via'[k] = n /\ pc'[k] = "send" <=> via[k] = n /\ pc[k] = "send"
  <2>1. ASSUME NEW k \in Call, Return(k) \/ Nudged(k)
        PROVE  <1>2!:
    <3>1. PICK state : pc' = [pc EXCEPT ![k] = state] /\ state # "send"
      BY <2>1 DEF Return, Nudged, Ends
    <3>2. via' = [via EXCEPT ![k] = 0] /\ pc[k] # "send"
      BY <2>1 DEF Return, Nudged, Ends
    <3> QED
      BY <1>0, <3>1, <3>2 DEF ClientTypeOK
  <2>2. ASSUME NEW calls \in SUBSET Call, Stirs(calls)
        PROVE  <1>2!:
    BY <2>2 DEF Stirs
  <2>3. CASE UNCHANGED <<pc, via>>
    BY <2>3
  <2> QED
    BY <2>1, <2>2, <2>3 DEF ReaderEnds, DaemonDies, Still, callVars
<1>3. ASSUME NEW n \in Conn, NEW p \in Pane, NEW kind \in Kind, link'[n] = "up"
      PROVE  /\ Queued(n, p, kind)' = Queued(n, p, kind)
             /\ Asked(n, p, kind)' = Asked(n, p, kind)
             /\ Told(n, p, kind)' = Told(n, p, kind)
  BY <1>1, <1>3, SameQueued, SameAsked, SameTold
<1> QED
  BY <1>1, <1>2, <1>3, Quiet

LEMMA StepKeepsReplies ==
  ASSUME ClientInv, RoomForWaiters, RepliesAligned, ClientStep
  PROVE  RepliesAligned'
<1>1. ASSUME NEW k \in Call, Enter(k) \/ Send(k) \/ SendFails(k) \/ GiveUp(k)
      PROVE  RepliesAligned'
  BY <1>1, EnterEven, SendEven, FailEven
<1>2. CASE Write \/ \E p \in Pane, kind \in {"detach", "kill"} : Tell(p, kind)
  BY <1>2, TellEven
<1>3. ASSUME NEW p \in Pane, DyingEnds(p) \/ ShellEnds(p) \/ Reap(p)
      PROVE  RepliesAligned'
  BY <1>3, ShellsEven
<1>4. ASSUME NEW n \in Conn, Serve(n) \/ Reads(n)
      PROVE  RepliesAligned'
  BY <1>4, ServeEven, ReadsEven
<1> QED
  BY <1>1, <1>2, <1>3, <1>4, QuietSteps DEF ClientStep

LEMMA RepliesInitially ==
  Init => ClientInv /\ RepliesAligned
<1> SUFFICES ASSUME Init
             PROVE  ClientInv /\ RepliesAligned
  OBVIOUS
<1>1. ClientInv
  BY LinkInitially DEF LinkInv
<1>2. \A n \in Conn : link[n] = "unused"
  BY DEF Init, ClientInit
<1> QED
  BY <1>1, <1>2 DEF RepliesAligned

\* On a live link the queue of an id holds one entry for every reply that is still to
\* come, whatever times out, fails, dies or is told in between: no reply reaches a
\* later call than the one it is for.  The limit on the waiters must be out of reach: at
\* the limit the oldest waiter, whose reply is still to come, makes room for the newest.
THEOREM RepliesStayAligned ==
  RoomForWaiters => (Spec => []RepliesAligned)
<1> SUFFICES ASSUME RoomForWaiters
             PROVE  Spec => []RepliesAligned
  OBVIOUS
<1>1. ClientInv /\ RepliesAligned /\ [Next]_vars => (ClientInv /\ RepliesAligned)'
  <2> SUFFICES ASSUME ClientInv, RepliesAligned, [Next]_vars
               PROVE  ClientInv' /\ RepliesAligned'
    OBVIOUS
  <2>1. ClientStep
    BY AnyStep
  <2> QED
    BY <2>1, StepKeepsClient, StepKeepsReplies
<1> QED
  BY <1>1, RepliesInitially, PTL DEF Spec

===============================================================================

--------------------------- MODULE MuxStream_proofs ---------------------------
(***************************************************************************)
(* Proofs about MuxStream, for every number of clients, queue length, flush*)
(* limit and amount of output, as long as a pane attaches at most once per *)
(* connection: the run `stream_reconnect` shows what a second attach does. *)
(***************************************************************************)
EXTENDS MuxStream, WellFoundedInduction, SequenceTheorems, TLAPS

Message ==
  [kind : {"snapshot", "output", "modes", "state", "exit", "reply"}, at : Nat]

\* What the pane shows changes with these.
Payload(m) == m.kind \in {"snapshot", "output"}

Silent(q) == \A k \in 1..Len(q) : ~Payload(q[k])

(***************************************************************************)
(* Replaying a queue.  The fold of Drained is followed by a witness: what  *)
(* the pane shows after each message, never more than it shows at the end. *)
(***************************************************************************)
Replays(v, q, w) ==
  \E f \in [0..Len(q) -> 0..w] :
    /\ f[0] = v /\ f[Len(q)] = w
    /\ \A k \in 1..Len(q) : f[k] = Shown(f[k - 1], q[k])

\* Every set of numbers has a least one (there is no induction over an operator
\* here, so a counterexample of least length takes its place).
LEMMA LeastOne ==
  ASSUME NEW T \in SUBSET Nat, T # {}
  PROVE  \E x \in T : \A y \in T : x <= y
<1> DEFINE R == OpToRel(<, Nat)
<1>1. PICK x \in T : \A y \in T : ~ (<<y, x>> \in R)
  <2>1. IsWellFoundedOn(R, Nat)
    BY NatLessThanWellFounded
  <2> HIDE DEF R
  <2> QED
    BY <2>1, WFMin
<1>2. \A y \in T : ~ (y < x)
  BY <1>1 DEF OpToRel
<1> QED
  BY <1>2

IsReplay(f, v, q) ==
  f = [k \in 0..Len(q) |-> IF k = 0 THEN v ELSE Shown(f[k - 1], q[k])]

LEMMA OneReplay ==
  ASSUME NEW v, NEW q \in Seq(Message), NEW f, NEW g, IsReplay(f, v, q), IsReplay(g, v, q)
  PROVE  f = g
<1> DEFINE T == {k \in 0..Len(q) : f[k] # g[k]}
<1>1. ASSUME T # {} PROVE FALSE
  <2>1. PICK x \in T : \A y \in T : x <= y
    <3>1. T \in SUBSET Nat
      OBVIOUS
    <3> QED
      BY <1>1, <3>1, LeastOne
  <2>2. x # 0
    BY DEF IsReplay
  <2>3. x - 1 \in 0..Len(q) /\ x - 1 \notin T
    BY <2>1, <2>2
  <2> QED
    BY <2>2, <2>3 DEF IsReplay
<1>2. \A k \in 0..Len(q) : f[k] = g[k]
  BY <1>1
<1> QED
  BY <1>2, Zenon DEF IsReplay

\* A replay ends where Drained says.
LEMMA ReplayIsDrained ==
  ASSUME NEW v, NEW w, NEW q \in Seq(Message), Replays(v, q, w)
  PROVE  Drained(v, q) = w
<1> DEFINE g == CHOOSE f : IsReplay(f, v, q)
<1>1. PICK f \in [0..Len(q) -> 0..w] :
        /\ f[0] = v /\ f[Len(q)] = w
        /\ \A k \in 1..Len(q) : f[k] = Shown(f[k - 1], q[k])
  BY DEF Replays
<1>2. IsReplay(f, v, q)
  <2>1. \A k \in 0..Len(q) : f[k] = IF k = 0 THEN v ELSE Shown(f[k - 1], q[k])
    BY <1>1
  <2> QED
    BY <2>1, Zenon DEF IsReplay
<1>3. IsReplay(g, v, q)
  BY <1>2
<1>4. g = f
  BY <1>2, <1>3, OneReplay
<1>5. Drained(v, q) = g[Len(q)]
  BY DEF Drained, IsReplay
<1> QED
  BY <1>1, <1>4, <1>5

LEMMA ReplayNothing ==
  ASSUME NEW v \in Nat
  PROVE  /\ Replays(v, <<>>, v)
         /\ \A w : Replays(v, <<>>, w) => w = v
<1> DEFINE f == [k \in 0..0 |-> v]
<1>1. f \in [0..0 -> 0..v] /\ f[0] = v
  OBVIOUS
<1>2. Len(<<>>) = 0 /\ 1..0 = {}
  OBVIOUS
<1>3. Replays(v, <<>>, v)
  <2> HIDE DEF f
  <2> QED
    BY <1>1, <1>2 DEF Replays
<1> QED
  BY <1>2, <1>3 DEF Replays

\* A message goes to the end of a queue ...
LEMMA ReplayAppend ==
  ASSUME NEW v \in Nat, NEW w \in Nat, NEW q \in Seq(Message), NEW m \in Message,
         Replays(v, q, w), Shown(w, m) \in Nat, w <= Shown(w, m)
  PROVE  Replays(v, Append(q, m), Shown(w, m))
<1>1. PICK f \in [0..Len(q) -> 0..w] :
        /\ f[0] = v /\ f[Len(q)] = w
        /\ \A k \in 1..Len(q) : f[k] = Shown(f[k - 1], q[k])
  BY DEF Replays
<1> DEFINE x == Shown(w, m)
           n == Len(q) + 1
           g == [k \in 0..n |-> IF k = n THEN x ELSE f[k]]
<1>2. Len(q) \in Nat /\ Len(Append(q, m)) = n
  OBVIOUS
<1>3. g \in [0..n -> 0..x]
  <2>1. ASSUME NEW k \in 0..n PROVE g[k] \in 0..x
    BY <1>2
  <2> QED
    BY <2>1
<1>4. g[0] = v /\ g[n] = x
  BY <1>1, <1>2
<1>5. ASSUME NEW k \in 1..n
      PROVE  g[k] = Shown(g[k - 1], Append(q, m)[k])
  <2>1. CASE k = n
    <3>1. Append(q, m)[k] = m /\ g[k - 1] = w /\ g[k] = Shown(w, m)
      BY <1>1, <1>2, <2>1
    <3> QED
      BY <3>1
  <2>2. CASE k # n
    <3>1. k \in 1..Len(q) /\ Append(q, m)[k] = q[k] /\ g[k] = f[k] /\ g[k - 1] = f[k - 1]
      BY <1>2, <2>2
    <3> QED
      BY <1>1, <3>1
  <2> QED
    BY <2>1, <2>2
<1> HIDE DEF g, x
<1> QED
  BY <1>2, <1>3, <1>4, <1>5 DEF Replays, x

\* ... and leaves it at its head.
LEMMA ReplayHead ==
  ASSUME NEW v \in Nat, NEW w \in Nat, NEW q \in Seq(Message), q # <<>>, Replays(v, q, w)
  PROVE  /\ Shown(v, Head(q)) \in 0..w
         /\ Replays(Shown(v, Head(q)), Tail(q), w)
<1>1. PICK f \in [0..Len(q) -> 0..w] :
        /\ f[0] = v /\ f[Len(q)] = w
        /\ \A k \in 1..Len(q) : f[k] = Shown(f[k - 1], q[k])
  BY DEF Replays
<1> DEFINE n == Len(q) - 1
           g == [k \in 0..n |-> f[k + 1]]
<1>2. n \in Nat /\ Len(Tail(q)) = n /\ Head(q) = q[1]
  OBVIOUS
<1>3. f[1] = Shown(v, Head(q)) /\ f[1] \in 0..w
  BY <1>1, <1>2
<1>4. g \in [0..n -> 0..w] /\ g[0] = f[1] /\ g[n] = w
  BY <1>1, <1>2
<1>5. ASSUME NEW k \in 1..n
      PROVE  g[k] = Shown(g[k - 1], Tail(q)[k])
  <2>1. k + 1 \in 1..Len(q) /\ Tail(q)[k] = q[k + 1] /\ g[k] = f[k + 1] /\ g[k - 1] = f[k]
    BY <1>2
  <2> QED
    BY <1>1, <2>1
<1> HIDE DEF g
<1> QED
  BY <1>2, <1>3, <1>4, <1>5 DEF Replays

\* Two queues one after the other.
LEMMA ReplayConcat ==
  ASSUME NEW u \in Nat, NEW v \in Nat, NEW w \in Nat,
         NEW p \in Seq(Message), NEW q \in Seq(Message),
         Replays(u, p, v), Replays(v, q, w)
  PROVE  Replays(u, p \o q, w)
<1>1. PICK f \in [0..Len(p) -> 0..v] :
        /\ f[0] = u /\ f[Len(p)] = v
        /\ \A k \in 1..Len(p) : f[k] = Shown(f[k - 1], p[k])
  BY DEF Replays
<1>2. PICK g \in [0..Len(q) -> 0..w] :
        /\ g[0] = v /\ g[Len(q)] = w
        /\ \A k \in 1..Len(q) : g[k] = Shown(g[k - 1], q[k])
  BY DEF Replays
<1> DEFINE n == Len(p) + Len(q)
           h == [k \in 0..n |-> IF k <= Len(p) THEN f[k] ELSE g[k - Len(p)]]
<1>3. Len(p) \in Nat /\ Len(q) \in Nat /\ Len(p \o q) = n
  OBVIOUS
<1>4. v \in 0..w
  BY <1>2, <1>3
<1>5. h \in [0..n -> 0..w]
  <2>1. ASSUME NEW k \in 0..n PROVE h[k] \in 0..w
    <3>1. CASE k <= Len(p)
      BY <1>3, <1>4, <3>1
    <3>2. CASE ~(k <= Len(p))
      <4>1. k - Len(p) \in 0..Len(q) /\ h[k] = g[k - Len(p)]
        BY <1>3, <3>2
      <4> QED
        BY <4>1
    <3> QED
      BY <3>1, <3>2
  <2> QED
    BY <2>1
<1>6. h[0] = u /\ h[n] = w
  BY <1>1, <1>2, <1>3
<1>7. ASSUME NEW k \in 1..n
      PROVE  h[k] = Shown(h[k - 1], (p \o q)[k])
  <2>1. CASE k <= Len(p)
    <3>1. k \in 1..Len(p) /\ (p \o q)[k] = p[k] /\ h[k] = f[k] /\ h[k - 1] = f[k - 1]
      BY <1>3, <2>1
    <3> QED
      BY <1>1, <3>1
  <2>2. CASE ~(k <= Len(p))
    <3>1. /\ k - Len(p) \in 1..Len(q) /\ (p \o q)[k] = q[k - Len(p)]
          /\ h[k] = g[k - Len(p)]
      BY <1>3, <2>2
    <3>2. h[k - 1] = g[(k - Len(p)) - 1]
      <4>1. CASE k - 1 = Len(p)
        <5>1. h[k - 1] = f[Len(p)] /\ (k - Len(p)) - 1 = 0
          BY <1>3, <4>1
        <5> QED
          BY <1>1, <1>2, <5>1
      <4>2. CASE k - 1 # Len(p)
        <5>1. ~(k - 1 <= Len(p)) /\ k - 1 \in 0..n /\ (k - 1) - Len(p) = (k - Len(p)) - 1
          BY <1>3, <2>2, <4>2
        <5> QED
          BY <5>1
      <4> QED
        BY <4>1, <4>2
    <3> QED
      BY <1>2, <3>1, <3>2
  <2> QED
    BY <2>1, <2>2
<1> HIDE DEF h
<1> QED
  BY <1>3, <1>5, <1>6, <1>7 DEF Replays

\* Nothing happens to the view while only other messages go by.
LEMMA ReplaySilence ==
  ASSUME NEW v \in Nat, NEW q \in Seq(Message), Silent(q)
  PROVE  Replays(v, q, v)
<1> DEFINE f == [k \in 0..Len(q) |-> v]
<1>1. f \in [0..Len(q) -> 0..v] /\ f[0] = v /\ f[Len(q)] = v
  OBVIOUS
<1>2. ASSUME NEW k \in 1..Len(q)
      PROVE  f[k] = Shown(f[k - 1], q[k])
  BY DEF Silent, Payload, Shown
<1> HIDE DEF f
<1> QED
  BY <1>1, <1>2 DEF Replays

(***************************************************************************)
(* What a pane holds back and then what its queue holds lead it to w.      *)
(***************************************************************************)
Reaches(v, p, q, w) == \E mid \in 0..w : Replays(v, p, mid) /\ Replays(mid, q, w)

LEMMA ReachesIsDrained ==
  ASSUME NEW v \in Nat, NEW p \in Seq(Message), NEW q \in Seq(Message),
         NEW w \in Nat, Reaches(v, p, q, w)
  PROVE  Drained(v, p \o q) = w
<1>1. PICK mid \in 0..w : Replays(v, p, mid) /\ Replays(mid, q, w)
  BY DEF Reaches
<1>2. Replays(v, p \o q, w)
  BY <1>1, ReplayConcat
<1>3. p \o q \in Seq(Message)
  OBVIOUS
<1> QED
  BY <1>2, <1>3, ReplayIsDrained

\* A new unit of output in the queue.
LEMMA ReachesOutput ==
  ASSUME NEW v \in Nat, NEW p \in Seq(Message), NEW q \in Seq(Message), NEW w \in Nat,
         NEW m \in Message, m.kind = "output", m.at = w + 1, Reaches(v, p, q, w)
  PROVE  Reaches(v, p, Append(q, m), w + 1)
<1>1. PICK mid \in 0..w : Replays(v, p, mid) /\ Replays(mid, q, w)
  BY DEF Reaches
<1>2. Shown(w, m) = w + 1
  BY StreamConstantsOk DEF Shown
<1>3. Replays(mid, Append(q, m), w + 1)
  BY <1>1, <1>2, ReplayAppend
<1> QED
  BY <1>1, <1>3 DEF Reaches

\* Any other message changes nothing.
LEMMA ReachesOther ==
  ASSUME NEW v \in Nat, NEW p \in Seq(Message), NEW q \in Seq(Message), NEW w \in Nat,
         NEW m \in Message, ~Payload(m), Reaches(v, p, q, w)
  PROVE  Reaches(v, p, Append(q, m), w)
<1>1. PICK mid \in 0..w : Replays(v, p, mid) /\ Replays(mid, q, w)
  BY DEF Reaches
<1>2. Shown(w, m) = w
  BY DEF Payload, Shown
<1>3. Replays(mid, Append(q, m), w)
  BY <1>1, <1>2, ReplayAppend
<1> QED
  BY <1>1, <1>3 DEF Reaches

\* What the next message may do to a view: nothing, a replay, or one more unit.
NextView(v, x, w) ==
  \/ x = v
  \/ v = 0 /\ x \in 1..w
  \/ x = v + 1 /\ v < w

LEMMA StepOfReplay ==
  ASSUME NEW v \in Nat, NEW q \in Seq(Message), NEW w \in Nat, q # <<>>,
         Replays(v, q, w)
  PROVE  NextView(v, Shown(v, Head(q)), w)
<1>1. Shown(v, Head(q)) \in 0..w
  BY ReplayHead
<1>2. Head(q) \in Message
  OBVIOUS
<1> QED
  BY <1>1, <1>2, StreamConstantsOk DEF Shown, Message, NextView

\* Delivery: to the view of a pane that holds nothing back ...
LEMMA ReachesShown ==
  ASSUME NEW v \in Nat, NEW q \in Seq(Message), NEW w \in Nat, q # <<>>,
         Reaches(v, <<>>, q, w)
  PROVE  /\ Shown(v, Head(q)) \in Nat
         /\ Reaches(Shown(v, Head(q)), <<>>, Tail(q), w)
         /\ NextView(v, Shown(v, Head(q)), w)
<1>1. Replays(v, q, w)
  BY ReplayNothing DEF Reaches
<1>2. Shown(v, Head(q)) \in 0..w /\ Replays(Shown(v, Head(q)), Tail(q), w)
  BY <1>1, ReplayHead
<1>3. Replays(Shown(v, Head(q)), <<>>, Shown(v, Head(q)))
  BY <1>2, ReplayNothing
<1>4. Reaches(Shown(v, Head(q)), <<>>, Tail(q), w)
  BY <1>2, <1>3 DEF Reaches
<1> QED
  BY <1>1, <1>2, <1>4, StepOfReplay

\* ... past it, when it shows nothing, ...
LEMMA ReachesPassed ==
  ASSUME NEW v \in Nat, NEW p \in Seq(Message), NEW q \in Seq(Message), NEW w \in Nat,
         q # <<>>, ~Payload(Head(q)), Reaches(v, p, q, w)
  PROVE  Reaches(v, p, Tail(q), w)
<1>1. PICK mid \in 0..w : Replays(v, p, mid) /\ Replays(mid, q, w)
  BY DEF Reaches
<1>2. Shown(mid, Head(q)) = mid
  BY DEF Payload, Shown
<1>3. Replays(mid, Tail(q), w)
  BY <1>1, <1>2, ReplayHead
<1> QED
  BY <1>1, <1>3 DEF Reaches

\* ... or to the end of what a hidden pane holds back, ...
LEMMA ReachesHeld ==
  ASSUME NEW v \in Nat, NEW p \in Seq(Message), NEW q \in Seq(Message), NEW w \in Nat,
         q # <<>>, Reaches(v, p, q, w)
  PROVE  Reaches(v, Append(p, Head(q)), Tail(q), w)
<1>1. PICK mid \in 0..w : Replays(v, p, mid) /\ Replays(mid, q, w)
  BY DEF Reaches
<1> DEFINE x == Shown(mid, Head(q))
<1>2. x \in 0..w /\ Replays(x, Tail(q), w)
  BY <1>1, ReplayHead
<1>3. mid <= x
  BY <1>1, <1>2, StepOfReplay DEF NextView
<1>4. Head(q) \in Message
  OBVIOUS
<1>5. Replays(v, Append(p, Head(q)), x)
  BY <1>1, <1>2, <1>3, <1>4, ReplayAppend
<1> QED
  BY <1>1, <1>2, <1>5 DEF Reaches

\* ... which drainPending writes out in order.
LEMMA ReachesDrains ==
  ASSUME NEW v \in Nat, NEW p \in Seq(Message), NEW q \in Seq(Message), NEW w \in Nat,
         p # <<>>, Reaches(v, p, q, w)
  PROVE  /\ Shown(v, Head(p)) \in Nat
         /\ Reaches(Shown(v, Head(p)), Tail(p), q, w)
         /\ NextView(v, Shown(v, Head(p)), w)
<1>1. PICK mid \in 0..w : Replays(v, p, mid) /\ Replays(mid, q, w)
  BY DEF Reaches
<1>2. Shown(v, Head(p)) \in 0..mid /\ Replays(Shown(v, Head(p)), Tail(p), mid)
  BY <1>1, ReplayHead
<1>3. NextView(v, Shown(v, Head(p)), w)
  BY <1>1, StepOfReplay DEF NextView
<1> QED
  BY <1>1, <1>2, <1>3 DEF Reaches

\* A pane that starts over with nothing on its way shows nothing in the end.
LEMMA ReachesNothing ==
  ASSUME NEW q \in Seq(Message), Silent(q)
  PROVE  Reaches(0, <<>>, q, 0)
BY ReplaySilence, ReplayNothing DEF Reaches

(***************************************************************************)
(* The inductive invariant.                                                *)
(***************************************************************************)
StreamTypeOK ==
  /\ ring \in Nat /\ alive \in BOOLEAN
  /\ subs \in [Client -> {0, 1}]
  /\ queue \in [Client -> Seq(Message)]
  /\ writer \in [Client -> BOOLEAN]
  /\ handler \in [Client -> {"idle", "reply", "gone"}]
  /\ asked \in [Client -> BOOLEAN]
  /\ attaches \in [Client -> {0, 1}]
  /\ view \in [Client -> Nat]
  /\ visible \in [Client -> BOOLEAN]
  /\ pending \in [Client -> Seq(Message)]
  /\ draining \in [Client -> BOOLEAN]

\* A queue never holds more than its capacity, and nothing without its writer.
QueueFits(c) ==
  /\ Len(queue[c]) <= QueueCap
  /\ ~writer[c] => queue[c] = <<>>
  /\ handler[c] = "gone" => ~writer[c] /\ subs[c] = 0

\* The pane of a connection attaches once: until the daemon has answered nothing
\* that it would show is on its way.
AttachOnce(c) ==
  /\ attaches[c] = 0 => subs[c] = 0 /\ ~asked[c]
  /\ asked[c] => subs[c] = 0 /\ view[c] = 0 /\ pending[c] = <<>>
  /\ attaches[c] = 0 \/ asked[c] => Silent(queue[c])

\* Only a hidden pane holds something back, or one that is writing it out.
HoldsBack(c) ==
  /\ draining[c] => pending[c] # <<>>
  /\ pending[c] # <<>> => draining[c] \/ ~visible[c]

\* It is led to a point the session has reached, and to the very end while it has
\* a Sub.
CaughtUp(c) ==
  /\ \E w \in 0..ring : Reaches(view[c], pending[c], queue[c], w)
  /\ subs[c] > 0 /\ writer[c] => Reaches(view[c], pending[c], queue[c], ring)

StreamInv ==
  /\ StreamTypeOK
  /\ \A c \in Client : QueueFits(c) /\ AttachOnce(c) /\ HoldsBack(c) /\ CaughtUp(c)

LEMMA SilentAppend ==
  ASSUME NEW q \in Seq(Message), NEW m \in Message, Silent(q), ~Payload(m)
  PROVE  Silent(Append(q, m))
BY DEF Silent

(***************************************************************************)
(* broadcast                                                               *)
(***************************************************************************)
\* A message reaches the end of the queue of a pane, or the pane loses its Sub.
LEMMA FanReaches ==
  ASSUME NEW st, NEW m \in Message, NEW c \in Client, writer[c] \in BOOLEAN,
         st.subs[c] \in {0, 1}, st.queue[c] \in Seq(Message),
         Len(st.queue[c]) <= QueueCap
  PROVE  \/ Fan(st, m).subs[c] = 0 /\ Fan(st, m).queue[c] = st.queue[c]
         \/ /\ Fan(st, m).subs[c] = 1 /\ st.subs[c] = 1 /\ writer[c]
            /\ Fan(st, m).queue[c] = Append(st.queue[c], m)
            /\ Len(Fan(st, m).queue[c]) <= QueueCap
<1> DEFINE q == st.queue[c]
           n == Sent(c, q, st.subs[c])
<1>1. Len(q) \in Nat /\ QueueCap \in Nat \ {0}
  BY StreamConstantsOk
<1>2. \/ n = 0
      \/ n = 1 /\ st.subs[c] = 1 /\ writer[c] /\ Len(q) + 1 <= QueueCap
  BY <1>1 DEF Sent, Lesser, Room
<1>3. /\ Fan(st, m).subs[c] = n
      /\ Fan(st, m).queue[c] = q \o [k \in 1..n |-> m]
  BY DEF Fan
<1>4. CASE n = 0
  <2>1. [k \in 1..n |-> m] = <<>>
    BY <1>4
  <2>2. q \o <<>> = q
    OBVIOUS
  <2> HIDE DEF n, q
  <2> QED
    BY <1>3, <1>4, <2>1, <2>2 DEF q
<1>5. CASE n = 1
  <2>1. [k \in 1..n |-> m] = <<m>>
    BY <1>5
  <2>2. q \o <<m>> = Append(q, m) /\ Len(Append(q, m)) = Len(q) + 1
    OBVIOUS
  <2> HIDE DEF n
  <2> QED
    BY <1>1, <1>2, <1>3, <1>5, <2>1, <2>2
<1> QED
  BY <1>2, <1>4, <1>5

\* The broadcasting session, and what is true of a pane at any point of it.
FanOk(st) ==
  /\ st.subs \in [Client -> {0, 1}]
  /\ st.queue \in [Client -> Seq(Message)]

PaneAt(c, st, upto) ==
  /\ Len(st.queue[c]) <= QueueCap
  /\ ~writer[c] => st.queue[c] = <<>>
  /\ handler[c] = "gone" => ~writer[c] /\ st.subs[c] = 0
  /\ attaches[c] = 0 \/ asked[c] => st.subs[c] = 0 /\ Silent(st.queue[c])
  /\ \E w \in 0..upto : Reaches(view[c], pending[c], st.queue[c], w)
  /\ st.subs[c] = 1 /\ writer[c] => Reaches(view[c], pending[c], st.queue[c], upto)

PanesAt(st, upto) == FanOk(st) /\ \A c \in Client : PaneAt(c, st, upto)

LEMMA FanStaysOk ==
  ASSUME StreamTypeOK, NEW st, NEW m \in Message, FanOk(st),
         \A c \in Client : Len(st.queue[c]) <= QueueCap
  PROVE  FanOk(Fan(st, m))
<1>1. ASSUME NEW c \in Client
      PROVE  Fan(st, m).subs[c] \in {0, 1} /\ Fan(st, m).queue[c] \in Seq(Message)
  <2>1. writer[c] \in BOOLEAN /\ st.subs[c] \in {0, 1} /\ st.queue[c] \in Seq(Message)
    BY DEF FanOk, StreamTypeOK
  <2>2. Append(st.queue[c], m) \in Seq(Message)
    BY <2>1
  <2>3. \/ Fan(st, m).subs[c] = 0 /\ Fan(st, m).queue[c] = st.queue[c]
        \/ Fan(st, m).subs[c] = 1 /\ Fan(st, m).queue[c] = Append(st.queue[c], m)
    BY <2>1, FanReaches
  <2> QED
    BY <2>1, <2>2, <2>3
<1>2. /\ Fan(st, m).subs = [c \in Client |-> Fan(st, m).subs[c]]
      /\ Fan(st, m).queue = [c \in Client |-> Fan(st, m).queue[c]]
  BY Zenon DEF Fan
<1> QED
  BY <1>1, <1>2 DEF FanOk

LEMMA FanOutput ==
  ASSUME StreamTypeOK, NEW st, NEW n \in Nat, PanesAt(st, n),
         NEW m \in Message, m.kind = "output", m.at = n + 1
  PROVE  PanesAt(Fan(st, m), n + 1)
<1>1. FanOk(Fan(st, m))
  BY FanStaysOk DEF PanesAt, PaneAt
<1>2. ASSUME NEW c \in Client
      PROVE  PaneAt(c, Fan(st, m), n + 1)
  <2>1. /\ writer[c] \in BOOLEAN /\ st.subs[c] \in {0, 1} /\ st.queue[c] \in Seq(Message)
        /\ view[c] \in Nat /\ pending[c] \in Seq(Message)
    BY DEF PanesAt, FanOk, StreamTypeOK
  <2>2. PaneAt(c, st, n)
    BY DEF PanesAt
  <2>3. CASE Fan(st, m).subs[c] = 0 /\ Fan(st, m).queue[c] = st.queue[c]
    BY <2>2, <2>3 DEF PaneAt
  <2>4. CASE /\ Fan(st, m).subs[c] = 1 /\ st.subs[c] = 1 /\ writer[c]
             /\ Fan(st, m).queue[c] = Append(st.queue[c], m)
             /\ Len(Fan(st, m).queue[c]) <= QueueCap
    <3>1. Reaches(view[c], pending[c], st.queue[c], n)
      BY <2>2, <2>4 DEF PaneAt
    <3>2. Reaches(view[c], pending[c], Append(st.queue[c], m), n + 1)
      BY <2>1, <3>1, ReachesOutput
    <3> QED
      BY <2>2, <2>4, <3>2 DEF PaneAt
  <2> QED
    BY <2>1, <2>2, <2>3, <2>4, FanReaches DEF PaneAt
<1> QED
  BY <1>1, <1>2 DEF PanesAt

LEMMA FanOther ==
  ASSUME StreamTypeOK, NEW st, NEW n \in Nat, PanesAt(st, n),
         NEW m \in Message, ~Payload(m)
  PROVE  PanesAt(Fan(st, m), n)
<1>1. FanOk(Fan(st, m))
  BY FanStaysOk DEF PanesAt, PaneAt
<1>2. ASSUME NEW c \in Client
      PROVE  PaneAt(c, Fan(st, m), n)
  <2>1. /\ writer[c] \in BOOLEAN /\ st.subs[c] \in {0, 1} /\ st.queue[c] \in Seq(Message)
        /\ view[c] \in Nat /\ pending[c] \in Seq(Message)
    BY DEF PanesAt, FanOk, StreamTypeOK
  <2>2. PaneAt(c, st, n)
    BY DEF PanesAt
  <2>3. CASE Fan(st, m).subs[c] = 0 /\ Fan(st, m).queue[c] = st.queue[c]
    BY <2>2, <2>3 DEF PaneAt
  <2>4. CASE /\ Fan(st, m).subs[c] = 1 /\ st.subs[c] = 1 /\ writer[c]
             /\ Fan(st, m).queue[c] = Append(st.queue[c], m)
             /\ Len(Fan(st, m).queue[c]) <= QueueCap
    <3>1. Reaches(view[c], pending[c], st.queue[c], n)
      BY <2>2, <2>4 DEF PaneAt
    <3>2. Reaches(view[c], pending[c], Append(st.queue[c], m), n)
      BY <2>1, <3>1, ReachesOther
    <3> QED
      BY <2>2, <2>4, <3>2 DEF PaneAt
  <2> QED
    BY <2>1, <2>2, <2>3, <2>4, FanReaches DEF PaneAt
<1> QED
  BY <1>1, <1>2 DEF PanesAt

\* What a broadcast leaves is what PanesAt says of it.
LEMMA BroadcastKeeps ==
  ASSUME StreamInv, NEW st, PanesAt(st, ring'), Becomes(st), ring' \in Nat,
         alive' \in BOOLEAN,
         UNCHANGED <<writer, handler, asked, attaches, paneVars>>
  PROVE  StreamInv'
<1> USE DEF paneVars
<1>1. StreamTypeOK'
  BY DEF StreamInv, StreamTypeOK, Becomes, PanesAt, FanOk
<1>2. ASSUME NEW c \in Client
      PROVE  (QueueFits(c) /\ AttachOnce(c) /\ HoldsBack(c) /\ CaughtUp(c))'
  <2>1. QueueFits(c) /\ AttachOnce(c) /\ HoldsBack(c) /\ PaneAt(c, st, ring')
    BY DEF StreamInv, PanesAt
  <2>2. subs'[c] = st.subs[c] /\ queue'[c] = st.queue[c] /\ st.subs[c] \in {0, 1}
    BY DEF Becomes, PanesAt, FanOk
  <2>3. HoldsBack(c)' /\ QueueFits(c)'
    BY <2>1, <2>2 DEF HoldsBack, QueueFits, PaneAt
  <2>4. AttachOnce(c)'
    BY <2>1, <2>2 DEF AttachOnce, PaneAt
  <2>5. CaughtUp(c)'
    BY <2>1, <2>2 DEF CaughtUp, PaneAt
  <2> QED
    BY <2>3, <2>4, <2>5
<1> QED
  BY <1>1, <1>2 DEF StreamInv

LEMMA PanesNow ==
  ASSUME StreamInv
  PROVE  PanesAt(Now, ring)
<1>1. FanOk(Now)
  BY DEF Now, FanOk, StreamInv, StreamTypeOK
<1>2. ASSUME NEW c \in Client
      PROVE  PaneAt(c, Now, ring)
  <2>1. subs[c] \in {0, 1}
    BY DEF StreamInv, StreamTypeOK
  <2> QED
    BY <2>1 DEF StreamInv, Now, PaneAt, QueueFits, AttachOnce, CaughtUp
<1> QED
  BY <1>1, <1>2 DEF PanesAt

LEMMA MsgIsMessage ==
  ASSUME NEW kind \in {"snapshot", "output", "modes", "state", "exit", "reply"},
         NEW at \in Nat
  PROVE  /\ Msg(kind, at) \in Message
         /\ Msg(kind, at).kind = kind /\ Msg(kind, at).at = at
BY DEF Msg, Message

\* The three broadcasts of a session.
LEMMA SessionKeeps ==
  ASSUME StreamInv, ReadChunk \/ ReaderEof \/ StateChange
  PROVE  StreamInv'
<1>0. StreamTypeOK /\ ring \in Nat /\ PanesAt(Now, ring)
  BY PanesNow DEF StreamInv, StreamTypeOK
<1>1. /\ Msg("state", 0) \in Message /\ ~Payload(Msg("state", 0))
      /\ Msg("exit", 0) \in Message /\ ~Payload(Msg("exit", 0))
  BY MsgIsMessage DEF Payload
<1>2. CASE ReadChunk
  <2> DEFINE out == Fan(Now, Msg("output", ring + 1))
  <2>1. PanesAt(out, ring + 1)
    BY <1>0, FanOutput, MsgIsMessage
  <2>2. PanesAt(Fan(out, Msg("state", 0)), ring + 1)
    BY <1>0, <1>1, <2>1, FanOther
  <2>3. ring' = ring + 1 /\ UNCHANGED <<alive, writer, handler, asked, attaches, paneVars>>
    BY <1>2 DEF ReadChunk
  <2>4. Becomes(out) \/ Becomes(Fan(out, Msg("state", 0)))
    BY <1>2 DEF ReadChunk
  <2>5. alive' \in BOOLEAN
    BY <1>0, <2>3 DEF StreamTypeOK
  <2> HIDE DEF out
  <2> QED
    BY <1>0, <2>1, <2>2, <2>3, <2>4, <2>5, BroadcastKeeps
<1>3. CASE ReaderEof
  <2> DEFINE st == Fan(Fan(Now, Msg("state", 0)), Msg("exit", 0))
  <2>1. PanesAt(st, ring)
    BY <1>0, <1>1, FanOther
  <2>2. /\ alive' = FALSE /\ Becomes(st)
        /\ UNCHANGED <<ring, writer, handler, asked, attaches, paneVars>>
    BY <1>3 DEF ReaderEof
  <2> HIDE DEF st
  <2> QED
    BY <1>0, <2>1, <2>2, BroadcastKeeps
<1>4. CASE StateChange
  <2> DEFINE st == Fan(Now, Msg("state", 0))
  <2>1. PanesAt(st, ring)
    BY <1>0, <1>1, FanOther
  <2>2. /\ Becomes(st) /\ alive' \in BOOLEAN
        /\ UNCHANGED <<ring, writer, handler, asked, attaches, paneVars>>
    BY <1>0, <1>4 DEF StateChange, StreamTypeOK
  <2> HIDE DEF st
  <2> QED
    BY <1>0, <2>1, <2>2, BroadcastKeeps
<1> QED
  BY <1>2, <1>3, <1>4

(***************************************************************************)
(* The steps of one client: the others are where they were.                *)
(***************************************************************************)
PaneInv(c) == QueueFits(c) /\ AttachOnce(c) /\ HoldsBack(c) /\ CaughtUp(c)

LEMMA OneClientKeeps ==
  ASSUME StreamInv, NEW c \in Client, StreamTypeOK', UNCHANGED ring, PaneInv(c)',
         \A d \in Client \ {c} :
           /\ subs'[d] = subs[d] /\ queue'[d] = queue[d] /\ writer'[d] = writer[d]
           /\ handler'[d] = handler[d] /\ asked'[d] = asked[d]
           /\ attaches'[d] = attaches[d] /\ view'[d] = view[d]
           /\ visible'[d] = visible[d] /\ pending'[d] = pending[d]
           /\ draining'[d] = draining[d]
  PROVE  StreamInv'
<1>1. ASSUME NEW d \in Client \ {c}
      PROVE  PaneInv(d)'
  <2>1. PaneInv(d)
    BY DEF StreamInv, PaneInv
  <2>2. QueueFits(d)' /\ AttachOnce(d)' /\ HoldsBack(d)'
    BY <2>1 DEF PaneInv, QueueFits, AttachOnce, HoldsBack
  <2>3. CaughtUp(d)'
    BY <2>1 DEF PaneInv, CaughtUp
  <2> QED
    BY <2>2, <2>3 DEF PaneInv
<1> QED
  BY <1>1 DEF StreamInv, PaneInv

\* The facts about one client that its steps need.
LEMMA ClientFacts ==
  ASSUME StreamInv, NEW c \in Client
  PROVE  /\ PaneInv(c) /\ StreamTypeOK
         /\ ring \in Nat /\ subs[c] \in {0, 1} /\ queue[c] \in Seq(Message)
         /\ Len(queue[c]) \in Nat /\ writer[c] \in BOOLEAN
         /\ handler[c] \in {"idle", "reply", "gone"} /\ asked[c] \in BOOLEAN
         /\ attaches[c] \in {0, 1} /\ view[c] \in Nat /\ visible[c] \in BOOLEAN
         /\ pending[c] \in Seq(Message) /\ draining[c] \in BOOLEAN
BY DEF StreamInv, StreamTypeOK, PaneInv

LEMMA AskAttachKeeps ==
  ASSUME StreamInv, MaxAttach <= 1, NEW c \in Client, AskAttach(c)
  PROVE  StreamInv'
<1>0. PaneInv(c) /\ StreamTypeOK /\ attaches[c] = 0
  <2>1. attaches[c] < MaxAttach
    BY DEF AskAttach
  <2> QED
    BY <2>1, ClientFacts, StreamConstantsOk
<1>1. /\ attaches' = [attaches EXCEPT ![c] = 1]
      /\ asked' = [asked EXCEPT ![c] = TRUE]
      /\ view' = [view EXCEPT ![c] = 0] /\ pending' = [pending EXCEPT ![c] = <<>>]
      /\ ~draining[c]
      /\ UNCHANGED <<ring, alive, subs, queue, writer, handler, visible, draining>>
  BY <1>0 DEF AskAttach
<1>2. StreamTypeOK'
  BY <1>0, <1>1 DEF StreamTypeOK
<1>3. PaneInv(c)'
  <2>1. attaches'[c] = 1 /\ asked'[c] = TRUE /\ view'[c] = 0 /\ pending'[c] = <<>>
    BY <1>0, <1>1 DEF StreamTypeOK
  <2>2. QueueFits(c)' /\ AttachOnce(c)' /\ HoldsBack(c)'
    BY <1>0, <1>1, <2>1 DEF PaneInv, QueueFits, AttachOnce, HoldsBack
  <2>3. Silent(queue[c]) /\ subs[c] = 0
    BY <1>0 DEF PaneInv, AttachOnce
  <2>4. Reaches(0, <<>>, queue[c], 0) /\ 0 \in 0..ring
    BY <2>3, ReachesNothing, ClientFacts
  <2>5. CaughtUp(c)'
    BY <1>1, <2>1, <2>3, <2>4 DEF CaughtUp
  <2> QED
    BY <2>2, <2>5 DEF PaneInv
<1>4. \A d \in Client \ {c} :
        /\ asked'[d] = asked[d] /\ attaches'[d] = attaches[d]
        /\ view'[d] = view[d] /\ pending'[d] = pending[d]
  BY <1>0, <1>1 DEF StreamTypeOK
<1> QED
  BY <1>1, <1>2, <1>3, <1>4, OneClientKeeps

(***************************************************************************)
(* attach                                                                  *)
(***************************************************************************)
\* A snapshot of all the output, if there is any, and nothing else that is shown.
OneSnapshot(q) ==
  /\ q # <<>>
  /\ ring = 0 => Silent(q)
  /\ ring > 0 => q[1] = Msg("snapshot", ring) /\ \A k \in 2..Len(q) : ~Payload(q[k])

LEMMA SnapshotThenSilence ==
  ASSUME ring \in Nat, NEW p \in Seq(Message), NEW q \in Seq(Message), Silent(q),
         \/ OneSnapshot(p)
         \/ p = <<>> /\ q # <<>> /\ ring = 0
  PROVE  p \o q \in Seq(Message) /\ OneSnapshot(p \o q)
<1>1. /\ p \o q \in Seq(Message) /\ Len(p \o q) = Len(p) + Len(q)
      /\ Len(p) \in Nat /\ Len(q) \in Nat
      /\ \A k \in 1..Len(p) : (p \o q)[k] = p[k]
      /\ \A k \in 1..Len(p \o q) : k > Len(p) => (p \o q)[k] = q[k - Len(p)]
  OBVIOUS
<1>2. Len(p) + Len(q) # 0 /\ p \o q # <<>>
  <2>1. Len(p) + Len(q) # 0
    BY DEF OneSnapshot
  <2> QED
    BY <1>1, <2>1
<1>3. \A k \in 1..Len(p \o q) : k > Len(p) => ~Payload((p \o q)[k])
  BY <1>1 DEF Silent
<1>4. CASE ring = 0
  <2>1. \A k \in 1..Len(p) : ~Payload(p[k])
    BY <1>4 DEF OneSnapshot, Silent
  <2>2. Silent(p \o q)
    BY <1>1, <1>3, <2>1 DEF Silent
  <2> QED
    BY <1>2, <1>4, <2>2 DEF OneSnapshot
<1>5. CASE ring # 0
  <2>1. OneSnapshot(p) /\ Len(p) >= 1
    BY <1>1, <1>5 DEF OneSnapshot
  <2>2. \A k \in 2..Len(p \o q) : ~Payload((p \o q)[k])
    BY <1>1, <1>3, <1>5, <2>1 DEF OneSnapshot
  <2> QED
    BY <1>1, <1>2, <1>5, <2>1, <2>2 DEF OneSnapshot
<1> QED
  BY <1>1, <1>4, <1>5

LEMMA GreetingShape ==
  ASSUME ring \in Nat, NEW restore \in BOOLEAN
  PROVE  /\ Greeting(restore) \in Seq(Message) /\ OneSnapshot(Greeting(restore))
         /\ Greeting(restore) \o Farewell \in Seq(Message)
         /\ OneSnapshot(Greeting(restore) \o Farewell)
<1> DEFINE snap == Msg("snapshot", ring)
           modes == Msg("modes", 0)
           bye == Msg("exit", 0)
           p == IF ring > 0 THEN <<snap>> ELSE <<>>
           m == IF restore THEN <<modes>> ELSE <<>>
<1>1. /\ snap \in Message /\ modes \in Message /\ bye \in Message
      /\ ~Payload(modes) /\ ~Payload(bye)
  BY MsgIsMessage DEF Payload
<1>2. <<modes>> \in Seq(Message) /\ Silent(<<modes>>) /\ <<modes>> # <<>>
  <2> HIDE DEF modes
  <2> QED
    BY <1>1 DEF Silent
<1>3. m \in Seq(Message) /\ Silent(m)
  <2>1. Silent(<<>>) /\ <<>> \in Seq(Message)
    BY DEF Silent
  <2> QED
    BY <1>2, <2>1
<1>4. Farewell \in Seq(Message) /\ Silent(Farewell)
  <2> HIDE DEF bye
  <2> QED
    BY <1>1 DEF Silent, Farewell, bye
<1>5. p \in Seq(Message) /\ (OneSnapshot(p) \/ (p = <<>> /\ ring = 0))
  <2>1. CASE ring > 0
    <3>1. <<snap>> \in Seq(Message) /\ <<snap>> # <<>> /\ <<snap>>[1] = snap /\ 2..Len(<<snap>>) = {}
      <4> HIDE DEF snap
      <4> QED
        BY <1>1
    <3>2. OneSnapshot(<<snap>>)
      BY <2>1, <3>1 DEF OneSnapshot
    <3> QED
      BY <2>1, <3>1, <3>2
  <2>2. CASE ring = 0
    BY <2>2
  <2> QED
    BY <2>1, <2>2
<1>6. Greeting(restore) = (p \o <<modes>>) \o m
  BY DEF Greeting
<1> HIDE DEF p, m, modes, snap, bye
<1>7. p \o <<modes>> \in Seq(Message) /\ OneSnapshot(p \o <<modes>>)
  BY <1>2, <1>5, SnapshotThenSilence
<1>8. Greeting(restore) \in Seq(Message) /\ OneSnapshot(Greeting(restore))
  BY <1>3, <1>6, <1>7, SnapshotThenSilence
<1> QED
  BY <1>4, <1>8, SnapshotThenSilence

\* What fits of the greeting leads from nothing to all of the output.
LEMMA GreetingReplays ==
  ASSUME ring \in Nat, NEW m \in Seq(Message), NEW n \in 1..Len(m), OneSnapshot(m)
  PROVE  /\ SubSeq(m, 1, n) \in Seq(Message) /\ Len(SubSeq(m, 1, n)) = n
         /\ Replays(0, SubSeq(m, 1, n), ring)
<1> DEFINE q == SubSeq(m, 1, n)
           f == [k \in 0..n |-> IF k = 0 THEN 0 ELSE ring]
<1>1. q \in Seq(Message) /\ Len(q) = n /\ \A k \in 1..n : q[k] = m[k]
  OBVIOUS
<1>2. f \in [0..n -> 0..ring] /\ f[0] = 0 /\ f[n] = ring
  OBVIOUS
<1>3. ASSUME NEW k \in 1..n
      PROVE  f[k] = Shown(f[k - 1], m[k])
  <2>1. CASE ring = 0
    BY <2>1 DEF OneSnapshot, Silent, Payload, Shown
  <2>2. CASE ring > 0 /\ k = 1
    BY <2>2, MsgIsMessage DEF OneSnapshot, Shown
  <2>3. CASE ring > 0 /\ k # 1
    <3>1. f[k] = ring /\ f[k - 1] = ring /\ ~Payload(m[k])
      BY <2>3 DEF OneSnapshot
    <3> QED
      BY <3>1 DEF Payload, Shown
  <2> QED
    BY <2>1, <2>2, <2>3
<1> HIDE DEF q, f
<1>4. Replays(0, q, ring)
  BY <1>1, <1>2, <1>3 DEF Replays
<1> QED
  BY <1>1, <1>4 DEF q

LEMMA AttachKeeps ==
  ASSUME StreamInv, NEW c \in Client, HandleSpawn(c)
  PROVE  StreamInv'
<1>0. PaneInv(c) /\ StreamTypeOK /\ asked[c] /\ attaches[c] = 1
  BY ClientFacts DEF HandleSpawn, PaneInv, AttachOnce
<1>1. /\ view[c] = 0 /\ pending[c] = <<>> /\ subs[c] = 0
      /\ Silent(queue[c]) /\ Len(queue[c]) <= QueueCap
      /\ queue[c] \in Seq(Message) /\ ring \in Nat /\ Len(queue[c]) \in Nat
      /\ writer[c] \in BOOLEAN /\ QueueCap \in Nat
  BY <1>0, ClientFacts, StreamConstantsOk DEF PaneInv, AttachOnce, QueueFits
<1>2. PICK restore \in BOOLEAN : Attach(c, restore)
  BY DEF HandleSpawn
<1> DEFINE messages == Greeting(restore) \o Farewell
           room == Room(c, queue[c])
           n == Lesser(room, Len(messages))
           tail == SubSeq(messages, 1, n)
           sub == IF alive /\ Len(Greeting(restore)) <= room THEN 1 ELSE 0
<1>3. /\ messages \in Seq(Message) /\ OneSnapshot(messages)
      /\ Len(messages) \in Nat \ {0}
      /\ Len(Greeting(restore)) \in Nat \ {0}
      /\ alive => Len(messages) = Len(Greeting(restore))
  <2>1. /\ messages \in Seq(Message) /\ OneSnapshot(messages)
        /\ Greeting(restore) \in Seq(Message) /\ Greeting(restore) # <<>>
    BY <1>1, GreetingShape DEF OneSnapshot
  <2>2. alive => messages = Greeting(restore)
    BY <2>1 DEF Farewell
  <2>3. messages # <<>>
    BY <2>1 DEF OneSnapshot
  <2> HIDE DEF messages
  <2> QED
    BY <2>1, <2>2, <2>3
<1>4. /\ queue' = [queue EXCEPT ![c] = @ \o tail]
      /\ subs' = [subs EXCEPT ![c] = sub]
  BY <1>1, <1>2 DEF Attach
<1>5. /\ room \in Nat /\ Len(queue[c]) + room <= QueueCap /\ (~writer[c] => room = 0)
      /\ n \in 0..Len(messages) /\ n <= room
      /\ sub \in {0, 1} /\ (sub = 1 => n = Len(messages)) /\ (room = 0 => sub = 0)
  <2>1. /\ room \in Nat /\ Len(queue[c]) + room <= QueueCap /\ (~writer[c] => room = 0)
    <3>1. CASE writer[c]
      <4>1. room = QueueCap - Len(queue[c])
        BY <3>1 DEF Room
      <4> HIDE DEF room
      <4>2. room \in Nat /\ Len(queue[c]) + room <= QueueCap
        BY <1>1, <4>1
      <4> QED
        BY <3>1, <4>2
    <3>2. CASE ~writer[c]
      <4>1. room = 0
        BY <3>2 DEF Room
      <4> HIDE DEF room
      <4> QED
        BY <1>1, <4>1
    <3> QED
      BY <3>1, <3>2
  <2> HIDE DEF messages, room
  <2> QED
    BY <1>3, <2>1 DEF Lesser
<1> HIDE DEF messages, room, sub
<1> HIDE DEF n
<1>6. /\ tail \in Seq(Message) /\ Len(tail) = n
      /\ \E w \in 0..ring : Replays(0, tail, w) /\ (sub = 1 => w = ring)
  <2>1. CASE n = 0
    <3>1. tail = <<>>
      BY <1>3, <2>1
    <3>2. Replays(0, <<>>, 0) /\ 0 \in 0..ring /\ sub = 0
      BY <1>1, <1>3, <1>5, <2>1, ReplayNothing
    <3>3. Len(<<>>) = 0
      OBVIOUS
    <3> HIDE DEF tail
    <3> QED
      BY <2>1, <3>1, <3>2, <3>3
  <2>2. CASE n # 0
    <3>1. n \in 0..Len(messages) /\ Len(messages) \in Nat
      BY <1>3, <1>5
    <3>2. n \in 1..Len(messages)
      BY <2>2, <3>1
    <3>3. ring \in 0..ring
      BY <1>1
    <3> QED
      BY <1>1, <1>3, <3>2, <3>3, GreetingReplays
  <2> QED
    BY <2>1, <2>2
<1> HIDE DEF tail
<1>7. queue[c] \o tail \in Seq(Message) /\ Len(queue[c] \o tail) = Len(queue[c]) + n
  <2>1. queue[c] \in Seq(Message) /\ tail \in Seq(Message) /\ Len(tail) = n
    BY <1>1, <1>6
  <2> QED
    BY <2>1, ConcatProperties
<1>8. /\ asked' = [asked EXCEPT ![c] = FALSE]
      /\ handler' = [handler EXCEPT ![c] = "reply"]
      /\ UNCHANGED <<ring, alive, writer, attaches, view, visible, pending, draining>>
  BY DEF HandleSpawn, paneVars
<1>9. StreamTypeOK'
  BY <1>0, <1>4, <1>5, <1>7, <1>8 DEF StreamTypeOK
<1>10. /\ queue'[c] = queue[c] \o tail /\ subs'[c] = sub
       /\ asked'[c] = FALSE /\ handler'[c] = "reply"
  BY <1>0, <1>4, <1>8 DEF StreamTypeOK
<1>11. PaneInv(c)'
  <2>1. QueueFits(c)'
    <3>1. Len(queue'[c]) <= QueueCap
      <4>1. Len(queue'[c]) = Len(queue[c]) + n
        BY <1>7, <1>10
      <4>2. n \in Nat /\ n <= room /\ room \in Nat /\ Len(queue[c]) + room <= QueueCap
        BY <1>3, <1>5
      <4> QED
        BY <1>1, <4>1, <4>2
    <3>2. ASSUME ~writer[c] PROVE queue'[c] = <<>>
      <4>1. queue[c] = <<>> /\ n = 0
        BY <1>0, <1>5, <3>2 DEF PaneInv, QueueFits
      <4>2. Len(queue'[c]) = 0 /\ queue'[c] \in Seq(Message)
        BY <1>7, <1>10, <4>1
      <4> QED
        BY <4>2
    <3> QED
      BY <1>8, <1>10, <3>1, <3>2 DEF QueueFits
  <2>2. AttachOnce(c)' /\ HoldsBack(c)'
    BY <1>0, <1>8, <1>10 DEF PaneInv, AttachOnce, HoldsBack
  <2>3. CaughtUp(c)'
    <3>1. PICK w \in 0..ring : Replays(0, tail, w) /\ (sub = 1 => w = ring)
      BY <1>6
    <3>2. Replays(0, queue[c], 0)
      BY <1>1, ReplaySilence
    <3>3. Replays(0, queue[c] \o tail, w)
      <4>1. w \in Nat /\ 0 \in Nat
        BY <1>1, <3>1
      <4> QED
        BY <1>1, <1>6, <3>1, <3>2, <4>1, ReplayConcat
    <3>4. Reaches(0, <<>>, queue[c] \o tail, w)
      BY <3>1, <3>3, ReplayNothing DEF Reaches
    <3> QED
      <4>1. /\ view'[c] = 0 /\ pending'[c] = <<>> /\ queue'[c] = queue[c] \o tail
            /\ ring' = ring /\ (subs'[c] > 0 => sub = 1)
        BY <1>1, <1>5, <1>8, <1>10
      <4> QED
        BY <3>1, <3>4, <4>1 DEF CaughtUp
  <2> QED
    BY <2>1, <2>2, <2>3 DEF PaneInv
<1>12. \A d \in Client \ {c} :
         /\ subs'[d] = subs[d] /\ queue'[d] = queue[d]
         /\ handler'[d] = handler[d] /\ asked'[d] = asked[d]
  BY <1>0, <1>4, <1>8 DEF StreamTypeOK
<1> QED
  BY <1>8, <1>9, <1>11, <1>12, OneClientKeeps

(***************************************************************************)
(* The other steps of a client.                                            *)
(***************************************************************************)
\* Steps that neither show nor queue anything.
LEMMA QuietKeeps ==
  ASSUME StreamInv, NEW c \in Client,
         HandleQuery(c) \/ HandleDetach(c) \/ HandlerEof(c) \/ Connect(c)
  PROVE  StreamInv'
<1> USE DEF paneVars
<1>0. PaneInv(c) /\ StreamTypeOK /\ subs[c] \in {0, 1}
  BY ClientFacts
<1>1. UNCHANGED <<ring, alive, queue, view, visible, pending, draining>>
  BY DEF HandleQuery, HandleDetach, HandlerEof, Connect
<1>2. \/ UNCHANGED subs
      \/ subs' = [subs EXCEPT ![c] = 0]
  BY DEF HandleQuery, HandleDetach, HandlerEof, Connect
<1>3. subs'[c] \in {0, subs[c]} /\ \A d \in Client \ {c} : subs'[d] = subs[d]
  BY <1>0, <1>2 DEF StreamTypeOK
<1>4. /\ StreamTypeOK'
      /\ \A d \in Client \ {c} :
           /\ writer'[d] = writer[d] /\ handler'[d] = handler[d]
           /\ asked'[d] = asked[d] /\ attaches'[d] = attaches[d]
  BY <1>0, <1>1, <1>2 DEF HandleQuery, HandleDetach, HandlerEof, Connect, StreamTypeOK
<1>5. QueueFits(c)' /\ AttachOnce(c)' /\ HoldsBack(c)'
  <2>1. CASE HandleQuery(c)
    <3>1. handler'[c] = "reply" /\ UNCHANGED <<writer, subs, asked, attaches>>
      BY <1>0, <2>1 DEF HandleQuery, StreamTypeOK
    <3> QED
      BY <1>0, <1>1, <3>1 DEF PaneInv, QueueFits, AttachOnce, HoldsBack
  <2>2. CASE HandleDetach(c)
    <3>1. UNCHANGED <<writer, handler, asked, attaches>>
      BY <2>2 DEF HandleDetach
    <3> QED
      BY <1>0, <1>1, <1>3, <3>1 DEF PaneInv, QueueFits, AttachOnce, HoldsBack
  <2>3. CASE HandlerEof(c)
    <3>1. /\ ~writer[c] /\ subs'[c] = 0 /\ handler'[c] = "gone"
          /\ UNCHANGED <<writer, asked, attaches>>
      BY <1>0, <2>3 DEF HandlerEof, StreamTypeOK
    <3> QED
      BY <1>0, <1>1, <3>1 DEF PaneInv, QueueFits, AttachOnce, HoldsBack
  <2>4. CASE Connect(c)
    <3>1. /\ handler[c] = "gone" /\ handler'[c] = "idle" /\ writer'[c] = TRUE
          /\ asked'[c] = FALSE /\ attaches'[c] = 0 /\ UNCHANGED subs
      BY <1>0, <2>4 DEF Connect, StreamTypeOK
    <3>2. subs[c] = 0 /\ queue[c] = <<>>
      BY <1>0, <3>1 DEF PaneInv, QueueFits
    <3>3. Silent(<<>>) /\ Len(<<>>) <= QueueCap
      BY StreamConstantsOk DEF Silent
    <3> QED
      BY <1>0, <1>1, <3>1, <3>2, <3>3 DEF PaneInv, QueueFits, AttachOnce, HoldsBack
  <2> QED
    BY <2>1, <2>2, <2>3, <2>4
<1>6. subs'[c] > 0 /\ writer'[c] => subs[c] > 0 /\ writer[c]
  <2>1. CASE Connect(c)
    BY <1>0, <2>1 DEF Connect, PaneInv, QueueFits
  <2>2. CASE ~Connect(c)
    BY <1>0, <1>3, <2>2 DEF HandleQuery, HandleDetach, HandlerEof
  <2> QED
    BY <2>1, <2>2
<1>7. CaughtUp(c)'
  BY <1>0, <1>1, <1>6 DEF PaneInv, CaughtUp
<1> QED
  BY <1>1, <1>3, <1>4, <1>5, <1>7, OneClientKeeps DEF PaneInv

\* A reply goes to the end of the queue.
LEMMA ReplyKeeps ==
  ASSUME StreamInv, NEW c \in Client, SendReply(c)
  PROVE  StreamInv'
<1> DEFINE m == Msg("reply", 0)
<1>0. /\ PaneInv(c) /\ StreamTypeOK /\ queue[c] \in Seq(Message) /\ writer[c] \in BOOLEAN
      /\ view[c] \in Nat /\ pending[c] \in Seq(Message) /\ ring \in Nat
      /\ Len(queue[c]) \in Nat /\ QueueCap \in Nat
  BY ClientFacts, StreamConstantsOk
<1>1. m \in Message /\ ~Payload(m)
  BY MsgIsMessage DEF Payload
<1>2. /\ handler[c] = "reply" /\ handler' = [handler EXCEPT ![c] = "idle"]
      /\ UNCHANGED <<ring, alive, subs, writer, asked, attaches, view, visible, pending,
                     draining>>
      /\ \/ Room(c, queue[c]) > 0 /\ queue' = [queue EXCEPT ![c] = Append(@, m)]
         \/ UNCHANGED queue
  BY DEF SendReply, paneVars
<1> HIDE DEF m
<1>3. Append(queue[c], m) \in Seq(Message) /\ Len(Append(queue[c], m)) = Len(queue[c]) + 1
  BY <1>0, <1>1
<1>4. StreamTypeOK'
  BY <1>0, <1>2, <1>3 DEF StreamTypeOK
<1>5. handler'[c] = "idle"
  BY <1>0, <1>2 DEF StreamTypeOK
<1>6. PaneInv(c)'
  <2>1. CASE UNCHANGED queue
    <3>1. QueueFits(c)' /\ AttachOnce(c)' /\ HoldsBack(c)'
      BY <1>0, <1>2, <1>5, <2>1 DEF PaneInv, QueueFits, AttachOnce, HoldsBack
    <3>2. CaughtUp(c)'
      BY <1>0, <1>2, <2>1 DEF PaneInv, CaughtUp
    <3> QED
      BY <3>1, <3>2 DEF PaneInv
  <2>2. CASE Room(c, queue[c]) > 0 /\ queue' = [queue EXCEPT ![c] = Append(@, m)]
    <3>1. queue'[c] = Append(queue[c], m)
      BY <1>0, <2>2 DEF StreamTypeOK
    <3>2. writer[c] /\ Len(queue'[c]) <= QueueCap
      BY <1>0, <1>3, <2>2, <3>1 DEF Room
    <3>3. QueueFits(c)'
      BY <1>2, <1>5, <3>2 DEF QueueFits
    <3>4. AttachOnce(c)'
      BY <1>0, <1>1, <1>2, <3>1, SilentAppend DEF PaneInv, AttachOnce
    <3>5. CaughtUp(c)'
      <4>1. \A w \in 0..ring : Reaches(view[c], pending[c], queue[c], w) =>
                               Reaches(view[c], pending[c], Append(queue[c], m), w)
        BY <1>0, <1>1, ReachesOther
      <4>2. ring \in 0..ring
        BY <1>0
      <4> QED
        BY <1>0, <1>2, <3>1, <4>1, <4>2 DEF PaneInv, CaughtUp
    <3>6. HoldsBack(c)'
      BY <1>0, <1>2 DEF PaneInv, HoldsBack
    <3> QED
      BY <3>3, <3>4, <3>5, <3>6 DEF PaneInv
  <2> QED
    BY <1>2, <2>1, <2>2
<1>7. \A d \in Client \ {c} : queue'[d] = queue[d] /\ handler'[d] = handler[d]
  BY <1>0, <1>2 DEF StreamTypeOK
<1> QED
  BY <1>2, <1>4, <1>6, <1>7, OneClientKeeps

\* A writer that fails empties the queue; what the pane holds back stays.
LEMMA WriterFailsKeeps ==
  ASSUME StreamInv, NEW c \in Client, WriterFails(c)
  PROVE  StreamInv'
<1>0. /\ PaneInv(c) /\ StreamTypeOK /\ view[c] \in Nat /\ writer[c]
      /\ pending[c] \in Seq(Message) /\ queue[c] \in Seq(Message) /\ ring \in Nat
  BY ClientFacts DEF WriterFails
<1>1. /\ writer' = [writer EXCEPT ![c] = FALSE] /\ queue' = [queue EXCEPT ![c] = <<>>]
      /\ UNCHANGED <<ring, alive, subs, handler, asked, attaches, view, visible, pending,
                     draining>>
  BY DEF WriterFails, paneVars
<1>2. StreamTypeOK'
  BY <1>0, <1>1 DEF StreamTypeOK
<1>3. writer'[c] = FALSE /\ queue'[c] = <<>>
  BY <1>0, <1>1 DEF StreamTypeOK
<1>4. QueueFits(c)' /\ AttachOnce(c)' /\ HoldsBack(c)'
  <2>1. Len(<<>>) = 0 /\ Silent(<<>>)
    BY DEF Silent
  <2> QED
    BY <1>0, <1>1, <1>3, <2>1, StreamConstantsOk DEF PaneInv, QueueFits, AttachOnce, HoldsBack
<1>5. CaughtUp(c)'
  <2>1. PICK w \in 0..ring : Reaches(view[c], pending[c], queue[c], w)
    BY <1>0 DEF PaneInv, CaughtUp
  <2>2. PICK mid \in 0..w : Replays(view[c], pending[c], mid)
    BY <2>1 DEF Reaches
  <2>3. Reaches(view[c], pending[c], <<>>, mid) /\ mid \in 0..ring
    BY <1>0, <2>1, <2>2, ReplayNothing DEF Reaches
  <2> QED
    BY <1>1, <1>3, <2>3 DEF CaughtUp
<1>6. \A d \in Client \ {c} : writer'[d] = writer[d] /\ queue'[d] = queue[d]
  BY <1>0, <1>1 DEF StreamTypeOK
<1> QED
  BY <1>1, <1>2, <1>4, <1>5, <1>6, OneClientKeeps DEF PaneInv

(***************************************************************************)
(* The pane: what it shows moves as the feed allows.                       *)
(***************************************************************************)
LEMMA TailFacts ==
  ASSUME NEW q \in Seq(Message), q # <<>>
  PROVE  /\ Head(q) \in Message /\ Tail(q) \in Seq(Message)
         /\ Len(Tail(q)) = Len(q) - 1 /\ Len(q) \in Nat \ {0}
         /\ Head(q) = q[1]
         /\ Silent(q) => Silent(Tail(q)) /\ ~Payload(Head(q))
<1>1. /\ Head(q) \in Message /\ Tail(q) \in Seq(Message)
      /\ Len(Tail(q)) = Len(q) - 1 /\ Len(q) \in Nat \ {0} /\ Head(q) = q[1]
      /\ \A k \in 1..Len(Tail(q)) : Tail(q)[k] = q[k + 1]
  OBVIOUS
<1>2. \A k \in 1..Len(Tail(q)) : k + 1 \in 1..Len(q)
  BY <1>1
<1>3. Silent(q) => Silent(Tail(q)) /\ ~Payload(Head(q))
  BY <1>1, <1>2 DEF Silent
<1> QED
  BY <1>1, <1>3

LEMMA EmptyLen ==
  ASSUME NEW t, NEW n \in Nat, Len(t) = n - 1, n > 1
  PROVE  t # <<>>
<1>1. Len(<<>>) = 0
  OBVIOUS
<1>2. n - 1 # 0
  OBVIOUS
<1> QED
  BY <1>1, <1>2, Zenon

\* Delivery to the view, past it, or to what is held back.
LEMMA DeliverKeeps ==
  ASSUME StreamInv, NEW c \in Client, Deliver(c)
  PROVE  /\ StreamInv'
         /\ \/ view' = view
            \/ /\ view' = [view EXCEPT ![c] = Shown(view[c], Head(queue[c]))]
               /\ NextView(view[c], Shown(view[c], Head(queue[c])), ring)
<1> DEFINE q == queue[c]
           m == Head(queue[c])
           x == Shown(view[c], m)
<1>0. /\ PaneInv(c) /\ StreamTypeOK /\ view[c] \in Nat /\ ring \in Nat
      /\ pending[c] \in Seq(Message) /\ queue[c] \in Seq(Message)
      /\ q # <<>> /\ writer[c] /\ ~draining[c] /\ Len(q) <= QueueCap /\ QueueCap \in Nat
      /\ visible[c] \in BOOLEAN /\ draining[c] \in BOOLEAN
  BY ClientFacts, StreamConstantsOk DEF Deliver, PaneInv, QueueFits
<1>1. /\ queue' = [queue EXCEPT ![c] = Tail(q)] /\ OnData(c, m)
      /\ UNCHANGED <<ring, alive, subs, writer, handler, asked, attaches, visible>>
  BY DEF Deliver
<1>2. /\ m \in Message /\ Tail(q) \in Seq(Message) /\ Len(Tail(q)) <= QueueCap
      /\ Silent(q) => Silent(Tail(q)) /\ ~Payload(m)
  BY <1>0, TailFacts
<1>3. queue'[c] = Tail(q) /\ \A d \in Client \ {c} : queue'[d] = queue[d]
  BY <1>0, <1>1 DEF StreamTypeOK
<1>4. QueueFits(c)'
  BY <1>0, <1>1, <1>2, <1>3 DEF PaneInv, QueueFits
<1>5. CASE visible[c] \/ ~Payload(m)
  <2>1. view' = [view EXCEPT ![c] = x] /\ UNCHANGED <<pending, draining>>
    BY <1>1, <1>5 DEF OnData, Payload
  <2>2. /\ x \in Nat /\ NextView(view[c], x, ring)
        /\ \A w \in 0..ring : Reaches(view[c], pending[c], q, w)
                                => Reaches(x, pending[c], Tail(q), w)
    <3>1. PICK w \in 0..ring : Reaches(view[c], pending[c], q, w)
      BY <1>0 DEF PaneInv, CaughtUp
    <3>2. CASE ~Payload(m)
      <4>1. x = view[c]
        BY <3>2 DEF Payload, Shown
      <4>2. \A u \in 0..ring : Reaches(view[c], pending[c], q, u)
                                 => Reaches(view[c], pending[c], Tail(q), u)
        BY <1>0, <3>2, ReachesPassed
      <4> QED
        BY <1>0, <4>1, <4>2 DEF NextView
    <3>3. CASE visible[c]
      <4>1. pending[c] = <<>>
        BY <1>0, <3>3 DEF PaneInv, HoldsBack
      <4>2. \A u \in 0..ring : Reaches(view[c], <<>>, q, u)
              => x \in Nat /\ Reaches(x, <<>>, Tail(q), u) /\ NextView(view[c], x, u)
        BY <1>0, ReachesShown
      <4>3. NextView(view[c], x, w) => NextView(view[c], x, ring)
        BY <1>0, <3>1 DEF NextView
      <4> HIDE DEF x, q, m
      <4> QED
        BY <3>1, <4>1, <4>2, <4>3
    <3> QED
      BY <1>5, <3>2, <3>3
  <2>3. view'[c] = x /\ \A d \in Client \ {c} : view'[d] = view[d]
    BY <1>0, <2>1 DEF StreamTypeOK
  <2>4. StreamTypeOK'
    <3> HIDE DEF x, q, m
    <3>1. view' \in [Client -> Nat] /\ queue' \in [Client -> Seq(Message)]
      BY <1>0, <1>1, <1>2, <2>1, <2>2 DEF StreamTypeOK, q
    <3> QED
      BY <1>0, <1>1, <2>1, <3>1 DEF StreamTypeOK
  <2>5. AttachOnce(c)'
    <3>1. asked[c] => x = view[c]
      BY <1>0, <1>2 DEF PaneInv, AttachOnce, Payload, Shown
    <3> HIDE DEF x, q, m
    <3> QED
      BY <1>0, <1>1, <1>2, <1>3, <2>1, <2>3, <3>1 DEF PaneInv, AttachOnce, q
  <2>6. HoldsBack(c)'
    BY <1>0, <1>1, <2>1 DEF PaneInv, HoldsBack
  <2>7. CaughtUp(c)'
    <3>1. ring \in 0..ring
      BY <1>0
    <3> HIDE DEF x, q, m
    <3> QED
      BY <1>0, <1>1, <1>3, <2>1, <2>2, <2>3, <3>1 DEF PaneInv, CaughtUp, q
  <2>8. StreamInv'
    BY <1>0, <1>1, <1>3, <1>4, <2>1, <2>3, <2>4, <2>5, <2>6, <2>7, OneClientKeeps DEF PaneInv
  <2> QED
    BY <2>1, <2>2, <2>8
<1>6. CASE ~visible[c] /\ Payload(m)
  <2>1. /\ pending' = [pending EXCEPT ![c] = Append(@, m)]
        /\ draining' = [draining EXCEPT ![c] = Len(pending[c]) + 1 >= FlushAt]
        /\ UNCHANGED view
    BY <1>1, <1>6 DEF OnData, Payload
  <2>2. /\ Append(pending[c], m) \in Seq(Message) /\ Append(pending[c], m) # <<>>
        /\ \A w \in 0..ring : Reaches(view[c], pending[c], q, w)
                                => Reaches(view[c], Append(pending[c], m), Tail(q), w)
    <3>1. \A w \in 0..ring : Reaches(view[c], pending[c], q, w)
                                => Reaches(view[c], Append(pending[c], m), Tail(q), w)
      BY <1>0, ReachesHeld
    <3> HIDE DEF q, m
    <3>2. Append(pending[c], m) \in Seq(Message) /\ Len(Append(pending[c], m)) # 0
      BY <1>0, <1>2
    <3>3. Len(<<>>) = 0
      OBVIOUS
    <3> QED
      BY <3>1, <3>2, <3>3
  <2>3. /\ pending'[c] = Append(pending[c], m)
        /\ \A d \in Client \ {c} : pending'[d] = pending[d] /\ draining'[d] = draining[d]
    BY <1>0, <2>1 DEF StreamTypeOK
  <2> HIDE DEF q, m
  <2>4. StreamTypeOK'
    <3>1. pending' \in [Client -> Seq(Message)] /\ queue' \in [Client -> Seq(Message)]
      BY <1>0, <1>1, <1>2, <2>1, <2>2 DEF StreamTypeOK, q
    <3>2. draining' \in [Client -> BOOLEAN]
      BY <1>0, <2>1 DEF StreamTypeOK
    <3> QED
      BY <1>0, <1>1, <2>1, <3>1, <3>2 DEF StreamTypeOK
  <2>5. AttachOnce(c)' /\ HoldsBack(c)'
    <3>1. ~asked[c] /\ attaches[c] # 0
      BY <1>0, <1>2, <1>6 DEF PaneInv, AttachOnce, q
    <3> QED
      BY <1>1, <1>6, <2>2, <2>3, <3>1 DEF AttachOnce, HoldsBack
  <2>6. CaughtUp(c)'
    <3>1. ring \in 0..ring
      BY <1>0
    <3> QED
      BY <1>0, <1>1, <1>3, <2>1, <2>2, <2>3, <3>1 DEF PaneInv, CaughtUp, q
  <2>7. StreamInv'
    BY <1>0, <1>1, <1>3, <1>4, <2>1, <2>3, <2>4, <2>5, <2>6, OneClientKeeps DEF PaneInv
  <2> QED
    BY <2>1, <2>7
<1> QED
  BY <1>5, <1>6

LEMMA DrainKeeps ==
  ASSUME StreamInv, NEW c \in Client, DrainPending(c)
  PROVE  /\ StreamInv'
         /\ view' = [view EXCEPT ![c] = Shown(view[c], Head(pending[c]))]
         /\ NextView(view[c], Shown(view[c], Head(pending[c])), ring)
<1> DEFINE p == pending[c]
           x == Shown(view[c], Head(pending[c]))
<1>0. /\ PaneInv(c) /\ StreamTypeOK /\ view[c] \in Nat /\ ring \in Nat
      /\ pending[c] \in Seq(Message) /\ queue[c] \in Seq(Message)
      /\ draining[c] /\ p # <<>>
  BY ClientFacts DEF DrainPending, PaneInv, HoldsBack
<1>1. /\ view' = [view EXCEPT ![c] = x] /\ pending' = [pending EXCEPT ![c] = Tail(p)]
      /\ draining' = [draining EXCEPT ![c] = Len(p) > 1]
      /\ UNCHANGED <<ring, alive, subs, queue, writer, handler, asked, attaches, visible>>
  BY DEF DrainPending
<1>2. Tail(p) \in Seq(Message) /\ Len(Tail(p)) = Len(p) - 1 /\ Len(p) \in Nat \ {0}
  BY <1>0, TailFacts
<1>3. /\ x \in Nat /\ NextView(view[c], x, ring)
      /\ \A w \in 0..ring : Reaches(view[c], p, queue[c], w)
                              => Reaches(x, Tail(p), queue[c], w)
  <2>1. PICK w \in 0..ring : Reaches(view[c], p, queue[c], w)
    BY <1>0 DEF PaneInv, CaughtUp
  <2>2. \A u \in 0..ring : Reaches(view[c], p, queue[c], u)
          => x \in Nat /\ Reaches(x, Tail(p), queue[c], u) /\ NextView(view[c], x, u)
    BY <1>0, ReachesDrains
  <2>3. NextView(view[c], x, w) => NextView(view[c], x, ring)
    BY <1>0, <2>1 DEF NextView
  <2> HIDE DEF x, p
  <2> QED
    BY <2>1, <2>2, <2>3
<1> HIDE DEF x, p
<1>4. /\ view'[c] = x /\ pending'[c] = Tail(p) /\ draining'[c] = (Len(p) > 1)
      /\ \A d \in Client \ {c} :
           view'[d] = view[d] /\ pending'[d] = pending[d] /\ draining'[d] = draining[d]
  BY <1>0, <1>1 DEF StreamTypeOK
<1>5. StreamTypeOK'
  <2>1. view' \in [Client -> Nat] /\ pending' \in [Client -> Seq(Message)]
    BY <1>0, <1>1, <1>2, <1>3 DEF StreamTypeOK
  <2>2. draining' \in [Client -> BOOLEAN]
    BY <1>0, <1>1 DEF StreamTypeOK
  <2> QED
    BY <1>0, <1>1, <2>1, <2>2 DEF StreamTypeOK
<1>6. QueueFits(c)' /\ AttachOnce(c)'
  <2>1. ~asked[c]
    BY <1>0 DEF PaneInv, AttachOnce, p
  <2> QED
    BY <1>0, <1>1, <2>1 DEF PaneInv, QueueFits, AttachOnce
<1>7. HoldsBack(c)'
  <2>1. Len(p) > 1 => Tail(p) # <<>>
    BY <1>2, EmptyLen
  <2>2. ~(Len(p) > 1) => Tail(p) = <<>>
    BY <1>2
  <2> QED
    BY <1>4, <2>1, <2>2 DEF HoldsBack
<1>8. CaughtUp(c)'
  <2>1. ring \in 0..ring
    BY <1>0
  <2> QED
    BY <1>0, <1>1, <1>3, <1>4, <2>1 DEF PaneInv, CaughtUp, p
<1>9. StreamInv'
  BY <1>0, <1>1, <1>4, <1>5, <1>6, <1>7, <1>8, OneClientKeeps DEF PaneInv
<1> QED
  BY <1>1, <1>3, <1>9 DEF x

LEMMA SetVisibleKeeps ==
  ASSUME StreamInv, NEW c \in Client, SetVisible(c)
  PROVE  StreamInv'
<1>0. PaneInv(c) /\ StreamTypeOK /\ visible[c] \in BOOLEAN
  BY ClientFacts
<1>1. /\ ~draining[c] /\ visible' = [visible EXCEPT ![c] = ~@]
      /\ draining' = [draining EXCEPT ![c] = ~visible[c] /\ pending[c] # <<>>]
      /\ UNCHANGED <<ring, alive, subs, queue, writer, handler, asked, attaches, view, pending>>
  BY DEF SetVisible
<1>2. StreamTypeOK'
  BY <1>0, <1>1 DEF StreamTypeOK
<1>3. visible'[c] = ~visible[c] /\ draining'[c] = (~visible[c] /\ pending[c] # <<>>)
  BY <1>0, <1>1, Zenon DEF StreamTypeOK
<1>4. QueueFits(c)' /\ AttachOnce(c)' /\ HoldsBack(c)'
  BY <1>0, <1>1, <1>3 DEF PaneInv, QueueFits, AttachOnce, HoldsBack
<1>5. CaughtUp(c)'
  BY <1>0, <1>1 DEF PaneInv, CaughtUp
<1>6. \A d \in Client \ {c} : visible'[d] = visible[d] /\ draining'[d] = draining[d]
  BY <1>0, <1>1 DEF StreamTypeOK
<1> QED
  BY <1>1, <1>2, <1>4, <1>5, <1>6, OneClientKeeps DEF PaneInv

LEMMA StreamInductive ==
  ASSUME StreamInv, MaxAttach <= 1, [StreamNext]_streamVars
  PROVE  StreamInv'
<1>1. CASE UNCHANGED streamVars
  BY <1>1 DEF streamVars, paneVars, StreamInv, StreamTypeOK, QueueFits, AttachOnce,
              HoldsBack, CaughtUp
<1>2. CASE ReadChunk \/ ReaderEof \/ StateChange
  BY <1>2, SessionKeeps
<1>3. ASSUME NEW c \in Client, Daemon(c)
      PROVE  StreamInv'
  BY <1>3, AttachKeeps, QuietKeeps, ReplyKeeps DEF Daemon
<1>4. ASSUME NEW c \in Client,
             \/ WriterFails(c) \/ Deliver(c) \/ DrainPending(c) \/ SetVisible(c)
             \/ AskAttach(c) \/ Connect(c)
      PROVE  StreamInv'
  BY <1>4, WriterFailsKeeps, DeliverKeeps, DrainKeeps, SetVisibleKeeps, AskAttachKeeps,
     QuietKeeps
<1> QED
  BY <1>1, <1>2, <1>3, <1>4 DEF StreamNext

LEMMA StreamInitially ==
  ASSUME StreamInit
  PROVE  StreamInv
<1>1. StreamTypeOK
  BY DEF StreamInit, StreamTypeOK
<1>2. Silent(<<>>) /\ Len(<<>>) = 0
  BY DEF Silent
<1>3. ASSUME NEW c \in Client
      PROVE  QueueFits(c) /\ AttachOnce(c) /\ HoldsBack(c) /\ CaughtUp(c)
  <2>1. Reaches(0, <<>>, <<>>, 0) /\ 0 \in 0..ring
    <3>1. <<>> \in Seq(Message)
      OBVIOUS
    <3>2. ring \in Nat
      BY <1>1 DEF StreamTypeOK
    <3>3. Reaches(0, <<>>, <<>>, 0)
      BY <1>2, <3>1, ReachesNothing
    <3> QED
      BY <3>2, <3>3
  <2>2. QueueFits(c) /\ AttachOnce(c) /\ HoldsBack(c)
    BY <1>2, StreamConstantsOk DEF StreamInit, QueueFits, AttachOnce, HoldsBack
  <2>3. CaughtUp(c)
    BY <2>1 DEF StreamInit, CaughtUp
  <2> QED
    BY <2>2, <2>3
<1> QED
  BY <1>1, <1>3 DEF StreamInv

(***************************************************************************)
(* The theorems.  A pane that attaches a second time on one connection may *)
(* still have output of the first attach in its queue (the run             *)
(* stream_reconnect shows it), so they are about connections on which a    *)
(* pane attaches once.                                                     *)
(***************************************************************************)
\* What a pane with a Sub shows once it has drained what it holds back and what its
\* queue holds is all the session has written (attach, broadcast and the writer
\* thread of mux, makeOnData and drainPending of the terminal).
THEOREM NothingMissed ==
  MaxAttach <= 1 => (StreamSpec => []SubscriberMissesNothing)
<1> SUFFICES ASSUME MaxAttach <= 1
             PROVE  StreamSpec => []SubscriberMissesNothing
  OBVIOUS
<1>1. StreamInit => StreamInv
  BY StreamInitially
<1>2. StreamInv /\ [StreamNext]_streamVars => StreamInv'
  BY StreamInductive
<1>3. StreamInv => SubscriberMissesNothing
  <2> SUFFICES ASSUME StreamInv, NEW c \in Client, subs[c] > 0, writer[c]
               PROVE  Drained(view[c], pending[c] \o queue[c]) = ring
    BY DEF SubscriberMissesNothing
  <2>1. /\ view[c] \in Nat /\ pending[c] \in Seq(Message) /\ queue[c] \in Seq(Message)
        /\ ring \in Nat /\ PaneInv(c)
    BY ClientFacts
  <2>2. Reaches(view[c], pending[c], queue[c], ring)
    BY <2>1 DEF PaneInv, CaughtUp
  <2> QED
    BY <2>1, <2>2, ReachesIsDrained
<1> QED
  BY <1>1, <1>2, <1>3, PTL DEF StreamSpec

\* A step of what a pane shows is a step of the feed.
LEMMA FeedShows ==
  ASSUME StreamInv, NEW c \in Client, NEW x,
         view' = [view EXCEPT ![c] = x], NextView(view[c], x, ring), UNCHANGED ring
  PROVE  [Feed!FeedNext]_Feed!feedVars
<1>0. view \in [Client -> Nat] /\ view[c] \in Nat /\ ring \in Nat
  BY ClientFacts DEF StreamInv, StreamTypeOK
<1>1. CASE x = view[c]
  <2>1. view' = view
    BY <1>0, <1>1
  <2> QED
    BY <2>1 DEF Feed!feedVars
<1>2. CASE view[c] = 0 /\ x \in 1..ring
  <2>1. Feed!Replay(c)
    BY <1>2 DEF Feed!Replay
  <2> QED
    BY <2>1 DEF Feed!FeedNext
<1>3. CASE x = view[c] + 1 /\ view[c] < ring
  <2>1. Feed!ShowNext(c)
    BY <1>3 DEF Feed!ShowNext
  <2> QED
    BY <2>1 DEF Feed!FeedNext
<1> QED
  BY <1>1, <1>2, <1>3 DEF NextView

LEMMA FeedStep ==
  ASSUME StreamInv, [StreamNext]_streamVars
  PROVE  [Feed!FeedNext]_Feed!feedVars
<1>1. CASE UNCHANGED <<ring, view>>
  BY <1>1 DEF Feed!feedVars
<1>2. CASE ReadChunk
  <2>1. Feed!Produce
    BY <1>2 DEF ReadChunk, paneVars, Feed!Produce
  <2> QED
    BY <2>1 DEF Feed!FeedNext
<1>3. ASSUME NEW c \in Client, Deliver(c)
      PROVE  [Feed!FeedNext]_Feed!feedVars
  <2>1. UNCHANGED ring
    BY <1>3 DEF Deliver
  <2>2. CASE view' = view
    BY <1>1, <2>1, <2>2
  <2> QED
    BY <1>3, <2>1, <2>2, DeliverKeeps, FeedShows
<1>4. ASSUME NEW c \in Client, DrainPending(c)
      PROVE  [Feed!FeedNext]_Feed!feedVars
  <2>1. UNCHANGED ring
    BY <1>4 DEF DrainPending
  <2> QED
    BY <1>4, <2>1, DrainKeeps, FeedShows
<1>5. ASSUME NEW c \in Client, AskAttach(c)
      PROVE  [Feed!FeedNext]_Feed!feedVars
  <2>1. Feed!Reset(c)
    BY <1>5 DEF AskAttach, Feed!Reset
  <2> QED
    BY <2>1 DEF Feed!FeedNext
<1>6. ReaderEof \/ StateChange => UNCHANGED <<ring, view>>
  BY DEF ReaderEof, StateChange, paneVars
<1>7. ASSUME NEW c \in Client,
             Daemon(c) \/ WriterFails(c) \/ SetVisible(c) \/ Connect(c)
      PROVE  UNCHANGED <<ring, view>>
  BY <1>7 DEF Daemon, HandleSpawn, HandleQuery, SendReply, HandleDetach, HandlerEof,
              WriterFails, SetVisible, Connect, paneVars
<1>8. UNCHANGED streamVars => UNCHANGED <<ring, view>>
  BY DEF streamVars, paneVars
<1> QED
  BY <1>1, <1>2, <1>3, <1>4, <1>5, <1>6, <1>7, <1>8 DEF StreamNext

\* The daemon's queues and the panes implement the feed: what a pane shows is a replay of
\* the session's output up to some point, then every later unit once and in order, until
\* the pane is reset.
THEOREM FeedImplemented ==
  MaxAttach <= 1 => (StreamSpec => ImplementsFeed)
<1> SUFFICES ASSUME MaxAttach <= 1
             PROVE  StreamSpec => ImplementsFeed
  OBVIOUS
<1>1. StreamInit => StreamInv
  BY StreamInitially
<1>2. StreamInv /\ [StreamNext]_streamVars => StreamInv'
  BY StreamInductive
<1>3. StreamInit => Feed!FeedInit
  BY StreamConstantsOk DEF StreamInit, Feed!FeedInit
<1>4. StreamInv /\ [StreamNext]_streamVars => [Feed!FeedNext]_Feed!feedVars
  BY FeedStep
<1> QED
  BY <1>1, <1>2, <1>3, <1>4, PTL DEF StreamSpec, ImplementsFeed, Feed!FeedSpec

===============================================================================

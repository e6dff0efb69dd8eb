---------------------------- MODULE Panels_proofs ----------------------------
(***************************************************************************)
(* Proofs about the panels and notices of the window, each of which waits  *)
(* for answers while the user goes on: the palette of QuickOpen, the       *)
(* history of GitHistory, the bells of AgentSignals, the prompts of        *)
(* MemoryPrompts, the dock of PinDock while it is restored, the            *)
(* configuration of ConfigSync in its four places, the dialogs over the    *)
(* views of NativeViews, and the cell of FocusTimer.  Each holds for any   *)
(* number of searches, openings, events, contents, edits, dialogs, clicks. *)
(***************************************************************************)
EXTENDS QuickOpen, GitHistory, AgentSignals, MemoryPrompts, PinDock, ConfigSync,
        NativeViews, FocusTimer, FiniteSetTheorems, SequenceTheorems, NaturalsInduction,
        WellFoundedInduction, TLAPS

(***************************************************************************)
(* Sequences: what is in one that is put together or taken apart.          *)
(***************************************************************************)
(* The elements of a sequence with one more at its end, *)
LEMMA AppendHas ==
  ASSUME NEW S, NEW s \in Seq(S), NEW e \in S
  PROVE  Append(s, e) \in Seq(S) /\ ToSet(Append(s, e)) = ToSet(s) \cup {e}
<1>1. /\ Append(s, e) \in Seq(S) /\ Len(Append(s, e)) = Len(s) + 1
      /\ DOMAIN Append(s, e) = 1..(Len(s) + 1)
      /\ \A i \in 1..Len(s) : Append(s, e)[i] = s[i]
      /\ Append(s, e)[Len(s) + 1] = e /\ Len(s) \in Nat /\ DOMAIN s = 1..Len(s)
  OBVIOUS
<1> QED BY ONLY <1>1 DEF ToSet

(* ... of two sequences, *)
LEMMA ConcatHas ==
  ASSUME NEW S, NEW s \in Seq(S), NEW t \in Seq(S)
  PROVE  s \o t \in Seq(S) /\ ToSet(s \o t) = ToSet(s) \cup ToSet(t)
<1>1. /\ s \o t \in Seq(S) /\ Len(s \o t) = Len(s) + Len(t)
      /\ DOMAIN (s \o t) = 1..(Len(s) + Len(t))
      /\ \A i \in 1..Len(s) + Len(t) :
            (s \o t)[i] = IF i <= Len(s) THEN s[i] ELSE t[i - Len(s)]
      /\ Len(s) \in Nat /\ DOMAIN s = 1..Len(s) /\ Len(t) \in Nat /\ DOMAIN t = 1..Len(t)
  BY ConcatProperties, LenProperties
<1>2. ASSUME NEW i \in DOMAIN (s \o t)
      PROVE  (s \o t)[i] \in ToSet(s) \cup ToSet(t)
  BY <1>1 DEF ToSet
<1>3. ASSUME NEW i \in DOMAIN s
      PROVE  i \in DOMAIN (s \o t) /\ (s \o t)[i] = s[i]
  BY <1>1
<1>4. ASSUME NEW i \in DOMAIN t
      PROVE  i + Len(s) \in DOMAIN (s \o t) /\ (s \o t)[i + Len(s)] = t[i]
  <2>1. i + Len(s) \in 1..Len(s) + Len(t) /\ ~(i + Len(s) <= Len(s))
        /\ (i + Len(s)) - Len(s) = i
    BY ONLY <1>1, i \in DOMAIN t
  <2> QED BY <1>1, <2>1
<1>5. \A x \in ToSet(s) \cup ToSet(t) : x \in ToSet(s \o t)
  BY ONLY <1>3, <1>4 DEF ToSet
<1>6. \A x \in ToSet(s \o t) : x \in ToSet(s) \cup ToSet(t)
  BY ONLY <1>2 DEF ToSet
<1> QED BY <1>1, <1>5, <1>6

(* ... of one without its head, *)
LEMMA TailHas ==
  ASSUME NEW S, NEW s \in Seq(S), s # <<>>
  PROVE  /\ Tail(s) \in Seq(S) /\ Head(s) \in ToSet(s)
         /\ ToSet(Tail(s)) \subseteq ToSet(s)
<1>1. /\ Len(s) \in Nat \ {0} /\ DOMAIN s = 1..Len(s) /\ Head(s) = s[1]
      /\ Tail(s) \in Seq(S) /\ DOMAIN Tail(s) = 1..(Len(s) - 1)
      /\ \A i \in 1..Len(s) - 1 : Tail(s)[i] = s[i + 1]
  BY EmptySeq, LenProperties, HeadTailProperties
<1> QED BY ONLY <1>1 DEF ToSet

(* ... and of one without its n-th element. *)
LEMMA RemoveAtHas ==
  ASSUME NEW S, NEW s \in Seq(S), NEW n \in 1..Len(s)
  PROVE  /\ RemoveAt(s, n) \in Seq(S) /\ Len(RemoveAt(s, n)) = Len(s) - 1
         /\ \A i \in 1..Len(s) - 1 : RemoveAt(s, n)[i] = IF i < n THEN s[i] ELSE s[i + 1]
         /\ ToSet(RemoveAt(s, n)) \subseteq ToSet(s)
         /\ \A i \in 1..Len(s) : i # n => s[i] \in ToSet(RemoveAt(s, n))
<1>0. Len(s) \in Nat /\ DOMAIN s = 1..Len(s) /\ \A i \in 1..Len(s) : s[i] \in S
  BY LenProperties
<1> DEFINE a == SubSeq(s, 1, n - 1)
           b == SubSeq(s, n + 1, Len(s))
<1>1. /\ a \in Seq(S) /\ Len(a) = n - 1 /\ \A i \in 1..n - 1 : a[i] = s[i]
  <2>1. 1 \in Int /\ n - 1 \in Int /\ (\A i \in 1..n - 1 : s[i] \in S)
    BY <1>0
  <2>2. /\ a \in Seq(S) /\ Len(a) = (IF 1 <= n - 1 THEN (n - 1) - 1 + 1 ELSE 0)
        /\ \A i \in 1..(n - 1) - 1 + 1 : a[i] = s[1 + i - 1]
    BY <2>1, SubSeqProperties
  <2> HIDE DEF a
  <2> QED BY <2>2
<1>2. /\ b \in Seq(S) /\ Len(b) = Len(s) - n /\ \A i \in 1..Len(s) - n : b[i] = s[n + i]
  <2>1. n + 1 \in Int /\ Len(s) \in Int /\ (\A i \in n + 1..Len(s) : s[i] \in S)
    BY <1>0
  <2>2. /\ b \in Seq(S) /\ Len(b) = (IF n + 1 <= Len(s) THEN Len(s) - (n + 1) + 1 ELSE 0)
        /\ \A i \in 1..Len(s) - (n + 1) + 1 : b[i] = s[(n + 1) + i - 1]
    BY <2>1, SubSeqProperties
  <2> HIDE DEF b
  <2>3. Len(b) = Len(s) - n
    <3>1. CASE n + 1 <= Len(s)
      BY <3>1, <2>2, <1>0
    <3>2. CASE ~(n + 1 <= Len(s))
      <4>1. Len(b) = 0
        BY ONLY <3>2, <2>2
      <4>2. Len(s) - n = 0
        <5>1. Len(s) \in Nat /\ n \in Int /\ n <= Len(s)
          BY <1>0
        <5> QED BY ONLY <3>2, <5>1
      <4> QED BY <4>1, <4>2
    <3> QED BY <3>1, <3>2
  <2>4. \A i \in 1..Len(s) - n : b[i] = s[n + i]
    <3> TAKE i \in 1..Len(s) - n
    <3>1. i \in 1..Len(s) - (n + 1) + 1 /\ (n + 1) + i - 1 = n + i
      BY <1>0
    <3> QED BY <2>2, <3>1
  <2> QED BY <2>2, <2>3, <2>4
<1>3. RemoveAt(s, n) = a \o b
  BY DEF RemoveAt
<1> HIDE DEF a, b
<1>4. /\ a \o b \in Seq(S) /\ Len(a \o b) = Len(s) - 1
      /\ \A i \in 1..Len(s) - 1 : (a \o b)[i] = IF i <= n - 1 THEN a[i] ELSE b[i - (n - 1)]
  <2>1. /\ a \o b \in Seq(S) /\ Len(a \o b) = Len(a) + Len(b)
        /\ \A i \in 1..Len(a) + Len(b) : (a \o b)[i] = IF i <= Len(a) THEN a[i] ELSE b[i - Len(a)]
    BY <1>1, <1>2, ConcatProperties
  <2>2. Len(a) = n - 1 /\ Len(a) + Len(b) = Len(s) - 1
    BY ONLY <1>0, <1>1, <1>2, n \in 1..Len(s)
  <2> QED BY ONLY <2>1, <2>2
<1>5. \A i \in 1..Len(s) - 1 : (a \o b)[i] = IF i < n THEN s[i] ELSE s[i + 1]
  <2> TAKE i \in 1..Len(s) - 1
  <2>1. CASE i < n
    BY <2>1, <1>0, <1>1, <1>4
  <2>2. CASE ~(i < n)
    <3>1. ~(i <= n - 1) /\ i - (n - 1) \in 1..Len(s) - n /\ n + (i - (n - 1)) = i + 1
      BY <2>2, <1>0
    <3>2. b[i - (n - 1)] = s[n + (i - (n - 1))]
      BY <3>1, <1>2
    <3> QED BY <2>2, <3>1, <3>2, <1>4
  <2> QED BY <2>1, <2>2
<1>6. \A i \in DOMAIN (a \o b) : (a \o b)[i] \in ToSet(s)
  <2> TAKE i \in DOMAIN (a \o b)
  <2>1. i \in 1..Len(s) - 1
    BY <1>4, LenProperties
  <2>2. i \in DOMAIN s /\ i + 1 \in DOMAIN s
    BY <2>1, <1>0
  <2> QED BY <2>1, <2>2, <1>5 DEF ToSet
<1>7. \A i \in 1..Len(s) : i # n => s[i] \in ToSet(a \o b)
  <2> TAKE i \in 1..Len(s)
  <2> HAVE i # n
  <2>0. DOMAIN (a \o b) = 1..Len(s) - 1
    BY <1>4, LenProperties
  <2>1. CASE i < n
    <3>1. i \in 1..Len(s) - 1
      <4>1. Len(s) \in Nat /\ n \in Int /\ n <= Len(s) /\ i \in Int /\ 1 <= i
        BY <1>0
      <4> QED BY ONLY <2>1, <4>1
    <3>2. (a \o b)[i] = s[i]
      BY <2>1, <3>1, <1>5
    <3> QED BY <3>1, <3>2, <2>0 DEF ToSet
  <2>2. CASE i > n
    <3>1. i - 1 \in 1..Len(s) - 1 /\ ~(i - 1 < n) /\ (i - 1) + 1 = i
      BY <2>2, <1>0
    <3>2. (a \o b)[i - 1] = s[i]
      BY <3>1, <1>5
    <3> QED BY <3>1, <3>2, <2>0 DEF ToSet
  <2> QED BY <2>1, <2>2, <1>0
<1> QED BY <1>3, <1>4, <1>5, <1>6, <1>7 DEF ToSet

(* A sequence is one over the set of its elements. *)
LEMMA SeqOfItsElements ==
  ASSUME NEW S, NEW s \in Seq(S)
  PROVE  s \in Seq(ToSet(s))
<1>1. Len(s) \in Nat /\ s \in [1..Len(s) -> S] /\ DOMAIN s = 1..Len(s)
  BY LenProperties
<1>2. s \in [1..Len(s) -> ToSet(s)]
  BY <1>1 DEF ToSet
<1> QED BY <1>1, <1>2

(***************************************************************************)
(* QuickOpen                                                               *)
(*                                                                         *)
(* Every search has a generation of its own, given out one after another.  *)
(* What waits or walks under the newest one is under the root on screen,   *)
(* and its Done is sent once it waits and walks no more: so what is shown  *)
(* is the palette's own search, whatever of the earlier ones is still to   *)
(* come.                                                                   *)
(***************************************************************************)
Roots == ProjectRoots \cup {Home}
FileNames == {"old", "new"}
Rows == SUBSET [root : Roots, file : FileNames]
Results == [kind : {"results"}, gen : Nat, rows : Rows]
Dones == [kind : {"done"}, gen : Nat]
Messages == Results \cup Dones
Calls == [op : {"query"}, gen : Nat, q : {"empty", "q"}] \cup [op : {"close"}, gen : Nat]

QuickType ==
  /\ scope \in {"project", "home"} /\ projectRoot \in ProjectRoots
  /\ generation \in Nat /\ channel \in {0, generation}
  /\ found \in [rows : Rows, done : BOOLEAN]
  /\ query \in {"empty", "q"} /\ filterTimer \in {"empty", "q", "off"}
  /\ searchCalls \in Seq(Calls)
  /\ starts \subseteq [gen : Nat, root : Roots]
  /\ walks \subseteq [gen : Nat, root : Roots, seen : SUBSET FileNames]
  /\ searcher \in [gen : Nat, root : Roots, index : SUBSET FileNames]
  /\ events \in Seq(Messages)
  /\ disk \in [Roots -> SUBSET FileNames]

(* Generations are handed out one after another, the first with the first  *)
(* palette.                                                                *)
Handed(g) == 0 < g /\ g <= generation
HandedOut ==
  /\ palette \/ filterTimer # "off" => 0 < generation
  /\ \A s \in starts : Handed(s.gen)
  /\ \A w \in walks : Handed(w.gen)
  /\ \A c \in ToSet(searchCalls) : Handed(c.gen)
  /\ \A e \in ToSet(events) : Handed(e.gen)
  /\ searcher.gen <= generation

(* A search is started once and walks once. *)
OneWalkEach ==
  /\ \A s, t \in starts : s.gen = t.gen => s = t
  /\ \A v, w \in walks : v.gen = w.gen => v = w
  /\ \A s \in starts, w \in walks : s.gen # w.gen

(* What the newest search finds is under the root on screen. *)
NewestSearchesHere ==
  /\ \A s \in starts : s.gen = generation => s.root = Root(scope)
  /\ \A w \in walks : w.gen = generation => w.root = Root(scope)
  /\ 0 < generation /\ searcher.gen = generation => searcher.root = Root(scope)
  /\ \A e \in ToSet(events) : e.kind = "results" /\ e.gen = generation =>
        \A r \in e.rows : r.root = Root(scope)

(* A search is over when its Done is sent. *)
Over(g) == (\A s \in starts : s.gen # g) /\ (\A w \in walks : w.gen # g)
DoneIsOver == \A e \in ToSet(events) : e.kind = "done" => Over(e.gen)

Shown == /\ \A r \in found.rows : r.root = Root(scope)
         /\ found.done => Over(generation)

QuickInv == QuickType /\ HandedOut /\ OneWalkEach /\ NewestSearchesHere /\ DoneIsOver /\ Shown
QuickSpec == QuickInit /\ [][QuickNext]_quickVars

(* Nothing is under way before the first palette. *)
LEMMA QuickStart == QuickInit => QuickInv
<1> SUFFICES ASSUME QuickInit PROVE QuickInv
  OBVIOUS
<1>1. ToSet(<<>>) = {}
  BY DEF ToSet
<1>2. QuickType
  BY DEF QuickInit, QuickType, InitialSearch, NoSearcher, Roots, FileNames, Rows
<1>3. HandedOut
  BY <1>1 DEF QuickInit, HandedOut, NoSearcher
<1>4. OneWalkEach
  BY DEF QuickInit, OneWalkEach
<1>5. NewestSearchesHere
  BY <1>1 DEF QuickInit, NewestSearchesHere
<1>6. DoneIsOver /\ Shown
  BY <1>1 DEF QuickInit, DoneIsOver, Shown, InitialSearch
<1> QED BY <1>2, <1>3, <1>4, <1>5, <1>6 DEF QuickInv

(* The close of the search before is one call, of a generation handed out. *)
LEMMA ClosingHas ==
  ASSUME QuickInv
  PROVE  Closing \in Seq(Calls) /\ \A c \in ToSet(Closing) : Handed(c.gen)
<1>1. CASE channel # 0
  <2>1. Handed(generation) /\ generation \in Nat
    BY <1>1 DEF QuickInv, QuickType, Handed
  <2> DEFINE c == [op |-> "close", gen |-> generation]
  <2>2. c \in Calls /\ c.gen = generation
    BY <2>1 DEF Calls
  <2>3. Closing = <<c>>
    BY <1>1 DEF Closing
  <2> HIDE DEF c
  <2>4. ToSet(<<c>>) = {c} /\ <<c>> \in Seq(Calls)
    BY <2>2 DEF ToSet
  <2> QED BY <2>1, <2>2, <2>3, <2>4
<1>2. CASE channel = 0
  <2>1. Closing = <<>> /\ <<>> \in Seq(Calls) /\ ToSet(<<>>) = {}
    BY <1>2 DEF Closing, ToSet
  <2> QED BY <2>1
<1> QED BY <1>1, <1>2

(* A search begins: nothing that is under way has its generation. *)
LEMMA StartKeeps ==
  ASSUME QuickInv, NEW s \in {"project", "home"}, NEW p \in ProjectRoots,
         NEW root \in Roots, NEW q \in {"empty", "q"},
         StartSearch(s, root, q), scope' = s, projectRoot' = p, root = Root(s)',
         query' \in {"empty", "q"}, filterTimer' \in {"empty", "q", "off"}
  PROVE  QuickInv'
<1> DEFINE g == generation + 1
           c == [op |-> "query", gen |-> g, q |-> q]
           b == [gen |-> g, root |-> root]
<1>0. /\ generation' = g /\ channel' = g /\ found' = [rows |-> {}, done |-> FALSE]
      /\ searchCalls' = searchCalls \o Closing \o <<c>> /\ starts' = starts \cup {b}
      /\ walks' = walks /\ searcher' = searcher /\ events' = events /\ disk' = disk
  BY DEF StartSearch, InitialSearch
<1>1. generation \in Nat /\ g \in Nat /\ 0 < g /\ g # generation /\ generation < g
  BY DEF QuickInv, QuickType
<1>2. c \in Calls /\ c.gen = g /\ b \in [gen : Nat, root : Roots] /\ b.gen = g /\ b.root = root
  BY <1>1 DEF Calls
<1>3. \A h \in Nat : Handed(h) => h # g /\ 0 < h /\ h <= g
  BY <1>1 DEF Handed
<1>4. /\ searchCalls \o Closing \o <<c>> \in Seq(Calls)
      /\ ToSet(searchCalls \o Closing \o <<c>>) = ToSet(searchCalls) \cup ToSet(Closing) \cup {c}
  <2> HIDE DEF c
  <2>1. <<c>> \in Seq(Calls) /\ ToSet(<<c>>) = {c}
    BY <1>2 DEF ToSet
  <2>2. searchCalls \in Seq(Calls) /\ Closing \in Seq(Calls)
    BY ClosingHas DEF QuickInv, QuickType
  <2>3. searchCalls \o Closing \in Seq(Calls)
        /\ ToSet(searchCalls \o Closing) = ToSet(searchCalls) \cup ToSet(Closing)
    BY <2>2, ConcatHas
  <2>4. \A u, v \in Seq(Calls) : u \o v \in Seq(Calls) /\ ToSet(u \o v) = ToSet(u) \cup ToSet(v)
    BY ConcatHas
  <2> QED BY ONLY <2>1, <2>3, <2>4
<1>t. /\ \A x \in ToSet(searchCalls) \cup ToSet(Closing) : x.gen \in Nat
      /\ \A e \in ToSet(events) : e.gen \in Nat
      /\ \A x \in starts : x.gen \in Nat
      /\ \A w \in walks : w.gen \in Nat
      /\ searcher.gen \in Nat
  <2>1. \A S : \A x \in Seq(S) : \A e \in ToSet(x) : e \in S
    BY DEF ToSet
  <2>2. \A x \in Calls \cup Messages : x.gen \in Nat
    BY DEF Calls, Messages, Results, Dones
  <2>3. searchCalls \in Seq(Calls) /\ Closing \in Seq(Calls) /\ events \in Seq(Messages)
    BY ClosingHas DEF QuickInv, QuickType
  <2>4. /\ \A x \in ToSet(searchCalls) \cup ToSet(Closing) : x \in Calls
        /\ \A e \in ToSet(events) : e \in Messages
    BY ONLY <2>1, <2>3
  <2> QED BY <2>2, <2>4 DEF QuickInv, QuickType
<1>h. /\ \A x \in ToSet(searchCalls) \cup ToSet(Closing) : Handed(x.gen)
      /\ \A e \in ToSet(events) : Handed(e.gen)
      /\ \A x \in starts : Handed(x.gen)
      /\ \A w \in walks : Handed(w.gen)
      /\ searcher.gen <= generation
  BY ClosingHas DEF QuickInv, HandedOut
<1> HIDE DEF g, c, b
<1>5. QuickType'
  BY <1>0, <1>1, <1>2, <1>4 DEF QuickInv, QuickType, Rows
<1>6. HandedOut'
  <2>1. \A h \in Nat : (Handed(h))' <=> 0 < h /\ h <= g
    BY <1>0 DEF Handed
  <2>2. /\ \A x \in ToSet(searchCalls)' : x.gen \in Nat /\ 0 < x.gen /\ x.gen <= g
        /\ \A e \in ToSet(events)' : e.gen \in Nat /\ 0 < e.gen /\ e.gen <= g
        /\ \A x \in starts' : x.gen \in Nat /\ 0 < x.gen /\ x.gen <= g
        /\ \A w \in walks' : w.gen \in Nat /\ 0 < w.gen /\ w.gen <= g
    BY <1>0, <1>1, <1>2, <1>3, <1>4, <1>t, <1>h
  <2>3. (searcher.gen)' <= g
    BY <1>0, <1>1, <1>t, <1>h
  <2> QED BY <2>2, <2>3, <1>0, <1>1 DEF HandedOut, Handed
<1>7. OneWalkEach'
  BY <1>0, <1>2, <1>3, <1>t, <1>h DEF OneWalkEach, QuickInv
<1>8. NewestSearchesHere'
  <2>1. Root(scope)' = root
    BY DEF Root
  <2>2. searcher.gen # g
    BY <1>1, <1>t, <1>h
  <2> QED BY <2>1, <2>2, <1>0, <1>2, <1>3, <1>t, <1>h DEF NewestSearchesHere
<1>9. DoneIsOver'
  BY <1>0, <1>2, <1>3, <1>t, <1>h DEF DoneIsOver, Over, QuickInv
<1>10. Shown'
  BY <1>0 DEF Shown
<1> QED BY <1>5, <1>6, <1>7, <1>8, <1>9, <1>10 DEF QuickInv

(* A step that leaves the search and the scope alone, and what it may do   *)
(* to what the newest search has under way.                                *)
LEMMA CallsAreTyped ==
  ASSUME QuickInv
  PROVE  /\ \A c \in ToSet(searchCalls) : c \in Calls
         /\ \A e \in ToSet(events) : e \in Messages
<1>1. searchCalls \in Seq(Calls) /\ events \in Seq(Messages)
  BY DEF QuickInv, QuickType
<1>2. \A S : \A x \in Seq(S) : \A e \in ToSet(x) : e \in S
  BY DEF ToSet
<1> QED BY ONLY <1>1, <1>2

(* The palette opens on one of its two roots. *)
LEMMA OpenKeeps == ASSUME QuickInv, OpenPalette PROVE QuickInv'
<1> PICK s \in {"project", "home"}, p \in ProjectRoots :
        /\ palette' = TRUE /\ scope' = s /\ projectRoot' = p
        /\ query' = "empty" /\ filterTimer' = "off"
        /\ StartSearch(s, IF s = "project" THEN p ELSE Home, "empty")
  BY DEF OpenPalette
<1> DEFINE root == IF s = "project" THEN p ELSE Home
<1>1. root \in Roots /\ root = Root(s)'
  BY DEF Roots, Root
<1> HIDE DEF root
<1> QED BY <1>1, StartKeeps DEF root

(* ... and goes to the other one. *)
LEMMA ToggleKeeps == ASSUME QuickInv, ToggleScope PROVE QuickInv'
<1>1. /\ projectRoot \in ProjectRoots /\ query \in {"empty", "q"}
      /\ filterTimer \in {"empty", "q", "off"}
  BY DEF QuickInv, QuickType
<1>2. /\ scope' \in {"project", "home"} /\ projectRoot' = projectRoot /\ query' = query
      /\ filterTimer' = filterTimer /\ StartSearch(scope', Root(scope'), query)
  BY DEF ToggleScope
<1> PICK s \in {"project", "home"}, p \in ProjectRoots, q \in {"empty", "q"} :
        s = scope' /\ p = projectRoot /\ q = query
  BY <1>1, <1>2
<1> PICK root \in Roots : root = IF s = "project" THEN p ELSE Home
  BY DEF Roots
<1>3. StartSearch(s, root, q) /\ root = Root(s)'
  BY <1>2 DEF Root
<1> QED BY <1>1, <1>2, <1>3, StartKeeps

(* Typing asks for nothing yet, *)
LEMMA TypeKeeps ==
  ASSUME QuickInv, NEW q \in {"empty", "q"}, TypeQuery(q)
  PROVE  QuickInv'
<1> USE DEF TypeQuery, searchVars
<1>1. QuickType'
  BY DEF QuickInv, QuickType
<1>2. HandedOut'
  BY DEF QuickInv, HandedOut, Handed
<1>3. OneWalkEach' /\ NewestSearchesHere' /\ DoneIsOver' /\ Shown'
  BY DEF QuickInv, OneWalkEach, NewestSearchesHere, DoneIsOver, Shown, Over, Root
<1> QED BY <1>1, <1>2, <1>3 DEF QuickInv

(* ... the timer does. *)
LEMMA RunQueryKeeps == ASSUME QuickInv, RunQuery PROVE QuickInv'
<1> DEFINE c == [op |-> "query", gen |-> generation, q |-> filterTimer]
<1>0. /\ generation \in Nat /\ Handed(generation) /\ filterTimer \in {"empty", "q"}
      /\ searchCalls \in Seq(Calls)
  BY DEF RunQuery, QuickInv, QuickType, HandedOut, Handed
<1>1. c \in Calls /\ c.gen = generation
  BY <1>0 DEF Calls
<1>2. /\ searchCalls' = Append(searchCalls, c) /\ query' = filterTimer /\ filterTimer' = "off"
      /\ UNCHANGED <<palette, scope, projectRoot, generation, channel, found, events,
                     starts, walks, searcher, watching, disk>>
  BY DEF RunQuery, searchVars
<1> HIDE DEF c
<1>3. searchCalls' \in Seq(Calls) /\ ToSet(searchCalls') = ToSet(searchCalls) \cup {c}
  BY <1>0, <1>1, <1>2, AppendHas
<1>4. QuickType'
  BY <1>0, <1>2, <1>3 DEF QuickInv, QuickType
<1>5. HandedOut'
  BY <1>0, <1>1, <1>2, <1>3 DEF QuickInv, HandedOut, Handed
<1>6. OneWalkEach' /\ NewestSearchesHere' /\ DoneIsOver' /\ Shown'
  BY <1>2 DEF QuickInv, OneWalkEach, NewestSearchesHere, DoneIsOver, Shown, Over, Root
<1> QED BY <1>4, <1>5, <1>6 DEF QuickInv

(* What is under way stays so when the palette goes. *)
LEMMA ClosePaletteKeeps == ASSUME QuickInv, ClosePalette PROVE QuickInv'
<1>2. /\ searchCalls' = searchCalls \o Closing /\ filterTimer' = "off" /\ palette' = FALSE
      /\ channel' = 0 /\ found' = [rows |-> {}, done |-> FALSE] /\ 0 < generation
      /\ UNCHANGED <<scope, projectRoot, generation, query, events,
                     starts, walks, searcher, watching, disk>>
  BY DEF ClosePalette, searchVars, InitialSearch, QuickInv, HandedOut
<1>3. searchCalls' \in Seq(Calls) /\ ToSet(searchCalls') = ToSet(searchCalls) \cup ToSet(Closing)
  BY <1>2, ClosingHas, ConcatHas DEF QuickInv, QuickType
<1>4. QuickType'
  BY <1>2, <1>3 DEF QuickInv, QuickType, Rows
<1>5. HandedOut'
  BY <1>2, <1>3, ClosingHas DEF QuickInv, HandedOut, Handed
<1>6. OneWalkEach' /\ NewestSearchesHere' /\ DoneIsOver' /\ Shown'
  BY <1>2 DEF QuickInv, OneWalkEach, NewestSearchesHere, DoneIsOver, Shown, Over, Root
<1> QED BY <1>4, <1>5, <1>6 DEF QuickInv

(* An event is taken when it comes from the channel listened to, which is  *)
(* that of the newest search.                                              *)
LEMMA ArrivalKeeps == ASSUME QuickInv, EventArrives PROVE QuickInv'
<1> DEFINE e == Head(events)
<1>1. /\ events' = Tail(events) /\ found' = Applied(channel, e)
      /\ UNCHANGED <<palette, scope, projectRoot, generation, channel, query, filterTimer,
                     searchCalls, starts, walks, searcher, watching, disk>>
  BY DEF EventArrives, searchVars
<1>2. /\ events' \in Seq(Messages) /\ ToSet(events') \subseteq ToSet(events)
      /\ e \in ToSet(events)
  BY <1>1, TailHas DEF EventArrives, QuickInv, QuickType
<1>3. e \in Messages
  BY <1>2, CallsAreTyped
<1> HIDE DEF e
<1>4. /\ channel = e.gen => e.gen = generation
      /\ generation \in Nat /\ found \in [rows : Rows, done : BOOLEAN]
  BY <1>2 DEF QuickInv, QuickType, HandedOut, Handed
<1>5. CASE found' = found
  <2>1. QuickType'
    BY <1>1, <1>2, <1>5 DEF QuickInv, QuickType
  <2>2. HandedOut' /\ OneWalkEach' /\ NewestSearchesHere'
    BY <1>1, <1>2 DEF QuickInv, HandedOut, OneWalkEach, NewestSearchesHere, Handed, Root
  <2>3. DoneIsOver' /\ Shown'
    BY <1>1, <1>2, <1>5 DEF QuickInv, DoneIsOver, Shown, Over, Root
  <2> QED BY <2>1, <2>2, <2>3 DEF QuickInv
<1>6. CASE found' # found
  <2>1. /\ channel = e.gen /\ e.gen = generation
        /\ \/ e.kind = "done" /\ found' = [found EXCEPT !.done = TRUE]
           \/ e.kind = "results" /\ found' = [found EXCEPT !.rows = e.rows]
    BY <1>1, <1>3, <1>4, <1>6 DEF Applied, ApplyAny, Messages, Results, Dones
  <2>2. CASE e.kind = "done"
    <3>1. found'.rows = found.rows /\ Over(generation) /\ found' \in [rows : Rows, done : BOOLEAN]
      BY <2>1, <2>2, <1>2, <1>4 DEF QuickInv, DoneIsOver
    <3>2. QuickType'
      BY <1>1, <1>2, <3>1 DEF QuickInv, QuickType
    <3>3. HandedOut' /\ OneWalkEach' /\ NewestSearchesHere'
      BY <1>1, <1>2 DEF QuickInv, HandedOut, OneWalkEach, NewestSearchesHere, Handed, Root
    <3>4. DoneIsOver' /\ Shown'
      BY <1>1, <1>2, <3>1 DEF QuickInv, DoneIsOver, Shown, Over, Root
    <3> QED BY <3>2, <3>3, <3>4 DEF QuickInv
  <2>3. CASE e.kind = "results"
    <3>0. e \in Results
      BY <2>3, <1>3 DEF Messages, Dones
    <3>1. /\ found'.rows = e.rows /\ found'.done = found.done
          /\ found' \in [rows : Rows, done : BOOLEAN]
      BY <2>1, <2>3, <3>0, <1>4 DEF Results
    <3>r. \A r \in e.rows : r.root = Root(scope)
      BY <2>1, <2>3, <1>2 DEF QuickInv, NewestSearchesHere
    <3>2. QuickType'
      BY <1>1, <1>2, <3>1 DEF QuickInv, QuickType
    <3>3. HandedOut' /\ OneWalkEach' /\ NewestSearchesHere'
      BY <1>1, <1>2 DEF QuickInv, HandedOut, OneWalkEach, NewestSearchesHere, Handed, Root
    <3>4. DoneIsOver' /\ Shown'
      BY <1>1, <1>2, <3>1, <3>r DEF QuickInv, DoneIsOver, Shown, Over, Root
    <3> QED BY <3>2, <3>3, <3>4 DEF QuickInv
  <2> QED BY <2>1, <2>2, <2>3
<1> QED BY <1>5, <1>6

(* A query is answered for the search that it is meant for, from its own   *)
(* index.                                                                  *)
LEMMA CallKeeps == ASSUME QuickInv, CallRuns PROVE QuickInv'
<1> DEFINE c == Head(searchCalls)
           ours == c.gen = searcher.gen
           e == [kind |-> "results", gen |-> c.gen, rows |-> Matches(c.q)]
<1>1. /\ searchCalls' = Tail(searchCalls)
      /\ events' = IF ours /\ c.op = "query" THEN Append(events, e) ELSE events
      /\ searcher' = IF ours /\ c.op = "close" THEN NoSearcher ELSE searcher
      /\ UNCHANGED <<palette, scope, projectRoot, generation, channel, found, query,
                     filterTimer, starts, walks, disk>>
  BY DEF CallRuns, paletteVars
<1>2. /\ searchCalls' \in Seq(Calls) /\ ToSet(searchCalls') \subseteq ToSet(searchCalls)
      /\ c \in ToSet(searchCalls)
  BY <1>1, TailHas DEF CallRuns, QuickInv, QuickType
<1>3. c \in Calls /\ Handed(c.gen)
  BY <1>2, CallsAreTyped DEF QuickInv, HandedOut
<1>4. /\ searcher \in [gen : Nat, root : Roots, index : SUBSET FileNames]
      /\ generation \in Nat /\ events \in Seq(Messages)
  BY DEF QuickInv, QuickType
<1>5. /\ Matches(c.q) \in Rows
      /\ \A r \in Matches(c.q) : r.root = searcher.root
  BY <1>4 DEF Matches, Rows
<1> HIDE DEF c
<1>6. e \in Results /\ e.gen = c.gen /\ e.kind = "results" /\ e.rows = Matches(c.q)
  BY <1>3, <1>5 DEF Results, Calls
<1> HIDE DEF e
<1>7. /\ NoSearcher.gen = 0
      /\ NoSearcher \in [gen : Nat, root : Roots, index : SUBSET FileNames]
  BY DEF NoSearcher, Roots
<1>8. /\ searcher' \in [gen : Nat, root : Roots, index : SUBSET FileNames]
      /\ searcher'.gen <= generation
      /\ searcher' = searcher \/ searcher'.gen = 0
  BY <1>1, <1>4, <1>7 DEF QuickInv, HandedOut
<1>9. \/ events' = events
      \/ /\ events' \in Seq(Messages) /\ ToSet(events') = ToSet(events) \cup {e} /\ ours
         /\ (e.gen = generation => \A r \in e.rows : r.root = Root(scope))
  <2>1. CASE ours /\ c.op = "query"
    <3>1. e \in Messages
      BY <1>6 DEF Messages
    <3>2. events' \in Seq(Messages) /\ ToSet(events') = ToSet(events) \cup {e}
      BY <2>1, <3>1, <1>1, <1>4, AppendHas
    <3>3. e.gen = generation => \A r \in e.rows : r.root = Root(scope)
      <4>1. 0 < c.gen
        BY <1>3 DEF Handed
      <4>2. e.gen = generation => searcher.root = Root(scope)
        BY <2>1, <4>1, <1>6 DEF QuickInv, NewestSearchesHere
      <4> QED BY <4>2, <1>5, <1>6
    <3> QED BY <2>1, <3>2, <3>3
  <2>2. CASE ~(ours /\ c.op = "query")
    BY <2>2, <1>1
  <2> QED BY <2>1, <2>2
<1>10. QuickType'
  BY <1>1, <1>2, <1>8, <1>9 DEF QuickInv, QuickType
<1>11. HandedOut'
  BY <1>1, <1>2, <1>3, <1>6, <1>8, <1>9 DEF QuickInv, HandedOut, Handed
<1>12. OneWalkEach' /\ Shown'
  BY <1>1 DEF QuickInv, OneWalkEach, Shown, Over, Root
<1>13. NewestSearchesHere'
  BY <1>1, <1>4, <1>8, <1>9 DEF QuickInv, NewestSearchesHere, Root
<1>14. DoneIsOver'
  BY <1>1, <1>6, <1>9 DEF QuickInv, DoneIsOver, Over
<1> QED BY <1>10, <1>11, <1>12, <1>13, <1>14 DEF QuickInv

(* A search that starts becomes the backend's, whatever has been asked     *)
(* since.                                                                  *)
LEMMA StartRunsKeeps ==
  ASSUME QuickInv, NEW s, s \in starts, StartRuns(s)
  PROVE  QuickInv'
<1> DEFINE w == [gen |-> s.gen, root |-> s.root, seen |-> disk[s.root]]
<1>1. /\ s \in [gen : Nat, root : Roots] /\ Handed(s.gen)
      /\ disk \in [Roots -> SUBSET FileNames]
      /\ \A v \in walks : v.gen # s.gen
      /\ \A t \in starts : t.gen = s.gen => t = s
      /\ s.gen = generation => s.root = Root(scope)
  BY DEF QuickInv, QuickType, HandedOut, OneWalkEach, NewestSearchesHere
<1>2. /\ w \in [gen : Nat, root : Roots, seen : SUBSET FileNames]
      /\ w.gen = s.gen /\ w.root = s.root
  BY <1>1
<1>3. /\ starts' = starts \ {s} /\ walks' = walks \cup {w}
      /\ searcher' = [gen |-> s.gen, root |-> s.root, index |-> {}]
      /\ UNCHANGED <<palette, scope, projectRoot, generation, channel, found, query,
                     filterTimer, searchCalls, events, disk>>
  BY DEF StartRuns, paletteVars
<1>4. /\ searcher' \in [gen : Nat, root : Roots, index : SUBSET FileNames]
      /\ searcher'.gen = s.gen /\ searcher'.root = s.root
  BY <1>1, <1>3
<1> HIDE DEF w
<1>5. QuickType'
  BY <1>2, <1>3, <1>4 DEF QuickInv, QuickType
<1>6. HandedOut'
  BY <1>1, <1>2, <1>3, <1>4 DEF QuickInv, HandedOut, Handed
<1>7. OneWalkEach'
  BY <1>1, <1>2, <1>3 DEF QuickInv, OneWalkEach
<1>8. NewestSearchesHere'
  BY <1>1, <1>2, <1>3, <1>4 DEF QuickInv, NewestSearchesHere, Root
<1>9. DoneIsOver' /\ Shown'
  <2>1. \A g : Over(g) => Over(g)'
    BY <1>2, <1>3 DEF Over
  <2> QED BY <2>1, <1>3 DEF QuickInv, DoneIsOver, Shown, Root
<1> QED BY <1>5, <1>6, <1>7, <1>8, <1>9 DEF QuickInv

(* The walk that ends was its search's only one, so its Done is the last   *)
(* word.                                                                   *)
LEMMA WalkEndKeeps ==
  ASSUME QuickInv, NEW w, w \in walks, WalkEnds(w)
  PROVE  QuickInv'
<1> DEFINE e == [kind |-> "done", gen |-> w.gen]
<1>1. /\ w \in [gen : Nat, root : Roots, seen : SUBSET FileNames] /\ Handed(w.gen)
      /\ disk \in [Roots -> SUBSET FileNames]
      /\ \A v \in walks : v.gen = w.gen => v = w
      /\ \A t \in starts : t.gen # w.gen
      /\ searcher \in [gen : Nat, root : Roots, index : SUBSET FileNames]
      /\ searcher.gen <= generation
  BY DEF QuickInv, QuickType, HandedOut, OneWalkEach, NewestSearchesHere
<1>2. e \in Messages /\ e.gen = w.gen /\ e.kind = "done"
  BY <1>1 DEF Messages, Dones
<1>3. /\ walks' = walks \ {w} /\ events' = Append(events, e)
      /\ UNCHANGED <<palette, scope, projectRoot, generation, channel, found, query,
                     filterTimer, searchCalls, starts, disk>>
  BY DEF WalkEnds, paletteVars
<1>4. /\ searcher' \in [gen : Nat, root : Roots, index : SUBSET FileNames]
      /\ searcher'.gen = searcher.gen /\ searcher'.root = searcher.root
  <2>1. CASE w.gen = searcher.gen
    <3> PICK S \in {w.seen, disk[w.root]} : searcher' = [searcher EXCEPT !.index = S]
      BY <2>1 DEF WalkEnds
    <3>1. S \in SUBSET FileNames
      BY <1>1
    <3> QED BY <3>1, <1>1
  <2>2. CASE w.gen # searcher.gen
    BY <2>2, <1>1 DEF WalkEnds
  <2> QED BY <2>1, <2>2
<1> HIDE DEF e
<1>5. events' \in Seq(Messages) /\ ToSet(events') = ToSet(events) \cup {e}
  BY <1>2, <1>3, AppendHas DEF QuickInv, QuickType
<1>6. QuickType'
  BY <1>3, <1>4, <1>5 DEF QuickInv, QuickType
<1>7. HandedOut'
  BY <1>1, <1>2, <1>3, <1>4, <1>5 DEF QuickInv, HandedOut, Handed
<1>8. OneWalkEach'
  BY <1>3 DEF QuickInv, OneWalkEach
<1>9. NewestSearchesHere'
  BY <1>2, <1>3, <1>4, <1>5 DEF QuickInv, NewestSearchesHere, Root
<1>10. DoneIsOver' /\ Shown'
  <2>1. \A g : Over(g) => Over(g)'
    BY <1>3 DEF Over
  <2>2. Over(w.gen)'
    BY <1>1, <1>3 DEF Over
  <2> QED BY <2>1, <2>2, <1>2, <1>3, <1>5 DEF QuickInv, DoneIsOver, Shown, Root
<1> QED BY <1>6, <1>7, <1>8, <1>9, <1>10 DEF QuickInv

(* A file comes or goes on the disk. *)
LEMMA FileKeeps ==
  ASSUME QuickInv, NEW r, r \in DOMAIN disk, FileAppears(r)
  PROVE  QuickInv'
<1>1. /\ disk \in [Roots -> SUBSET FileNames]
      /\ searcher \in [gen : Nat, root : Roots, index : SUBSET FileNames]
  BY DEF QuickInv, QuickType
<1>2. /\ disk' \in [Roots -> SUBSET FileNames]
      /\ searcher' \in [gen : Nat, root : Roots, index : SUBSET FileNames]
      /\ searcher'.gen = searcher.gen /\ searcher'.root = searcher.root
  BY <1>1 DEF FileAppears, FileNames
<1>3. UNCHANGED <<palette, scope, projectRoot, generation, channel, found, query,
                  filterTimer, searchCalls, starts, walks, events>>
  BY DEF FileAppears, paletteVars
<1>4. QuickType'
  BY <1>2, <1>3 DEF QuickInv, QuickType
<1>5. HandedOut' /\ OneWalkEach' /\ NewestSearchesHere'
  BY <1>2, <1>3 DEF QuickInv, HandedOut, OneWalkEach, NewestSearchesHere, Handed, Root
<1>6. DoneIsOver' /\ Shown'
  BY <1>3 DEF QuickInv, DoneIsOver, Shown, Over, Root
<1> QED BY <1>4, <1>5, <1>6 DEF QuickInv

(* Every step keeps the invariant. *)
LEMMA QuickStep == ASSUME QuickInv, [QuickNext]_quickVars PROVE QuickInv'
<1>1. CASE OpenPalette
  BY <1>1, OpenKeeps
<1>2. CASE ToggleScope
  BY <1>2, ToggleKeeps
<1>3. CASE RunQuery
  BY <1>3, RunQueryKeeps
<1>4. CASE ClosePalette
  BY <1>4, ClosePaletteKeeps
<1>5. CASE EventArrives
  BY <1>5, ArrivalKeeps
<1>6. ASSUME NEW q \in {"empty", "q"}, TypeQuery(q) PROVE QuickInv'
  BY <1>6, TypeKeeps
<1>7. CASE CallRuns
  BY <1>7, CallKeeps
<1>8. ASSUME NEW s, s \in starts, StartRuns(s) PROVE QuickInv'
  BY <1>8, StartRunsKeeps
<1>9. ASSUME NEW w, w \in walks, WalkEnds(w) PROVE QuickInv'
  BY <1>9, WalkEndKeeps
<1>10. ASSUME NEW r, r \in DOMAIN disk, FileAppears(r) PROVE QuickInv'
  BY <1>10, FileKeeps
<1>11. CASE UNCHANGED quickVars
  BY <1>11 DEF quickVars, QuickInv, QuickType, HandedOut, OneWalkEach, NewestSearchesHere,
               DoneIsOver, Shown, Over, Handed, Root
<1> QED
  BY <1>1, <1>2, <1>3, <1>4, <1>5, <1>6, <1>7, <1>8, <1>9, <1>10, <1>11 DEF QuickNext

(* The palette shows what its own search found, under the root on screen,  *)
(* and is told that the search is over only when it is (quickopen.ts       *)
(* applyEvent, search/session.rs), for any roots, searches and typing.     *)
THEOREM SearchStaysItsOwn == QuickSpec => []SearchIsItsOwn
<1>1. QuickInv => SearchIsItsOwn
  BY DEF QuickInv, Shown, Over, SearchIsItsOwn
<1> QED BY QuickStart, QuickStep, <1>1, PTL DEF QuickSpec

(***************************************************************************)
(* GitHistory                                                              *)
(*                                                                         *)
(* Unless two openings have crossed, every call under way is for the list  *)
(* on screen, and what is not yet painted for the selected row has a call  *)
(* that will paint it.                                                     *)
(***************************************************************************)
(* The text of the i-th commit of the list on screen. *)
Listed(i) == [of |-> commits, sha |-> CommitsOf[commits][i]]

(* What is shown, or was asked for, is of the list on screen. *)
CallIsOfList(k) ==
  /\ k.load = [of |-> commits, sha |-> k.load.sha]
  /\ k.text = <<>> => k.load = Listed(k.index)
  /\ k.text # <<>> => k.text = <<Listed(k.index)>> /\ Listed(k.index).sha \notin Binary
Painted == detail = IF CommitsOf[commits][selected] \in Binary THEN Says("binary")
                    ELSE Shows(Listed(selected))
DetailComes ==
  panel /\ CommitsOf[commits] # <<>> =>
    Painted \/ \E k \in ToSet(calls) : k.index = selected
CacheIsOfList == panel => \A c \in cache : c = [of |-> commits, sha |-> c.sha]
OneHistory == /\ opens \subseteq {path}
              /\ panel \/ calls # <<>> => opens = {} /\ path = commits

HistoryInv ==
  /\ calls \in Seq(ToSet(calls))
  /\ ~crossed => /\ OneHistory /\ CacheIsOfList /\ DetailComes
                 /\ \A k \in ToSet(calls) : CallIsOfList(k)
HistorySpec == HistoryInit /\ [][HistoryNext]_historyVars

(* No panel shows a history at the start. *)
LEMMA HistoryStart == HistoryInit => HistoryInv
BY DEF HistoryInit, HistoryInv, OneHistory, CacheIsOfList, DetailComes, ToSet

(* One call more, or none: what it leaves of the calls. *)
LEMMA CallsGrow ==
  ASSUME NEW s, s \in Seq(ToSet(s)), NEW k
  PROVE  /\ s \o <<k>> \in Seq(ToSet(s \o <<k>>))
         /\ ToSet(s \o <<k>>) = ToSet(s) \cup {k}
<1> DEFINE S == ToSet(s) \cup {k}
<1>1. <<k>> \in Seq(S) /\ ToSet(<<k>>) = {k}
  BY DEF ToSet
<1>2. s \in Seq(S)
  <2>1. ToSet(s) \subseteq S
    OBVIOUS
  <2> HIDE DEF S
  <2> QED BY <2>1, SeqMonotonic
<1> HIDE DEF S
<1>3. s \o <<k>> \in Seq(S) /\ ToSet(s \o <<k>>) = ToSet(s) \cup {k}
  <2>1. \A u, v \in Seq(S) : u \o v \in Seq(S) /\ ToSet(u \o v) = ToSet(u) \cup ToSet(v)
    BY ConcatHas
  <2> QED BY ONLY <1>1, <1>2, <2>1
<1> QED BY <1>3, SeqOfItsElements

(* With the text of a commit, that of the list f, what is shown is this    *)
(* text or a call for the one before it carries it on.                     *)
Going(f, i, r) ==
  \/ /\ r.calls = <<>>
     /\ r.detail = IF CommitsOf[f][i] \in Binary THEN Says("binary")
                   ELSE Shows([of |-> f, sha |-> CommitsOf[f][i]])
  \/ \E k : /\ r.calls = <<k>> /\ k.index = i /\ k.load = [of |-> f, sha |-> k.load.sha]
            /\ k.text = <<>> => k.load = [of |-> f, sha |-> CommitsOf[f][i]]
            /\ k.text # <<>> => /\ k.text = <<[of |-> f, sha |-> CommitsOf[f][i]]>>
                               /\ CommitsOf[f][i] \notin Binary

(* showCommit goes on with a text that is known, *)
LEMMA ContinueGoes ==
  ASSUME NEW f, NEW i, NEW m, NEW known, NEW c, c = [of |-> f, sha |-> CommitsOf[f][i]],
         path = f
  PROVE  Going(f, i, Continue(f, i, c, m, known))
<1> DEFINE older == CommitsOf[f][i + 1]
           k == [index |-> i, load |-> [of |-> f, sha |-> older], text |-> <<c>>]
           r == Continue(f, i, c, m, known)
<1>1. c.sha = CommitsOf[f][i]
  OBVIOUS
<1>2. CASE c.sha \in Binary
  <2>1. r = [detail |-> Says("binary"), calls |-> <<>>]
    BY <1>2 DEF Continue
  <2>2. r.calls = <<>> /\ r.detail = Says("binary")
    BY ONLY <2>1
  <2> QED BY ONLY <2>2, <1>1, <1>2 DEF Going
<1>3. CASE c.sha \notin Binary /\ m = "diff" /\ i < Len(CommitsOf[f]) /\ Missing(older, known)
  <2>1. r = [detail |-> detail, calls |-> <<k>>]
    BY <1>3 DEF Continue, Waits
  <2>2. /\ k.index = i /\ k.load = [of |-> f, sha |-> k.load.sha] /\ k.text = <<c>>
        /\ <<c>> # <<>>
    OBVIOUS
  <2>3. r.calls = <<k>>
    BY ONLY <2>1
  <2> HIDE DEF k
  <2> QED BY ONLY c = [of |-> f, sha |-> CommitsOf[f][i]], <2>2, <2>3, <1>1, <1>3 DEF Going
<1>4. CASE c.sha \notin Binary /\ ~(m = "diff" /\ i < Len(CommitsOf[f]) /\ Missing(older, known))
  <2>1. r = [detail |-> Shows(c), calls |-> <<>>]
    BY <1>4 DEF Continue
  <2>2. r.calls = <<>> /\ r.detail = Shows(c)
    BY ONLY <2>1
  <2> QED BY ONLY c = [of |-> f, sha |-> CommitsOf[f][i]], <2>2, <1>1, <1>4 DEF Going
<1> QED BY <1>2, <1>3, <1>4

(* ... or asks for it. *)
LEMMA ShowGoes ==
  ASSUME NEW f, NEW i, NEW m, NEW known, path = f,
         \A c \in known : c = [of |-> f, sha |-> c.sha],
         ShowCommit(f, i, m, known)
  PROVE  \E r : Going(f, i, r) /\ detail' = r.detail /\ calls' = calls \o r.calls
<1> DEFINE sha == CommitsOf[f][i]
<1>1. CASE Missing(sha, known)
  <2> DEFINE k == [index |-> i, load |-> [of |-> f, sha |-> sha], text |-> <<>>]
             r == [detail |-> Says("loading"), calls |-> <<k>>]
  <2>1. detail' = r.detail /\ calls' = calls \o r.calls
    BY <1>1 DEF ShowCommit, Waits
  <2>2. k.index = i /\ k.load = [of |-> f, sha |-> sha] /\ k.load.sha = sha /\ k.text = <<>>
    OBVIOUS
  <2>3. r.calls = <<k>>
    OBVIOUS
  <2> HIDE DEF r, k
  <2>4. Going(f, i, r)
    BY <2>2, <2>3 DEF Going
  <2> QED BY <2>1, <2>4
<1>2. CASE ~Missing(sha, known)
  <2> DEFINE c == Of(sha, known)
             r == Continue(f, i, c, m, known)
  <2>1. c \in known /\ c.sha = sha
    BY <1>2 DEF Missing, Of
  <2>2. c = [of |-> f, sha |-> CommitsOf[f][i]]
    BY <2>1
  <2>3. detail' = r.detail /\ calls' = calls \o r.calls
    BY <1>2 DEF ShowCommit
  <2> HIDE DEF c
  <2>4. Going(f, i, r)
    BY <2>2, ContinueGoes
  <2> HIDE DEF r
  <2> QED BY <2>3, <2>4
<1> QED BY <1>1, <1>2

(* In any case one call is added at most. *)
LEMMA ContinueAdds ==
  ASSUME NEW f, NEW i, NEW c, NEW m, NEW known
  PROVE  Continue(f, i, c, m, known).calls = <<>>
         \/ \E k : Continue(f, i, c, m, known).calls = <<k>>
BY DEF Continue, Waits

(* ... also from the start. *)
LEMMA ShowAdds ==
  ASSUME NEW f, NEW i, NEW m, NEW known, ShowCommit(f, i, m, known)
  PROVE  \E cs : calls' = calls \o cs /\ (cs = <<>> \/ \E k : cs = <<k>>)
<1>1. CASE Missing(CommitsOf[f][i], known)
  BY <1>1 DEF ShowCommit, Waits
<1>2. CASE ~Missing(CommitsOf[f][i], known)
  <2>1. PICK c : c = Of(CommitsOf[f][i], known)
    OBVIOUS
  <2>2. calls' = calls \o Continue(f, i, c, m, known).calls
    BY <1>2, <2>1 DEF ShowCommit
  <2> QED BY <2>2, ContinueAdds
<1> QED BY <1>1, <1>2

(* The calls stay a sequence over their own set. *)
LEMMA AddedTo ==
  ASSUME NEW s, s \in Seq(ToSet(s)), NEW cs, cs = <<>> \/ \E k : cs = <<k>>
  PROVE  s \o cs \in Seq(ToSet(s \o cs))
BY CallsGrow, ConcatEmptySeq

(* ... after a step that adds one at most. *)
LEMMA AddedCalls ==
  ASSUME HistoryInv, NEW cs, cs = <<>> \/ \E k : cs = <<k>>, calls' = calls \o cs
  PROVE  calls' \in Seq(ToSet(calls)')
<1>1. PICK s : s = calls
  OBVIOUS
<1>2. s \in Seq(ToSet(s)) /\ calls' = s \o cs
  BY <1>1 DEF HistoryInv
<1>3. s \o cs \in Seq(ToSet(s \o cs))
  BY <1>2, AddedTo
<1>4. ToSet(calls)' = ToSet(s \o cs)
  BY <1>2 DEF ToSet
<1> QED BY ONLY <1>2, <1>3, <1>4

(* What goes on for the selected row keeps the panel's promise. *)
LEMMA GoingKeeps ==
  ASSUME NEW f, NEW i, NEW r, Going(f, i, r), commits' = f, selected' = i,
         NEW before, before \in Seq(ToSet(before)),
         calls' = before \o r.calls, detail' = r.detail,
         \A k \in ToSet(before) : CallIsOfList(k)'
  PROVE  /\ calls' \in Seq(ToSet(calls)')
         /\ DetailComes'
         /\ \A k \in ToSet(calls)' : CallIsOfList(k)'
         /\ ToSet(before) \subseteq ToSet(calls)'
<1>0. ToSet(calls)' = ToSet(calls') /\ Listed(i)' = [of |-> f, sha |-> CommitsOf[f][i]]
  BY DEF ToSet, Listed
<1>1. CASE /\ r.calls = <<>>
           /\ r.detail = IF CommitsOf[f][i] \in Binary THEN Says("binary")
                         ELSE Shows([of |-> f, sha |-> CommitsOf[f][i]])
  <2>1. calls' = before
    BY <1>1, ConcatEmptySeq
  <2>2. Painted'
    BY <1>0, <1>1 DEF Painted
  <2> QED BY <2>1, <2>2, <1>0 DEF DetailComes
<1>2. ASSUME NEW k, r.calls = <<k>>, k.index = i, k.load = [of |-> f, sha |-> k.load.sha],
             k.text = <<>> => k.load = [of |-> f, sha |-> CommitsOf[f][i]],
             k.text # <<>> => /\ k.text = <<[of |-> f, sha |-> CommitsOf[f][i]]>>
                              /\ CommitsOf[f][i] \notin Binary
      PROVE  /\ calls' \in Seq(ToSet(calls)')
             /\ DetailComes'
             /\ \A h \in ToSet(calls)' : CallIsOfList(h)'
             /\ ToSet(before) \subseteq ToSet(calls)'
  <2>1. CallIsOfList(k)'
    BY <1>0, <1>2 DEF CallIsOfList
  <2>2. calls' \in Seq(ToSet(calls')) /\ ToSet(calls') = ToSet(before) \cup {k}
    <3>1. calls' = before \o <<k>> /\ ToSet(<<k>>) = {k}
      BY <1>2 DEF ToSet
    <3> QED BY <3>1, CallsGrow
  <2>3. DetailComes'
    BY <2>2, <1>0, <1>2 DEF DetailComes
  <2> QED BY <2>1, <2>2, <2>3, <1>0
<1> QED BY <1>1, <1>2 DEF Going

(* Another opening while anything is under way is the crossing that is     *)
(* left out.                                                               *)
LEMMA OpenHistoryKeeps ==
  ASSUME HistoryInv, NEW f, OpenHistory(f)
  PROVE  HistoryInv'
<1>1. UNCHANGED <<panel, commits, selected, cache, calls, detail>>
      /\ path' = f /\ opens' = opens \cup {f}
      /\ crossed' = (crossed \/ panel \/ calls # <<>> \/ opens # {})
  BY DEF OpenHistory
<1>2. ~crossed' => ~crossed /\ ~panel /\ calls = <<>> /\ opens = {}
  BY <1>1
<1>3. calls' \in Seq(ToSet(calls)') /\ ToSet(calls)' = ToSet(calls)
  BY <1>1 DEF HistoryInv, ToSet
<1>4. ~crossed' => OneHistory' /\ CacheIsOfList' /\ DetailComes'
  BY <1>1, <1>2 DEF OneHistory, CacheIsOfList, DetailComes
<1>5. ~crossed' => \A k \in ToSet(calls)' : CallIsOfList(k)'
  BY <1>1, <1>2, <1>3 DEF HistoryInv, CallIsOfList, Listed
<1> QED BY <1>3, <1>4, <1>5 DEF HistoryInv

(* The list comes, and its first row is shown. *)
LEMMA HistoryArrivesKeeps ==
  ASSUME HistoryInv, NEW f, f \in opens, HistoryArrives(f)
  PROVE  HistoryInv'
<1>1. /\ opens' = opens \ {f} /\ panel' = TRUE /\ commits' = f /\ selected' = 1 /\ cache' = {}
      /\ path' = path /\ crossed' = crossed
  BY DEF HistoryArrives
<1>2. ~crossed => calls = <<>> /\ path = f /\ opens = {f}
  BY DEF HistoryInv, OneHistory
<1>3. CASE CommitsOf[f] = <<>>
  <2>1. calls' = calls
    BY <1>3 DEF HistoryArrives
  <2>2. ~crossed => ToSet(calls)' = {}
    BY <2>1, <1>2 DEF ToSet
  <2>3. calls' \in Seq(ToSet(calls)')
    BY <2>1 DEF HistoryInv, ToSet
  <2>4. ~crossed => OneHistory' /\ CacheIsOfList' /\ DetailComes'
    BY <1>1, <1>2, <1>3 DEF OneHistory, CacheIsOfList, DetailComes
  <2> QED BY <1>1, <2>2, <2>3, <2>4 DEF HistoryInv
<1>4. CASE CommitsOf[f] # <<>> /\ crossed
  <2>1. PICK cs : calls' = calls \o cs /\ (cs = <<>> \/ \E k : cs = <<k>>)
    BY <1>4, ShowAdds DEF HistoryArrives
  <2> QED BY <1>1, <1>4, <2>1, AddedCalls DEF HistoryInv
<1>5. CASE CommitsOf[f] # <<>> /\ ~crossed
  <2>1. PICK r : Going(f, 1, r) /\ detail' = r.detail /\ calls' = calls \o r.calls
    <3>1. path = f /\ ShowCommit(f, 1, mode, {})
      BY <1>2, <1>5 DEF HistoryArrives
    <3> QED BY <3>1, ShowGoes
  <2>2. calls \in Seq(ToSet(calls)) /\ (\A k \in ToSet(calls) : CallIsOfList(k)')
    BY <1>2, <1>5 DEF HistoryInv, ToSet
  <2>3. /\ calls' \in Seq(ToSet(calls)') /\ DetailComes'
        /\ \A k \in ToSet(calls)' : CallIsOfList(k)'
    BY <1>1, <2>1, <2>2, GoingKeeps
  <2>4. OneHistory' /\ CacheIsOfList'
    BY <1>1, <1>2, <1>5 DEF OneHistory, CacheIsOfList
  <2> QED BY <2>3, <2>4 DEF HistoryInv
<1> QED BY <1>3, <1>4, <1>5

(* A row is chosen or the view is changed, which shows the row i in mode   *)
(* m.                                                                      *)
LEMMA ShowingKeeps ==
  ASSUME HistoryInv, panel, NEW i, NEW m, ShowCommit(commits, i, m, cache), selected' = i,
         UNCHANGED <<path, opens, panel, commits, cache, crossed>>
  PROVE  HistoryInv'
<1>1. CASE crossed
  <2>1. PICK cs : calls' = calls \o cs /\ (cs = <<>> \/ \E k : cs = <<k>>)
    BY ShowAdds
  <2> QED BY <1>1, <2>1, AddedCalls DEF HistoryInv
<1>2. CASE ~crossed
  <2>0. /\ OneHistory /\ CacheIsOfList /\ calls \in Seq(ToSet(calls))
        /\ \A k \in ToSet(calls) : CallIsOfList(k)
    BY <1>2 DEF HistoryInv
  <2>1. PICK f : f = commits
    OBVIOUS
  <2>2. path = f /\ (\A c \in cache : c = [of |-> f, sha |-> c.sha])
        /\ ShowCommit(f, i, m, cache) /\ commits' = f
    BY <2>0, <2>1 DEF OneHistory, CacheIsOfList
  <2>3. PICK r : Going(f, i, r) /\ detail' = r.detail /\ calls' = calls \o r.calls
    BY <2>2, ShowGoes
  <2>4. \A k \in ToSet(calls) : CallIsOfList(k)'
    BY <2>0 DEF CallIsOfList, Listed
  <2>5. /\ calls' \in Seq(ToSet(calls)') /\ DetailComes'
        /\ \A k \in ToSet(calls)' : CallIsOfList(k)'
    BY <2>0, <2>2, <2>3, <2>4, GoingKeeps
  <2>6. OneHistory' /\ CacheIsOfList'
    BY <2>0 DEF OneHistory, CacheIsOfList
  <2> QED BY <2>5, <2>6 DEF HistoryInv
<1> QED BY <1>1, <1>2

(* A row is chosen. *)
LEMMA SelectKeeps == ASSUME HistoryInv, panel, NEW i, Select(i) PROVE HistoryInv'
<1>1. /\ ShowCommit(commits, i, mode, cache) /\ selected' = i
      /\ UNCHANGED <<path, opens, panel, commits, cache, crossed>>
  BY DEF Select
<1>2. PICK m : m = mode
  OBVIOUS
<1> QED BY <1>1, <1>2, ShowingKeeps

(* The view is changed. *)
LEMMA SetModeKeeps == ASSUME HistoryInv, panel, NEW m, SetMode(m) PROVE HistoryInv'
<1>1. UNCHANGED <<path, opens, panel, commits, selected, cache, crossed>>
  BY DEF SetMode
<1>2. CASE CommitsOf[commits] = <<>>
  <2>1. UNCHANGED <<detail, calls>>
    BY <1>2 DEF SetMode
  <2>2. ToSet(calls)' = ToSet(calls)
    BY <2>1 DEF ToSet
  <2> QED BY <1>1, <2>1, <2>2 DEF HistoryInv, OneHistory, CacheIsOfList, DetailComes, Painted,
             CallIsOfList, Listed
<1>3. CASE CommitsOf[commits] # <<>>
  <2>1. PICK i : i = selected
    OBVIOUS
  <2>2. ShowCommit(commits, i, m, cache) /\ selected' = i
    BY <1>1, <1>3, <2>1 DEF SetMode
  <2> QED BY <1>1, <2>2, ShowingKeeps
<1> QED BY <1>2, <1>3

(* Answers that come after the close find no panel. *)
LEMMA ClosePanelKeeps == ASSUME HistoryInv, ClosePanel PROVE HistoryInv'
<1>1. ToSet(calls)' = ToSet(calls)
  BY DEF ClosePanel, ToSet
<1> QED BY <1>1 DEF ClosePanel, HistoryInv, OneHistory, CacheIsOfList, DetailComes,
            CallIsOfList, Listed

(* A content comes back.  If its row is no longer the selected one nothing *)
(* is shown; else what comes is the selected row's, and is shown or goes   *)
(* on.                                                                     *)
LEMMA ContentKeeps ==
  ASSUME HistoryInv, NEW n, n \in DOMAIN calls, ContentArrives(n)
  PROVE  HistoryInv'
<1> DEFINE k == calls[n]
           known == {c \in cache : c.sha # k.load.sha} \cup {k.load}
           r == Resumed(k, known)
           rest == RemoveAt(calls, n)
<1>0. /\ cache' = known /\ detail' = r.detail /\ calls' = rest \o r.calls
      /\ UNCHANGED <<path, opens, panel, commits, selected, mode, crossed>>
  BY DEF ContentArrives
<1>1. calls \in Seq(ToSet(calls)) /\ n \in 1..Len(calls) /\ k \in ToSet(calls)
  BY LenProperties DEF HistoryInv, ToSet
<1>2. /\ rest \in Seq(ToSet(rest)) /\ ToSet(rest) \subseteq ToSet(calls)
      /\ \A h \in ToSet(calls) : h # k => h \in ToSet(rest)
  <2>1. /\ rest \in Seq(ToSet(calls)) /\ ToSet(rest) \subseteq ToSet(calls)
        /\ \A i \in 1..Len(calls) : i # n => calls[i] \in ToSet(rest)
    BY <1>1, RemoveAtHas
  <2>2. rest \in Seq(ToSet(rest))
    BY <2>1, SeqOfItsElements
  <2>3. \A h \in ToSet(calls) : h # k => h \in ToSet(rest)
    BY <2>1, <1>1, LenProperties DEF ToSet
  <2> QED BY <2>1, <2>2, <2>3
<1> HIDE DEF rest
<1>3. CASE crossed
  <2>1. r.calls = <<>> \/ \E h : r.calls = <<h>>
    <3>1. CASE ~StillShown(k) \/ k.text # <<>>
      <4>1. r.calls = <<>>
        BY <3>1 DEF Resumed
      <4> QED BY <4>1
    <3>2. CASE StillShown(k) /\ k.text = <<>>
      <4>1. PICK f, i, c, m, kn :
               f = commits /\ i = k.index /\ c = k.load /\ m = mode /\ kn = known
        OBVIOUS
      <4>2. r = Continue(f, i, c, m, kn)
        BY <3>2, <4>1 DEF Resumed
      <4> HIDE DEF r
      <4> QED BY <4>2, ContinueAdds
    <3> QED BY <3>1, <3>2
  <2> HIDE DEF r
  <2>2. PICK before, cs : before = rest /\ cs = r.calls
    OBVIOUS
  <2>3. before \o cs \in Seq(ToSet(before \o cs))
    BY <1>2, <2>1, <2>2, AddedTo
  <2> QED BY <1>0, <1>3, <2>2, <2>3 DEF HistoryInv, ToSet
<1>4. CASE ~crossed
  <2>0. /\ OneHistory /\ CacheIsOfList /\ DetailComes
        /\ \A h \in ToSet(calls) : CallIsOfList(h)
    BY <1>4 DEF HistoryInv
  <2>1. path = commits /\ opens = {} /\ calls # <<>>
    BY <1>1, <2>0 DEF OneHistory
  <2>2. k.load = [of |-> commits, sha |-> k.load.sha]
    BY <1>1, <2>0 DEF CallIsOfList
  <2>3. OneHistory' /\ CacheIsOfList'
    BY <1>0, <2>0, <2>1, <2>2 DEF OneHistory, CacheIsOfList
  <2>4. \A h \in ToSet(rest) : CallIsOfList(h)'
    BY <1>0, <1>2, <2>0 DEF CallIsOfList, Listed
  <2>5. CASE ~StillShown(k)
    <3>1. r = [detail |-> detail, calls |-> <<>>]
      BY <2>5 DEF Resumed
    <3>2. r.detail = detail /\ r.calls = <<>>
      BY ONLY <3>1
    <3>3. detail' = detail /\ calls' = rest
      BY <1>0, <1>2, <3>2, ConcatEmptySeq
    <3>4. ToSet(calls)' = ToSet(rest)
      BY <3>3 DEF ToSet
    <3>5. DetailComes'
      <4>1. CASE ~panel
        BY <4>1, <1>0 DEF DetailComes
      <4>2. CASE panel
        <5>1. selected # k.index
          BY <4>2, <2>5 DEF StillShown
        <5>2. Painted => Painted'
          BY <1>0, <3>3 DEF Painted, Listed
        <5> QED BY <5>1, <5>2, <1>0, <1>2, <2>0, <3>4 DEF DetailComes
      <4> QED BY <4>1, <4>2
    <3>6. calls' \in Seq(ToSet(calls)') /\ (\A h \in ToSet(calls)' : CallIsOfList(h)')
      BY <1>2, <2>4, <3>3, <3>4
    <3> QED BY <2>3, <3>5, <3>6 DEF HistoryInv
  <2>6. CASE StillShown(k)
    <3>1. PICK f, i, q, before : f = commits /\ i = selected /\ q = r /\ before = rest
      OBVIOUS
    <3>2. k.index = i /\ panel
      BY <2>6, <3>1 DEF StillShown
    <3>3. ASSUME k.text # <<>> PROVE Going(f, i, q)
      <4>1. k.text = <<[of |-> f, sha |-> CommitsOf[f][i]]>> /\ CommitsOf[f][i] \notin Binary
        BY <1>1, <2>0, <3>1, <3>2, <3>3 DEF CallIsOfList, Listed
      <4>2. r = [detail |-> Shows(k.text[1]), calls |-> <<>>]
        BY <2>6, <3>3 DEF Resumed
      <4>3. q.detail = Shows(k.text[1]) /\ q.calls = <<>>
        BY <3>1, <4>2
      <4>4. Going(f, i, q)
        BY <4>1, <4>3 DEF Going
      <4> QED BY <4>4
    <3>4. ASSUME k.text = <<>> PROVE Going(f, i, q)
      <4>1. k.load = [of |-> f, sha |-> CommitsOf[f][i]]
        BY <1>1, <2>0, <3>1, <3>2, <3>4 DEF CallIsOfList, Listed
      <4>2. PICK c, m, kn : c = k.load /\ m = mode /\ kn = known
        OBVIOUS
      <4>3. q = Continue(f, i, c, m, kn)
        BY <2>6, <3>1, <3>2, <3>4, <4>2 DEF Resumed
      <4>4. Going(f, i, Continue(f, i, c, m, kn))
        BY <2>1, <3>1, <4>1, <4>2, ContinueGoes
      <4> QED BY <4>3, <4>4
    <3>5. Going(f, i, q)
      BY <3>3, <3>4
    <3>6. /\ before \in Seq(ToSet(before)) /\ calls' = before \o q.calls /\ detail' = q.detail
          /\ \A h \in ToSet(before) : CallIsOfList(h)'
          /\ commits' = f /\ selected' = i
      BY <1>0, <1>2, <2>4, <3>1
    <3>7. /\ calls' \in Seq(ToSet(calls)') /\ DetailComes'
          /\ \A h \in ToSet(calls)' : CallIsOfList(h)'
      BY <3>5, <3>6, GoingKeeps
    <3> QED BY <2>3, <3>7 DEF HistoryInv
  <2> QED BY <2>5, <2>6
<1> QED BY <1>3, <1>4

(* Every step keeps the invariant. *)
LEMMA HistoryStep == ASSUME HistoryInv, [HistoryNext]_historyVars PROVE HistoryInv'
<1>1. ASSUME NEW f, OpenHistory(f) PROVE HistoryInv'
  BY <1>1, OpenHistoryKeeps
<1>2. ASSUME NEW f, f \in opens, HistoryArrives(f) PROVE HistoryInv'
  BY <1>2, HistoryArrivesKeeps
<1>3. ASSUME NEW i, panel, Select(i) PROVE HistoryInv'
  BY <1>3, SelectKeeps
<1>4. ASSUME NEW m, panel, SetMode(m) PROVE HistoryInv'
  BY <1>4, SetModeKeeps
<1>5. CASE ClosePanel
  BY <1>5, ClosePanelKeeps
<1>6. ASSUME NEW n, n \in DOMAIN calls, ContentArrives(n) PROVE HistoryInv'
  BY <1>6, ContentKeeps
<1>7. CASE UNCHANGED historyVars
  <2>1. ToSet(calls)' = ToSet(calls)
    BY <1>7 DEF historyVars, ToSet
  <2> QED BY <1>7, <2>1 DEF historyVars, HistoryInv, OneHistory, CacheIsOfList,
             DetailComes, Painted, CallIsOfList, Listed
<1> QED BY <1>1, <1>2, <1>3, <1>4, <1>5, <1>6, <1>7 DEF HistoryNext

(* With nothing under way the detail is that of the selected commit of the *)
(* list on screen (githistory.ts showCommit), for any files, commits and   *)
(* orders of answers, unless two openings crossed.                         *)
THEOREM DetailIsTheSelected == HistorySpec => []DetailIsOfSelected
<1>1. HistoryInv => DetailIsOfSelected
  <2>1. calls = <<>> => ToSet(calls) = {}
    BY DEF ToSet
  <2> QED BY <2>1 DEF HistoryInv, DetailComes, Painted, Listed, DetailIsOfSelected
<1> QED BY HistoryStart, HistoryStep, <1>1, PTL DEF HistorySpec

(***************************************************************************)
(* AgentSignals                                                            *)
(*                                                                         *)
(* A tab that has been in front since its primary state last changed has   *)
(* this state acknowledged, and a bell is only drawn for one that is not.  *)
(***************************************************************************)
(* A pane is in one tab. *)
OneTabEach == /\ \A t \in AllTabs : PanesOf[t] \in Seq(Panes)
              /\ \A t, u \in AllTabs : t # u => ToSet(PanesOf[t]) \cap ToSet(PanesOf[u]) = {}

Primaries(t) == Primary(entries, t)
(* A bell is on a tab behind the others whose state is unseen, and a tab   *)
(* that has been in front since it changed has its state acknowledged.     *)
BellsAreNews ==
  \A t \in AllTabs : mark[t] = "bell" => /\ t \in tabs /\ t # activeTab
                                         /\ acknowledged[t] # Primaries(t).kind
SeenIsAcknowledged ==
  \A t \in seenChange : t \in tabs => acknowledged[t] = Primaries(t).kind
SignalInv ==
  /\ activeTab \in AllTabs /\ seenChange \subseteq AllTabs /\ tabs \subseteq AllTabs
  /\ happened \in Nat /\ entries = [p \in Panes |-> entries[p]]
  /\ \A p \in Panes : entries[p].since \in 0..happened
  /\ activeTab \in seenChange
  /\ BellsAreNews /\ SeenIsAcknowledged
SignalSpec == SignalInit /\ [][SignalNext]_signalVars

(* Nothing has been told of the agents yet. *)
LEMMA SignalStart == ASSUME AllTabs # {}, SignalInit PROVE SignalInv
<1>1. activeTab \in AllTabs
  BY DEF SignalInit
<1>2. ASSUME NEW t \in AllTabs PROVE acknowledged[t] = Primaries(t).kind
  <2>1. \A p \in ToSet(PanesOf[t]) : entries[p] = NoEntry
    BY DEF SignalInit, Panes
  <2>2. Primaries(t) = NoEntry
    BY <2>1 DEF Primaries, Primary, MostUrgent
  <2> QED BY <2>2 DEF SignalInit, NoEntry
<1>3. BellsAreNews /\ SeenIsAcknowledged
  BY <1>2 DEF SignalInit, BellsAreNews, SeenIsAcknowledged
<1>4. happened = 0 /\ entries = [p \in Panes |-> NoEntry] /\ NoEntry.since = 0
  BY DEF SignalInit, NoEntry
<1>5. \A p \in Panes : entries[p].since \in 0..happened
  BY <1>4
<1> QED BY <1>1, <1>3, <1>4, <1>5 DEF SignalInit, SignalInv

(* renderTabs makes both true for the tab in front and keeps them for the  *)
(* others as long as what the user has seen has not changed.               *)
LEMMA Rendered ==
  ASSUME NEW ts, NEW a, NEW es, ts \subseteq AllTabs, a \in AllTabs, RenderTabs(ts, a, es),
         tabs' = ts, activeTab' = a, entries' = es
  PROVE  /\ BellsAreNews'
         /\ \A t \in AllTabs : t \in ts =>
              acknowledged'[t] = IF t = a THEN Primary(es, t).kind ELSE acknowledged[t]
<1>1. /\ \A t \in AllTabs : acknowledged'[t] = IF t \notin ts THEN "none"
                              ELSE IF t = a THEN Primary(es, t).kind ELSE acknowledged[t]
      /\ \A t \in AllTabs : mark'[t] = IF t \in ts THEN Mark(t, Primary(es, t), t = a) ELSE "none"
  BY DEF RenderTabs
<1>2. ASSUME NEW t \in AllTabs, mark'[t] = "bell"
      PROVE  t \in ts /\ t # a /\ acknowledged'[t] # Primary(es, t).kind
  <2>1. t \in ts /\ Mark(t, Primary(es, t), t = a) = "bell"
    BY <1>1, <1>2
  <2>2. t # a /\ acknowledged[t] # Primary(es, t).kind
    BY <2>1 DEF Mark, Attention
  <2> QED BY <1>1, <2>1, <2>2
<1>3. \A t \in AllTabs : Primaries(t)' = Primary(es, t)
  BY DEF Primaries, Primary
<1> QED BY <1>1, <1>2, <1>3 DEF BellsAreNews

(* A tab comes to the front: it is seen, *)
LEMMA ActivateKeeps ==
  ASSUME SignalInv, NEW t, t \in AllTabs, Activate(t), UNCHANGED <<entries, tabs, happened>>
  PROVE  SignalInv'
<1>1. PICK es, ts : es = entries /\ ts = tabs
  OBVIOUS
<1>2. /\ ts \subseteq AllTabs /\ RenderTabs(ts, t, es) /\ tabs' = ts /\ activeTab' = t
      /\ entries' = es /\ seenChange' = seenChange \cup {t}
  BY <1>1 DEF Activate, SignalInv
<1>3. /\ BellsAreNews'
      /\ \A u \in AllTabs : u \in ts =>
           acknowledged'[u] = IF u = t THEN Primary(es, u).kind ELSE acknowledged[u]
  BY <1>2, Rendered
<1>4. \A u \in AllTabs : Primaries(u)' = Primary(es, u) /\ Primaries(u) = Primary(es, u)
  BY <1>1, <1>2 DEF Primaries, Primary
<1>5. SeenIsAcknowledged'
  BY <1>1, <1>2, <1>3, <1>4 DEF SeenIsAcknowledged, SignalInv
<1>6. happened' \in Nat /\ entries' = [p \in Panes |-> entries'[p]]
      /\ \A p \in Panes : entries'[p].since \in 0..happened'
  BY DEF SignalInv
<1> QED BY <1>1, <1>2, <1>3, <1>5, <1>6 DEF SignalInv

(* ... or it is closed behind the others. *)
LEMMA CloseTabKeeps ==
  ASSUME SignalInv, NEW t, CloseTab(t)
  PROVE  SignalInv'
<1>1. PICK es, ts, a : es = entries /\ ts = tabs \ {t} /\ a = activeTab
  OBVIOUS
<1>2. /\ ts \subseteq AllTabs /\ RenderTabs(ts, a, es) /\ tabs' = ts /\ activeTab' = a
      /\ entries' = es /\ seenChange' = seenChange /\ a \in AllTabs
  BY <1>1 DEF CloseTab, SignalInv
<1>3. /\ BellsAreNews'
      /\ \A u \in AllTabs : u \in ts =>
           acknowledged'[u] = IF u = a THEN Primary(es, u).kind ELSE acknowledged[u]
  BY <1>2, Rendered
<1>4. \A u \in AllTabs : Primaries(u)' = Primary(es, u) /\ Primaries(u) = Primary(es, u)
  BY <1>1, <1>2 DEF Primaries, Primary
<1>5. SeenIsAcknowledged'
  BY <1>1, <1>2, <1>3, <1>4 DEF SeenIsAcknowledged, SignalInv
<1>6. happened' \in Nat /\ entries' = [p \in Panes |-> entries'[p]]
      /\ \A p \in Panes : entries'[p].since \in 0..happened'
  BY DEF SignalInv, CloseTab
<1> QED BY <1>1, <1>2, <1>3, <1>5, <1>6 DEF SignalInv

(* The tab of a pane is one that has it. *)
LEMMA HomeTab ==
  ASSUME OneTabEach, NEW p \in Panes
  PROVE  TabOf(p) \in AllTabs /\ p \in ToSet(PanesOf[TabOf(p)])
<1>1. \A t \in AllTabs : DOMAIN PanesOf[t] = 1..Len(PanesOf[t])
  BY LenProperties DEF OneTabEach
<1>2. \A t \in AllTabs : Contains(PanesOf[t], p) <=> p \in ToSet(PanesOf[t])
  BY <1>1 DEF ToSet, Contains
<1>3. \E t \in AllTabs : Contains(PanesOf[t], p)
  BY <1>2 DEF Panes
<1>4. TabOf(p) \in AllTabs /\ Contains(PanesOf[TabOf(p)], p)
  BY <1>3 DEF TabOf
<1> QED BY <1>2, <1>4

(* The primary state of a tab is a matter of its panes. *)
LEMMA PrimaryOf ==
  ASSUME NEW t, NEW e, NEW f, \A q \in ToSet(PanesOf[t]) : e[q] = f[q]
  PROVE  Primary(e, t) = Primary(f, t)
<1>1. {e[p] : p \in ToSet(PanesOf[t])} = {f[p] : p \in ToSet(PanesOf[t])}
  OBVIOUS
<1> QED BY <1>1 DEF Primary

(* An event changes the primary state of the pane's own tab at most, which *)
(* is news unless it is in front.                                          *)
LEMMA EventKeeps ==
  ASSUME OneTabEach, SignalInv, NEW p \in Panes, NEW s, NEW quiet, Event(p, s, quiet)
  PROVE  SignalInv'
<1>0. PICK e : e = [kind |-> s.kind, confidence |-> s.confidence,
                    since |-> IF entries[p].kind = s.kind THEN entries[p].since
                              ELSE happened + 1]
  OBVIOUS
<1>1. PICK es, ts, a : es = [entries EXCEPT ![p] = e] /\ ts = tabs /\ a = activeTab
  OBVIOUS
<1>2. /\ ts \subseteq AllTabs /\ RenderTabs(ts, a, es) /\ tabs' = ts /\ activeTab' = a
      /\ entries' = es /\ a \in AllTabs
      /\ seenChange' = IF TabOf(p) = activeTab \/ Primary(es, TabOf(p)) =
                         Primary(entries, TabOf(p))
                      THEN seenChange ELSE seenChange \ {TabOf(p)}
  BY <1>0, <1>1 DEF Event, SignalInv
<1>3. /\ BellsAreNews'
      /\ \A u \in AllTabs : u \in ts =>
           acknowledged'[u] = IF u = a THEN Primary(es, u).kind ELSE acknowledged[u]
  BY <1>2, Rendered
<1>4. TabOf(p) \in AllTabs /\ p \in ToSet(PanesOf[TabOf(p)])
  BY HomeTab
<1>5. ASSUME NEW u \in AllTabs, u # TabOf(p)
      PROVE  Primary(es, u) = Primary(entries, u)
  <2>1. p \notin ToSet(PanesOf[u])
    BY <1>4, <1>5 DEF OneTabEach
  <2>2. \A q \in ToSet(PanesOf[u]) : es[q] = entries[q]
    BY <1>1, <2>1 DEF SignalInv, Panes
  <2> QED BY <2>2, PrimaryOf
<1>6. \A u \in AllTabs : Primaries(u)' = Primary(es, u) /\ Primaries(u) = Primary(entries, u)
  BY <1>1, <1>2 DEF Primaries, Primary
<1>7. SeenIsAcknowledged'
  BY <1>1, <1>2, <1>3, <1>5, <1>6 DEF SeenIsAcknowledged, SignalInv
<1>8. /\ happened' \in Nat /\ entries' = [q \in Panes |-> entries'[q]]
      /\ \A q \in Panes : entries'[q].since \in 0..happened'
  <2>1. happened \in Nat /\ happened' = happened + 1
    BY DEF SignalInv, Event
  <2>2. e.since \in 0..happened + 1
    BY <1>0, <2>1 DEF SignalInv
  <2>3. \A q \in Panes : entries'[q].since \in 0..happened + 1
    <3> TAKE q \in Panes
    <3>1. entries'[q] = IF q = p THEN e ELSE entries[q]
      BY <1>1, <1>2 DEF SignalInv
    <3>2. entries[q].since \in 0..happened
      BY DEF SignalInv
    <3> QED BY <3>1, <3>2, <2>1, <2>2
  <2>4. entries' = [q \in Panes |-> entries'[q]]
    BY <1>1, <1>2 DEF SignalInv
  <2> QED BY <2>1, <2>3, <2>4
<1> QED BY <1>1, <1>2, <1>3, <1>7, <1>8 DEF SignalInv

(* A set of numbers has a least one. *)
LEMMA LeastOfAll ==
  ASSUME NEW T \in SUBSET Nat, T # {}
  PROVE  \E x \in T : \A y \in T : x <= y
<1> DEFINE R == OpToRel(<, Nat)
<1>1. PICK x \in T : \A y \in T : ~ (<<y, x>> \in R)
  <2>1. IsWellFoundedOn(R, Nat)
    BY NatLessThanWellFounded
  <2> HIDE DEF R
  <2> QED BY <2>1, WFMin
<1>2. \A y \in T : ~ (y < x)
  BY <1>1 DEF OpToRel
<1> QED BY <1>2

(* The ids that the keys jump to are panes. *)
LEMMA EndsAreThere ==
  ASSUME SignalInv, NEW S, S \subseteq Panes, S # {}
  PROVE  Oldest(S) \in S /\ Newest(S) \in S
<1>0. happened \in Nat /\ \A p \in S : entries[p].since \in 0..happened
  BY DEF SignalInv
<1>1. \E p \in S : \A q \in S : entries[p].since <= entries[q].since
  <2> DEFINE T == {entries[p].since : p \in S}
  <2>1. T \in SUBSET Nat /\ T # {}
    BY <1>0
  <2> HIDE DEF T
  <2>2. PICK x \in T : \A y \in T : x <= y
    BY <2>1, LeastOfAll
  <2> QED BY <2>2 DEF T
<1>2. \E p \in S : \A q \in S : entries[q].since <= entries[p].since
  <2> DEFINE T == {happened - entries[p].since : p \in S}
  <2>1. T \in SUBSET Nat /\ T # {}
    BY <1>0
  <2> HIDE DEF T
  <2>2. PICK x \in T : \A y \in T : x <= y
    BY <2>1, LeastOfAll
  <2>3. PICK p \in S : x = happened - entries[p].since
    BY DEF T
  <2>4. ASSUME NEW q \in S PROVE entries[q].since <= entries[p].since
    <3>1. happened - entries[p].since <= happened - entries[q].since
      BY <2>2, <2>3 DEF T
    <3>2. entries[p].since \in Int /\ entries[q].since \in Int /\ happened \in Int
      BY <1>0
    <3> QED BY ONLY <3>1, <3>2
  <2> QED BY <2>4
<1> QED BY <1>1, <1>2 DEF Oldest, Newest

(* ... whichever way they go. *)
LEMMA JumpsToPane ==
  /\ SignalInv /\ WaitingIds # {} => \A c, dir : CycleWaitingId(c, dir) \in Panes
  /\ (/\ SignalInv
      /\ \E p \in TrackedIds : NeedsYou(entries[p]) \/ entries[p].kind = "errored")
     => NeedsAttentionId \in Panes
<1>1. ASSUME SignalInv, WaitingIds # {}, NEW c, NEW dir
      PROVE  CycleWaitingId(c, dir) \in Panes
  <2>1. WaitingIds \subseteq Panes
    BY DEF WaitingIds, TrackedIds
  <2>2. \A S : S \subseteq Panes /\ S # {} => Oldest(S) \in Panes /\ Newest(S) \in Panes
    BY <1>1, EndsAreThere
  <2> DEFINE later == {p \in WaitingIds : entries[p].since > entries[c].since}
             earlier == {p \in WaitingIds : entries[p].since < entries[c].since}
             ahead == IF c \in WaitingIds /\ later # {} THEN later ELSE WaitingIds
             before == IF c \in WaitingIds /\ earlier # {} THEN earlier ELSE WaitingIds
  <2>3. ahead \subseteq Panes /\ ahead # {} /\ before \subseteq Panes /\ before # {}
    BY <1>1, <2>1
  <2>4. CycleWaitingId(c, dir) = IF dir = 1 THEN Oldest(ahead) ELSE Newest(before)
    BY DEF CycleWaitingId
  <2> HIDE DEF ahead, before
  <2> QED BY <2>2, <2>3, <2>4
<1>2. ASSUME SignalInv, NEW q \in TrackedIds, NeedsYou(entries[q]) \/ entries[q].kind = "errored"
      PROVE  NeedsAttentionId \in Panes
  <2>2. \A S : S \subseteq Panes /\ S # {} => Oldest(S) \in Panes
    BY <1>2, EndsAreThere
  <2> DEFINE waiting == {p \in TrackedIds : NeedsYou(entries[p])}
             errored == {p \in TrackedIds : entries[p].kind = "errored"}
             who == IF waiting # {} THEN waiting ELSE errored
  <2>3. who \subseteq Panes /\ who # {}
    BY <1>2 DEF TrackedIds
  <2>4. NeedsAttentionId = Oldest(who)
    BY DEF NeedsAttentionId
  <2> HIDE DEF who
  <2> QED BY <2>2, <2>3, <2>4
<1> QED BY <1>1, <1>2

(* Every step keeps the invariant. *)
LEMMA SignalStep == ASSUME OneTabEach, SignalInv, [SignalNext]_signalVars PROVE SignalInv'
<1>0. \A p \in Panes : TabOf(p) \in AllTabs
  BY HomeTab
<1>1. ASSUME NEW p \in Panes, NEW s, NEW quiet, Event(p, s, quiet) PROVE SignalInv'
  BY <1>1, EventKeeps
<1>2. ASSUME NEW t \in AllTabs, UserActivates(t) PROVE SignalInv'
  BY <1>2, ActivateKeeps DEF UserActivates, Quiet
<1>3. ASSUME NEW t \in AllTabs, CloseTab(t) PROVE SignalInv'
  BY <1>3, CloseTabKeeps
<1>4. ASSUME NEW p \in Panes, FocusSession(p) PROVE SignalInv'
  <2>1. PICK t : t = TabOf(p)
    OBVIOUS
  <2> QED BY <1>0, <1>4, <2>1, ActivateKeeps DEF FocusSession, Quiet
<1>5. ASSUME UNCHANGED <<entries, tabs, activeTab, acknowledged, mark, seenChange, happened>>
      PROVE SignalInv'
  <2>1. PICK es : es = entries
    OBVIOUS
  <2>2. \A t : Primaries(t)' = Primary(es, t) /\ Primaries(t) = Primary(es, t)
    BY <1>5, <2>1 DEF Primaries, Primary
  <2> QED BY <1>5, <2>2 DEF SignalInv, BellsAreNews, SeenIsAcknowledged
<1>6. ASSUME NEW dir, CycleWaiting(dir) PROVE SignalInv'
  <2>1. PICK p : p = CycleWaitingId(activePane[activeTab], dir)
    OBVIOUS
  <2>2. FocusSession(p)
    BY <1>6, <2>1 DEF CycleWaiting
  <2>3. p \in Panes
    BY <1>6, <2>1, JumpsToPane DEF CycleWaiting
  <2> QED BY <1>4, <2>2, <2>3
<1>7. CASE GotoWhoNeedsMe
  <2>1. PICK p : p = NeedsAttentionId
    OBVIOUS
  <2>2. FocusSession(p)
    BY <1>7, <2>1 DEF GotoWhoNeedsMe
  <2>3. p \in Panes
    BY <1>7, <2>1, JumpsToPane DEF GotoWhoNeedsMe
  <2> QED BY <1>4, <2>2, <2>3
<1>8. ASSUME \/ \E p \in Panes : FocusPane(p)
             \/ WindowFocus \/ CooldownEnds \/ Flush \/ Fire \/ UNCHANGED signalVars
      PROVE  UNCHANGED <<entries, tabs, activeTab, acknowledged, mark, seenChange, happened>>
  BY <1>8 DEF FocusPane, Quiet, WindowFocus, CooldownEnds, Flush, Fire, signalVars
<1> QED BY <1>1, <1>2, <1>3, <1>5, <1>6, <1>7, <1>8 DEF SignalNext

(* A tab that has been in front since the state it shows last changed      *)
(* wears no bell (app.ts renderTabs, tabAttention), for any tabs, panes,   *)
(* states and events.                                                      *)
THEOREM SeenAreQuiet == AllTabs # {} /\ OneTabEach => (SignalSpec => []SeenTabsAreNotFlagged)
<1> SUFFICES ASSUME AllTabs # {}, OneTabEach PROVE SignalSpec => []SeenTabsAreNotFlagged
  OBVIOUS
<1>1. SignalInit => SignalInv
  BY SignalStart
<1>2. SignalInv /\ [SignalNext]_signalVars => SignalInv'
  BY SignalStep
<1>3. SignalInv => SeenTabsAreNotFlagged
  BY DEF SignalInv, BellsAreNews, SeenIsAcknowledged, SeenTabsAreNotFlagged
<1> QED BY <1>1, <1>2, <1>3, PTL DEF SignalSpec

(***************************************************************************)
(* MemoryPrompts                                                           *)
(*                                                                         *)
(* An end of the agent's work that the rule has not looked at, a job that  *)
(* waits and a prompt that was typed are counted together: each stands for *)
(* an end of its own.                                                      *)
(***************************************************************************)
(* The places of a sequence with an element in R, and how many there are.  *)
At(s, R) == {k \in DOMAIN s : s[k] \in R}
Count(s, R) == Cardinality(At(s, R))

(* How many elements of a sequence are of a kind: a number, *)
LEMMA CountIsNat ==
  ASSUME NEW S, NEW s \in Seq(S), NEW R
  PROVE  IsFiniteSet(At(s, R)) /\ Count(s, R) \in Nat /\ At(s, R) \subseteq 1..Len(s)
<1>1. Len(s) \in Nat /\ DOMAIN s = 1..Len(s)
  BY LenProperties
<1>2. IsFiniteSet(1..Len(s))
  BY <1>1, FS_Interval
<1>3. At(s, R) \subseteq 1..Len(s)
  BY <1>1 DEF At
<1>4. IsFiniteSet(At(s, R))
  BY <1>2, <1>3, FS_Subset
<1> QED BY <1>3, <1>4, FS_CardinalityType DEF Count

(* ... with one more, *)
LEMMA CountOfMore ==
  ASSUME NEW S, NEW s \in Seq(S), NEW e \in S, NEW R
  PROVE  /\ s \o <<e>> \in Seq(S)
         /\ Count(s \o <<e>>, R) = Count(s, R) + (IF e \in R THEN 1 ELSE 0)
<1>1. /\ s \o <<e>> \in Seq(S) /\ DOMAIN (s \o <<e>>) = 1..(Len(s) + 1)
      /\ \A i \in 1..Len(s) : (s \o <<e>>)[i] = s[i]
      /\ (s \o <<e>>)[Len(s) + 1] = e /\ Len(s) \in Nat /\ DOMAIN s = 1..Len(s)
  <2>1. <<e>> \in Seq(S) /\ Len(<<e>>) = 1 /\ <<e>>[1] = e
    OBVIOUS
  <2>2. /\ s \o <<e>> \in Seq(S) /\ Len(s \o <<e>>) = Len(s) + 1
        /\ \A i \in 1..Len(s) + 1 :
             (s \o <<e>>)[i] = IF i <= Len(s) THEN s[i] ELSE <<e>>[i - Len(s)]
    <3>1. \A u, v \in Seq(S) : /\ u \o v \in Seq(S) /\ Len(u \o v) = Len(u) + Len(v)
             /\ \A i \in 1..Len(u) + Len(v) :
                   (u \o v)[i] = IF i <= Len(u) THEN u[i] ELSE v[i - Len(u)]
      BY ConcatProperties
    <3>2. PICK v : v = <<e>>
      OBVIOUS
    <3>3. v \in Seq(S) /\ Len(v) = 1
      BY <2>1, <3>2
    <3>4. /\ s \o v \in Seq(S) /\ Len(s \o v) = Len(s) + 1
          /\ \A i \in 1..Len(s) + 1 : (s \o v)[i] = IF i <= Len(s) THEN s[i] ELSE v[i - Len(s)]
      <4>1. /\ s \o v \in Seq(S) /\ Len(s \o v) = Len(s) + Len(v)
            /\ \A i \in 1..Len(s) + Len(v) :
                  (s \o v)[i] = IF i <= Len(s) THEN s[i] ELSE v[i - Len(s)]
        BY <3>1, <3>3
      <4>2. Len(s) + Len(v) = Len(s) + 1
        BY <3>3
      <4> QED BY ONLY <4>1, <4>2
    <3> QED BY <3>2, <3>4
  <2>3. Len(s) \in Nat /\ DOMAIN s = 1..Len(s) /\ DOMAIN (s \o <<e>>) = 1..Len(s \o <<e>>)
    BY <2>2, LenProperties
  <2>4. Len(s) + 1 \in 1..Len(s) + 1 /\ ~(Len(s) + 1 <= Len(s)) /\ (Len(s) + 1) - Len(s) = 1
        /\ \A i \in 1..Len(s) : i \in 1..Len(s) + 1 /\ i <= Len(s)
    BY <2>3
  <2>5. (s \o <<e>>)[Len(s) + 1] = e
    BY ONLY <2>1, <2>2, <2>4
  <2>6. \A i \in 1..Len(s) : (s \o <<e>>)[i] = s[i]
    BY ONLY <2>2, <2>4
  <2> QED BY ONLY <2>2, <2>3, <2>5, <2>6
<1>2. Len(s) + 1 \notin At(s, R)
  BY <1>1 DEF At
<1>3. CASE e \in R
  <2>1. At(s \o <<e>>, R) = At(s, R) \cup {Len(s) + 1}
    BY ONLY <1>1, <1>3 DEF At
  <2> QED BY <1>1, <1>2, <1>3, <2>1, CountIsNat, FS_AddElement DEF Count
<1>4. CASE e \notin R
  <2>1. At(s \o <<e>>, R) = At(s, R)
    BY ONLY <1>1, <1>4 DEF At
  <2> QED BY <1>1, <1>4, <2>1, CountIsNat DEF Count
<1> QED BY <1>3, <1>4

(* ... with one less, *)
LEMMA CountOfLess ==
  ASSUME NEW S, NEW s \in Seq(S), NEW n \in 1..Len(s), NEW R
  PROVE  /\ RemoveAt(s, n) \in Seq(S)
         /\ Count(RemoveAt(s, n), R) + (IF s[n] \in R THEN 1 ELSE 0) <= Count(s, R)
<1>1. PICK r : r = RemoveAt(s, n)
  OBVIOUS
<1>2. /\ r \in Seq(S) /\ DOMAIN r = 1..Len(s) - 1
      /\ \A i \in 1..Len(s) - 1 : r[i] = IF i < n THEN s[i] ELSE s[i + 1]
      /\ Len(s) \in Nat /\ DOMAIN s = 1..Len(s)
  BY <1>1, RemoveAtHas, LenProperties
<1> DEFINE f == [i \in At(r, R) |-> IF i < n THEN i ELSE i + 1]
<1>3. \A i \in At(r, R) : i \in 1..Len(s) - 1 /\ r[i] \in R
  BY <1>2 DEF At
<1>4. \A i \in At(r, R) : f[i] \in At(s, R) \ {n}
  <2> TAKE i \in At(r, R)
  <2>1. i \in 1..Len(s) - 1 /\ r[i] \in R
    BY <1>3
  <2>2. CASE i < n
    BY <2>1, <2>2, <1>2 DEF At
  <2>3. CASE ~(i < n)
    BY <2>1, <2>3, <1>2 DEF At
  <2> QED BY <2>2, <2>3
<1>5. \A i, j \in At(r, R) : f[i] = f[j] => i = j
  BY <1>2, <1>3
<1>6. f \in Injection(At(r, R), At(s, R) \ {n})
  BY <1>4, <1>5 DEF Injection, IsInjective
<1>7. /\ IsFiniteSet(At(s, R)) /\ IsFiniteSet(At(s, R) \ {n})
      /\ Cardinality(At(s, R) \ {n}) = IF n \in At(s, R) THEN Count(s, R) - 1 ELSE Count(s, R)
  BY CountIsNat, FS_RemoveElement DEF Count
<1> HIDE DEF f
<1>8. Count(r, R) <= Cardinality(At(s, R) \ {n})
  BY <1>6, <1>7, FS_Injection DEF Count
<1>9. n \in At(s, R) <=> s[n] \in R
  BY <1>2 DEF At
<1>10. Count(r, R) \in Nat /\ Count(s, R) \in Nat
  BY <1>2, CountIsNat
<1> QED BY <1>1, <1>2, <1>7, <1>8, <1>9, <1>10

(* ... and when no element changes its kind. *)
LEMMA CountOfSame ==
  ASSUME NEW s, NEW r, NEW R, DOMAIN r = DOMAIN s, \A k \in DOMAIN s : r[k] \in R <=> s[k] \in R
  PROVE  Count(r, R) = Count(s, R)
<1>1. At(r, R) = At(s, R)
  BY DEF At
<1> QED BY <1>1 DEF Count
(* The jobs that wait, and those of them that save for tab t. *)
Jobs == [rule : {"autosave", "bootstrap"}, tab : MemTabs, step : {"cwd", "status"}]
SavesOf(t) == {j \in Jobs : j.tab = t /\ j.rule = "autosave"}
(* An end of the work that the rule has not looked at yet. *)
News(t) == IF agent[t] = "done" /\ lastState[t] # "done" THEN 1 ELSE 0

PromptTyped ==
  /\ activeId \in MemTabs /\ firingRules \in Seq(Jobs)
  /\ agent = [t \in MemTabs |-> agent[t]] /\ lastState = [t \in MemTabs |-> lastState[t]]
  /\ prompts \in [MemTabs -> Nat] /\ dones \in [MemTabs -> Nat]
PromptInv ==
  /\ PromptTyped
  /\ \A t \in MemTabs : prompts[t] + Count(firingRules, SavesOf(t)) + News(t) <= dones[t]
PromptSpec == PromptInit /\ [][PromptNext]_promptVars

(* No agent has finished yet. *)
LEMMA PromptStart == PromptInit => PromptInv
<1>1. ASSUME NEW R PROVE Count(<<>>, R) = 0
  <2>1. At(<<>>, R) = {}
    BY DEF At
  <2> QED BY <2>1, FS_EmptySet DEF Count
<1>2. ASSUME PromptInit PROVE PromptTyped
  BY <1>2 DEF PromptInit, PromptTyped
<1>3. ASSUME PromptInit, NEW t \in MemTabs
      PROVE  prompts[t] = 0 /\ dones[t] = 0 /\ News(t) = 0 /\ firingRules = <<>>
  BY <1>3 DEF PromptInit, News
<1>4. ASSUME PromptInit, NEW t \in MemTabs
      PROVE  prompts[t] + Count(firingRules, SavesOf(t)) + News(t) <= dones[t]
  <2>1. Count(firingRules, SavesOf(t)) = 0
    BY <1>1, <1>3, <1>4
  <2> QED BY <2>1, <1>3, <1>4
<1> QED BY <1>2, <1>4 DEF PromptInv

(* The jobs that wait are so many. *)
LEMMA Firing ==
  ASSUME PromptInv, NEW t
  PROVE  Count(firingRules, SavesOf(t)) \in Nat
BY CountIsNat DEF PromptInv, PromptTyped

(* An event is looked at for the tab in front: an end of its agent's work  *)
(* becomes a job at most once, since it is not looked at again.            *)
LEMMA AgentMovesKeeps ==
  ASSUME PromptInv, NEW u \in MemTabs, NEW nowIs, AgentMoves(u, nowIs)
  PROVE  PromptInv'
<1> DEFINE saves == ShouldAutosave(activeId, lastState[activeId])
           boots == BecameDone(activeId, lastState[activeId])
           a == Job("autosave", activeId)
           b == Job("bootstrap", activeId)
<1>1. PICK s, f : s = firingRules /\ f = activeId
  OBVIOUS
<1>2. s \in Seq(Jobs) /\ f \in MemTabs
  BY <1>1 DEF PromptInv, PromptTyped
<1>3. a \in Jobs /\ b \in Jobs /\ \A t : (a \in SavesOf(t) <=> t = f) /\ b \notin SavesOf(t)
  BY <1>1, <1>2 DEF Job, Jobs, SavesOf
<1> HIDE DEF a, b
<1>4. PICK s1 : /\ s1 = IF saves THEN s \o <<a>> ELSE s
                /\ s1 \in Seq(Jobs)
                /\ \A t : Count(s1, SavesOf(t)) =
                          Count(s, SavesOf(t)) + (IF saves /\ t = f THEN 1 ELSE 0)
  <2>1. \A t : Count(s, SavesOf(t)) \in Nat
    BY <1>2, CountIsNat
  <2>2. CASE saves
    <3>1. s \o <<a>> \in Seq(Jobs)
          /\ \A t : Count(s \o <<a>>, SavesOf(t)) =
                    Count(s, SavesOf(t)) + (IF a \in SavesOf(t) THEN 1 ELSE 0)
      BY <1>2, <1>3, CountOfMore
    <3> HIDE DEF saves
    <3> QED BY <1>3, <2>2, <3>1
  <2>3. CASE ~saves
    <3> HIDE DEF saves
    <3> QED BY <1>2, <2>1, <2>3
  <2> QED BY <2>2, <2>3
<1>5. PICK s2 : /\ s2 = IF boots THEN s1 \o <<b>> ELSE s1
                /\ s2 \in Seq(Jobs)
                /\ \A t : Count(s2, SavesOf(t)) = Count(s1, SavesOf(t))
  <2>1. \A t : Count(s1, SavesOf(t)) \in Nat
    BY <1>4, CountIsNat
  <2>2. CASE boots
    <3>1. s1 \in Seq(Jobs) /\ b \in Jobs
      BY <1>3, <1>4
    <3>2. s1 \o <<b>> \in Seq(Jobs)
          /\ \A t : Count(s1 \o <<b>>, SavesOf(t)) =
                    Count(s1, SavesOf(t)) + (IF b \in SavesOf(t) THEN 1 ELSE 0)
      BY ONLY <3>1, CountOfMore
    <3>3. \A t : Count(s1 \o <<b>>, SavesOf(t)) = Count(s1, SavesOf(t))
      BY <1>3, <2>1, <3>2
    <3> HIDE DEF boots
    <3> QED BY <2>2, <3>2, <3>3
  <2>3. CASE ~boots
    <3> HIDE DEF boots
    <3> QED BY <1>4, <2>3
  <2> QED BY <2>2, <2>3
<1>6. firingRules' = s2
  <2>1. firingRules' = s \o (IF saves THEN <<a>> ELSE <<>>) \o (IF boots THEN <<b>> ELSE <<>>)
    BY <1>1 DEF AgentMoves, a, b
  <2> HIDE DEF saves, boots
  <2>2. s \o (IF saves THEN <<a>> ELSE <<>>) = s1
    BY <1>2, <1>4, ConcatEmptySeq
  <2>3. s1 \o (IF boots THEN <<b>> ELSE <<>>) = s2
    BY <1>4, <1>5, ConcatEmptySeq
  <2> QED BY <2>1, <2>2, <2>3
<1>7. /\ agent' = [agent EXCEPT ![u] = nowIs]
      /\ dones' = [dones EXCEPT ![u] = @ + (IF nowIs = "done" /\ agent[u] # "done" THEN 1 ELSE 0)]
      /\ lastState' = [lastState EXCEPT ![f] = agent'[f]]
      /\ activeId' = f /\ prompts' = prompts
  BY <1>1 DEF AgentMoves
<1>8. PromptTyped'
  <2>1. firingRules' \in Seq(Jobs)
    BY <1>5, <1>6
  <2>2. Seq(Jobs)' = Seq(Jobs)
    BY DEF Jobs
  <2>3. PromptTyped
    BY DEF PromptInv
  <2>4. activeId' \in MemTabs /\ prompts' \in [MemTabs -> Nat]
    BY <1>2, <1>7, <2>3 DEF PromptTyped
  <2>5. dones' \in [MemTabs -> Nat]
    BY <1>7, <2>3 DEF PromptTyped
  <2>6. agent' = [t \in MemTabs |-> agent'[t]] /\ lastState' = [t \in MemTabs |-> lastState'[t]]
    BY <1>7, <2>3 DEF PromptTyped
  <2> QED BY <2>1, <2>2, <2>4, <2>5, <2>6 DEF PromptTyped
<1>9. ASSUME NEW t \in MemTabs
      PROVE  (prompts[t] + Count(firingRules, SavesOf(t)) + News(t) <= dones[t])'
  <2>0. prompts[t] \in Nat /\ dones[t] \in Nat /\ Count(s, SavesOf(t)) \in Nat
        /\ prompts[t] + Count(s, SavesOf(t)) + News(t) <= dones[t]
    BY <1>1, Firing DEF PromptInv, PromptTyped
  <2>1. Count(firingRules', SavesOf(t)) = Count(s, SavesOf(t)) + (IF saves /\ t = f THEN 1 ELSE 0)
    BY <1>4, <1>5, <1>6
  <2>2. agent'[t] = (IF t = u THEN nowIs ELSE agent[t])
        /\ lastState'[t] = (IF t = f THEN agent'[t] ELSE lastState[t])
        /\ prompts'[t] = prompts[t]
        /\ dones'[t] = dones[t] + (IF t = u /\ nowIs = "done" /\ agent[t] # "done" THEN 1 ELSE 0)
    BY <1>2, <1>7, <2>0 DEF PromptInv, PromptTyped
  <2>3. saves /\ t = f => agent'[t] = "done" /\ lastState[t] # "done"
    BY <1>1 DEF ShouldAutosave
  <2> HIDE DEF saves
  <2>4. (IF saves /\ t = f THEN 1 ELSE 0) + News(t)'
        <= News(t) + (IF t = u /\ nowIs = "done" /\ agent[t] # "done" THEN 1 ELSE 0)
    BY ONLY <2>2, <2>3 DEF News
  <2>5. PICK x, y, z, w : /\ x = (IF saves /\ t = f THEN 1 ELSE 0) /\ y = News(t)' /\ z = News(t)
                          /\ w = (IF t = u /\ nowIs = "done" /\ agent[t] # "done" THEN 1 ELSE 0)
    OBVIOUS
  <2>6. x \in Nat /\ y \in Nat /\ z \in Nat /\ w \in Nat /\ x + y <= z + w
    BY ONLY <2>4, <2>5 DEF News
  <2>7. Count(firingRules, SavesOf(t))' = Count(firingRules', SavesOf(t))
    BY DEF Count, At, SavesOf, Jobs
  <2> QED BY <2>0, <2>1, <2>2, <2>5, <2>6, <2>7
<1> QED BY <1>8, <1>9 DEF PromptInv

(* A job ends, and at most its own prompt is typed. *)
LEMMA JobEnds ==
  ASSUME PromptInv, NEW n \in DOMAIN firingRules, firingRules' = RemoveAt(firingRules, n),
         UNCHANGED <<activeId, agent, lastState, dones>>,
         \/ prompts' = prompts
         \/ prompts' = [prompts EXCEPT ![firingRules[n].tab] =
                          @ + (IF firingRules[n].rule = "autosave" THEN 1 ELSE 0)]
  PROVE  PromptInv'
<1>1. PICK s : s = firingRules
  OBVIOUS
<1>2. s \in Seq(Jobs) /\ n \in 1..Len(s) /\ firingRules' = RemoveAt(s, n) /\ s[n] \in Jobs
  BY <1>1, LenProperties DEF PromptInv, PromptTyped
<1>3. /\ RemoveAt(s, n) \in Seq(Jobs)
      /\ \A t : Count(RemoveAt(s, n), SavesOf(t)) + (IF s[n] \in SavesOf(t) THEN 1 ELSE 0)
                <= Count(s, SavesOf(t))
  BY <1>2, CountOfLess
<1>4. s[n].tab \in MemTabs /\ prompts \in [MemTabs -> Nat] /\ dones \in [MemTabs -> Nat]
  BY <1>2 DEF Jobs, PromptInv, PromptTyped
<1>5. \A t \in MemTabs : /\ prompts'[t] \in Nat
                         /\ prompts'[t] <= prompts[t] + (IF s[n] \in SavesOf(t) THEN 1 ELSE 0)
  <2> TAKE t \in MemTabs
  <2>1. s[n] \in SavesOf(t) <=> s[n].tab = t /\ s[n].rule = "autosave"
    BY <1>2 DEF SavesOf
  <2>2. prompts[t] \in Nat
    BY <1>4
  <2>3. CASE prompts' = prompts
    BY <2>2, <2>3
  <2>4. CASE prompts' = [prompts EXCEPT
                 ![s[n].tab] = @ + (IF s[n].rule = "autosave" THEN 1 ELSE 0)]
    <3>1. prompts'[t] = IF t = s[n].tab
                        THEN prompts[t] + (IF s[n].rule = "autosave" THEN 1 ELSE 0)
                        ELSE prompts[t]
      BY <1>4, <2>4
    <3> QED BY <2>1, <2>2, <3>1
  <2> QED BY <1>1, <2>3, <2>4
<1>6. PromptTyped'
  <2>1. prompts' \in [MemTabs -> Nat]
    BY <1>1, <1>4
  <2>2. Seq(Jobs)' = Seq(Jobs)
    BY DEF Jobs
  <2> QED BY <1>2, <1>3, <2>1, <2>2 DEF PromptInv, PromptTyped
<1>7. ASSUME NEW t \in MemTabs
      PROVE  (prompts[t] + Count(firingRules, SavesOf(t)) + News(t) <= dones[t])'
  <2>0. prompts[t] \in Nat /\ dones[t] \in Nat /\ Count(s, SavesOf(t)) \in Nat /\ News(t) \in Nat
        /\ prompts[t] + Count(s, SavesOf(t)) + News(t) <= dones[t]
    BY <1>1, Firing DEF PromptInv, PromptTyped, News
  <2>1. Count(RemoveAt(s, n), SavesOf(t)) \in Nat
    BY <1>3, CountIsNat
  <2>2. Count(firingRules, SavesOf(t))' = Count(RemoveAt(s, n), SavesOf(t)) /\ News(t)' = News(t)
        /\ dones'[t] = dones[t]
    BY <1>2 DEF Count, At, SavesOf, Jobs, News
  <2>3. PICK x : x = IF s[n] \in SavesOf(t) THEN 1 ELSE 0
    OBVIOUS
  <2>4. x \in Nat /\ prompts'[t] \in Nat /\ prompts'[t] <= prompts[t] + x
        /\ Count(RemoveAt(s, n), SavesOf(t)) + x <= Count(s, SavesOf(t))
    BY <1>3, <1>5, <2>3
  <2> QED BY <2>0, <2>1, <2>2, <2>4
<1> QED BY <1>6, <1>7 DEF PromptInv

(* What waits keeps its place and its tab. *)
LEMMA JobsStand ==
  ASSUME PromptInv, NEW r, r \in Seq(Jobs), firingRules' = r,
         UNCHANGED <<agent, lastState, dones, prompts>>, activeId' \in MemTabs,
         \A t : Count(r, SavesOf(t)) = Count(firingRules, SavesOf(t))
  PROVE  PromptInv'
<1>1. Seq(Jobs)' = Seq(Jobs) /\ \A t : Count(firingRules, SavesOf(t))' = Count(r, SavesOf(t))
  BY DEF Count, At, SavesOf, Jobs
<1>2. PromptTyped'
  BY <1>1 DEF PromptInv, PromptTyped
<1>3. \A t \in MemTabs : /\ prompts'[t] = prompts[t] /\ dones'[t] = dones[t] /\ News(t)' = News(t)
                         /\ Count(firingRules, SavesOf(t))' = Count(firingRules, SavesOf(t))
  BY <1>1 DEF News
<1> QED BY <1>2, <1>3 DEF PromptInv

(* The first answer: the job goes on or ends. *)
LEMMA CwdIsKnownKeeps ==
  ASSUME PromptInv, NEW n, CwdIsKnown(n)
  PROVE  PromptInv'
<1>1. CASE firingRules' = RemoveAt(firingRules, n)
  BY <1>1, JobEnds DEF CwdIsKnown
<1>2. CASE firingRules' = [firingRules EXCEPT ![n].step = "status"]
  <2>1. PICK s, r, e : /\ s = firingRules /\ r = [s EXCEPT ![n] = e]
                       /\ e = [s[n] EXCEPT !.step = "status"]
    OBVIOUS
  <2>a. s \in Seq(Jobs) /\ n \in 1..Len(s)
    BY <2>1, LenProperties DEF PromptInv, PromptTyped, CwdIsKnown
  <2>b. s[n] \in Jobs
    BY <2>a, LenProperties
  <2>c. firingRules' = r
    BY <1>2, <2>1
  <2>2. s \in Seq(Jobs) /\ n \in 1..Len(s) /\ firingRules' = r /\ s[n] \in Jobs
    BY <2>a, <2>b, <2>c
  <2>3. e \in Jobs /\ \A t : e \in SavesOf(t) <=> s[n] \in SavesOf(t)
    BY <2>1, <2>2 DEF Jobs, SavesOf
  <2>4. r \in Seq(Jobs) /\ DOMAIN r = DOMAIN s
    BY <2>1, <2>2, <2>3, ExceptSeq
  <2>5. \A t : Count(r, SavesOf(t)) = Count(s, SavesOf(t))
    <3> TAKE t
    <3>1. \A k \in DOMAIN s : r[k] \in SavesOf(t) <=> s[k] \in SavesOf(t)
      BY <2>1, <2>3
    <3> QED BY <2>4, <3>1, CountOfSame
  <2> QED BY <2>1, <2>2, <2>4, <2>5, JobsStand DEF CwdIsKnown, PromptInv, PromptTyped
<1> QED BY <1>1, <1>2 DEF CwdIsKnown

(* Every step keeps the invariant. *)
LEMMA PromptStep == ASSUME PromptInv, [PromptNext]_promptVars PROVE PromptInv'
<1>1. ASSUME NEW t \in MemTabs, NEW nowIs, AgentMoves(t, nowIs) PROVE PromptInv'
  BY <1>1, AgentMovesKeeps
<1>2. ASSUME NEW n, CwdIsKnown(n) PROVE PromptInv'
  BY <1>2, CwdIsKnownKeeps
<1>3. ASSUME NEW n, StatusIsKnown(n) PROVE PromptInv'
  BY <1>3, JobEnds DEF StatusIsKnown, Type
<1>4. ASSUME NEW n, RuleFails(n) PROVE PromptInv'
  BY <1>4, JobEnds DEF RuleFails
<1>5. ASSUME UNCHANGED <<agent, lastState, firingRules, dones, prompts>>, activeId' \in MemTabs
      PROVE  PromptInv'
  BY <1>5, JobsStand DEF PromptInv, PromptTyped
<1>6. ASSUME \/ \E t \in MemTabs : BringToFront(t) \/ CooldownIsOver(t) \/ AgentFills(t)
             \/ OpenMemory \/ (\E agreed : AnswerInit(agreed) \/ AnswerDocs(agreed))
             \/ MemoryIsInited \/ MemoryIsShown \/ UNCHANGED promptVars
      PROVE  UNCHANGED <<agent, lastState, firingRules, dones, prompts>> /\ activeId' \in MemTabs
  BY <1>6 DEF BringToFront, CooldownIsOver, AgentFills, OpenMemory, AnswerInit, AnswerDocs,
     MemoryIsInited, MemoryIsShown, promptVars, PromptInv, PromptTyped
<1> QED BY <1>1, <1>2, <1>3, <1>4, <1>5, <1>6 DEF PromptNext

(* The save prompt is typed at most once for each time the agent of a tab  *)
(* finished, however the answers of the jobs interleave with the tabs and  *)
(* the agents (app.ts maybeAutosave, memory-actions.ts), for any tabs,     *)
(* projects and moves.                                                     *)
THEOREM PromptedOnce == PromptSpec => []OnePromptPerDone
<1>1. ASSUME PromptInv, NEW t \in MemTabs
      PROVE  prompts[t] + Cardinality({k \in DOMAIN firingRules : firingRules[k].tab = t /\
                                firingRules[k].rule = "autosave"}) <= dones[t]
  <2>1. \A k \in DOMAIN firingRules : firingRules[k] \in Jobs
    BY <1>1, LenProperties DEF PromptInv, PromptTyped
  <2>2. {k \in DOMAIN firingRules : firingRules[k].tab = t /\ firingRules[k].rule = "autosave"}
        = At(firingRules, SavesOf(t))
    BY <2>1 DEF At, SavesOf
  <2>3. prompts[t] \in Nat /\ dones[t] \in Nat /\ Count(firingRules, SavesOf(t)) \in Nat
        /\ News(t) \in Nat /\ prompts[t] + Count(firingRules, SavesOf(t)) + News(t) <= dones[t]
    BY <1>1, Firing DEF PromptInv, PromptTyped, News
  <2>4. prompts[t] + Count(firingRules, SavesOf(t)) <= dones[t]
    BY ONLY <2>3
  <2> QED BY <2>2, <2>4 DEF Count
<1>2. PromptInv => OnePromptPerDone
  BY <1>1 DEF OnePromptPerDone
<1> QED BY PromptStart, PromptStep, <1>2, PTL DEF PromptSpec

(***************************************************************************)
(* PinDock                                                                 *)
(***************************************************************************)
(* Every persist of a window that has restored its dock writes the dock as *)
(* it stands; the steps that change no cell need none.                     *)
DockInv ==
    /\ \E S : cells \in [Places -> S]
    /\ DockOutlivesRestart

(* The dock in the store outlives a restart (app.ts restorePinDock and     *)
(* persist), for any number of contents.                                   *)
THEOREM DockIsKept ==
    PinInit /\ [][PinNext]_pinVars => []DockOutlivesRestart
<1>1. PinInit => DockInv
  <2> SUFFICES ASSUME PinInit PROVE DockInv
    OBVIOUS
  <2>1. cells \in [Places -> {0}]
    BY DEF PinInit
  <2> QED
    BY <2>1 DEF PinInit, DockInv, DockOutlivesRestart
<1>2. DockInv /\ [PinNext]_pinVars => DockInv'
  <2> SUFFICES ASSUME DockInv, [PinNext]_pinVars PROVE DockInv'
    OBVIOUS
  <2>1. PICK S : cells \in [Places -> S]
    BY DEF DockInv
  <2>2. ASSUME NEW T, cells' \in [Places -> T], Persist(cells', kind'),
               UNCHANGED <<restored, bootDock>>
        PROVE  DockInv'
    BY <2>2 DEF Persist, DockInv, DockOutlivesRestart
  <2>3. ASSUME UNCHANGED <<cells, kind, savedDock, restored, bootDock>> PROVE DockInv'
    BY <2>3 DEF DockInv, DockOutlivesRestart, Written
  <2>4. ASSUME NEW c, NEW p, cells' = [cells EXCEPT ![p] = c], Persist(cells', kind'),
               UNCHANGED <<restored, bootDock>>
        PROVE  DockInv'
    <3>1. cells' \in [Places -> S \cup {c}]
      BY <2>1, <2>4
    <3> QED
      BY <2>2, <2>4, <3>1
  <2>5. CASE RestoreCell
    <3>1. CASE bootDock[at] = "none"
      BY <2>3, <2>5, <3>1 DEF RestoreCell
    <3>2. CASE bootDock[at] # "none"
      BY <2>4, <2>5, <3>2 DEF RestoreCell, OpenInCell, PlaceInCell
    <3> QED
      BY <3>1, <3>2
  <2>6. CASE DockRestored
    BY <2>1, <2>6 DEF DockRestored, DockInv, DockOutlivesRestart, Written
  <2>7. CASE OpenDock
    <3>1. cells' = [p \in Places |-> cells'[p]]
      BY <2>7 DEF OpenDock
    <3>2. cells' \in [Places -> {cells'[p] : p \in Places}]
      BY <3>1
    <3>3. Persist(cells', kind') /\ UNCHANGED <<restored, bootDock>>
      BY <2>7 DEF OpenDock
    <3> QED
      BY <2>2, <3>2, <3>3
  <2>8. CASE CloseDock
    <3>1. cells' \in [Places -> {0}]
      BY <2>8 DEF CloseDock
    <3>2. Persist(cells', kind') /\ UNCHANGED <<restored, bootDock>>
      BY <2>8 DEF CloseDock, Persist
    <3> QED
      BY <2>2, <3>1, <3>2
  <2>9. CASE CloseFocusedPin
    <3>1. CASE cells[focusedPin] = 0
      <4>1. cells' = cells
        BY <2>1, <2>9, <3>1 DEF CloseFocusedPin
      <4> QED
        BY <2>3, <2>9, <3>1, <4>1 DEF CloseFocusedPin
    <3>2. CASE cells[focusedPin] # 0
      BY <2>4, <2>9, <3>2 DEF CloseFocusedPin, Persist
    <3> QED
      BY <3>1, <3>2
  <2>10. CASE Snapshot
    BY <2>1, <2>2, <2>10 DEF Snapshot, Persist
  <2>11. ASSUME NEW k, NEW p, OpenInCell(p, k), UNCHANGED <<restored, bootDock>>
         PROVE  DockInv'
    BY <2>4, <2>11 DEF OpenInCell, PlaceInCell
  <2>12. ASSUME NEW k \in Kinds, AddToPinDock(k) \/ \E p \in Places : Picks(p, k)
         PROVE  DockInv'
    BY <2>11, <2>12 DEF AddToPinDock, Picks
  <2>13. ASSUME NEW c \in DOMAIN kind, OpenFails(c) \/ Exits(c) PROVE DockInv'
    BY <2>4, <2>13 DEF OpenFails, Exits, UnpinCell, Persist
  <2>14. CASE \/ LeaveDock \/ UNCHANGED pinVars \/ \E p \in Places : FocusCell(p)
              \/ \E c \in DOMAIN kind : Opened(c)
    BY <2>3, <2>14 DEF LeaveDock, pinVars, FocusCell, Opened
  <2> QED
    BY <2>5, <2>6, <2>7, <2>8, <2>9, <2>10, <2>12, <2>13, <2>14 DEF PinNext
<1> QED
  BY <1>1, <1>2, PTL DEF DockInv

-----------------------------------------------------------------------------

(***************************************************************************)
(* ConfigSync                                                              *)
(***************************************************************************)
Config == [size : Nat, theme : {0, 1}, font : {"builtin", "download"},
           key : {"set", "unset"}]

AtMostOne(s) == s \in {<<>>} \cup {<<c>> : c \in Config}

ConfigTyped ==
    /\ configFile \in Config /\ store \in Config /\ conf \in [Windows -> Config]
    /\ sets \in [Windows -> Seq(Config)] /\ heard \in [Windows -> Seq(Config)]
    /\ AtMostOne(saving) /\ AtMostOne(read) /\ fontSize \in Nat

(* Unless the watcher still has a change to look at, what it has read is   *)
(* the file, and with nothing read the backend has the file.               *)
WatcherIsCurrent ==
    /\ saving # <<>> => dirty
    /\ ~dirty /\ read # <<>> => Head(read) = configFile
    /\ ~dirty /\ read = <<>> => configFile = store

(* The last change on its way to the main window is what the backend has;  *)
(* with none on its way, and no save of its own, so is its copy.           *)
MainIsCurrent ==
    /\ heard["main"] # <<>> => heard["main"][Len(heard["main"])] = store
    /\ heard["main"] = <<>> /\ sets["main"] = <<>> /\ saving = <<>> =>
          conf["main"] = store

ConfigInv == ConfigTyped /\ WatcherIsCurrent /\ MainIsCurrent

(* The last element of a sequence that grows, and of one that loses its    *)
(* head.                                                                   *)
LEMMA LastAppended ==
    ASSUME NEW S, NEW s \in Seq(S), NEW x \in S
    PROVE  /\ Append(s, x) \in Seq(S) /\ Append(s, x) # <<>>
           /\ Append(s, x)[Len(Append(s, x))] = x
BY AppendProperties

(* ... and what is left when the head is taken. *)
LEMMA LastOfTail ==
    ASSUME NEW S, NEW s \in Seq(S), s # <<>>
    PROVE  /\ Head(s) \in S /\ Tail(s) \in Seq(S)
           /\ Tail(s) = <<>> => s[Len(s)] = Head(s)
           /\ Tail(s) # <<>> => Tail(s)[Len(Tail(s))] = s[Len(s)]
<1>1. /\ Len(s) \in Nat /\ Len(s) > 0 /\ Head(s) = s[1] /\ Head(s) \in S
  BY EmptySeq, HeadTailProperties
<1>2. /\ Tail(s) \in Seq(S) /\ Len(Tail(s)) = Len(s) - 1
      /\ \A i \in 1..Len(Tail(s)) : Tail(s)[i] = s[i + 1]
  BY HeadTailProperties
<1>3. Tail(s) = <<>> <=> Len(s) = 1
  <2>1. Tail(s) = <<>> <=> Len(Tail(s)) = 0
    BY <1>2, EmptySeq
  <2> QED
    BY <1>1, <1>2, <2>1
<1>4. Tail(s) # <<>> => Tail(s)[Len(s) - 1] = s[Len(s)]
  BY <1>1, <1>2, <1>3
<1> QED
  BY <1>1, <1>2, <1>3, <1>4

(* An edit of one setting. *)
LEMMA EditedConfig ==
    ASSUME NEW c \in Config
    PROVE  /\ [c EXCEPT !.theme = 1 - @] \in Config
           /\ \A n \in Nat : [c EXCEPT !.size = n] \in Config
           /\ \A f \in {"builtin", "download"} : [c EXCEPT !.font = f] \in Config
           /\ \A k \in {"set", "unset"} : [c EXCEPT !.key = k] \in Config
<1>1. 1 - c.theme \in {0, 1}
  BY DEF Config
<1> QED
  BY <1>1 DEF Config

(* What the thread of the backend, or the watcher, has in hand. *)
LEMMA OneOrNone ==
    ASSUME NEW s, AtMostOne(s), s # <<>>
    PROVE  Head(s) \in Config
BY DEF AtMostOne

(* The backend takes configuration c and tells the windows. *)
LEMMA EmitKeeps ==
    ASSUME ConfigTyped, NEW c \in Config, Emit(c), store' = c
    PROVE  /\ heard' \in [Windows -> Seq(Config)] /\ heard'["main"] # <<>>
           /\ heard'["main"][Len(heard'["main"])] = store'
<1>1. heard["main"] \in Seq(Config) /\ heard["settings"] \in Seq(Config)
  BY DEF ConfigTyped, Windows
<1>2. /\ heard' \in [Windows -> Seq(Config)]
      /\ heard'["main"] = Append(heard["main"], c)
  BY <1>1, LastAppended DEF Emit, ConfigTyped, Windows
<1> QED
  BY <1>1, <1>2, LastAppended

(* A window sends its copy: the main one has a save under way then. *)
LEMMA SaveKeeps ==
    ASSUME ConfigInv, NEW w \in Windows, NEW c \in Config, Saves(w, c),
           UNCHANGED <<heard, backendVars, fontSize>>
    PROVE  ConfigInv'
<1>1. /\ sets' = [sets EXCEPT ![w] = Append(sets[w], c)]
      /\ conf' = [conf EXCEPT ![w] = c]
      /\ UNCHANGED <<configFile, store, saving, dirty, read, heard, fontSize>>
  BY DEF Saves, backendVars
<1>2. Append(sets[w], c) \in Seq(Config) /\ Append(sets[w], c) # <<>>
  BY LastAppended DEF ConfigInv, ConfigTyped
<1>3. ConfigTyped'
  BY <1>1, <1>2 DEF ConfigInv, ConfigTyped
<1>4. WatcherIsCurrent'
  BY <1>1 DEF ConfigInv, WatcherIsCurrent
<1>5. /\ w = "main" => sets'["main"] # <<>>
      /\ w # "main" => sets'["main"] = sets["main"] /\ conf'["main"] = conf["main"]
  BY <1>1, <1>2 DEF ConfigInv, ConfigTyped, Windows
<1>6. MainIsCurrent'
  BY <1>1, <1>5 DEF ConfigInv, MainIsCurrent
<1> QED
  BY <1>3, <1>4, <1>6 DEF ConfigInv

(* No copy stays behind (config.rs, watch.rs, App.applyConfig), for any    *)
(* number of edits of the windows and of the file.                         *)
THEOREM CopiesAgree ==
    ASSUME MaxSize \in Nat
    PROVE  ConfigInit /\ [][ConfigNext]_configVars => []MainKeepsCurrent
<1>1. ConfigInit => ConfigInv
  <2> SUFFICES ASSUME ConfigInit PROVE ConfigInv
    OBVIOUS
  <2>1. PICK key \in {"unset", "set"} : store = [Default EXCEPT !.key = key]
    BY DEF ConfigInit
  <2>2. store \in Config
    BY <2>1 DEF Default, Config
  <2>3. /\ configFile = store /\ conf = [w \in Windows |-> store]
        /\ saving = <<>> /\ read = <<>> /\ fontSize = 1
        /\ sets = [w \in Windows |-> <<>>] /\ heard = [w \in Windows |-> <<>>]
    BY DEF ConfigInit
  <2>4. ConfigTyped
    BY <2>2, <2>3, EmptySeq DEF ConfigTyped, AtMostOne
  <2>5. WatcherIsCurrent /\ MainIsCurrent
    BY <2>3 DEF WatcherIsCurrent, MainIsCurrent, Windows
  <2> QED
    BY <2>4, <2>5 DEF ConfigInv
<1>2. ConfigInv /\ [ConfigNext]_configVars => ConfigInv'
  <2> SUFFICES ASSUME ConfigInv, [ConfigNext]_configVars PROVE ConfigInv'
    OBVIOUS
  <2> USE DEF ConfigInv
  <2>1. "main" \in Windows /\ "settings" \in Windows /\ "main" # "settings"
    BY DEF Windows
  <2>2. ASSUME UNCHANGED <<conf, sets, heard, fontSize, backendVars>> PROVE ConfigInv'
    BY <2>2 DEF ConfigTyped, WatcherIsCurrent, MainIsCurrent, backendVars
  <2>3. ASSUME NEW delta \in 0..1, SetFontSize(delta) PROVE ConfigInv'
    <3> DEFINE size == IF fontSize + delta > MaxSize THEN MaxSize ELSE fontSize + delta
    <3>1. UNCHANGED <<heard, backendVars, fontSize>>
      BY <2>3 DEF SetFontSize, lookVars
    <3>2. CASE UNCHANGED <<conf, sets>>
      BY <2>2, <3>1, <3>2
    <3>3. CASE Saves("main", [conf["main"] EXCEPT !.size = size])
      <4>1. size \in Nat
        BY DEF ConfigTyped
      <4>2. [conf["main"] EXCEPT !.size = size] \in Config
        BY <2>1, <4>1 DEF ConfigTyped, Config
      <4> QED
        BY <2>1, <3>1, <3>3, <4>2, SaveKeeps
    <3> QED
      BY <2>3, <3>2, <3>3 DEF SetFontSize
  <2>4. CASE MainSaves
    <3>1. [conf["main"] EXCEPT !.theme = 1 - @] \in Config
      BY <2>1, EditedConfig DEF ConfigTyped
    <3> QED
      BY <2>1, <2>4, <3>1, SaveKeeps DEF MainSaves, lookVars
  <2>5. CASE SettingsSave
    <3>1. PICK edited \in {[conf["settings"] EXCEPT !.font = "download"],
                           [conf["settings"] EXCEPT !.font = "builtin"],
                           [conf["settings"] EXCEPT !.key = "set"],
                           [conf["settings"] EXCEPT !.key = "unset"],
                           [conf["settings"] EXCEPT !.size = 1]} :
             Saves("settings", edited)
      BY <2>5 DEF SettingsSave
    <3>2. conf["settings"] \in Config
      BY <2>1 DEF ConfigTyped
    <3>3. edited \in Config
      <4> DEFINE c == conf["settings"]
      <4>1. c \in Config /\ 1 \in Nat
        BY <3>2
      <4>2. edited \in {[c EXCEPT !.font = "download"], [c EXCEPT !.font = "builtin"],
                        [c EXCEPT !.key = "set"], [c EXCEPT !.key = "unset"],
                        [c EXCEPT !.size = 1]}
        BY <3>1
      <4> HIDE DEF c
      <4> QED
        BY <4>1, <4>2, EditedConfig, ZenonT(60)
    <3> QED
      BY <2>1, <2>5, <3>1, <3>3, SaveKeeps DEF SettingsSave, lookVars
  <2>6. CASE OpenSettings
    <3>1. /\ conf' = [conf EXCEPT !["settings"] = store]
          /\ UNCHANGED <<sets, heard, configFile, store, saving, dirty, read, fontSize>>
      BY <2>6 DEF OpenSettings, backendVars, lookVars
    <3>2. conf' \in [Windows -> Config] /\ conf'["main"] = conf["main"]
      BY <2>1, <3>1 DEF ConfigTyped
    <3> QED
      BY <3>1, <3>2 DEF ConfigTyped, WatcherIsCurrent, MainIsCurrent
  <2>7. CASE CloseSettings
    <3>1. /\ heard' = [heard EXCEPT !["settings"] = <<>>]
          /\ UNCHANGED <<sets, conf, configFile, store, saving, dirty, read, fontSize>>
      BY <2>7 DEF CloseSettings, backendVars, lookVars
    <3>2. heard' \in [Windows -> Seq(Config)] /\ heard'["main"] = heard["main"]
      BY <2>1, <3>1, EmptySeq DEF ConfigTyped
    <3> QED
      BY <3>1, <3>2 DEF ConfigTyped, WatcherIsCurrent, MainIsCurrent
  <2>8. ASSUME NEW w \in Windows, ConfigSetWrites(w) PROVE ConfigInv'
    <3>1. /\ configFile' = Head(sets[w]) /\ dirty' = TRUE /\ sets[w] # <<>>
          /\ saving' = <<Head(sets[w])>> /\ sets' = [sets EXCEPT ![w] = Tail(sets[w])]
          /\ UNCHANGED <<store, conf, read, heard, fontSize>>
      BY <2>8 DEF ConfigSetWrites, lookVars
    <3>2. Head(sets[w]) \in Config /\ Tail(sets[w]) \in Seq(Config)
      BY <3>1, LastOfTail DEF ConfigTyped
    <3>3. ConfigTyped' /\ saving' # <<>>
      BY <3>1, <3>2 DEF ConfigTyped, AtMostOne
    <3>4. heard' = heard /\ store' = store
      BY <3>1
    <3> QED
      BY <3>1, <3>3, <3>4 DEF WatcherIsCurrent, MainIsCurrent
  <2>9. CASE ConfigSetStores
    <3>1. /\ saving # <<>> /\ saving' = <<>> /\ store' = Head(saving)
          /\ Emit(Head(saving))
          /\ UNCHANGED <<configFile, conf, sets, dirty, read, fontSize>>
      BY <2>9 DEF ConfigSetStores, lookVars
    <3>2. Head(saving) \in Config
      BY <3>1, OneOrNone DEF ConfigTyped
    <3>3. /\ heard' \in [Windows -> Seq(Config)] /\ heard'["main"] # <<>>
          /\ heard'["main"][Len(heard'["main"])] = store'
      BY <3>1, <3>2, EmitKeeps
    <3>4. ConfigTyped'
      BY <3>1, <3>2, <3>3 DEF ConfigTyped, AtMostOne
    <3> QED
      BY <3>1, <3>3, <3>4 DEF WatcherIsCurrent, MainIsCurrent
  <2>10. CASE FileEdited
    <3>1. PICK c \in {[configFile EXCEPT !.key = "unset"],
                      [configFile EXCEPT !.size = MaxSize]} :
             configFile' = c
      BY <2>10 DEF FileEdited
    <3>2. configFile' \in Config
      BY <3>1 DEF ConfigTyped, Config
    <3>3. /\ dirty' = TRUE
          /\ UNCHANGED <<store, conf, sets, saving, read, heard, fontSize>>
      BY <2>10 DEF FileEdited, lookVars
    <3> QED
      BY <3>2, <3>3 DEF ConfigTyped, WatcherIsCurrent, MainIsCurrent
  <2>11. CASE WatcherReads
    <3>1. /\ saving = <<>> /\ dirty' = FALSE /\ read' = <<configFile>>
          /\ UNCHANGED <<configFile, store, conf, sets, saving, heard, fontSize>>
      BY <2>11 DEF WatcherReads, lookVars
    <3>2. AtMostOne(read') /\ read' # <<>> /\ Head(read') = configFile'
      BY <3>1 DEF AtMostOne, ConfigTyped
    <3> QED
      BY <3>1, <3>2 DEF ConfigTyped, WatcherIsCurrent, MainIsCurrent
  <2>12. CASE WatcherCompares
    <3>1. /\ read # <<>> /\ read' = <<>> /\ store' = Head(read)
          /\ \/ UNCHANGED <<store, heard>> \/ Emit(Head(read))
          /\ UNCHANGED <<configFile, conf, sets, saving, dirty, fontSize>>
      BY <2>12 DEF WatcherCompares, Compares, lookVars
    <3>2. Head(read) \in Config
      BY <3>1, OneOrNone DEF ConfigTyped
    <3>3. /\ WatcherIsCurrent'
          /\ UNCHANGED <<store, heard>> => ConfigTyped' /\ MainIsCurrent'
      BY <3>1 DEF ConfigTyped, AtMostOne, WatcherIsCurrent, MainIsCurrent
    <3>4. ASSUME Emit(Head(read)) PROVE ConfigTyped' /\ MainIsCurrent'
      <4>1. /\ heard' \in [Windows -> Seq(Config)] /\ heard'["main"] # <<>>
            /\ heard'["main"][Len(heard'["main"])] = store'
        BY <3>1, <3>2, <3>4, EmitKeeps
      <4> QED
        BY <3>1, <3>2, <4>1 DEF ConfigTyped, AtMostOne, MainIsCurrent
    <3> QED
      BY <3>1, <3>3, <3>4
  <2>13. CASE MainHears
    <3> DEFINE c == Head(heard["main"])
    <3>1. /\ heard["main"] # <<>> /\ conf' = [conf EXCEPT !["main"] = c]
          /\ fontSize' = c.size
          /\ heard' = [heard EXCEPT !["main"] = Tail(heard["main"])]
          /\ UNCHANGED <<sets, configFile, store, saving, dirty, read>>
      BY <2>13 DEF MainHears, backendVars
    <3>2. /\ c \in Config /\ Tail(heard["main"]) \in Seq(Config)
          /\ Tail(heard["main"]) = <<>> => store = c
          /\ Tail(heard["main"]) # <<>> =>
                Tail(heard["main"])[Len(Tail(heard["main"]))] = store
      BY <2>1, <3>1, LastOfTail DEF ConfigTyped, MainIsCurrent
    <3>3. /\ heard'["main"] = Tail(heard["main"]) /\ conf'["main"] = c
          /\ heard' \in [Windows -> Seq(Config)] /\ conf' \in [Windows -> Config]
          /\ fontSize' \in Nat
      BY <2>1, <3>1, <3>2 DEF ConfigTyped, Config
    <3>4. MainIsCurrent'
      BY <3>1, <3>2, <3>3 DEF MainIsCurrent
    <3> QED
      BY <3>1, <3>3, <3>4 DEF ConfigTyped, WatcherIsCurrent
  <2>14. CASE SettingsHear
    <3> DEFINE c == Head(heard["settings"])
    <3>1. /\ heard["settings"] # <<>>
          /\ conf' = [conf EXCEPT !["settings"] = AssignDeep(conf["settings"], c)]
          /\ heard' = [heard EXCEPT !["settings"] = Tail(heard["settings"])]
          /\ UNCHANGED <<sets, configFile, store, saving, dirty, read, fontSize>>
      BY <2>14 DEF SettingsHear, backendVars, lookVars
    <3>2. c \in Config /\ Tail(heard["settings"]) \in Seq(Config)
      BY <2>1, <3>1, LastOfTail DEF ConfigTyped
    <3>3. AssignDeep(conf["settings"], c) \in Config
      BY <2>1, <3>2 DEF AssignDeep, ConfigTyped, Config
    <3>4. /\ heard'["main"] = heard["main"] /\ conf'["main"] = conf["main"]
          /\ heard' \in [Windows -> Seq(Config)] /\ conf' \in [Windows -> Config]
      BY <2>1, <3>1, <3>2, <3>3 DEF ConfigTyped
    <3> QED
      BY <3>1, <3>4 DEF ConfigTyped, WatcherIsCurrent, MainIsCurrent
  <2>15. CASE SettingsListen \/ UNCHANGED configVars \/ \E f \in loading : FontIsLoaded(f)
    BY <2>2, <2>15 DEF SettingsListen, configVars, FontIsLoaded, backendVars, lookVars
  <2> QED
    BY <2>3, <2>4, <2>5, <2>6, <2>7, <2>8, <2>9, <2>10, <2>11, <2>12, <2>13, <2>14,
       <2>15 DEF ConfigNext
<1>3. ConfigInv => MainKeepsCurrent
  BY DEF ConfigInv, WatcherIsCurrent, MainIsCurrent, MainKeepsCurrent, Settled, Windows
<1> QED
  BY <1>1, <1>2, <1>3, PTL

-----------------------------------------------------------------------------

(***************************************************************************)
(* NativeViews                                                             *)
(***************************************************************************)
(* A close takes at most one from the count and the dialog from the page,  *)
(* so the count reaches zero with the last dialog or before it, and at     *)
(* zero the browser of the dock shows.                                     *)
DockSettled == view[Pin] \in {"settling", "open"}

ViewsInv ==
    /\ overlayCount \in Nat
    /\ overlay \in [Dialogs -> {"none", "up", "closing", "gone"}]
    /\ view \in [Views -> {"none", "opening", "settling", "open", "gone"}]
    /\ IsFiniteSet(InPage) /\ overlayCount <= Cardinality(InPage)
    /\ overlayCount = 0 /\ DockSettled => Pin \in shown

(* A step that leaves the dialogs alone and tells every view. *)
LEMMA SyncedShowsDock ==
    ASSUME NEW tab, NEW back, NEW count, Synced(tab, back, count),
           count = 0, DockSettled
    PROVE  Pin \in shown'
BY DEF Synced, ShouldShow, DockSettled, Views

(* The browser of the dock comes back (browser.ts, overlay.ts), for any    *)
(* number of dialogs and tabs.                                             *)
THEOREM PinnedViewReturns ==
    NativeInit /\ [][NativeNext]_viewVars => []PinnedViewComesBack
<1>1. NativeInit => ViewsInv
  <2> SUFFICES ASSUME NativeInit PROVE ViewsInv
    OBVIOUS
  <2>1. InPage = {}
    BY DEF NativeInit, InPage
  <2>2. IsFiniteSet(InPage) /\ Cardinality(InPage) = 0
    BY <2>1, FS_EmptySet
  <2>3. Pin \in Views
    BY DEF Views
  <2> QED
    BY <2>2, <2>3 DEF NativeInit, ViewsInv, DockSettled
<1>2. ViewsInv /\ [NativeNext]_viewVars => ViewsInv'
  <2> SUFFICES ASSUME ViewsInv, [NativeNext]_viewVars PROVE ViewsInv'
    OBVIOUS
  <2>1. Pin \in Views
    BY DEF Views
  <2>2. ASSUME UNCHANGED <<overlay, overlayCount>>,
               view' \in [Views -> {"none", "opening", "settling", "open", "gone"}],
               overlayCount = 0 /\ DockSettled' => Pin \in shown'
        PROVE  ViewsInv'
    BY <2>2 DEF ViewsInv, InPage
  <2>3. CASE UNCHANGED viewVars
    BY <2>2, <2>3 DEF viewVars, ViewsInv, DockSettled
  <2>4. ASSUME NEW d \in Dialogs, OpenDialog(d) PROVE ViewsInv'
    <3>1. InPage' = InPage \cup {d} /\ d \notin InPage
      BY <2>4 DEF OpenDialog, InPage, ViewsInv
    <3>2. IsFiniteSet(InPage') /\ Cardinality(InPage') = Cardinality(InPage) + 1
      BY <3>1, FS_AddElement DEF ViewsInv
    <3>3. Cardinality(InPage) \in Nat
      BY FS_CardinalityType DEF ViewsInv
    <3> QED
      BY <2>4, <3>2, <3>3 DEF OpenDialog, ViewsInv, DockSettled
  <2>5. ASSUME NEW d \in Dialogs, CloseDialog(d) PROVE ViewsInv'
    <3>1. InPage' = InPage
      BY <2>5 DEF CloseDialog, InPage, ViewsInv
    <3> QED
      BY <2>5, <3>1 DEF CloseDialog, ViewsInv, DockSettled
  <2>6. ASSUME NEW d \in Dialogs, FinishClose(d) PROVE ViewsInv'
    <3>1. InPage' = InPage \ {d}
      BY <2>6 DEF FinishClose, InPage, ViewsInv
    <3>2. /\ IsFiniteSet(InPage') /\ Cardinality(InPage) \in Nat
          /\ Cardinality(InPage') = IF d \in InPage THEN Cardinality(InPage) - 1
                                    ELSE Cardinality(InPage)
      BY <3>1, FS_RemoveElement, FS_CardinalityType DEF ViewsInv
    <3>3. Cardinality(InPage') \in Nat
      BY <3>2, FS_CardinalityType
    <3>4. /\ overlayCount' = IF overlayCount = 0 THEN 0 ELSE overlayCount - 1
          /\ overlayCount' \in Nat
      BY <2>6 DEF FinishClose, CountAfterFinish, ViewsInv
    <3>5. overlayCount' <= Cardinality(InPage')
      BY <3>2, <3>3, <3>4 DEF ViewsInv
    <3>6. overlayCount' = 0 /\ DockSettled' => Pin \in shown'
      BY <2>6, SyncedShowsDock DEF FinishClose, DockSettled
    <3> QED
      BY <2>6, <3>2, <3>4, <3>5, <3>6 DEF FinishClose, ViewsInv
  <2>7. ASSUME NEW t \in ViewTabs, ActivateTab(t) \/ FrontChanges(t) \/ CycleContent(t)
        PROVE  ViewsInv'
    <3>1. UNCHANGED <<overlay, overlayCount, view>>
      BY <2>7 DEF ActivateTab, FrontChanges, CycleContent
    <3>2. overlayCount = 0 /\ DockSettled => Pin \in shown'
      BY <2>7, SyncedShowsDock DEF ActivateTab, FrontChanges, CycleContent, ViewsInv
    <3> QED
      BY <2>2, <3>1, <3>2 DEF ViewsInv, DockSettled
  <2>8. ASSUME NEW v \in Views, AddBrowser(v) PROVE ViewsInv'
    <3>1. /\ UNCHANGED <<overlay, overlayCount>>
          /\ view' = [view EXCEPT ![v] = "opening"]
          /\ Synced(frontTab, behind', overlayCount)
      BY <2>8 DEF AddBrowser
    <3>2. DockSettled' => DockSettled
      BY <2>1, <3>1 DEF DockSettled, ViewsInv
    <3> QED
      BY <2>2, <3>1, <3>2, SyncedShowsDock DEF ViewsInv
  <2>9. ASSUME NEW v \in Views, ViewMade(v) PROVE ViewsInv'
    <3>1. /\ UNCHANGED <<overlay, overlayCount>>
          /\ view' = [view EXCEPT ![v] = "settling"] /\ shown' = shown \cup {v}
      BY <2>9 DEF ViewMade
    <3>2. DockSettled' => DockSettled \/ v = Pin
      BY <2>1, <3>1 DEF DockSettled, ViewsInv
    <3> QED
      BY <2>2, <3>1, <3>2 DEF ViewsInv
  <2>10. ASSUME NEW v \in Views, OpenReturns(v) PROVE ViewsInv'
    <3>1. /\ UNCHANGED <<overlay, overlayCount>> /\ view[v] = "settling"
          /\ view' = [view EXCEPT ![v] = "open"]
          /\ Synced(frontTab, behind, overlayCount)
      BY <2>10 DEF OpenReturns, Resync
    <3>2. DockSettled' => DockSettled
      BY <2>1, <3>1 DEF DockSettled, ViewsInv
    <3> QED
      BY <2>2, <3>1, <3>2, SyncedShowsDock DEF ViewsInv
  <2>11. ASSUME NEW v \in Views, CloseBrowser(v) PROVE ViewsInv'
    <3>1. UNCHANGED <<overlay, overlayCount>> /\ view' = [view EXCEPT ![v] = "gone"]
      BY <2>11 DEF CloseBrowser
    <3>2. DockSettled' => DockSettled /\ v # Pin
      BY <2>1, <3>1 DEF DockSettled, ViewsInv
    <3>3. overlayCount = 0 /\ DockSettled /\ v # Pin => Pin \in shown'
      BY <2>1, <2>11 DEF CloseBrowser, ShouldShow, DockSettled
    <3> QED
      BY <2>2, <3>1, <3>2, <3>3 DEF ViewsInv
  <2> QED
    BY <2>3, <2>4, <2>5, <2>6, <2>7, <2>8, <2>9, <2>10, <2>11 DEF NativeNext
<1>3. ViewsInv => PinnedViewComesBack
  BY FS_EmptySet DEF ViewsInv, PinnedViewComesBack, DockSettled
<1> QED
  BY <1>1, <1>2, <1>3, PTL

(***************************************************************************)
(* FocusTimer                                                              *)
(***************************************************************************)
(* The cell learns of a phase when it renders it, and counts the time of a *)
(* block by the pauses it has seen.  What it would log as the length is at *)
(* any time the unpaused time of the block: a pause of the timer is open   *)
(* in the cell as long as the cell shows it, and a block only runs while   *)
(* the cell shows neither a break nor an idle timer.                       *)
FocusSpec == FocusInit /\ [][FocusNext]_focusVars

Phases == {"idle", "running", "paused", "break", "overflow"}
Events == [kind : {"start", "update", "end"}, block : Nat,
           status : {"running", "skipped", "completed", "abandoned"}, length : Int]

(* A cell, with the presets and lengths that a user may have chosen. *)
Cells ==
    [preset : {1} \cup DOMAIN Presets, staged : {0} \cup DOMAIN Presets,
     override : {0} \cup Lengths, stagedOverride : {Never, 0} \cup Lengths,
     phase : Phases, block : Nat, lastBlock : Nat, startedAt : Int,
     pausedFor : Int, pausedSince : Int, metrics : BOOLEAN, disposed : BOOLEAN,
     out : Seq(Events)]

(* The time of the block in c until t, without the pauses in it. *)
Spent(c, t) ==
    t - c.startedAt - c.pausedFor
      - (IF c.pausedSince = Never THEN 0 ELSE t - c.pausedSince)

CellCounts(c, t, u) ==
    /\ c \in Cells
    /\ c.block # 0 => Spent(c, t) = u
    /\ c.phase \in {"idle", "break"} => c.block = 0
    /\ c.pausedSince # Never => c.phase = "paused"
    /\ c.block # 0 /\ c.phase = "paused" => c.pausedSince # Never
    /\ c.disposed => c.block = 0

FocusInv ==
    /\ now \in Nat /\ unpaused \in Int /\ logChain \in Seq(Events)
    /\ CellCounts(cell, now, unpaused) /\ cell.out = <<>>
    /\ cell.phase = "idle" <=> ~timer.active
    /\ cell.phase = "paused" <=> timer.active /\ timer.pausedAt # Never

(* The end of a block of length u is among the events. *)
Logs(said, block, u) ==
    \E i \in DOMAIN said :
        said[i].kind = "end" /\ said[i].block = block /\ said[i].length = u

(* What no pause, no end and no log changes in a cell. *)
Alike(e, c) ==
    /\ e \in Cells /\ e.phase = c.phase /\ e.lastBlock = c.lastBlock
    /\ e.startedAt = c.startedAt /\ e.metrics = c.metrics /\ e.disposed = c.disposed

(* A cell with another block, with its pauses counted, with another log. *)
BlockSet(c, n) == [c EXCEPT !.block = n]
PauseSet(c, p, s) == [c EXCEPT !.pausedFor = p, !.pausedSince = s]
LogSet(c, said) == [c EXCEPT !.out = said]

LEMMA WithBlock ==
    ASSUME NEW c \in Cells, NEW n \in Nat
    PROVE  /\ Alike(BlockSet(c, n), c)
           /\ BlockSet(c, n).block = n /\ BlockSet(c, n).out = c.out
           /\ BlockSet(c, n).pausedFor = c.pausedFor
           /\ BlockSet(c, n).pausedSince = c.pausedSince
BY DEF Cells, BlockSet, Alike

LEMMA WithPause ==
    ASSUME NEW c \in Cells, NEW p \in Int, NEW s \in Int
    PROVE  /\ Alike(PauseSet(c, p, s), c)
           /\ PauseSet(c, p, s).block = c.block /\ PauseSet(c, p, s).out = c.out
           /\ PauseSet(c, p, s).pausedFor = p /\ PauseSet(c, p, s).pausedSince = s
BY DEF Cells, PauseSet, Alike

LEMMA WithLog ==
    ASSUME NEW c \in Cells, NEW said \in Seq(Events)
    PROVE  /\ Alike(LogSet(c, said), c)
           /\ LogSet(c, said).block = c.block /\ LogSet(c, said).out = said
           /\ LogSet(c, said).pausedFor = c.pausedFor
           /\ LogSet(c, said).pausedSince = c.pausedSince
BY DEF Cells, LogSet, Alike

(* What the cell says is logged, while the metrics are on. *)
LEMMA EmitAdds ==
    ASSUME NEW c \in Cells, NEW what \in {"start", "update", "end"},
           NEW status \in {"running", "skipped", "completed", "abandoned"},
           NEW length \in Int
    PROVE  LET e == EmitLog(c, what, status, length)
           IN  /\ Alike(e, c) /\ e.block = c.block
               /\ e.pausedFor = c.pausedFor /\ e.pausedSince = c.pausedSince
               /\ c.metrics /\ what = "end" => Logs(e.out, c.block, length)
<1> DEFINE ev == [kind |-> what, block |-> c.block, status |-> status, length |-> length]
           log == LogEvents(c, what, status, length)
           e == EmitLog(c, what, status, length)
<1>1. c.out \in Seq(Events) /\ ev \in Events
  BY DEF Cells, Events
<1>2. log \in Seq(Events)
  BY <1>1 DEF LogEvents
<1>3. c.out \o log \in Seq(Events)
  BY <1>1, <1>2
<1>4. ASSUME c.metrics PROVE c.out \o log = Append(c.out, ev)
  <2>1. log = <<ev>>
    BY <1>4 DEF LogEvents
  <2> HIDE DEF ev, log
  <2> QED BY <2>1, <1>1
<1>5. ASSUME c.metrics, what = "end" PROVE Logs(c.out \o log, c.block, length)
  <2>1. Len(c.out) + 1 \in DOMAIN Append(c.out, ev) /\ Append(c.out, ev)[Len(c.out) + 1] = ev
    BY <1>1
  <2> QED BY <1>4, <1>5, <2>1 DEF Logs
<1>6. e = LogSet(c, c.out \o log)
  BY DEF EmitLog, LogSet
<1> HIDE DEF log, e
<1>7. /\ Alike(e, c) /\ e.block = c.block /\ e.out = c.out \o log
      /\ e.pausedFor = c.pausedFor /\ e.pausedSince = c.pausedSince
  BY <1>3, <1>6, WithLog
<1>8. c.metrics /\ what = "end" => Logs(e.out, c.block, length)
  BY <1>5, <1>7, Zenon
<1> QED BY <1>7, <1>8, Zenon DEF e

(* The update at a pause tells what was paused before. *)
LEMMA UpdateTells ==
    ASSUME NEW c \in Cells
    PROVE  /\ Alike(PauseUpdate(c), c) /\ PauseUpdate(c).block = c.block
           /\ PauseUpdate(c).pausedFor = c.pausedFor
           /\ PauseUpdate(c).pausedSince = c.pausedSince
<1>1. c.pausedFor \in Int
  BY DEF Cells
<1>2. CASE c.block = 0
  BY <1>2 DEF PauseUpdate, Alike
<1>3. CASE c.block # 0
  <2>1. PauseUpdate(c) = EmitLog(c, "update", "running", c.pausedFor)
    BY <1>3 DEF PauseUpdate
  <2>2. /\ "update" \in {"start", "update", "end"}
        /\ "running" \in {"running", "skipped", "completed", "abandoned"}
    OBVIOUS
  <2> DEFINE e == EmitLog(c, "update", "running", c.pausedFor)
  <2>3. /\ Alike(e, c) /\ e.block = c.block
        /\ e.pausedFor = c.pausedFor /\ e.pausedSince = c.pausedSince
    BY <1>1, <2>2, EmitAdds, Zenon
  <2> HIDE DEF e
  <2> QED BY <2>1, <2>3 DEF e
<1> QED BY <1>2, <1>3

(* The block ends, with the time it took. *)
LEMMA EndTells ==
    ASSUME NEW c \in Cells, NEW status \in {"skipped", "completed", "abandoned"},
           NEW t \in Nat
    PROVE  LET e == EndFocusBlock(c, status, t)
           IN  /\ Alike(e, c) /\ e.block = 0
               /\ e.pausedSince # Never => e.pausedSince = c.pausedSince
               /\ c.block # 0 => e.pausedSince = Never
               /\ c.block # 0 /\ c.metrics => Logs(e.out, c.block, Spent(c, t))
<1> DEFINE e == EndFocusBlock(c, status, t)
<1>1. CASE c.block = 0
  <2>1. e = c
    BY <1>1 DEF EndFocusBlock
  <2> HIDE DEF e
  <2>2. Alike(e, c)
    BY <2>1 DEF Alike
  <2> QED BY <1>1, <2>1, <2>2 DEF e
<1>2. CASE c.block # 0
  <2>0. /\ c.pausedFor \in Int /\ c.pausedSince \in Int /\ c.startedAt \in Int
        /\ Never \in Int
    BY DEF Cells, Never
  <2> DEFINE since == c.pausedFor + t - c.pausedSince
             b == [c EXCEPT !.pausedFor = since, !.pausedSince = Never]
             a == IF c.pausedSince = Never THEN c ELSE PauseUpdate(b)
             length == t - a.startedAt - a.pausedFor
             end == EmitLog(a, "end", status, length)
  <2>1. /\ Alike(a, c) /\ a.block = c.block /\ a.pausedSince = Never
        /\ a.pausedFor = IF c.pausedSince = Never THEN c.pausedFor ELSE since
    <3>1. CASE c.pausedSince = Never
      <4>1. a = c
        BY <3>1
      <4> HIDE DEF a, since
      <4> QED BY <3>1, <4>1 DEF Alike
    <3>2. CASE c.pausedSince # Never
      <4>1. since \in Int /\ a = PauseUpdate(b) /\ b = PauseSet(c, since, Never)
        BY <2>0, <3>2 DEF PauseSet
      <4> HIDE DEF since, a, b
      <4>2. /\ Alike(b, c) /\ b.block = c.block
            /\ b.pausedSince = Never /\ b.pausedFor = since
        BY <2>0, <4>1, WithPause
      <4>3. Alike(a, b) /\ a.block = b.block
            /\ a.pausedFor = b.pausedFor /\ a.pausedSince = b.pausedSince
        BY <4>1, <4>2, UpdateTells DEF Alike
      <4> QED BY <3>2, <4>2, <4>3 DEF Alike
    <3> QED BY <3>1, <3>2
  <2>2. e = BlockSet(end, 0)
    BY <1>2 DEF EndFocusBlock, BlockSet
  <2>3. length = Spent(c, t) /\ length \in Int
    <3> HIDE DEF a
    <3> QED BY <2>0, <2>1 DEF Spent, Alike
  <2>4. a \in Cells /\ status \in {"running", "skipped", "completed", "abandoned"}
    <3> HIDE DEF a
    <3> QED BY <2>1 DEF Alike
  <2> HIDE DEF a, length
  <2>5. /\ Alike(end, a) /\ end.pausedSince = a.pausedSince
        /\ a.metrics => Logs(end.out, a.block, length)
    BY <2>3, <2>4, EmitAdds, Zenon
  <2> HIDE DEF end, e
  <2>6. /\ Alike(e, end) /\ e.block = 0 /\ e.out = end.out
        /\ e.pausedSince = end.pausedSince
    BY <2>2, <2>5, WithBlock DEF Alike
  <2>7. Alike(e, c) /\ e.pausedSince = Never /\ a.metrics = c.metrics
    BY <2>1, <2>5, <2>6 DEF Alike
  <2>8. c.metrics => Logs(e.out, c.block, Spent(c, t))
    BY <2>1, <2>3, <2>5, <2>6, <2>7, Zenon
  <2> QED BY <2>6, <2>7, <2>8, Zenon DEF e
<1> QED BY <1>1, <1>2

(* A block begins, and the pauses seen so far count for nothing. *)
LEMMA BeginCounts ==
    ASSUME NEW c \in Cells, NEW t \in Nat
    PROVE  LET e == BeginFocusBlock(c, t)
           IN  /\ e \in Cells /\ e.block = c.lastBlock + 1 /\ e.lastBlock = c.lastBlock + 1
               /\ Spent(e, t) = 0 /\ e.pausedSince = Never
               /\ e.metrics = c.metrics /\ e.disposed = c.disposed
<1> DEFINE n == c.lastBlock + 1
           b == [c EXCEPT !.block = c.lastBlock + 1, !.lastBlock = @ + 1, !.startedAt = t,
                          !.pausedFor = 0, !.pausedSince = Never]
           e == EmitLog(b, "start", "running", 0)
<1>1. n \in Nat /\ Never \in Int /\ t \in Int
  BY DEF Cells, Never
<1>2. b = [c EXCEPT !.block = n, !.lastBlock = n, !.startedAt = t,
                    !.pausedFor = 0, !.pausedSince = Never]
  BY DEF Cells
<1> DEFINE m == [c EXCEPT !.block = n, !.lastBlock = n, !.startedAt = t]
<1> HIDE DEF n, b
<1>3. /\ m \in Cells /\ m.block = n /\ m.lastBlock = n /\ m.startedAt = t
      /\ m.metrics = c.metrics /\ m.disposed = c.disposed
  BY <1>1 DEF Cells
<1>4. b = PauseSet(m, 0, Never)
  BY <1>2 DEF PauseSet
<1> HIDE DEF m
<1>5. /\ b \in Cells /\ b.block = n /\ b.lastBlock = n /\ b.startedAt = t
      /\ b.pausedFor = 0 /\ b.pausedSince = Never
      /\ b.metrics = c.metrics /\ b.disposed = c.disposed
  BY <1>3, <1>1, <1>4, WithPause DEF Alike
<1>6. /\ "start" \in {"start", "update", "end"} /\ 0 \in Int
      /\ "running" \in {"running", "skipped", "completed", "abandoned"}
  OBVIOUS
<1>7. /\ Alike(e, b) /\ e.block = b.block
      /\ e.pausedFor = b.pausedFor /\ e.pausedSince = b.pausedSince
  BY <1>5, <1>6, EmitAdds, Zenon
<1>8. e = BeginFocusBlock(c, t)
  BY DEF BeginFocusBlock, b
<1> HIDE DEF e
<1>9. /\ e \in Cells /\ e.block = n /\ e.lastBlock = n /\ Spent(e, t) = 0
      /\ e.pausedSince = Never /\ e.metrics = c.metrics /\ e.disposed = c.disposed
  BY <1>5, <1>7 DEF Alike, Spent
<1> QED BY <1>8, <1>9 DEF n

(* A pause that was seen is counted when the cell learns of its end. *)
LEMMA PauseCounts ==
    ASSUME NEW c \in Cells, NEW next, NEW t \in Nat,
           next # "paused", c.pausedSince # Never => c.phase = "paused"
    PROVE  LET e == AccumulatePause(c, next, t)
           IN  /\ Alike(e, c) /\ e.block = c.block /\ e.out = c.out
               /\ e.pausedSince = Never /\ Spent(e, t) = Spent(c, t)
<1> DEFINE since == c.pausedFor + t - c.pausedSince
           e == AccumulatePause(c, next, t)
<1>1. /\ c.pausedFor \in Int /\ c.pausedSince \in Int /\ c.startedAt \in Int
      /\ Never \in Int /\ since \in Int
  BY DEF Cells, Never
<1>2. CASE c.pausedSince = Never
  <2>1. e = c
    BY <1>2 DEF AccumulatePause
  <2> HIDE DEF e
  <2>2. Alike(e, c)
    BY <2>1 DEF Alike
  <2> QED BY <1>2, <2>1, <2>2 DEF e
<1>3. CASE c.pausedSince # Never
  <2>1. e = PauseSet(c, since, Never)
    BY <1>3 DEF AccumulatePause, PauseSet
  <2> HIDE DEF e, since
  <2>2. /\ Alike(e, c) /\ e.block = c.block /\ e.out = c.out
        /\ e.pausedSince = Never /\ e.pausedFor = since
    BY <1>1, <2>1, WithPause
  <2>3. Spent(e, t) = Spent(c, t)
    BY <1>1, <1>3, <2>2 DEF Spent, Alike, since
  <2> QED BY <2>2, <2>3 DEF e
<1> QED BY <1>2, <1>3

(* A block of length u that c had and s has no longer was logged. *)
Told(s, c, u) == c.block # 0 /\ c.metrics /\ s.block # c.block => Logs(s.out, c.block, u)

LEMMA NothingToTell ==
    ASSUME NEW s, NEW c, NEW u, s.block = c.block \/ c.block = 0
    PROVE  Told(s, c, u)
BY Zenon DEF Told

(* What a phase makes of a cell that counted u until t: the block that is  *)
(* under way still counts, and one that is over was logged.                *)
Accounted(s, c, next, t, u) ==
    /\ s \in Cells /\ s.disposed = c.disposed /\ s.metrics = c.metrics
    /\ s.block # 0 => Spent(s, t) = IF s.lastBlock = c.lastBlock THEN u ELSE 0
    /\ next \in {"idle", "break"} => s.block = 0
    /\ s.pausedSince # Never => next = "paused"
    /\ s.block # 0 /\ next = "paused" => s.pausedSince # Never
    /\ Told(s, c, u)

LEMMA PhaseCounts ==
    ASSUME NEW c, NEW next \in Phases, NEW t \in Nat, NEW u, NEW skipped \in BOOLEAN,
           CellCounts(c, t, u), next # c.phase, NEW s, s = Track(c, next, t, skipped)
    PROVE  Accounted(s, c, next, t, u)
<1> DEFINE a == AccumulatePause(c, next, t)
           b == IF c.pausedSince # Never /\ a.pausedSince = Never THEN PauseUpdate(a) ELSE a
<1>1. c \in Cells
  BY DEF CellCounts
<1>2. ASSUME next # "paused"
      PROVE  /\ Alike(a, c) /\ a.block = c.block /\ a.pausedSince = Never
             /\ Alike(b, c) /\ b.block = c.block /\ b.pausedSince = Never
             /\ Spent(b, t) = Spent(c, t)
  <2>1. /\ Alike(a, c) /\ a.block = c.block /\ a.pausedSince = Never
        /\ Spent(a, t) = Spent(c, t)
    BY <1>1, <1>2, PauseCounts DEF CellCounts
  <2> HIDE DEF a
  <2>2. /\ Alike(PauseUpdate(a), a) /\ PauseUpdate(a).block = a.block
        /\ PauseUpdate(a).pausedFor = a.pausedFor
        /\ PauseUpdate(a).pausedSince = a.pausedSince
    BY <2>1, UpdateTells DEF Alike
  <2>3. Spent(PauseUpdate(a), t) = Spent(a, t)
    BY <2>2 DEF Spent, Alike
  <2>4. CASE b = PauseUpdate(a)
    <3> HIDE DEF b
    <3> QED BY <2>1, <2>2, <2>3, <2>4 DEF Alike
  <2>5. CASE b = a
    <3> HIDE DEF b
    <3> QED BY <2>1, <2>5
  <2> QED BY <2>4, <2>5
<1>3. CASE next = "running" /\ c.phase \in {"idle", "break"}
  <2>1. s = BeginFocusBlock(a, t)
    BY <1>3 DEF Track
  <2> HIDE DEF a, b
  <2>2. a \in Cells /\ a.lastBlock = c.lastBlock /\ a.metrics = c.metrics
        /\ a.disposed = c.disposed
    BY <1>2, <1>3 DEF Alike
  <2> DEFINE e == BeginFocusBlock(a, t)
  <2>3. /\ e \in Cells /\ e.block = a.lastBlock + 1 /\ e.lastBlock = a.lastBlock + 1
        /\ Spent(e, t) = 0 /\ e.pausedSince = Never
        /\ e.metrics = a.metrics /\ e.disposed = a.disposed
    BY <2>2, BeginCounts
  <2> HIDE DEF e
  <2>4. s = e /\ c.block = 0 /\ c.lastBlock \in Nat
    BY <2>1, <1>1, <1>3 DEF CellCounts, Cells, e
  <2> QED BY <1>3, <2>2, <2>3, <2>4, NothingToTell DEF Accounted
<1>4. CASE next = "paused"
  <2>1. c.pausedSince = Never /\ a = c /\ b = c
    BY <1>1, <1>4 DEF CellCounts, AccumulatePause
  <2>2. s = PauseFocusBlock(c, t)
    BY <1>4, <2>1 DEF Track
  <2> HIDE DEF a, b
  <2>3. CASE c.block = 0
    <3>1. s = c
      BY <2>2, <2>3 DEF PauseFocusBlock
    <3>2. Told(s, c, u)
      BY <3>1, NothingToTell
    <3>3. s \in Cells /\ s.disposed = c.disposed /\ s.metrics = c.metrics
      BY <1>1, <3>1
    <3>4. s.pausedSince = Never
      BY <2>1, <3>1
    <3>5. s.block = 0
      BY <2>3, <3>1
    <3> QED BY <1>4, <3>2, <3>3, <3>4, <3>5 DEF Accounted
  <2>4. CASE c.block # 0
    <3>1. c.pausedFor \in Int /\ t \in Int /\ c.startedAt \in Int /\ t # Never
      BY <1>1 DEF Cells, Never
    <3> DEFINE d == PauseSet(c, c.pausedFor, t)
    <3>2. [c EXCEPT !.pausedSince = t] = d
      BY <1>1 DEF PauseSet, Cells
    <3>3. s = PauseUpdate(d)
      BY <2>2, <2>4, <3>2 DEF PauseFocusBlock
    <3> HIDE DEF d
    <3>4. /\ Alike(d, c) /\ d.block = c.block /\ d.pausedFor = c.pausedFor
          /\ d.pausedSince = t
      BY <1>1, <3>1, WithPause DEF d
    <3>5. /\ Alike(s, d) /\ s.block = d.block /\ s.pausedFor = d.pausedFor
          /\ s.pausedSince = d.pausedSince
      BY <3>3, <3>4, UpdateTells DEF Alike
    <3>6. Spent(s, t) = Spent(c, t)
      BY <2>1, <3>1, <3>4, <3>5 DEF Spent, Alike
    <3>7. Spent(c, t) = u
      BY <2>4 DEF CellCounts
    <3> QED BY <1>4, <3>1, <3>4, <3>5, <3>6, <3>7, NothingToTell DEF Accounted, Alike
  <2> QED BY <2>3, <2>4
<1>5. ASSUME NEW status \in {"skipped", "completed", "abandoned"},
             next # "paused", s = EndFocusBlock(b, status, t)
      PROVE  Accounted(s, c, next, t, u)
  <2>1. /\ Alike(b, c) /\ b.block = c.block /\ b.pausedSince = Never
        /\ Spent(b, t) = Spent(c, t)
    BY <1>2, <1>5
  <2> HIDE DEF a, b
  <2> DEFINE e == EndFocusBlock(b, status, t)
  <2>2. b \in Cells
    BY <2>1 DEF Alike
  <2>3. /\ Alike(e, b) /\ e.block = 0
        /\ e.pausedSince # Never => e.pausedSince = b.pausedSince
        /\ b.block # 0 /\ b.metrics => Logs(e.out, b.block, Spent(b, t))
    BY <2>2, EndTells, Zenon
  <2>4. s = e
    BY <1>5
  <2> HIDE DEF e
  <2>5. /\ s \in Cells /\ s.disposed = c.disposed /\ s.metrics = c.metrics
        /\ s.block = 0 /\ s.pausedSince = Never /\ b.metrics = c.metrics
    BY <2>1, <2>3, <2>4 DEF Alike
  <2>6. Told(s, c, u)
    <3>1. c.block # 0 => Spent(b, t) = u
      BY <2>1 DEF CellCounts
    <3> QED BY <2>1, <2>3, <2>4, <2>5, <3>1, Zenon DEF Told
  <2> QED BY <2>5, <2>6 DEF Accounted
<1>6. CASE next = "break" /\ c.phase # "idle"
  <2>1. s = EndFocusBlock(b, IF skipped THEN "skipped" ELSE "completed", t)
    BY <1>6 DEF Track
  <2> QED BY <1>5, <1>6, <2>1
<1>7. CASE next = "idle"
  <2>1. s = EndFocusBlock(b, "abandoned", t)
    BY <1>7 DEF Track
  <2> QED BY <1>5, <1>7, <2>1
<1>8. CASE /\ next \notin {"paused", "idle"}
           /\ ~(next = "running" /\ c.phase \in {"idle", "break"})
           /\ ~(next = "break" /\ c.phase # "idle")
  <2>1. s = b
    BY <1>8 DEF Track
  <2> HIDE DEF a, b
  <2>2. next = "break" => c.block = 0
    BY <1>8 DEF CellCounts
  <2>3. c.block # 0 => Spent(c, t) = u
    BY DEF CellCounts
  <2> QED BY <1>2, <1>8, <2>1, <2>2, <2>3, NothingToTell DEF Accounted, Alike
<1> QED BY <1>3, <1>4, <1>6, <1>7, <1>8

PhaseSet(c, next) == [c EXCEPT !.phase = next, !.out = <<>>]

LEMMA WithPhase ==
    ASSUME NEW c \in Cells, NEW next \in Phases
    PROVE  LET e == PhaseSet(c, next)
           IN  /\ e \in Cells /\ e.phase = next /\ e.out = <<>> /\ e.block = c.block
               /\ e.lastBlock = c.lastBlock /\ e.startedAt = c.startedAt
               /\ e.pausedFor = c.pausedFor /\ e.pausedSince = c.pausedSince
               /\ e.metrics = c.metrics /\ e.disposed = c.disposed
<1>1. <<>> \in Seq(Events)
  OBVIOUS
<1> QED BY <1>1 DEF PhaseSet, Cells

(* What a cell says is at the end of the log that is sent. *)
LEMMA LogReaches ==
    ASSUME NEW chain \in Seq(Events), NEW out \in Seq(Events), NEW block, NEW u,
           Logs(out, block, u)
    PROVE  \E i \in DOMAIN (chain \o out) :
              /\ i > Len(chain) /\ (chain \o out)[i].kind = "end"
              /\ (chain \o out)[i].block = block /\ (chain \o out)[i].length = u
<1>1. PICK i \in DOMAIN out :
         out[i].kind = "end" /\ out[i].block = block /\ out[i].length = u
  BY DEF Logs
<1> DEFINE j == Len(chain) + i
<1>2. /\ Len(chain) \in Nat /\ i \in 1..Len(out)
      /\ DOMAIN (chain \o out) = 1..(Len(chain) + Len(out))
      /\ \A n \in 1..Len(chain) + Len(out) : (chain \o out)[n] =
            IF n <= Len(chain) THEN chain[n] ELSE out[n - Len(chain)]
  BY ConcatProperties, LenProperties
<1>3. j \in 1..(Len(chain) + Len(out)) /\ j > Len(chain) /\ j - Len(chain) = i
      /\ ~(j <= Len(chain))
  BY <1>2, LenProperties
<1>4. j \in DOMAIN (chain \o out) /\ (chain \o out)[j] = out[i]
  BY <1>2, <1>3
<1> QED BY <1>1, <1>3, <1>4

LEMMA PhaseIsOfTimer ==
    ASSUME NEW m, NEW t
    PROVE  /\ Phase(m, t) \in Phases
           /\ Phase(m, t) = "idle" <=> ~m.active
           /\ Phase(m, t) = "paused" <=> m.active /\ m.pausedAt # Never
<1>1. CASE ~m.active
  BY <1>1 DEF Phase, Phases
<1>2. CASE m.active /\ m.pausedAt # Never
  BY <1>2 DEF Phase, Phases
<1>3. CASE m.active /\ m.pausedAt = Never
  BY <1>3 DEF Phase, Phases
<1> QED BY <1>1, <1>2, <1>3

(* A cell that differs from the one shown in its presets at most. *)
SameBlock(c) ==
    /\ c \in Cells /\ c.phase = cell.phase /\ c.block = cell.block
    /\ c.lastBlock = cell.lastBlock /\ c.startedAt = cell.startedAt
    /\ c.pausedFor = cell.pausedFor /\ c.pausedSince = cell.pausedSince
    /\ c.metrics = cell.metrics /\ c.disposed = cell.disposed /\ c.out = cell.out

LEMMA RenderKeeps ==
    ASSUME FocusInv, NEW m, NEW c, NEW skipped \in BOOLEAN, ~cell.disposed,
           SameBlock(c), Render(m, c, skipped), now' = now
    PROVE  FocusInv' /\ BlocksAreAccounted
<1> DEFINE ticked == Ticked(m, now)
           next == Phase(ticked, now)
           seen == IF next = c.phase THEN c ELSE Track(c, next, now, skipped)
<1>1. /\ timer' = ticked /\ cell' = PhaseSet(seen, next) /\ logChain' = logChain \o seen.out
      /\ unpaused' = IF seen.lastBlock = c.lastBlock THEN unpaused ELSE 0
  BY DEF Render, PhaseSet
<1>2. CellCounts(c, now, unpaused) /\ now \in Nat /\ unpaused \in Int
  BY DEF FocusInv, SameBlock, CellCounts, Spent
<1>3. /\ next \in Phases
      /\ next = "idle" <=> ~timer'.active
      /\ next = "paused" <=> timer'.active /\ timer'.pausedAt # Never
  BY <1>1, PhaseIsOfTimer
<1> HIDE DEF next
<1>4. Accounted(seen, c, next, now, unpaused)
  <2>1. CASE next = c.phase
    <3>1. seen = c
      BY <2>1
    <3>2. Told(c, c, unpaused)
      BY NothingToTell
    <3> QED BY <1>2, <2>1, <3>1, <3>2 DEF Accounted, CellCounts
  <2>2. CASE next # c.phase
    <3>1. seen = Track(c, next, now, skipped)
      BY <2>2
    <3> HIDE DEF seen
    <3>2. next \in Phases /\ now \in Nat /\ skipped \in BOOLEAN
      BY <1>2, <1>3
    <3> HIDE DEF ticked
    <3> QED BY ONLY <1>2, <2>2, <3>1, <3>2, PhaseCounts, Zenon
  <2> QED BY <2>1, <2>2
<1> HIDE DEF seen
<1> DEFINE e == PhaseSet(seen, next)
<1>5. /\ e \in Cells /\ e.phase = next /\ e.out = <<>> /\ e.block = seen.block
      /\ e.lastBlock = seen.lastBlock /\ e.startedAt = seen.startedAt
      /\ e.pausedFor = seen.pausedFor /\ e.pausedSince = seen.pausedSince
      /\ e.metrics = seen.metrics /\ e.disposed = seen.disposed
  <2>1. seen \in Cells /\ next \in Phases
    BY <1>3, <1>4 DEF Accounted
  <2> QED BY <2>1, WithPhase, Zenon
<1>6. cell' = e
  BY <1>1
<1> HIDE DEF e
<1>7. /\ c.block = cell.block /\ ~c.disposed /\ c.metrics = cell.metrics
      /\ seen.out \in Seq(Events) /\ logChain \in Seq(Events)
  BY <1>4 DEF SameBlock, Accounted, Cells, FocusInv
<1>8. FocusInv'
  <2>1. CellCounts(e, now, unpaused')
    <3>1. Spent(e, now) = Spent(seen, now)
      BY <1>5 DEF Spent
    <3>2. e.block # 0 => Spent(e, now) = unpaused'
      BY <1>1, <1>4, <1>5, <3>1 DEF Accounted
    <3>3. ~e.disposed
      BY <1>4, <1>5, <1>7 DEF Accounted
    <3> QED BY <1>4, <1>5, <3>2, <3>3 DEF CellCounts, Accounted
  <2>2. unpaused' \in Int /\ now' \in Nat /\ logChain' \in Seq(Events)
    BY <1>1, <1>2, <1>7
  <2>3. CellCounts(cell', now', unpaused') /\ cell'.out = <<>> /\ cell'.phase = next
    BY <1>5, <1>6, <2>1
  <2>4. (cell'.phase = "idle" <=> ~timer'.active)
        /\ (cell'.phase = "paused" <=> timer'.active /\ timer'.pausedAt # Never)
    BY <1>3, <2>3, Zenon
  <2> QED BY <2>2, <2>3, <2>4, Zenon DEF FocusInv
<1>9. BlocksAreAccounted
  <2> SUFFICES ASSUME cell.metrics, cell.block # 0, cell'.block # cell.block \/ cell'.disposed
               PROVE  Logs(seen.out, cell.block, unpaused)
    <3>1. ASSUME Logs(seen.out, cell.block, unpaused) PROVE BlocksAreAccounted
      <4>1. logChain' = logChain \o seen.out
        BY <1>1
      <4>2. \E i \in DOMAIN (logChain \o seen.out) :
               /\ i > Len(logChain) /\ (logChain \o seen.out)[i].kind = "end"
               /\ (logChain \o seen.out)[i].block = cell.block
               /\ (logChain \o seen.out)[i].length = unpaused
        <5>1. Logs(seen.out, cell.block, unpaused)
          BY <3>1
        <5> QED BY ONLY <1>7, <5>1, LogReaches
      <4> QED BY <4>1, <4>2, Zenon DEF BlocksAreAccounted
    <3>2. ~(cell.metrics /\ cell.block # 0 /\ (cell'.block # cell.block \/ cell'.disposed))
          => BlocksAreAccounted
      BY Zenon DEF BlocksAreAccounted
    <3> QED BY <3>1, <3>2, Zenon
  <2>1. ~cell'.disposed
    BY <1>4, <1>5, <1>6, <1>7 DEF Accounted
  <2>2. seen.block # c.block /\ c.block # 0
    BY <1>5, <1>6, <1>7, <2>1
  <2> QED BY <1>4, <1>7, <2>2, Zenon DEF Accounted, Told
<1> QED BY <1>8, <1>9

(* The panel and the reset change the presets of the cell, and no more. *)
LEMMA PresetsAreApart ==
    ASSUME FocusInv
    PROVE  /\ SameBlock(cell)
           /\ \A min \in {0} \cup Lengths : SameBlock(OverrideSet(cell, min))
           /\ \A p \in DOMAIN Presets : LET c == OverrideSet(cell, 0)
                 IN SameBlock([c EXCEPT !.preset = p, !.staged = 0])
                    /\ SameBlock([c EXCEPT !.staged = p])
           /\ SameBlock([CommitStagedPreset(cell) EXCEPT !.override = 0,
                                                         !.stagedOverride = Never])
<1>1. SameBlock(cell)
  BY DEF SameBlock, FocusInv, CellCounts
<1>2. ASSUME NEW c, SameBlock(c), NEW o \in {0} \cup Lengths, NEW so \in {Never, 0} \cup Lengths
      PROVE  /\ SameBlock([c EXCEPT !.override = o, !.stagedOverride = so])
             /\ SameBlock([c EXCEPT !.stagedOverride = so])
  BY <1>2 DEF SameBlock, Cells
<1>3. ASSUME NEW c, SameBlock(c), NEW p \in {1} \cup DOMAIN Presets
      PROVE  SameBlock([c EXCEPT !.preset = p, !.staged = 0])
  BY <1>3 DEF SameBlock, Cells
<1>4. ASSUME NEW c, SameBlock(c), NEW p \in DOMAIN Presets
      PROVE  SameBlock([c EXCEPT !.staged = p])
  BY <1>4 DEF SameBlock, Cells
<1>5. ASSUME NEW min \in {0} \cup Lengths PROVE SameBlock(OverrideSet(cell, min))
  BY <1>1, <1>2 DEF OverrideSet
<1>6. SameBlock(CommitStagedPreset(cell))
  <2>1. cell.staged \in {0} \cup DOMAIN Presets
    BY <1>1 DEF SameBlock, Cells
  <2> QED BY <1>1, <1>3, <2>1 DEF CommitStagedPreset
<1>7. SameBlock([CommitStagedPreset(cell) EXCEPT !.override = 0, !.stagedOverride = Never])
  BY <1>2, <1>6
<1>8. SameBlock(OverrideSet(cell, 0))
  BY <1>5
<1>9. ASSUME NEW p \in DOMAIN Presets
      PROVE  LET c == OverrideSet(cell, 0)
             IN SameBlock([c EXCEPT !.preset = p, !.staged = 0])
                /\ SameBlock([c EXCEPT !.staged = p])
  BY <1>3, <1>4, <1>8
<1> QED BY <1>1, <1>5, <1>7, <1>9

(* The invariant holds at first; a step keeps it, and ends no block unlogged. *)
LEMMA FocusInvIsKept ==
    /\ FocusInit => FocusInv
    /\ FocusInv /\ [FocusNext]_focusVars => FocusInv' /\ [BlocksAreAccounted]_focusVars
<1>1. FocusInit => FocusInv
  <2> SUFFICES ASSUME FocusInit PROVE FocusInv
    OBVIOUS
  <2>1. /\ cell \in Cells /\ cell.phase = "idle" /\ cell.block = 0 /\ cell.out = <<>>
        /\ cell.pausedSince = Never
    BY DEF FocusInit, Cells, Phases, Never
  <2>2. CellCounts(cell, now, unpaused)
    BY <2>1 DEF CellCounts
  <2>3. ~timer.active /\ now \in Nat /\ unpaused \in Int /\ logChain \in Seq(Events)
    BY DEF FocusInit, Stopped
  <2> QED BY <2>1, <2>2, <2>3 DEF FocusInv
<1>2. FocusInv /\ [FocusNext]_focusVars => FocusInv' /\ [BlocksAreAccounted]_focusVars
  <2> SUFFICES ASSUME FocusInv, [FocusNext]_focusVars
               PROVE  FocusInv' /\ (BlocksAreAccounted \/ UNCHANGED focusVars)
    OBVIOUS
  <2>0. /\ SameBlock(cell)
        /\ \A min \in {0} \cup Lengths : SameBlock(OverrideSet(cell, min))
        /\ \A p \in DOMAIN Presets : LET c == OverrideSet(cell, 0)
              IN SameBlock([c EXCEPT !.preset = p, !.staged = 0])
                 /\ SameBlock([c EXCEPT !.staged = p])
        /\ SameBlock([CommitStagedPreset(cell) EXCEPT !.override = 0,
                                                      !.stagedOverride = Never])
    BY PresetsAreApart
  <2>1. CASE UNCHANGED focusVars
    BY <2>1 DEF FocusInv, focusVars
  <2>2. CASE TimePasses
    <3>1. /\ ~cell.disposed /\ now' = now + 1 /\ UNCHANGED <<timer, cell, logChain>>
          /\ unpaused' = IF timer.active /\ timer.pausedAt = Never
                         THEN unpaused + 1 ELSE unpaused
      BY <2>2 DEF TimePasses
    <3>2. /\ now \in Int /\ unpaused \in Int /\ cell.startedAt \in Int
          /\ cell.pausedFor \in Int /\ cell.pausedSince \in Int
      BY DEF FocusInv, CellCounts, Cells
    <3>3. ASSUME cell.block # 0 PROVE Spent(cell, now + 1) = unpaused'
      <4>1. Spent(cell, now) = unpaused /\ timer.active
        BY <3>3, Zenon DEF FocusInv, CellCounts
      <4>2. CASE timer.pausedAt = Never
        <5>1. cell.pausedSince = Never /\ unpaused' = unpaused + 1
          BY <3>1, <4>1, <4>2 DEF FocusInv, CellCounts
        <5> QED BY <3>2, <4>1, <5>1 DEF Spent
      <4>3. CASE timer.pausedAt # Never
        <5>1. cell.pausedSince # Never /\ unpaused' = unpaused
          BY <3>1, <3>3, <4>1, <4>3 DEF FocusInv, CellCounts
        <5> QED BY <3>2, <4>1, <5>1 DEF Spent
      <4> QED BY <4>2, <4>3
    <3>4. CellCounts(cell, now + 1, unpaused')
      BY <3>3 DEF FocusInv, CellCounts
    <3>5. FocusInv'
      BY <3>1, <3>2, <3>4 DEF FocusInv
    <3> QED BY <3>1, <3>5 DEF BlocksAreAccounted
  <2>3. CASE Tick
    <3>1. ~cell.disposed /\ Render(timer, cell, FALSE) /\ now' = now
      BY <2>3 DEF Tick
    <3> QED BY <2>0, <3>1, RenderKeeps
  <2>4. CASE ToggleStart
    <3>1. PICK m : ~cell.disposed /\ Render(m, cell, FALSE) /\ now' = now
      BY <2>4 DEF ToggleStart, Click
    <3> QED BY <2>0, <3>1, RenderKeeps
  <2>5. CASE Skip
    <3>1. PICK m : ~cell.disposed /\ Render(m, cell, TRUE) /\ now' = now
      BY <2>5 DEF Skip, Click
    <3> QED BY <2>0, <3>1, RenderKeeps
  <2>6. CASE Reset
    <3>1. PICK c : /\ ~cell.disposed /\ SameBlock(c) /\ now' = now
                   /\ Render(Stopped, c, FALSE)
      BY <2>0, <2>6 DEF Reset, Click
    <3> QED BY <3>1, RenderKeeps
  <2>7. CASE PauseIfRunning
    <3>1. PICK m : ~cell.disposed /\ Render(m, cell, FALSE) /\ now' = now
      BY <2>7 DEF PauseIfRunning
    <3> QED BY <2>0, <3>1, RenderKeeps
  <2>8. ASSUME NEW p \in DOMAIN Presets, PickPreset(p)
        PROVE  FocusInv' /\ BlocksAreAccounted
    <3>1. PICK c : /\ ~cell.disposed /\ SameBlock(c) /\ now' = now
                   /\ Render(timer, c, FALSE)
      BY <2>0, <2>8 DEF PickPreset, Click
    <3> QED BY <3>1, RenderKeeps
  <2>9. ASSUME NEW min \in Lengths, SetFocusMin(min)
        PROVE  FocusInv' /\ BlocksAreAccounted
    <3>1. PICK c : /\ ~cell.disposed /\ SameBlock(c) /\ now' = now
                   /\ Render(timer, c, FALSE)
      BY <2>0, <2>9 DEF SetFocusMin, Click
    <3> QED BY <3>1, RenderKeeps
  <2>10. CASE SetConfig
    <3> DEFINE e == [cell EXCEPT !.metrics = ~@]
    <3>1. /\ ~cell.disposed /\ now' = now /\ cell' = e
          /\ UNCHANGED <<timer, logChain, unpaused>>
      BY <2>10 DEF SetConfig, Click
    <3>2. /\ e \in Cells /\ e.phase = cell.phase /\ e.block = cell.block
          /\ e.startedAt = cell.startedAt /\ e.pausedFor = cell.pausedFor
          /\ e.pausedSince = cell.pausedSince /\ e.disposed = cell.disposed
          /\ e.out = cell.out
      BY DEF FocusInv, CellCounts, Cells
    <3> HIDE DEF e
    <3>3. CellCounts(e, now, unpaused)
      BY <3>2 DEF FocusInv, CellCounts, Spent
    <3>4. FocusInv'
      BY <3>1, <3>2, <3>3 DEF FocusInv
    <3> QED BY <3>1, <3>2, <3>4 DEF BlocksAreAccounted
  <2>11. CASE Dispose
    <3> DEFINE ended == EndFocusBlock(cell, "abandoned", now)
               e == [ended EXCEPT !.disposed = TRUE, !.out = <<>>]
    <3>1. /\ now' = now /\ cell' = e /\ logChain' = logChain \o ended.out
          /\ UNCHANGED <<timer, unpaused>>
      BY <2>11 DEF Dispose, Click
    <3>2. /\ cell \in Cells /\ now \in Nat /\ logChain \in Seq(Events)
          /\ "abandoned" \in {"skipped", "completed", "abandoned"}
      BY DEF FocusInv, CellCounts
    <3>3. /\ Alike(ended, cell) /\ ended.block = 0
          /\ ended.pausedSince # Never => ended.pausedSince = cell.pausedSince
          /\ cell.block # 0 /\ cell.metrics
                => Logs(ended.out, cell.block, Spent(cell, now))
      BY <3>2, EndTells, Zenon
    <3> HIDE DEF ended
    <3>4. /\ e \in Cells /\ e.phase = cell.phase /\ e.block = 0 /\ e.out = <<>>
          /\ e.pausedSince = ended.pausedSince
      <4>1. <<>> \in Seq(Events)
        OBVIOUS
      <4> QED BY <3>3, <4>1 DEF Alike, Cells
    <3> HIDE DEF e
    <3>5. ended.out \in Seq(Events)
      BY <3>3 DEF Alike, Cells
    <3>6. CellCounts(e, now, unpaused)
      BY <3>3, <3>4 DEF FocusInv, CellCounts
    <3>7. FocusInv'
      BY <3>1, <3>2, <3>4, <3>5, <3>6 DEF FocusInv
    <3>8. ASSUME cell.metrics, cell.block # 0 PROVE BlocksAreAccounted
      <4>1. Spent(cell, now) = unpaused
        BY <3>8 DEF FocusInv, CellCounts
      <4>2. Logs(ended.out, cell.block, unpaused)
        BY <3>3, <3>8, <4>1, Zenon
      <4>3. \E i \in DOMAIN (logChain \o ended.out) :
               /\ i > Len(logChain) /\ (logChain \o ended.out)[i].kind = "end"
               /\ (logChain \o ended.out)[i].block = cell.block
               /\ (logChain \o ended.out)[i].length = unpaused
        BY ONLY <3>2, <3>5, <4>2, LogReaches
      <4> QED BY <3>1, <4>3, Zenon DEF BlocksAreAccounted
    <3>9. ~(cell.metrics /\ cell.block # 0) => BlocksAreAccounted
      BY Zenon DEF BlocksAreAccounted
    <3> QED BY <3>7, <3>8, <3>9, Zenon
  <2>12. CASE SendLogEvent
    <3>1. /\ logChain # <<>> /\ logChain' = Tail(logChain)
          /\ UNCHANGED <<timer, cell, now, unpaused>>
      BY <2>12 DEF SendLogEvent
    <3>2. logChain' \in Seq(Events)
      BY <3>1 DEF FocusInv
    <3>3. FocusInv'
      BY <3>1, <3>2 DEF FocusInv
    <3>4. cell'.disposed => cell.block = 0
      BY <3>1 DEF FocusInv, CellCounts
    <3> QED BY <3>1, <3>3, <3>4 DEF BlocksAreAccounted
  <2> QED
    BY <2>1, <2>2, <2>3, <2>4, <2>5, <2>6, <2>7, <2>8, <2>9, <2>10, <2>11, <2>12
       DEF FocusNext
<1> QED BY <1>1, <1>2

(* A block that ends while the metrics are on is logged with its unpaused  *)
(* time (focus/cell.ts trackFocusSession), whatever ends it, for any       *)
(* presets, times and clicks.                                              *)
THEOREM EveryBlockIsLogged == FocusSpec => [][BlocksAreAccounted]_focusVars
BY FocusInvIsKept, PTL DEF FocusSpec

(* What holds at first and is kept by every step holds up to k. *)
LEMMA UpToEach ==
  ASSUME NEW k \in Nat, NEW S, 0 \in S, \A n \in 0..k : n < k /\ n \in S => n + 1 \in S
  PROVE  \A n \in 0..k : n \in S
<1> SUFFICES ASSUME NEW x \in 0..k, x \notin S PROVE FALSE
  OBVIOUS
<1> DEFINE T == {n \in 0..k : n \notin S}
<1>1. T \in SUBSET Nat /\ T # {}
  OBVIOUS
<1> HIDE DEF T
<1>2. PICK least \in T : \A y \in T : least <= y
  BY <1>1, LeastOfAll
<1> USE DEF T
<1>3. least \in 0..k /\ least \notin S /\ least # 0
  BY <1>2
<1>4. least - 1 \in 0..k /\ least - 1 < k /\ least - 1 + 1 = least
  BY <1>3
<1>5. least - 1 \in S
  <2> SUFFICES ASSUME least - 1 \notin S PROVE FALSE
    OBVIOUS
  <2>1. least - 1 \in T
    BY <1>4
  <2> HIDE DEF T
  <2> QED BY <1>2, <1>3, <2>1
<1> QED BY <1>3, <1>4, <1>5

(* The segments that follow each other until t, from the first on. *)
LEMMA ChainIs ==
  ASSUME MaxAdvances \in Nat, NEW m, NEW t
  PROVE  /\ Chain(m, t)[0] = m
         /\ \A n \in 0..MaxAdvances :
               n < MaxAdvances => Chain(m, t)[n + 1] = ChainStep(Chain(m, t)[n], t)
<1> DEFINE Next(g, n) == IF n = 0 THEN m ELSE ChainStep(g[n - 1], t)
           IsChain(g, k) == g = [n \in 0..k |-> Next(g, n)]
           S == {k \in 0..MaxAdvances : \E g : IsChain(g, k)}
<1>1. 0 \in S
  <2> DEFINE g == [n \in 0..0 |-> m]
  <2>1. \A n \in 0..0 : n = 0
    OBVIOUS
  <2>2. \E f : IsChain(f, 0)
    <3>1. IsChain(g, 0)
      BY <2>1
    <3> HIDE DEF g, IsChain
    <3> QED BY <3>1
  <2>3. 0 \in 0..MaxAdvances
    OBVIOUS
  <2> HIDE DEF IsChain
  <2> QED BY <2>2, <2>3
<1>2. ASSUME NEW k \in 0..MaxAdvances, k < MaxAdvances, k \in S PROVE k + 1 \in S
  <2>1. PICK g : IsChain(g, k)
    BY <1>2
  <2> DEFINE h == [n \in 0..(k + 1) |-> IF n <= k THEN g[n] ELSE ChainStep(g[k], t)]
  <2>2. \A n \in 0..k : g[n] = Next(g, n)
    BY <2>1
  <2>3. ASSUME NEW n \in 0..(k + 1) PROVE h[n] = Next(h, n)
    <3>1. CASE n = 0
      BY <2>2, <3>1
    <3>2. CASE n # 0 /\ n <= k
      <4>1. n \in 0..k /\ n - 1 \in 0..(k + 1) /\ n - 1 <= k
        BY <3>2
      <4>2. h[n] = g[n] /\ h[n - 1] = g[n - 1]
        BY <3>2, <4>1
      <4>3. g[n] = ChainStep(g[n - 1], t)
        BY <2>2, <3>2, <4>1
      <4> HIDE DEF h
      <4> QED BY <3>2, <4>2, <4>3
    <3>3. CASE n = k + 1
      <4>1. ~(n <= k) /\ n - 1 = k /\ k \in 0..(k + 1) /\ n # 0
        BY <3>3
      <4>2. h[n] = ChainStep(g[k], t) /\ h[k] = g[k]
        BY <4>1
      <4> HIDE DEF h
      <4> QED BY <4>1, <4>2
    <3> QED BY <3>1, <3>2, <3>3
  <2>4. IsChain(h, k + 1)
    <3>1. h = [n \in 0..(k + 1) |-> h[n]]
      OBVIOUS
    <3> HIDE DEF h
    <3> QED BY <2>3, <3>1
  <2> HIDE DEF h, IsChain
  <2> QED BY <1>2, <2>4
<1>3. MaxAdvances \in S
  <2> HIDE DEF S
  <2> QED BY <1>1, <1>2, UpToEach
<1>4. IsChain(Chain(m, t), MaxAdvances)
  <2>1. \E g : IsChain(g, MaxAdvances)
    BY <1>3
  <2>2. Chain(m, t) = CHOOSE g : IsChain(g, MaxAdvances)
    BY DEF Chain
  <2> HIDE DEF IsChain
  <2> QED BY <2>1, <2>2
<1> DEFINE c == Chain(m, t)
<1>5. \A n \in 0..MaxAdvances : c[n] = Next(c, n)
  <2> HIDE DEF c
  <2> QED BY <1>4 DEF c
<1> HIDE DEF c
<1>6. c[0] = m
  BY <1>5
<1>7. ASSUME NEW n \in 0..MaxAdvances, n < MaxAdvances PROVE c[n + 1] = ChainStep(c[n], t)
  <2>1. n + 1 \in 0..MaxAdvances /\ n + 1 # 0 /\ n + 1 - 1 = n
    BY <1>7
  <2> QED BY <1>5, <2>1
<1> QED BY <1>6, <1>7 DEF c

(* A machine that ran under a preset. *)
Segments == {"focus", "break", "long_break"}
Machines ==
    [active : BOOLEAN, preset : PresetKinds, segment : Segments, startedAt : Nat,
     pausedAccum : Nat, pausedAt : Int, blocks : Nat, cycles : Nat, breaks : Nat,
     focused : Int]

LEMMA PlannedIsNat ==
    ASSUME NEW m \in Machines
    PROVE  Planned(m) \in Nat /\ PlannedEnd(m) \in Nat
           /\ \A t \in Nat : Elapsed(m, t) \in Int
<1>1. Planned(m) \in Nat
  <2>1. m.preset \in PresetKinds /\ m.segment \in Segments
    BY DEF Machines
  <2> QED BY <2>1 DEF Planned, Segments, PresetKinds
<1>2. m.startedAt \in Nat /\ m.pausedAccum \in Nat
  BY DEF Machines
<1> QED BY <1>1, <1>2 DEF PlannedEnd, Elapsed

(* What an advance changes, and what it leaves alone. *)
LEMMA AdvanceIs ==
    ASSUME NEW m \in Machines, NEW t \in Nat
    PROVE  LET x == Advance(m, t)
           IN  /\ x \in Machines /\ x.active = m.active /\ x.preset = m.preset
               /\ x.pausedAt = m.pausedAt /\ x.startedAt = t /\ x.pausedAccum = 0
               /\ x.segment = "focus" <=> m.segment # "focus"
<1>1. /\ m.focused + Elapsed(m, t) \in Int /\ m.cycles + 1 \in Nat
      /\ m.blocks + 1 \in Nat /\ m.breaks + 1 \in Nat /\ 0 \in Nat
  BY PlannedIsNat DEF Machines
<1>2. CASE m.segment = "focus"
  <2> DEFINE s == IF m.preset.longRest > 0 /\ (m.blocks + 1) % m.preset.every = 0
                  THEN "long_break" ELSE "break"
  <2>1. s \in Segments /\ s # "focus"
    BY DEF Segments
  <2>2. Advance(m, t) = [m EXCEPT !.startedAt = t, !.pausedAccum = 0,
                           !.focused = m.focused + Elapsed(m, t), !.cycles = m.cycles + 1,
                           !.blocks = m.blocks + 1, !.segment = s]
    BY <1>2 DEF Advance, Machines
  <2> HIDE DEF s
  <2> QED BY <1>1, <1>2, <2>1, <2>2 DEF Machines
<1>3. CASE m.segment # "focus"
  <2> DEFINE b == IF m.segment = "long_break" THEN 0 ELSE m.blocks
  <2>1. b \in Nat /\ "focus" \in Segments
    BY DEF Segments, Machines
  <2>2. Advance(m, t) = [m EXCEPT !.startedAt = t, !.pausedAccum = 0,
                           !.breaks = m.breaks + 1, !.segment = "focus", !.blocks = b]
    BY <1>3 DEF Advance, Machines
  <2> HIDE DEF b
  <2> QED BY <1>1, <1>3, <2>1, <2>2 DEF Machines
<1> QED BY <1>2, <1>3

(* A chain only holds machines that run as the first does. *)
LEMMA StepIsTyped ==
    ASSUME NEW m \in Machines, NEW t \in Nat
    PROVE  LET x == ChainStep(m, t)
           IN  /\ x \in Machines /\ x.active = m.active /\ x.preset = m.preset
               /\ x.pausedAt = m.pausedAt
<1>1. PlannedEnd(m) \in Nat
  BY PlannedIsNat
<1>2. CASE GoesOn(m, t)
  BY <1>2 DEF ChainStep
<1>3. CASE ~GoesOn(m, t)
  <2>1. ChainStep(m, t) = Advance(m, PlannedEnd(m))
    BY <1>3 DEF ChainStep
  <2> QED BY <1>1, <2>1, AdvanceIs
<1> QED BY <1>2, <1>3

(* How far a machine has come: it rises by one at least with each segment. *)
Reached(m) == 2 * (m.startedAt + m.pausedAccum) - (IF m.segment = "focus" THEN 0 ELSE 1)

LEMMA StepReaches ==
    ASSUME NEW m \in Machines, NEW t \in Nat, ~GoesOn(m, t)
    PROVE  /\ Reached(m) \in Int /\ Reached(ChainStep(m, t)) \in Int
           /\ Reached(m) <= 2 * t /\ Reached(ChainStep(m, t)) >= Reached(m) + 1
<1> DEFINE e == PlannedEnd(m)
           x == Advance(m, e)
<1>1. /\ e \in Nat /\ Planned(m) \in Nat /\ m.startedAt \in Nat /\ m.pausedAccum \in Nat
      /\ e = m.startedAt + m.pausedAccum + Planned(m)
  BY PlannedIsNat DEF Machines, PlannedEnd
<1>2. Elapsed(m, t) >= Planned(m) /\ ~OpenEnded(m)
  BY <1>1, PlannedIsNat DEF GoesOn
<1>3. e <= t
  BY <1>1, <1>2 DEF Elapsed
<1>4. /\ x.startedAt = e /\ x.pausedAccum = 0
      /\ x.segment = "focus" <=> m.segment # "focus"
  BY <1>1, AdvanceIs
<1>5. ChainStep(m, t) = x
  BY DEF ChainStep
<1> HIDE DEF e, x
<1>6. m.segment = "focus" => Planned(m) >= 1
  <2>1. m.segment = "focus" => Planned(m) = m.preset.focus /\ m.preset.focus # 0
    BY <1>2 DEF Planned, OpenEnded
  <2> QED BY <1>1, <2>1
<1>7. CASE m.segment = "focus"
  <2>1. Reached(m) = 2 * (m.startedAt + m.pausedAccum) /\ Reached(x) = 2 * e - 1
    BY <1>1, <1>4, <1>7 DEF Reached
  <2> QED BY <1>1, <1>3, <1>5, <1>6, <1>7, <2>1
<1>8. CASE m.segment # "focus"
  <2>1. Reached(m) = 2 * (m.startedAt + m.pausedAccum) - 1 /\ Reached(x) = 2 * e
    BY <1>1, <1>4, <1>8 DEF Reached
  <2> QED BY <1>1, <1>3, <1>5, <2>1
<1> QED BY <1>7, <1>8

(* MAX_CHAINED_ADVANCES are enough: the machine comes to a segment that goes on. *)
LEMMA ChainSettles ==
    ASSUME NEW m \in Machines, NEW t \in Nat, MaxAdvances \in Nat, MaxAdvances >= 2 * t + 2
    PROVE  /\ \A n \in 0..MaxAdvances :
                 LET x == Chain(m, t)[n]
                 IN  /\ x \in Machines /\ x.active = m.active /\ x.preset = m.preset
                     /\ x.pausedAt = m.pausedAt
           /\ GoesOn(AutoAdvance(m, t), t)
<1> DEFINE c == Chain(m, t)
           Same(x) == /\ x \in Machines /\ x.active = m.active /\ x.preset = m.preset
                      /\ x.pausedAt = m.pausedAt
           S == {n \in 0..MaxAdvances : /\ Same(c[n])
                                        /\ GoesOn(c[n], t) \/ Reached(c[n]) >= n - 1}
<1>1. c[0] = m
      /\ \A n \in 0..MaxAdvances : n < MaxAdvances => c[n + 1] = ChainStep(c[n], t)
  BY ChainIs
<1> HIDE DEF c
<1>2. 0 \in S
  <2>1. Reached(m) >= 0 - 1
    BY DEF Reached, Machines
  <2> QED BY <1>1, <2>1
<1>3. ASSUME NEW n \in 0..MaxAdvances, n < MaxAdvances /\ n \in S PROVE n + 1 \in S
  <2>1. Same(c[n]) /\ c[n + 1] = ChainStep(c[n], t) /\ n + 1 \in 0..MaxAdvances
    BY <1>1, <1>3
  <2>2. Same(c[n + 1])
    BY <2>1, StepIsTyped
  <2>3. CASE GoesOn(c[n], t)
    <3>1. c[n + 1] = c[n]
      BY <2>1, <2>3 DEF ChainStep
    <3> QED BY <2>1, <2>2, <2>3, <3>1
  <2>4. CASE ~GoesOn(c[n], t)
    <3>1. Reached(c[n]) \in Int /\ Reached(c[n + 1]) \in Int
          /\ Reached(c[n + 1]) >= Reached(c[n]) + 1
      BY <2>1, <2>4, StepReaches
    <3>2. Reached(c[n]) >= n - 1
      BY <1>3, <2>4
    <3>3. Reached(c[n + 1]) >= n + 1 - 1
      BY <3>1, <3>2
    <3> QED BY <2>1, <2>2, <3>3
  <2> QED BY <2>3, <2>4
<1>4. \A n \in 0..MaxAdvances : n \in S
  <2> HIDE DEF S
  <2> QED BY <1>2, <1>3, UpToEach
<1>5. GoesOn(c[MaxAdvances], t)
  <2> SUFFICES ASSUME ~GoesOn(c[MaxAdvances], t) PROVE FALSE
    OBVIOUS
  <2>1. Same(c[MaxAdvances]) /\ Reached(c[MaxAdvances]) >= MaxAdvances - 1
    BY <1>4
  <2>2. Reached(c[MaxAdvances]) \in Int /\ Reached(c[MaxAdvances]) <= 2 * t
    BY <2>1, StepReaches
  <2> QED BY <2>1, <2>2
<1> QED BY <1>4, <1>5 DEF AutoAdvance, c

(* A chain that takes its first step apart comes to the same machine. *)
LEMMA FirstStepApart ==
    ASSUME NEW m \in Machines, NEW t \in Nat, MaxAdvances \in Nat, MaxAdvances >= 2 * t + 2
    PROVE  AutoAdvance(ChainStep(m, t), t) = AutoAdvance(m, t)
<1> DEFINE c == Chain(m, t)
           d == Chain(ChainStep(m, t), t)
           S == {n \in 0..(MaxAdvances - 1) : d[n] = c[n + 1]}
           k == MaxAdvances - 1
<1>1. /\ c[0] = m /\ d[0] = ChainStep(m, t)
      /\ \A n \in 0..MaxAdvances : n < MaxAdvances => c[n + 1] = ChainStep(c[n], t)
      /\ \A n \in 0..MaxAdvances : n < MaxAdvances => d[n + 1] = ChainStep(d[n], t)
  BY ChainIs
<1>2. GoesOn(c[MaxAdvances], t)
  BY ChainSettles DEF AutoAdvance
<1> HIDE DEF c, d
<1>3. k \in Nat /\ k \in 0..MaxAdvances /\ k < MaxAdvances /\ k + 1 = MaxAdvances
  OBVIOUS
<1>4. 0 \in S
  <2>1. 0 \in 0..MaxAdvances /\ 0 < MaxAdvances /\ 0 + 1 = 1
    OBVIOUS
  <2>2. c[1] = ChainStep(m, t)
    BY <1>1, <2>1
  <2> QED BY <1>1, <1>3, <2>2
<1>5. ASSUME NEW n \in 0..k, n < k /\ n \in S PROVE n + 1 \in S
  <2>1. /\ n \in 0..MaxAdvances /\ n < MaxAdvances /\ n + 1 \in 0..MaxAdvances
        /\ n + 1 < MaxAdvances /\ n + 1 \in 0..k
    BY <1>3, <1>5
  <2>2. d[n + 1] = ChainStep(d[n], t) /\ c[n + 1 + 1] = ChainStep(c[n + 1], t)
    BY <1>1, <2>1
  <2>3. d[n] = c[n + 1]
    BY <1>5
  <2>4. d[n + 1] = c[n + 1 + 1]
    BY <2>2, <2>3
  <2> QED BY <2>1, <2>4
<1>6. d[k] = c[k + 1]
  <2>1. \A n \in 0..k : n \in S
    <3> HIDE DEF S, k
    <3> QED BY <1>3, <1>4, <1>5, UpToEach
  <2> QED BY <1>3, <2>1
<1>7. d[MaxAdvances] = c[MaxAdvances]
  <2>1. d[k + 1] = ChainStep(d[k], t)
    BY <1>1, <1>3
  <2>2. ChainStep(c[MaxAdvances], t) = c[MaxAdvances]
    BY <1>2 DEF ChainStep
  <2> QED BY <1>3, <1>6, <2>1, <2>2
<1> QED BY <1>7 DEF AutoAdvance, c, d

(* Going on until a and from there until t is to go on until t. *)
LEMMA StopsOnTheWay ==
    ASSUME NEW m \in Machines, NEW a \in Nat, NEW t \in Nat, a <= t,
           MaxAdvances \in Nat, MaxAdvances >= 2 * t + 2
    PROVE  AutoAdvance(AutoAdvance(m, a), t) = AutoAdvance(m, t)
<1> DEFINE c == Chain(m, a)
           S == {n \in 0..MaxAdvances : AutoAdvance(c[n], t) = AutoAdvance(m, t)}
<1>1. /\ c[0] = m /\ MaxAdvances >= 2 * a + 2
      /\ \A n \in 0..MaxAdvances : n < MaxAdvances => c[n + 1] = ChainStep(c[n], a)
  BY ChainIs
<1>2. \A n \in 0..MaxAdvances : c[n] \in Machines
  BY <1>1, ChainSettles
<1> HIDE DEF c
<1>3. 0 \in S
  BY <1>1
<1>4. ASSUME NEW n \in 0..MaxAdvances, n < MaxAdvances /\ n \in S PROVE n + 1 \in S
  <2>1. c[n + 1] = ChainStep(c[n], a) /\ c[n] \in Machines /\ n + 1 \in 0..MaxAdvances
    BY <1>1, <1>2, <1>4
  <2>2. CASE GoesOn(c[n], a)
    <3>1. c[n + 1] = c[n]
      BY <2>1, <2>2 DEF ChainStep
    <3> QED BY <1>4, <2>1, <3>1
  <2>3. CASE ~GoesOn(c[n], a)
    <3>1. ~GoesOn(c[n], t)
      <4>1. /\ Planned(c[n]) \in Nat /\ c[n].startedAt \in Nat /\ c[n].pausedAccum \in Nat
        BY <2>1, PlannedIsNat DEF Machines
      <4> QED BY <2>3, <4>1 DEF GoesOn, Elapsed
    <3>2. c[n + 1] = ChainStep(c[n], t)
      BY <2>1, <2>3, <3>1 DEF ChainStep
    <3>3. AutoAdvance(c[n + 1], t) = AutoAdvance(c[n], t)
      BY <2>1, <3>2, FirstStepApart
    <3> QED BY <1>4, <2>1, <3>3
  <2> QED BY <2>2, <2>3
<1>5. MaxAdvances \in S
  <2>1. \A n \in 0..MaxAdvances : n \in S
    <3> HIDE DEF S
    <3> QED BY <1>3, <1>4, UpToEach
  <2> QED BY <2>1
<1> QED BY <1>5 DEF AutoAdvance, c

(* A segment that goes on is not cut. *)
LEMMA SettledIsNotCut ==
    ASSUME NEW m \in Machines, NEW t \in Nat, GoesOn(m, t), OverflowCap \in Int
    PROVE  CutOverflow(m, t) = m
<1>1. Planned(m) \in Nat /\ Elapsed(m, t) \in Int
  BY PlannedIsNat
<1>2. OpenEnded(m) \/ OverflowCap <= 0 \/ Elapsed(m, t) - Planned(m) < OverflowCap
  BY <1>1 DEF GoesOn
<1> QED BY <1>2 DEF CutOverflow

(* A focus that is over by its cap is cut at the cap, however late that is seen. *)
LEMMA CutTwice ==
    ASSUME NEW m \in Machines, NEW a \in Nat, NEW t \in Nat, a <= t, OverflowCap \in Int
    PROVE  /\ CutOverflow(CutOverflow(m, a), t) = CutOverflow(m, t)
           /\ LET x == CutOverflow(m, a)
              IN x \in Machines /\ x.active = m.active /\ x.preset = m.preset
                 /\ x.pausedAt = m.pausedAt
<1> DEFINE NotCut(s) == m.segment /= "focus" \/ OpenEnded(m) \/ OverflowCap <= 0
                        \/ Elapsed(m, s) - Planned(m) < OverflowCap
           x == Advance(m, PlannedEnd(m) + OverflowCap)
<1>1. /\ Planned(m) \in Nat /\ PlannedEnd(m) \in Nat
      /\ m.startedAt \in Nat /\ m.pausedAccum \in Nat
  BY PlannedIsNat DEF Machines
<1>2. \A s \in Nat : CutOverflow(m, s) = IF NotCut(s) THEN m ELSE x
  BY DEF CutOverflow
<1>3. CASE NotCut(a)
  BY <1>2, <1>3
<1>4. CASE ~NotCut(a)
  <2>1. ~NotCut(t)
    BY <1>1, <1>4 DEF Elapsed
  <2>2. PlannedEnd(m) + OverflowCap \in Nat
    BY <1>1, <1>4
  <2>3. /\ x \in Machines /\ x.active = m.active /\ x.preset = m.preset
        /\ x.pausedAt = m.pausedAt /\ x.segment # "focus"
    BY <1>4, <2>2, AdvanceIs
  <2> HIDE DEF x
  <2>4. CutOverflow(x, t) = x
    BY <2>3 DEF CutOverflow
  <2> QED BY <1>2, <1>4, <2>1, <2>3, <2>4
<1> QED BY <1>3, <1>4

(* Whether a machine is ticked on the way makes no difference later. *)
LEMMA TickedOnTheWay ==
    ASSUME NEW m \in Machines, NEW a \in Nat, NEW t \in Nat, a <= t,
           MaxAdvances \in Nat, MaxAdvances >= 2 * t + 2, OverflowCap \in Int
    PROVE  /\ Ticked(m, a) \in Machines /\ Ticked(m, a).pausedAt = m.pausedAt
           /\ Ticked(Ticked(m, a), t) = Ticked(m, t)
<1>1. CASE ~m.active \/ m.pausedAt /= Never
  BY <1>1 DEF Ticked
<1>2. CASE m.active /\ m.pausedAt = Never /\ ~m.preset.auto
  <2> DEFINE x == CutOverflow(m, a)
  <2>1. Ticked(m, a) = x /\ Ticked(m, t) = CutOverflow(m, t)
    BY <1>2 DEF Ticked
  <2>2. /\ x \in Machines /\ x.active /\ x.preset = m.preset /\ x.pausedAt = Never
        /\ CutOverflow(x, t) = CutOverflow(m, t)
    BY <1>2, CutTwice
  <2> HIDE DEF x
  <2>3. Ticked(x, t) = CutOverflow(x, t)
    BY <1>2, <2>2 DEF Ticked
  <2> QED BY <1>2, <2>1, <2>2, <2>3
<1>3. CASE m.active /\ m.pausedAt = Never /\ m.preset.auto
  <2> DEFINE x == AutoAdvance(m, a)
             y == AutoAdvance(m, t)
  <2>1. Ticked(m, a) = CutOverflow(x, a) /\ Ticked(m, t) = CutOverflow(y, t)
    BY <1>3 DEF Ticked
  <2>2. MaxAdvances \in 0..MaxAdvances /\ MaxAdvances >= 2 * a + 2
    OBVIOUS
  <2>3. /\ x \in Machines /\ x.active /\ x.preset = m.preset /\ x.pausedAt = Never
        /\ GoesOn(x, a) /\ y \in Machines /\ GoesOn(y, t)
    BY <1>3, <2>2, ChainSettles DEF AutoAdvance
  <2>4. AutoAdvance(x, t) = y
    BY StopsOnTheWay
  <2> HIDE DEF x, y
  <2>5. CutOverflow(x, a) = x /\ CutOverflow(y, t) = y
    BY <2>3, SettledIsNotCut
  <2>6. Ticked(x, t) = CutOverflow(y, t)
    BY <1>3, <2>3, <2>4 DEF Ticked
  <2> QED BY <1>3, <2>1, <2>3, <2>5, <2>6
<1> QED BY <1>1, <1>2, <1>3

(* A timer that the user and the clock may have made. *)
Timed(m) == m \in Machines /\ (m.pausedAt = Never \/ m.pausedAt \in 0..now)
TimerInv == Timed(timer) /\ now \in 0..MaxTime

LEMMA ButtonsKeepTime ==
    ASSUME FocusConstantsOk, FocusInv, TimerInv
    PROVE  /\ Timed(Stopped) /\ Timed(Started(ActivePreset, now))
           /\ Timed(PauseMachine(timer, now)) /\ Timed(ResumeMachine(timer, now))
           /\ Timed(SkipMachine(timer, now))
<1>1. now \in Nat /\ timer \in Machines /\ Never \in Int /\ now \in 0..now
  BY DEF TimerInv, Timed, Never
<1>2. Stopped \in Machines /\ Stopped.pausedAt = Never
  <2>1. Presets[1] \in PresetKinds /\ "focus" \in Segments /\ Never \in Int
    BY DEF FocusConstantsOk, Segments, Never
  <2> QED BY <2>1 DEF Stopped, Machines
<1>3. Timed(Started(ActivePreset, now))
  <2>1. cell.preset \in DOMAIN Presets /\ cell.override \in Nat
    <3>1. cell \in Cells
      BY DEF FocusInv, CellCounts
    <3>2. cell.preset \in {1} \cup DOMAIN Presets /\ cell.override \in {0} \cup Lengths
      BY <3>1 DEF Cells
    <3>3. 1 \in DOMAIN Presets /\ Lengths \subseteq Nat
      BY DEF FocusConstantsOk
    <3>4. cell.preset \in DOMAIN Presets
      BY <3>2, <3>3, Zenon
    <3>5. cell.override = 0 \/ cell.override \in Nat
      BY <3>2, <3>3, Zenon
    <3> QED BY <3>4, <3>5
  <2>2. Presets[cell.preset] \in PresetKinds
    BY <2>1 DEF FocusConstantsOk
  <2>3. ActivePreset \in PresetKinds
    BY <2>1, <2>2 DEF ActivePreset, WithOverride, PresetKinds
  <2>4. Started(ActivePreset, now) \in Machines
        /\ Started(ActivePreset, now).pausedAt = Never
    BY <1>1, <1>2, <2>3 DEF Started, Machines
  <2> QED BY <2>4 DEF Timed
<1>4. Timed(PauseMachine(timer, now))
  <2>1. CASE ~timer.active \/ timer.pausedAt /= Never
    BY <2>1 DEF PauseMachine, TimerInv
  <2>2. CASE timer.active /\ timer.pausedAt = Never
    <3>1. PauseMachine(timer, now) = [timer EXCEPT !.pausedAt = now]
      BY <2>2 DEF PauseMachine
    <3> QED BY <1>1, <3>1 DEF Machines, Timed
  <2> QED BY <2>1, <2>2
<1>5. Timed(ResumeMachine(timer, now))
  <2>1. CASE timer.pausedAt = Never
    BY <2>1 DEF ResumeMachine, TimerInv
  <2>2. CASE timer.pausedAt /= Never
    <3> DEFINE p == timer.pausedAccum + now - timer.pausedAt
    <3>1. timer.pausedAccum \in Nat /\ timer.pausedAt \in 0..now
      BY <1>1, <2>2 DEF TimerInv, Timed, Machines
    <3>2. p \in Nat
      BY <1>1, <3>1
    <3>3. ResumeMachine(timer, now) = [timer EXCEPT !.pausedAccum = p, !.pausedAt = Never]
      BY <1>1, <2>2 DEF ResumeMachine, Machines
    <3> HIDE DEF p
    <3> QED BY <1>1, <3>2, <3>3 DEF Machines, Timed
  <2> QED BY <2>1, <2>2
<1>6. Timed(SkipMachine(timer, now))
  <2>1. CASE ~timer.active
    BY <2>1 DEF SkipMachine, TimerInv
  <2>2. CASE timer.active
    <3>1. Advance(timer, now) \in Machines
      BY <1>1, AdvanceIs
    <3>2. SkipMachine(timer, now) = [Advance(timer, now) EXCEPT !.pausedAt = Never]
      BY <2>2 DEF SkipMachine
    <3> QED BY <1>1, <3>1, <3>2 DEF Machines, Timed
  <2> QED BY <2>1, <2>2
<1> QED BY <1>2, <1>3, <1>4, <1>5, <1>6 DEF Timed

LEMMA TickKeepsTime ==
    ASSUME FocusConstantsOk, now \in 0..MaxTime, NEW m, Timed(m)
    PROVE  Timed(Ticked(m, now))
<1>1. /\ now \in Nat /\ MaxAdvances \in Nat /\ MaxAdvances >= 2 * now + 2
      /\ OverflowCap \in Int /\ now <= now
  BY DEF FocusConstantsOk
<1> QED BY <1>1, TickedOnTheWay DEF Timed

(* However rarely a throttled window ticks, its timer shows what it would  *)
(* have shown (focus/machine.ts runAutoAdvance), for all presets and all   *)
(* times that MAX_CHAINED_ADVANCES segments are enough for.                *)
THEOREM TimerIgnoresItsTicks ==
    FocusConstantsOk => (FocusSpec => []TickSpacingIsInvisible)
<1> SUFFICES ASSUME FocusConstantsOk PROVE FocusSpec => []TickSpacingIsInvisible
  OBVIOUS
<1>1. FocusInit => TimerInv
  <2> SUFFICES ASSUME FocusInit PROVE TimerInv
    OBVIOUS
  <2>1. Presets[1] \in PresetKinds /\ "focus" \in Segments /\ Never \in Int
    BY DEF FocusConstantsOk, Segments, Never
  <2>2. Stopped \in Machines /\ Stopped.pausedAt = Never
    BY <2>1 DEF Stopped, Machines
  <2>3. timer = Stopped /\ now = 0 /\ MaxTime \in Nat
    BY DEF FocusInit, FocusConstantsOk
  <2> QED BY <2>2, <2>3 DEF TimerInv, Timed
<1>2. FocusInv /\ TimerInv /\ [FocusNext]_focusVars => TimerInv'
  <2> SUFFICES ASSUME FocusInv, TimerInv, [FocusNext]_focusVars PROVE TimerInv'
    OBVIOUS
  <2>0. now \in 0..MaxTime /\ Timed(timer)
    BY DEF TimerInv
  <2>1. ASSUME NEW m, NEW c, NEW skipped, Timed(m), Render(m, c, skipped), now' = now
        PROVE  TimerInv'
    <3>1. timer' = Ticked(m, now) /\ Timed(Ticked(m, now))
      BY <2>0, <2>1, TickKeepsTime DEF Render
    <3> QED BY <2>0, <2>1, <3>1 DEF TimerInv, Timed
  <2>2. ASSUME timer' = timer, now' = now PROVE TimerInv'
    BY <2>0, <2>2 DEF TimerInv, Timed
  <2>3. CASE TimePasses
    <3>1. timer' = timer /\ now' = now + 1 /\ now < MaxTime /\ MaxTime \in Nat
      BY <2>3 DEF TimePasses, FocusConstantsOk
    <3>2. now' \in 0..MaxTime /\ \A p \in 0..now : p \in 0..now'
      BY <2>0, <3>1
    <3> QED BY <2>0, <3>1, <3>2 DEF TimerInv, Timed
  <2>4. CASE Tick
    BY <2>0, <2>1, <2>4 DEF Tick
  <2>5. CASE ToggleStart
    <3>1. PICK m : /\ m \in {Started(ActivePreset, now), ResumeMachine(timer, now),
                             PauseMachine(timer, now)}
                   /\ Render(m, cell, FALSE) /\ now' = now
      <4>1. CASE cell.phase = "idle"
        BY <2>5, <4>1 DEF ToggleStart, Click
      <4>2. CASE cell.phase = "paused"
        BY <2>5, <4>2 DEF ToggleStart, Click
      <4>3. CASE cell.phase # "idle" /\ cell.phase # "paused"
        BY <2>5, <4>3 DEF ToggleStart, Click
      <4> QED BY <4>1, <4>2, <4>3
    <3>2. Timed(m)
      BY <3>1, ButtonsKeepTime
    <3> QED BY <2>1, <3>1, <3>2
  <2>6. CASE Skip
    <3>1. Timed(SkipMachine(timer, now))
      BY ButtonsKeepTime
    <3> QED BY <2>1, <2>6, <3>1 DEF Skip, Click
  <2>7. CASE Reset
    <3>1. Timed(Stopped)
      BY ButtonsKeepTime
    <3> QED BY <2>1, <2>7, <3>1 DEF Reset, Click
  <2>8. CASE PauseIfRunning
    <3>1. Timed(PauseMachine(timer, now))
      BY ButtonsKeepTime
    <3> QED BY <2>1, <2>8, <3>1 DEF PauseIfRunning
  <2>9. ASSUME NEW p \in DOMAIN Presets, PickPreset(p) PROVE TimerInv'
    BY <2>0, <2>1, <2>9 DEF PickPreset, Click
  <2>10. ASSUME NEW min \in Lengths, SetFocusMin(min) PROVE TimerInv'
    BY <2>0, <2>1, <2>10 DEF SetFocusMin, Click
  <2>11. CASE SetConfig
    BY <2>2, <2>11 DEF SetConfig, Click
  <2>12. CASE Dispose
    BY <2>2, <2>12 DEF Dispose, Click
  <2>13. CASE SendLogEvent
    BY <2>2, <2>13 DEF SendLogEvent
  <2>14. CASE UNCHANGED focusVars
    BY <2>2, <2>14 DEF focusVars
  <2> QED
    BY <2>3, <2>4, <2>5, <2>6, <2>7, <2>8, <2>9, <2>10, <2>11, <2>12, <2>13, <2>14
       DEF FocusNext
<1>3. TimerInv => TickSpacingIsInvisible
  <2> SUFFICES ASSUME TimerInv, NEW d \in 1..2, NEW e \in 1..2
               PROVE  Ticked(Ticked(timer, now + d), now + d + e) = Ticked(timer, now + d + e)
    BY DEF TickSpacingIsInvisible
  <2> DEFINE a == now + d
             t == now + d + e
  <2>1. now \in 0..MaxTime /\ timer \in Machines /\ MaxTime \in Nat
        /\ MaxAdvances \in Nat /\ MaxAdvances >= 2 * MaxTime + 10 /\ OverflowCap \in Int
    BY DEF TimerInv, Timed, FocusConstantsOk
  <2>2. a \in Nat /\ t \in Nat /\ a <= t /\ MaxAdvances >= 2 * t + 2
    BY <2>1
  <2> HIDE DEF a, t
  <2>3. Ticked(Ticked(timer, a), t) = Ticked(timer, t)
    BY <2>1, <2>2, TickedOnTheWay
  <2> QED BY <2>3 DEF a, t
<1> QED BY <1>1, <1>2, <1>3, FocusInvIsKept, PTL DEF FocusSpec
=============================================================================

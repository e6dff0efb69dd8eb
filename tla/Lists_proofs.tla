---------------------------- MODULE Lists_proofs ----------------------------
(***************************************************************************)
(* Proofs about the lists of the window and the keys that go through them: *)
(* which surface has the keys (KeyFocus), the rows of the work tree        *)
(* (WorkTree), the items of the board of agents (AgentBoard), the tabs     *)
(* (TabStrip) and the tasks (TodoPanel); and about the downloads of        *)
(* Updates, the recordings of Screencast, the contexts of WebglPool and    *)
(* the writes of EditorFile.  Not in Panels_proofs, whose modules have     *)
(* variables named like these.                                             *)
(***************************************************************************)
EXTENDS KeyFocus, WorkTree, AgentBoard, TabStrip, TodoPanel, Updates, Screencast,
        WebglPool, EditorFile, SequenceTheorems, FiniteSetTheorems,
        NaturalsInduction, WellFoundedInduction, TLAPS

(***************************************************************************)
(* KeyFocus                                                                *)
(*                                                                         *)
(* todoFocused is kept beside the focus of the DOM by hand, and yet no step*)
(* leaves it behind.                                                       *)
(***************************************************************************)
(* todoFocused is a flag, and what the property says of it is inductive. *)
KeyInv == todoFocused \in BOOLEAN /\ TodoKeysAreSeen

(* The grid has the keyboard at the start. *)
LEMMA KeyStart == KeyInit => KeyInv
BY DEF KeyInit, KeyInv, TodoKeysAreSeen

(* A step that takes the panel's keys away, or leaves all of it as it is. *)
LEMMA FocusStays ==
  ASSUME KeyInv, todoFocused' \in BOOLEAN,
         todoFocused' => /\ todoFocused /\ dom' = dom
                         /\ panelVisible' = panelVisible /\ project' = project
  PROVE  KeyInv'
BY DEF KeyInv, TodoKeysAreSeen

(* Every step keeps it: one that moves the focus, hides the sidebar or     *)
(* changes the project takes the keys of the todo panel away first.        *)
LEMMA FocusStep ==
  ASSUME KeyInv, [KeyNext]_keyVars
  PROVE  KeyInv'
<1> USE DEF sidebarVars, dockVars
<1>0. ASSUME NEW d, DomMoves(d)
      PROVE  /\ todoFocused' \in BOOLEAN
             /\ todoFocused' => todoFocused /\ dom' = dom
  BY <1>0 DEF DomMoves, KeyInv, TodoKeysAreSeen
<1>a. ASSUME FocusActive
      PROVE  todoFocused' = FALSE
  BY <1>a DEF FocusActive
<1>b. ASSUME NEW p, NEW cs, FocusPinCell(p, cs)
      PROVE  /\ todoFocused' \in BOOLEAN
             /\ todoFocused' => todoFocused /\ dom' = dom
  BY <1>0, <1>b DEF FocusPinCell, KeyInv
<1>c. ASSUME SetPanelVisible(FALSE)
      PROVE  todoFocused' = FALSE
  BY <1>c, <1>a DEF SetPanelVisible, KeyInv, FocusActive
<1>d. KeyInv => todoFocused \in BOOLEAN
  BY DEF KeyInv
<1>1. CASE ClickPane
  BY <1>1, <1>0, FocusStays DEF ClickPane
<1>2. ASSUME NEW d \in {Tree, Todo}, ClickSidebar(d)
      PROVE  KeyInv'
  BY <1>2, <1>0, FocusStays DEF ClickSidebar
<1>3. CASE ToggleCollapsed
  BY <1>3, <1>d, FocusStays DEF ToggleCollapsed
<1>4. CASE TogglePanel
  <2>1. CASE panelVisible
    BY <2>1, <1>4, <1>c DEF TogglePanel, KeyInv, TodoKeysAreSeen
  <2>2. CASE ~panelVisible
    BY <2>2, <1>4, <1>0, FocusStays DEF TogglePanel, KeyInv, TodoKeysAreSeen
  <2> QED BY <2>1, <2>2
<1>5. CASE FocusTree
  BY <1>5, <1>c DEF FocusTree, KeyInv, TodoKeysAreSeen
<1>6. CASE FocusTodo
  <2>1. CASE project = "none"
    BY <2>1, <1>6, <1>d, FocusStays DEF FocusTodo
  <2>2. CASE project # "none"
    BY <2>2, <1>6 DEF FocusTodo, KeyInv, TodoKeysAreSeen
  <2> QED BY <2>1, <2>2
<1>7. CASE CloseDock
  BY <1>7, <1>a DEF CloseDock, KeyInv, TodoKeysAreSeen
<1>8. ASSUME NEW dir, NEW g, Navigate(dir, g)
      PROVE  KeyInv'
  <2>1. /\ todoFocused' \in BOOLEAN
        /\ todoFocused' => todoFocused /\ dom' = dom
    BY <1>8, <1>0, <1>a, <1>b, <1>d DEF Navigate
  <2>2. (panelVisible => panelVisible') /\ project' = project
    BY <1>8 DEF Navigate
  <2> QED BY <2>1, <2>2 DEF KeyInv, TodoKeysAreSeen
<1>9. ASSUME NEW p \in Places,
             ClickCell(p) \/ ClickPage(p) \/ FocusCellKey(p) \/ CellIsOpen(p) \/ CellEnds(p)
      PROVE  KeyInv'
  <2>1. /\ todoFocused' \in BOOLEAN
        /\ todoFocused' => todoFocused /\ dom' = dom
    BY <1>9, <1>0, <1>b DEF ClickCell, ClickPage, FocusCellKey, CellIsOpen, CellEnds
  <2>2. panelVisible' = panelVisible /\ project' = project
    BY <1>9 DEF ClickCell, ClickPage, FocusCellKey, CellIsOpen, CellEnds
  <2> QED BY <2>1, <2>2, FocusStays
<1>10. ASSUME NEW k, AddToDock(k)
       PROVE  KeyInv'
  BY <1>10, <1>d, FocusStays DEF AddToDock
<1>11. ASSUME NEW j, ActivateTab(j) \/ OpenTab(j) \/ TabIsOpen(j)
       PROVE  KeyInv'
  <2>1. CASE ActivateTab(j)
    BY <2>1, <1>a DEF ActivateTab, KeyInv, TodoKeysAreSeen
  <2>2. CASE OpenTab(j)
    BY <2>2, <1>d, FocusStays DEF OpenTab
  <2>3. CASE TabIsOpen(j)
    BY <2>3 DEF TabIsOpen, DomMoves, KeyInv, TodoKeysAreSeen, Grid, Todo
  <2> QED BY <1>11, <2>1, <2>2, <2>3
<1>12. CASE CloseActive
  <2>1. ASSUME NEW p, CloseFocusedPin(p)
        PROVE  todoFocused' = FALSE
    BY <2>1, <1>a DEF CloseFocusedPin
  <2>2. /\ todoFocused' \in BOOLEAN
        /\ todoFocused' => todoFocused /\ dom' = dom
    BY <1>12, <1>0, <2>1 DEF CloseActive
  <2>3. panelVisible' = panelVisible /\ project' = project
    BY <1>12 DEF CloseActive
  <2> QED BY <2>2, <2>3, FocusStays
<1>13. CASE UNCHANGED keyVars
  BY <1>13 DEF keyVars, KeyInv, TodoKeysAreSeen
<1> QED
  BY <1>1, <1>2, <1>3, <1>4, <1>5, <1>6, <1>7, <1>8, <1>9, <1>10, <1>11, <1>12, <1>13
  DEF KeyNext, Moves

(* While the todo panel takes the plain keys, the sidebar is shown and no  *)
(* other surface has the focus (app.ts todoFocused, setPanelVisible), for  *)
(* any projects.                                                           *)
THEOREM TodoHasTheKeys == KeySpec => []TodoKeysAreSeen
<1>1. KeyInv => TodoKeysAreSeen
  BY DEF KeyInv
<1> QED BY KeyStart, FocusStep, <1>1, PTL DEF KeySpec

(***************************************************************************)
(* WorkTree                                                                *)
(*                                                                         *)
(* The rows on screen are those of one root: its folder, the folder's child*)
(* if it is listed, and the root's file.  A listing replaces the rows of   *)
(* its own root only, as long as one runs at a time.                       *)
(***************************************************************************)
(* The rows of a root: its folder, the child if it is listed, its file. *)
RootRows(g, root, child, leaf) ==
  IF child
  THEN IF leaf THEN <<Row(g, root, "d"), Row(g, root, "d/f"), Row(g, root, "f")>>
               ELSE <<Row(g, root, "d"), Row(g, root, "d/f")>>
  ELSE IF leaf THEN <<Row(g, root, "d"), Row(g, root, "f")>>
               ELSE <<Row(g, root, "d")>>

(* One root with generation g, its folder open or not. *)
IsTree(rs, g, root) ==
  \E child, leaf \in BOOLEAN :
    /\ rs = RootRows(g, root, child, leaf)
    /\ child => g \in expanded
IsTop(rs, g, root) == \E leaf \in BOOLEAN : rs = RootRows(g, root, FALSE, leaf)

NoneUnfolds == \A g \in 1..MaxRoots : unfolding[g] = 0

TreeTypes == /\ MaxRoots \in Nat /\ gen \in Nat /\ gen <= MaxRoots
             /\ unfolding \in [1..MaxRoots -> Nat]
             /\ refresh = [step |-> refresh.step, rows |-> refresh.rows,
                           opens |-> refresh.opens]

OneAtATime ==
  /\ listing = {} \/ (refresh.step = "none" /\ NoneUnfolds)
  /\ refresh.step = "none" \/ NoneUnfolds
  /\ \A g, h \in 1..MaxRoots : unfolding[g] > 0 /\ unfolding[h] > 0 => g = h
  /\ \A g \in 1..MaxRoots : unfolding[g] <= 1
  /\ \A l, m \in listing : l = m
  /\ \A l \in listing : l.root = rootPath
RowsAreTree ==
  /\ rows # <<>> => \E g, root : /\ IsTree(rows, g, root)
                                 /\ listing = {} => root = rootPath
FolderIsEmpty ==
  \A g \in 1..MaxRoots : unfolding[g] > 0 => IsTop(rows, g, rootPath) /\ g \in expanded
RefreshFits ==
  /\ refresh.step = "root" => refresh.rows = rows
  /\ refresh.step = "folder" => \E g \in expanded : IsTop(refresh.rows, g, rootPath)
TreeShape == OneAtATime /\ RowsAreTree /\ FolderIsEmpty /\ RefreshFits
TreeInv == TreeTypes /\ (~overlapped => TreeShape)

-----------------------------------------------------------------------------
(* Sequences of one, two and three members, put together.                  *)
LEMMA Pair ==
  ASSUME NEW a, NEW b
  PROVE  <<a>> \o <<b>> = <<a, b>>
<1> DEFINE S == {a, b}  s == <<a>>  t == <<b>>  u == <<a, b>>
<1>1. s \in Seq(S) /\ t \in Seq(S) /\ u \in Seq(S)
  OBVIOUS
<1>2. Len(s) = 1 /\ Len(t) = 1 /\ Len(u) = 2 /\ s[1] = a /\ t[1] = b /\ u[1] = a /\ u[2] = b
  OBVIOUS
<1> HIDE DEF S, s, t, u
<1>3. s \o t \in Seq(S) /\ Len(s \o t) = 2 /\ (s \o t)[1] = a /\ (s \o t)[2] = b
  BY <1>1, <1>2, ConcatProperties
<1>4. \A i \in 1..Len(s \o t) : (s \o t)[i] = u[i]
  BY <1>2, <1>3
<1>5. s \o t = u
  BY <1>1, <1>2, <1>3, <1>4, SeqEqual
<1> QED BY <1>5 DEF s, t, u

LEMMA Triple ==
  ASSUME NEW a, NEW b, NEW c
  PROVE  <<a, b>> \o <<c>> = <<a, b, c>> /\ <<a>> \o <<b, c>> = <<a, b, c>>
<1> DEFINE S == {a, b, c}  u == <<a, b, c>>
<1>1. u \in Seq(S) /\ Len(u) = 3 /\ u[1] = a /\ u[2] = b /\ u[3] = c
  OBVIOUS
<1>2. ASSUME NEW s \in Seq(S), NEW t \in Seq(S), Len(s) + Len(t) = 3,
             Len(s) \in 1..2, \A i \in 1..Len(s) : s[i] = u[i],
             \A i \in 1..Len(t) : t[i] = u[i + Len(s)]
      PROVE  s \o t = u
  <2>1. s \o t \in Seq(S) /\ Len(s \o t) = 3
    BY <1>2, ConcatProperties
  <2>2. ASSUME NEW i \in 1..3
        PROVE  (s \o t)[i] = u[i]
    <3>1. Len(s) \in 1..2 /\ Len(t) = 3 - Len(s)
      BY <1>2
    <3>2. (s \o t)[i] = IF i <= Len(s) THEN s[i] ELSE t[i - Len(s)]
      BY <1>2, <2>2, ConcatProperties
    <3>3. CASE i <= Len(s)
      BY <1>2, <2>2, <3>2, <3>3
    <3>4. CASE ~(i <= Len(s))
      <4>1. i - Len(s) \in 1..Len(t) /\ i - Len(s) + Len(s) = i
        BY <3>1, <3>4
      <4> QED BY <1>2, <3>2, <3>4, <4>1
    <3> QED BY <3>3, <3>4
  <2> QED BY <1>1, <2>1, <2>2, SeqEqual
<1>3. <<a, b>> \in Seq(S) /\ <<c>> \in Seq(S) /\ <<a>> \in Seq(S) /\ <<b, c>> \in Seq(S)
  OBVIOUS
<1> HIDE DEF S, u
<1>4. <<a, b>> \o <<c>> = u
  BY <1>1, <1>2, <1>3
<1>5. <<a>> \o <<b, c>> = u
  BY <1>1, <1>2, <1>3
<1> QED BY <1>4, <1>5 DEF u

(* The members from one place to the same.                                 *)
LEMMA OneOf ==
  ASSUME NEW S, NEW s \in Seq(S), NEW i \in 1..Len(s)
  PROVE  SubSeq(s, i, i) = <<s[i]>>
<1> DEFINE t == <<s[i]>>
<1>1. i \in Int /\ \A j \in i..i : s[j] \in S
  OBVIOUS
<1>2. /\ SubSeq(s, i, i) \in Seq(S)
      /\ Len(SubSeq(s, i, i)) = (IF i <= i THEN i - i + 1 ELSE 0)
      /\ \A j \in 1..(i - i + 1) : SubSeq(s, i, i)[j] = s[i + j - 1]
  BY <1>1, SubSeqProperties
<1>3. Len(SubSeq(s, i, i)) = 1 /\ SubSeq(s, i, i)[1] = s[i]
  BY <1>2
<1>4. t \in Seq(S) /\ Len(t) = 1 /\ t[1] = s[i]
  OBVIOUS
<1> HIDE DEF t
<1>5. \A j \in 1..Len(SubSeq(s, i, i)) : SubSeq(s, i, i)[j] = t[j]
  BY <1>3, <1>4
<1>6. SubSeq(s, i, i) = t
  BY <1>2, <1>3, <1>4, <1>5, SeqEqual
<1> QED BY <1>6 DEF t

LEMMA HeadAndTail ==
  ASSUME NEW S, NEW s \in Seq(S), s # <<>>
  PROVE  SubSeq(s, 1, 1) = <<s[1]>> /\ SubSeq(s, 2, Len(s)) = Tail(s)
<1>1. 1 \in 1..Len(s)
  OBVIOUS
<1> QED BY <1>1, OneOf, TailIsSubSeq

(* What stands where in the rows of a root. *)
RowsFit(rs, g, root, child, leaf) ==
  /\ rs \in Seq({Row(g, root, "d"), Row(g, root, "d/f"), Row(g, root, "f")})
  /\ rs # <<>> /\ Len(rs) \in 1..3
  /\ rs[1] = Row(g, root, "d")
  /\ \A i \in DOMAIN rs : /\ rs[i].gen = g /\ rs[i].root = root
                          /\ rs[i].rel = "d" <=> i = 1
                          /\ rs[i].rel = "d/f" <=> (child /\ i = 2)
                          /\ rs[i].rel = "f" <=> (i > 1 /\ ~(child /\ i = 2))
  /\ \A i, j \in DOMAIN rs : rs[i].rel = rs[j].rel => i = j

LEMMA TreeRows ==
  ASSUME NEW g, NEW root, NEW child \in BOOLEAN, NEW leaf \in BOOLEAN
  PROVE  RowsFit(RootRows(g, root, child, leaf), g, root, child, leaf)
<1> SUFFICES ASSUME NEW rs, rs = RootRows(g, root, child, leaf)
             PROVE  RowsFit(rs, g, root, child, leaf)
  OBVIOUS
<1> USE DEF RootRows, Row, RowsFit
<1>1. CASE child /\ leaf
  BY <1>1
<1>2. CASE child /\ ~leaf
  BY <1>2
<1>3. CASE ~child /\ leaf
  BY <1>3
<1>4. CASE ~child /\ ~leaf
  BY <1>4
<1> QED BY <1>1, <1>2, <1>3, <1>4

(* What a listing of the root and one of the folder make of the rows. *)
LEMMA TopIsTree ==
  ASSUME NEW g, NEW root
  PROVE  Top(g, root) = RootRows(g, root, FALSE, "f" \in disk)
<1> DEFINE d == Row(g, root, "d")  f == Row(g, root, "f")
<1>1. Top(g, root) = <<d>> \o IF "f" \in disk THEN <<f>> ELSE <<>>
  BY DEF Top
<1>2. RootRows(g, root, FALSE, "f" \in disk) = IF "f" \in disk THEN <<d, f>> ELSE <<d>>
  BY DEF RootRows
<1> HIDE DEF d, f
<1>3. <<d>> \o <<f>> = <<d, f>> /\ <<d>> \o <<>> = <<d>>
  BY Pair
<1> QED BY <1>1, <1>2, <1>3

LEMMA InsideTop ==
  ASSUME NEW g, NEW root, NEW leaf \in BOOLEAN, NEW rs,
         rs = RootRows(g, root, FALSE, leaf)
  PROVE  <<rs[1]>> \o Inside(g, root) \o Tail(rs) = RootRows(g, root, "d/f" \in disk, leaf)
<1> DEFINE d == Row(g, root, "d")  c == Row(g, root, "d/f")  f == Row(g, root, "f")
<1>1. rs = IF leaf THEN <<d, f>> ELSE <<d>>
  BY DEF RootRows
<1>2. Inside(g, root) = IF "d/f" \in disk THEN <<c>> ELSE <<>>
  BY DEF Inside
<1>3. RootRows(g, root, "d/f" \in disk, leaf)
        = IF "d/f" \in disk THEN IF leaf THEN <<d, c, f>> ELSE <<d, c>>
                            ELSE IF leaf THEN <<d, f>> ELSE <<d>>
  BY DEF RootRows
<1> HIDE DEF d, c, f
<1>4. rs[1] = d /\ Tail(rs) = IF leaf THEN <<f>> ELSE <<>>
  <2>1. CASE leaf
    <3>1. Tail(<<d, f>>) = <<f>> /\ <<d, f>>[1] = d
      OBVIOUS
    <3> QED BY <1>1, <2>1, <3>1
  <2>2. CASE ~leaf
    <3>1. Tail(<<d>>) = <<>> /\ <<d>>[1] = d
      OBVIOUS
    <3> QED BY <1>1, <2>2, <3>1
  <2> QED BY <2>1, <2>2
<1>5. /\ <<d>> \o <<>> = <<d>> /\ <<d, c>> \o <<>> = <<d, c>>
      /\ <<d>> \o <<c>> = <<d, c>> /\ <<d>> \o <<f>> = <<d, f>>
      /\ <<d, c>> \o <<f>> = <<d, c, f>>
  <2>1. <<d>> \o <<>> = <<d>> /\ <<d, c>> \o <<>> = <<d, c>>
    OBVIOUS
  <2> QED BY <2>1, Pair, Triple
<1> QED BY <1>2, <1>3, <1>4, <1>5

(* The folder of a root is its first row. *)
LEMMA FolderIsFirst ==
  ASSUME NEW g, NEW root, NEW child \in BOOLEAN, NEW leaf \in BOOLEAN,
         RowsFit(rows, g, root, child, leaf)
  PROVE  FolderPlace(g) = 1
<1> DEFINE I == {i \in 1..Len(rows) : rows[i].rel = "d" /\ rows[i].gen = g}
<1>1. I = {1}
  <2>1. /\ Len(rows) \in 1..3 /\ DOMAIN rows = 1..Len(rows)
        /\ \A i \in DOMAIN rows : rows[i].gen = g /\ (rows[i].rel = "d" <=> i = 1)
    BY DEF RowsFit
  <2> QED BY <2>1
<1>2. FolderPlace(g) = IF I # {} THEN Min(I) ELSE 0
  BY DEF FolderPlace, SelectInSeq
<1>3. Min({1}) = 1
  BY DEF Min
<1> QED BY <1>1, <1>2, <1>3

(* A folder that lists or folds. *)
LEMMA ListedInside ==
  ASSUME NEW g, NEW root, NEW leaf \in BOOLEAN, rows = RootRows(g, root, FALSE, leaf)
  PROVE  SubSeq(rows, 1, 1) \o Inside(g, root) \o SubSeq(rows, 2, Len(rows))
            = RootRows(g, root, "d/f" \in disk, leaf)
<1>0. PICK S : S = {Row(g, root, "d"), Row(g, root, "d/f"), Row(g, root, "f")}
  OBVIOUS
<1>1. rows \in Seq(S) /\ rows # <<>> /\ Len(rows) \in 1..3
  <2>1. RowsFit(rows, g, root, FALSE, leaf)
    BY TreeRows
  <2> QED BY <1>0, <2>1 DEF RowsFit
<1>2. SubSeq(rows, 1, 1) = <<rows[1]>> /\ SubSeq(rows, 2, Len(rows)) = Tail(rows)
  BY ONLY <1>1, HeadAndTail
<1>3. <<rows[1]>> \o Inside(g, root) \o Tail(rows) = RootRows(g, root, "d/f" \in disk, leaf)
  BY InsideTop
<1> QED BY <1>2, <1>3, Zenon

LEMMA FoldedRows ==
  ASSUME NEW g, NEW root, NEW child \in BOOLEAN, NEW leaf \in BOOLEAN,
         rows = RootRows(g, root, child, leaf)
  PROVE  Folded(g) = RootRows(g, root, FALSE, leaf)
<1> DEFINE d == Row(g, root, "d")  f == Row(g, root, "f")
           S == {d, Row(g, root, "d/f"), f}
<1>0. RowsFit(rows, g, root, child, leaf)
  BY TreeRows
<1>1. /\ rows \in Seq(S) /\ Len(rows) \in 1..3 /\ rows[1] = d
      /\ DOMAIN rows = 1..Len(rows)
      /\ \A i \in DOMAIN rows : rows[i].rel = "d/f" <=> (child /\ i = 2)
  BY <1>0 DEF RowsFit
<1>2. RootRows(g, root, FALSE, leaf) = IF leaf THEN <<d, f>> ELSE <<d>>
  BY DEF RootRows
<1>4. FolderPlace(g) = 1
  BY <1>0, FolderIsFirst
<1>5. CASE ~child
  <2>1. \A i \in 1..Len(rows) : rows[i].rel # "d/f"
    BY <1>1, <1>5
  <2>2. Folded(g) = rows
    BY <1>1, <1>4, <2>1 DEF Folded
  <2> QED BY <1>5, <2>2 DEF RootRows
<1>6. CASE child
  <2>0. 2 \in DOMAIN rows
    BY <1>6 DEF RootRows
  <2>1. 2 \in 1..Len(rows) /\ rows[2].rel = "d/f"
    BY <1>1, <1>6, <2>0
  <2>2. Folded(g) = SubSeq(rows, 1, 1) \o SubSeq(rows, 3, Len(rows))
    BY <1>1, <1>4, <2>1 DEF Folded, RemoveAt
  <2>3. SubSeq(rows, 1, 1) = <<d>>
    <3>1. 1 \in 1..Len(rows) /\ rows[1] = d
      BY <1>1
    <3> QED BY <1>1, <3>1, OneOf
  <2>4. CASE leaf
    <3>0. Len(rows) = 3 /\ rows[3] = f
      BY <1>6, <2>4 DEF RootRows
    <3> HIDE DEF d, f, S
    <3>1. SubSeq(rows, 3, Len(rows)) = <<f>>
      <4>1. 3 \in 1..Len(rows)
        BY <3>0
      <4> QED BY <1>1, <3>0, <4>1, OneOf
    <3> QED BY <1>2, <2>2, <2>3, <2>4, <3>1, Pair
  <2>5. CASE ~leaf
    <3>0. Len(rows) = 2
      BY <1>6, <2>5 DEF RootRows
    <3> HIDE DEF d, f, S
    <3>1. SubSeq(rows, 3, Len(rows)) = <<>>
      BY <3>0, SubSeqEmpty
    <3>2. <<d>> \o <<>> = <<d>>
      OBVIOUS
    <3> QED BY <1>2, <2>2, <2>3, <2>5, <3>1, <3>2
  <2> QED BY <2>4, <2>5
<1> QED BY <1>5, <1>6

-----------------------------------------------------------------------------
LEMMA TreeStart ==
  ASSUME MaxRoots \in Nat, TreeInit
  PROVE  TreeInv
<1> USE DEF TreeInit
<1>1. TreeTypes
  BY DEF TreeTypes, NoRefresh
<1>2. NoneUnfolds /\ refresh.step = "none"
  BY DEF NoneUnfolds, NoRefresh
<1>3. OneAtATime /\ FolderIsEmpty
  BY <1>2 DEF OneAtATime, FolderIsEmpty, NoneUnfolds
<1>4. RowsAreTree /\ RefreshFits
  BY <1>2 DEF RowsAreTree, RefreshFits
<1> QED BY <1>1, <1>3, <1>4 DEF TreeInv, TreeShape

(* What was under way when an action that starts something finds the tree at rest. *)
LEMMA AtRest ==
  ASSUME TreeTypes, ~Busy
  PROVE  listing = {} /\ refresh.step = "none" /\ NoneUnfolds
BY DEF TreeTypes, Busy, NoneUnfolds

LEMMA RowsStay ==
  ASSUME TreeInv, UNCHANGED rowVars
  PROVE  TreeInv'
BY DEF rowVars, TreeInv, TreeTypes, TreeShape, OneAtATime, RowsAreTree, FolderIsEmpty,
       RefreshFits, NoneUnfolds, IsTree, IsTop

LEMMA RootIsSet ==
  ASSUME MaxRoots \in Nat, TreeInv, NEW root, SetRoot(root)
  PROVE  TreeInv'
<1>1. TreeTypes'
  BY DEF TreeInv, TreeTypes, SetRoot, Busy
<1>2. ASSUME ~overlapped'
      PROVE  TreeShape'
  <2>1. ~overlapped /\ ~Busy
    BY <1>2 DEF SetRoot
  <2>2. listing = {} /\ refresh.step = "none" /\ NoneUnfolds /\ TreeShape
    BY <2>1, AtRest DEF TreeInv
  <2>3. /\ listing' = {[gen |-> gen + 1, root |-> root]} /\ rootPath' = root
        /\ UNCHANGED <<rows, expanded, unfolding, refresh>>
    BY <2>2 DEF SetRoot
  <2>4. OneAtATime' /\ RefreshFits' /\ FolderIsEmpty'
    BY <2>2, <2>3 DEF OneAtATime, RefreshFits, FolderIsEmpty, NoneUnfolds
  <2>5. RowsAreTree'
    BY <2>2, <2>3 DEF TreeShape, RowsAreTree, IsTree
  <2> QED BY <2>4, <2>5 DEF TreeShape
<1> QED BY <1>1, <1>2 DEF TreeInv

LEMMA RefreshStarts ==
  ASSUME TreeInv, NEW opens, StartRefresh(opens)
  PROVE  TreeInv'
<1>1. TreeTypes'
  BY DEF TreeInv, TreeTypes, StartRefresh, Busy
<1>2. ASSUME ~overlapped'
      PROVE  TreeShape'
  <2>1. ~overlapped /\ ~Busy
    BY <1>2 DEF StartRefresh
  <2>2. listing = {} /\ refresh.step = "none" /\ NoneUnfolds /\ TreeShape
    BY <2>1, AtRest DEF TreeInv
  <2>3. /\ refresh'.step = "root" /\ refresh'.rows = rows
        /\ UNCHANGED <<rootPath, rows, expanded, listing, unfolding>>
    BY DEF StartRefresh
  <2>4. OneAtATime' /\ RefreshFits' /\ FolderIsEmpty'
    BY <2>2, <2>3 DEF OneAtATime, RefreshFits, FolderIsEmpty, NoneUnfolds
  <2>5. RowsAreTree'
    BY <2>2, <2>3 DEF TreeShape, RowsAreTree, IsTree
  <2> QED BY <2>4, <2>5 DEF TreeShape
<1> QED BY <1>1, <1>2 DEF TreeInv

(* The row of the folder is known by the generation of its root. *)
LEMMA FolderRowIs ==
  ASSUME NEW g, NEW h, NEW root, NEW child \in BOOLEAN, NEW leaf \in BOOLEAN,
         rows = RootRows(h, root, child, leaf), FolderRow(g)
  PROVE  g = h
<1>1. RowsFit(rows, h, root, child, leaf)
  BY TreeRows
<1> QED BY <1>1 DEF RowsFit, FolderRow, ToSet

LEMMA GenIsKept ==
  ASSUME NEW g, NEW leaf \in BOOLEAN, NEW child \in BOOLEAN,
         refresh.rows = RootRows(g, rootPath, child, leaf)
  PROVE  GenOf("d") = g
<1> DEFINE rs == refresh.rows
<1>1. RowsFit(rs, g, rootPath, child, leaf)
  BY TreeRows
<1> HIDE DEF rs
<1>2. /\ 1 \in DOMAIN rs /\ rs[1].rel = "d"
      /\ \A i \in DOMAIN rs : rs[i].gen = g /\ rs[i].root = rootPath
  BY <1>1 DEF RowsFit
<1>3. Reused("d")
  BY <1>2 DEF Reused, rs
<1>4. \E r \in ToSet(rs) : r.rel = "d" /\ r.root = rootPath
  BY <1>2 DEF ToSet
<1>5. \A r \in ToSet(rs) : r.gen = g
  BY <1>2 DEF ToSet
<1> QED BY <1>3, <1>4, <1>5 DEF GenOf, rs

(* Rows at rest, or under a listing, are those of one root. *)
LEMMA TopFits ==
  ASSUME NEW g
  PROVE  IsTop(Top(g, rootPath), g, rootPath)
<1>1. Top(g, rootPath) = RootRows(g, rootPath, FALSE, "f" \in disk)
  BY TopIsTree
<1>2. ("f" \in disk) \in BOOLEAN
  OBVIOUS
<1> QED BY <1>1, <1>2, Zenon DEF IsTop

LEMMA TopIsATree ==
  ASSUME NEW rs, NEW g, NEW root, IsTop(rs, g, root)
  PROVE  IsTree(rs, g, root)
BY DEF IsTop, IsTree

(* Rows with the child in them are those of an expanded folder. *)
LEMMA ChildFits ==
  ASSUME NEW rs, NEW g \in expanded, NEW leaf \in BOOLEAN, NEW root,
         rs = RootRows(g, root, "d/f" \in disk, leaf)
  PROVE  IsTree(rs, g, root)
<1>1. ("d/f" \in disk) \in BOOLEAN
  OBVIOUS
<1> QED BY <1>1, Zenon DEF IsTree

(* Rows of one root that leave the rest at rest. *)
LEMMA RowsSettle ==
  ASSUME NEW g, IsTree(rows, g, rootPath)',
         listing' = {}, refresh'.step = "none", NoneUnfolds'
  PROVE  TreeShape'
<1>1. OneAtATime'
  BY DEF OneAtATime, NoneUnfolds
<1>2. RowsAreTree'
  BY DEF RowsAreTree
<1>3. FolderIsEmpty' /\ RefreshFits'
  BY DEF FolderIsEmpty, RefreshFits, NoneUnfolds
<1> QED BY <1>1, <1>2, <1>3 DEF TreeShape

LEMMA ListingStep ==
  ASSUME TreeInv, NEW l \in listing, RootLists(l)
  PROVE  TreeInv'
<1>1. TreeTypes'
  BY DEF TreeInv, TreeTypes, RootLists
<1>2. ASSUME ~overlapped'
      PROVE  TreeShape'
  <2>1. TreeShape
    BY <1>2 DEF TreeInv, RootLists
  <2>2. /\ listing' = {} /\ l.root = rootPath
        /\ refresh'.step = "none" /\ NoneUnfolds'
    BY <2>1 DEF TreeShape, OneAtATime, RootLists, NoneUnfolds
  <2>3. rows' = Top(l.gen, rootPath) /\ rootPath' = rootPath /\ expanded' = expanded
    BY <2>2 DEF RootLists
  <2>4. IsTree(rows', l.gen, rootPath)
    BY <2>3, TopFits, TopIsATree
  <2>5. IsTree(rows, l.gen, rootPath)'
    BY <2>3, <2>4 DEF IsTree
  <2> QED BY <2>2, <2>5, RowsSettle
<1> QED BY <1>1, <1>2 DEF TreeInv

LEMMA RefreshTopStep ==
  ASSUME TreeInv, RefreshListsTop
  PROVE  TreeInv'
<1>0. PICK g : g = GenOf("d")
  OBVIOUS
<1>1. TreeTypes'
  <2>1. UNCHANGED <<gen, unfolding>>
    BY DEF RefreshListsTop
  <2>2. CASE g \in expanded
    <3>1. refresh' = [refresh EXCEPT !.step = "folder", !.rows = Top(g, rootPath)]
      BY <1>0, <2>2 DEF RefreshListsTop
    <3> QED BY <2>1, <3>1 DEF TreeInv, TreeTypes
  <2>3. CASE g \notin expanded
    <3>1. refresh' = NoRefresh
      BY <1>0, <2>3 DEF RefreshListsTop, EndRefresh
    <3> QED BY <2>1, <3>1 DEF TreeInv, TreeTypes, NoRefresh
  <2> QED BY <2>2, <2>3
<1>2. ASSUME ~overlapped'
      PROVE  TreeShape'
  <2>1. TreeShape
    BY <1>2 DEF TreeInv, RefreshListsTop
  <2>2. /\ refresh.step = "root" /\ listing' = {} /\ NoneUnfolds'
        /\ UNCHANGED <<rootPath, expanded, listing, unfolding>>
    BY <2>1 DEF TreeShape, OneAtATime, RefreshListsTop, NoneUnfolds
  <2>3. IsTop(Top(g, rootPath), g, rootPath)
    BY TopFits
  <2>4. CASE g \in expanded
    <3>1. /\ refresh' = [refresh EXCEPT !.step = "folder", !.rows = Top(g, rootPath)]
          /\ rows' = rows
      BY <1>0, <2>4 DEF RefreshListsTop
    <3>2. refresh'.step = "folder" /\ refresh'.rows = Top(g, rootPath)
      BY <3>1 DEF TreeInv, TreeTypes
    <3>3. IsTop(refresh.rows, g, rootPath)'
      BY <2>2, <2>3, <3>2 DEF IsTop
    <3>4. OneAtATime' /\ FolderIsEmpty'
      BY <2>1, <2>2, <3>2 DEF TreeShape, OneAtATime, FolderIsEmpty, NoneUnfolds
    <3>5. RowsAreTree'
      BY <2>1, <2>2, <3>1 DEF TreeShape, RowsAreTree, IsTree
    <3>6. RefreshFits'
      BY <2>2, <2>4, <3>2, <3>3 DEF RefreshFits
    <3> QED BY <3>4, <3>5, <3>6 DEF TreeShape
  <2>5. CASE g \notin expanded
    <3>1. refresh'.step = "none" /\ rows' = Top(g, rootPath)
      BY <1>0, <2>5 DEF RefreshListsTop, EndRefresh, NoRefresh
    <3>2. IsTree(rows', g, rootPath)
      BY <2>3, <3>1, TopIsATree
    <3>3. IsTree(rows, g, rootPath)'
      BY <2>2, <3>2 DEF IsTree
    <3> QED BY <2>2, <3>1, <3>3, RowsSettle
  <2> QED BY <2>4, <2>5
<1> QED BY <1>1, <1>2 DEF TreeInv

LEMMA RefreshFolderStep ==
  ASSUME TreeInv, RefreshListsFolder
  PROVE  TreeInv'
<1>1. TreeTypes'
  BY DEF TreeInv, TreeTypes, RefreshListsFolder, EndRefresh, NoRefresh
<1>2. ASSUME ~overlapped'
      PROVE  TreeShape'
  <2>1. TreeShape /\ refresh.step = "folder"
    BY <1>2 DEF TreeInv, RefreshListsFolder
  <2>2. /\ listing' = {} /\ NoneUnfolds' /\ refresh'.step = "none"
        /\ UNCHANGED <<rootPath, expanded>>
    BY <2>1 DEF TreeShape, OneAtATime, RefreshListsFolder, EndRefresh, NoneUnfolds, NoRefresh
  <2>3. PICK g \in expanded : IsTop(refresh.rows, g, rootPath)
    BY <2>1 DEF TreeShape, RefreshFits
  <2>4. PICK leaf \in BOOLEAN : refresh.rows = RootRows(g, rootPath, FALSE, leaf)
    BY <2>3 DEF IsTop
  <2>5. GenOf("d") = g
    BY <2>4, GenIsKept
  <2>6. rows' = <<refresh.rows[1]>> \o Inside(g, rootPath) \o Tail(refresh.rows)
    BY <2>5 DEF RefreshListsFolder, EndRefresh
  <2>7. rows' = RootRows(g, rootPath, "d/f" \in disk, leaf)
    BY <2>4, <2>6, InsideTop
  <2>8. IsTree(rows, g, rootPath)'
    BY <2>2, <2>3, <2>7, ChildFits DEF IsTree
  <2> QED BY <2>2, <2>8, RowsSettle
<1> QED BY <1>1, <1>2 DEF TreeInv

(* The rows and the folder of a tree at rest. *)
LEMMA RowsAtRest ==
  ASSUME NEW g, TreeInv, ~overlapped, ~Busy, FolderRow(g)
  PROVE  /\ listing = {} /\ refresh.step = "none" /\ NoneUnfolds
         /\ IsTree(rows, g, rootPath)
<1>1. listing = {} /\ refresh.step = "none" /\ NoneUnfolds
  BY AtRest DEF TreeInv
<1>2. rows # <<>>
  BY DEF FolderRow, ToSet
<1>3. PICK h : IsTree(rows, h, rootPath)
  BY <1>1, <1>2 DEF TreeInv, TreeShape, RowsAreTree
<1>4. PICK child \in BOOLEAN, leaf \in BOOLEAN : rows = RootRows(h, rootPath, child, leaf)
  BY <1>3 DEF IsTree
<1>5. g = h
  BY <1>4, FolderRowIs
<1> QED BY <1>1, <1>3, <1>5

LEMMA ExpandStep ==
  ASSUME TreeInv, NEW g \in 1..gen, Expand(g)
  PROVE  TreeInv'
<1>1. g \in 1..MaxRoots
  BY DEF TreeInv, TreeTypes
<1>2. TreeTypes'
  BY <1>1 DEF TreeInv, TreeTypes, Expand
<1>3. ASSUME ~overlapped'
      PROVE  TreeShape'
  <2>1. ~overlapped /\ ~Busy /\ FolderRow(g) /\ g \notin expanded
    BY <1>3 DEF Expand
  <2>2. /\ listing = {} /\ refresh.step = "none" /\ NoneUnfolds
        /\ IsTree(rows, g, rootPath)
    BY <2>1, RowsAtRest
  <2>3. /\ UNCHANGED <<rootPath, rows, listing, refresh>>
        /\ expanded' = expanded \cup {g} /\ unfolding' = [unfolding EXCEPT ![g] = @ + 1]
    BY DEF Expand
  <2>4. \A h \in 1..MaxRoots : unfolding'[h] = IF h = g THEN 1 ELSE 0
    BY <1>1, <2>2, <2>3 DEF NoneUnfolds, TreeInv, TreeTypes
  <2>5. OneAtATime' /\ RefreshFits'
    BY <2>2, <2>3, <2>4 DEF OneAtATime, RefreshFits, NoneUnfolds
  <2>6. PICK leaf \in BOOLEAN : rows = RootRows(g, rootPath, FALSE, leaf)
    BY <2>1, <2>2 DEF IsTree
  <2>7. IsTop(rows, g, rootPath)' /\ IsTree(rows, g, rootPath)'
    BY <2>3, <2>6 DEF IsTop, IsTree
  <2>8. FolderIsEmpty'
    BY <2>3, <2>4, <2>7 DEF FolderIsEmpty
  <2>9. RowsAreTree'
    BY <2>7 DEF RowsAreTree
  <2> QED BY <2>5, <2>8, <2>9 DEF TreeShape
<1> QED BY <1>2, <1>3 DEF TreeInv

LEMMA FolderStep ==
  ASSUME TreeInv, NEW g \in 1..gen, FolderLists(g)
  PROVE  TreeInv'
<1>1. g \in 1..MaxRoots
  BY DEF TreeInv, TreeTypes
<1>2. TreeTypes'
  <2>1. unfolding[g] - 1 \in Nat
    <3>1. unfolding[g] > 0
      BY DEF FolderLists
    <3>2. unfolding[g] \in Nat
      BY <1>1 DEF TreeInv, TreeTypes
    <3> QED BY <3>1, <3>2
  <2> QED BY <1>1, <2>1 DEF TreeInv, TreeTypes, FolderLists
<1>3. ASSUME ~overlapped'
      PROVE  TreeShape'
  <2>1. TreeShape /\ unfolding[g] > 0
    BY <1>3 DEF TreeInv, FolderLists
  <2>2. /\ UNCHANGED <<rootPath, expanded, listing, refresh>>
        /\ unfolding' = [unfolding EXCEPT ![g] = @ - 1]
    BY DEF FolderLists
  <2>3. listing = {} /\ refresh.step = "none" /\ unfolding[g] <= 1
        /\ \A h \in 1..MaxRoots : unfolding[h] > 0 => h = g
    BY <1>1, <2>1 DEF TreeShape, OneAtATime, NoneUnfolds
  <2>4. NoneUnfolds'
    BY <1>1, <2>1, <2>2, <2>3 DEF NoneUnfolds, TreeInv, TreeTypes
  <2>5. IsTop(rows, g, rootPath) /\ g \in expanded
    BY <1>1, <2>1 DEF TreeShape, FolderIsEmpty
  <2>6. PICK leaf \in BOOLEAN : rows = RootRows(g, rootPath, FALSE, leaf)
    BY <2>5 DEF IsTop
  <2>7. RowsFit(rows, g, rootPath, FALSE, leaf)
    BY <2>6, TreeRows
  <2>8. FolderPlace(g) = 1 /\ rows[1].root = rootPath
    <3>1. FolderPlace(g) = 1
      BY <2>7, FolderIsFirst
    <3>2. rows[1] = Row(g, rootPath, "d")
      BY <2>7 DEF RowsFit
    <3> QED BY <3>1, <3>2 DEF Row
  <2>9. rows' = SubSeq(rows, 1, 1) \o Inside(g, rootPath) \o SubSeq(rows, 2, Len(rows))
    BY <2>8 DEF FolderLists
  <2>10. rows' = RootRows(g, rootPath, "d/f" \in disk, leaf)
    BY <2>6, <2>9, ListedInside
  <2>11. IsTree(rows', g, rootPath)
    BY <2>5, <2>10, ChildFits
  <2>12. IsTree(rows, g, rootPath)'
    BY <2>2, <2>11 DEF IsTree
  <2> QED BY <2>2, <2>3, <2>4, <2>12, RowsSettle
<1> QED BY <1>2, <1>3 DEF TreeInv

LEMMA CollapseStep ==
  ASSUME TreeInv, NEW g \in 1..gen, Collapse(g)
  PROVE  TreeInv'
<1>1. TreeTypes'
  BY DEF TreeInv, TreeTypes, Collapse
<1>2. ASSUME ~overlapped'
      PROVE  TreeShape'
  <2>1. ~overlapped /\ ~Busy /\ FolderRow(g)
    BY <1>2 DEF Collapse
  <2>2. /\ listing = {} /\ refresh.step = "none" /\ NoneUnfolds
        /\ IsTree(rows, g, rootPath)
    BY <2>1, RowsAtRest
  <2>3. UNCHANGED <<rootPath, listing, refresh, unfolding>> /\ rows' = Folded(g)
    BY DEF Collapse
  <2>4. PICK child \in BOOLEAN, leaf \in BOOLEAN : rows = RootRows(g, rootPath, child, leaf)
    BY <2>2 DEF IsTree
  <2>5. rows' = RootRows(g, rootPath, FALSE, leaf)
    BY <2>3, <2>4, FoldedRows
  <2>6. IsTree(rows, g, rootPath)'
    BY <2>3, <2>5 DEF IsTree
  <2>7. NoneUnfolds'
    BY <2>2, <2>3 DEF NoneUnfolds
  <2> QED BY <2>2, <2>3, <2>6, <2>7, RowsSettle
<1> QED BY <1>1, <1>2 DEF TreeInv

LEMMA TreeStep ==
  ASSUME MaxRoots \in Nat, TreeInv, [TreeNext]_treeVars
  PROVE  TreeInv'
<1>1. ASSUME NEW root, OpenTree(root) \/ ShowPanel(root)
      PROVE  TreeInv'
  BY <1>1, RootIsSet, RefreshStarts, RowsStay DEF OpenTree, ShowPanel
<1>2. CASE ListingReturns
  BY <1>2, ListingStep DEF ListingReturns
<1>3. CASE RefreshListsTop \/ RefreshListsFolder
  BY <1>3, RefreshTopStep, RefreshFolderStep
<1>4. ASSUME NEW g \in 1..gen, Expand(g) \/ FolderLists(g) \/ Collapse(g)
      PROVE  TreeInv'
  BY <1>4, ExpandStep, FolderStep, CollapseStep
<1>5. CASE TreeTimer
  BY <1>5, RefreshStarts, RowsStay DEF TreeTimer
<1>6. CASE HidePanel \/ GitEvent \/ RunGitStatusRefresh \/ GitSettles
           \/ \E f \in {"f", "d/f"} : DiskChanges(f)
  BY <1>6, RowsStay DEF HidePanel, GitEvent, RunGitStatusRefresh, GitSettles, DiskChanges
<1>7. CASE UNCHANGED treeVars
  BY <1>7, RowsStay DEF treeVars, rowVars
<1> QED BY <1>1, <1>2, <1>3, <1>4, <1>5, <1>6, <1>7 DEF TreeNext

LEMMA TreeIsSafe == TreeInv => OneRowPerPath
<1> SUFFICES ASSUME TreeInv, ~overlapped, ~Busy, rows # <<>>
             PROVE  /\ \A i, j \in DOMAIN rows : rows[i].rel = rows[j].rel => i = j
                    /\ \A r \in ToSet(rows) : r.root = rootPath
                    /\ rows[1].rel = "d"
                    /\ (\E r \in ToSet(rows) : r.rel = "d/f")
                          => rows[1].gen \in expanded /\ rows[2].rel = "d/f"
  BY DEF OneRowPerPath
<1>1. PICK g : IsTree(rows, g, rootPath)
  BY AtRest DEF TreeInv, TreeShape, RowsAreTree
<1>2. PICK child \in BOOLEAN, leaf \in BOOLEAN :
         rows = RootRows(g, rootPath, child, leaf) /\ (child => g \in expanded)
  BY <1>1 DEF IsTree
<1>3. RowsFit(rows, g, rootPath, child, leaf)
  BY <1>2, TreeRows
<1>4. 1 \in DOMAIN rows
  BY <1>3 DEF RowsFit
<1> QED BY <1>2, <1>3, <1>4 DEF RowsFit, ToSet, Row

TreeSpec == TreeInit /\ [][TreeNext]_treeVars

\* The work tree lists every path of its root once and every child under its folder, for
\* any roots and any number of changes, as long as two listings do not meet (filetree.ts).
THEOREM PathsAreListedOnce ==
  ASSUME MaxRoots \in Nat
  PROVE  TreeSpec => []OneRowPerPath
<1>1. TreeInit => TreeInv
  BY TreeStart
<1>2. TreeInv /\ [TreeNext]_treeVars => TreeInv'
  BY TreeStep
<1> QED BY <1>1, <1>2, TreeIsSafe, PTL DEF TreeSpec

(***************************************************************************)
(* AgentBoard                                                              *)
(*                                                                         *)
(* The selection is a place in the list, which every event draws again.    *)
(***************************************************************************)
IsList(s) == \E S : s \in Seq(S)

(* The times are a sequence of sessions, and the arrows stay in the list.   *)
BoardInv ==
  /\ IsList(since) /\ IsList(nav) /\ IsFiniteSet(listed)
  /\ selected \in Nat \ {0}
  /\ nav # <<>> => selected \in DOMAIN nav

LEMMA BoardStart == BoardInit => BoardInv
<1> SUFFICES ASSUME BoardInit PROVE BoardInv
  OBVIOUS
<1>1. <<>> \in Seq({})
  OBVIOUS
<1>2. IsFiniteSet({})
  BY FS_EmptySet
<1> QED BY <1>1, <1>2 DEF BoardInit, BoardInv, IsList

LEMMA ListsJoin ==
  ASSUME NEW s, NEW t, IsList(s), IsList(t)
  PROVE  IsList(s \o t)
<1>1. PICK S, T : s \in Seq(S) /\ t \in Seq(T)
  BY DEF IsList
<1>2. s \in Seq(S \cup T) /\ t \in Seq(S \cup T)
  BY <1>1
<1>3. s \o t \in Seq(S \cup T)
  BY <1>2, ConcatProperties
<1> QED BY <1>3 DEF IsList

LEMMA ListReversed ==
  ASSUME NEW s, IsList(s)
  PROVE  IsList(Reverse(s))
<1>1. PICK S : s \in Seq(S)
  BY DEF IsList
<1>2. Reverse(s) \in Seq(S)
  BY <1>1 DEF Reverse
<1> QED BY <1>2 DEF IsList

LEMMA ListOf ==
  ASSUME NEW n \in Nat, NEW f, f = [i \in 1..n |-> f[i]]
  PROVE  IsList(f)
<1> DEFINE S == {f[i] : i \in 1..n}
<1>1. f \in [1..n -> S]
  OBVIOUS
<1>2. f \in Seq(S)
  BY <1>1
<1> QED BY <1>2 DEF IsList

LEMMA ListFacts ==
  ASSUME NEW s, IsList(s)
  PROVE  /\ Len(s) \in Nat /\ DOMAIN s = 1..Len(s) /\ (s = <<>> <=> Len(s) = 0)
         /\ IsFiniteSet(ToSet(s))
<1>1. PICK S : s \in Seq(S)
  BY DEF IsList
<1>2. Len(s) \in Nat /\ DOMAIN s = 1..Len(s)
  BY <1>1
<1>3. s = <<>> <=> Len(s) = 0
  BY <1>1, EmptySeq
<1>4. IsFiniteSet(1..Len(s))
  BY <1>2, FS_Interval
<1>5. IsFiniteSet({s[i] : i \in 1..Len(s)})
  <2> DEFINE T == {s[i] : i \in 1..Len(s)}
  <2>1. [i \in 1..Len(s) |-> s[i]] \in Surjection(1..Len(s), T)
    BY DEF Surjection
  <2> QED BY <1>4, <2>1, FS_Surjection
<1> QED BY <1>2, <1>3, <1>5 DEF ToSet

LEMMA GroupIsList ==
  ASSUME NEW g, IsFiniteSet(g)
  PROVE  IsList(ByTime(g))
<1>1. Cardinality(g) \in Nat
  BY FS_CardinalityType
<1> QED BY <1>1, ListOf DEF ByTime

LEMMA LeastIsIn ==
  ASSUME NEW I, I # {}, I \subseteq Nat
  PROVE  Min(I) \in I
<1> DEFINE R == OpToRel(<, Nat)
<1>1. PICK i \in I : \A j \in I : ~ (<<j, i>> \in R)
  <2>1. IsWellFoundedOn(R, Nat)
    BY NatLessThanWellFounded
  <2> HIDE DEF R
  <2> QED BY <2>1, WFMin
<1>2. \A j \in I : ~ (j < i)
  BY <1>1 DEF OpToRel
<1>3. \A j \in I : i =< j
  BY <1>2
<1> QED BY <1>3 DEF Min

LEMMA AddedLast ==
  ASSUME NEW s, IsList(s), NEW a
  PROVE  IsList(Append(RemoveFirst(s, a), a))
<1>1. PICK S : s \in Seq(S)
  BY DEF IsList
<1>2. ASSUME NEW i \in 1..Len(s)
      PROVE  RemoveAt(s, i) \in Seq(S)
  <2>1. i - 1 \in Int /\ i + 1 \in Int /\ Len(s) \in Int
    BY <1>1, <1>2
  <2>2. (\A j \in 1..(i - 1) : s[j] \in S) /\ (\A j \in (i + 1)..Len(s) : s[j] \in S)
    BY <1>1, <1>2
  <2>3. SubSeq(s, 1, i - 1) \in Seq(S) /\ SubSeq(s, i + 1, Len(s)) \in Seq(S)
    BY <2>1, <2>2, SubSeqProperties
  <2> QED BY <2>3, ConcatProperties DEF RemoveAt
<1>3. RemoveFirst(s, a) \in Seq(S)
  <2> DEFINE i == SelectInSeq(s, LAMBDA v : v = a)
             I == {j \in 1..Len(s) : s[j] = a}
  <2>1. CASE I = {}
    BY <1>1, <2>1 DEF RemoveFirst
  <2>2. CASE I # {}
    <3>1. i = Min(I)
      BY <2>2 DEF SelectInSeq
    <3>2. i \in 1..Len(s)
      <4>1. Len(s) \in Nat /\ I \subseteq Nat
        BY <1>1
      <4> HIDE DEF I
      <4>2. Min(I) \in I
        BY <2>2, <4>1, LeastIsIn
      <4> QED BY <3>1, <4>2 DEF I
    <3> HIDE DEF i
    <3>3. RemoveAt(s, i) \in Seq(S)
      BY <1>2, <3>2
    <3> QED BY <1>1, <2>2, <3>3 DEF RemoveFirst, i
  <2> QED BY <2>1, <2>2
<1>4. Append(RemoveFirst(s, a), a) \in Seq(S \cup {a})
  <2>1. RemoveFirst(s, a) \in Seq(S \cup {a})
    BY <1>3
  <2> QED BY <2>1
<1> QED BY <1>4 DEF IsList

(* renderList keeps the selection in the list it draws. *)
LEMMA ListDrawn ==
  ASSUME BoardInv, NEW rs, IsFiniteSet(rs), NEW ks, NEW withDone,
         RenderList(rs, ks, withDone)
  PROVE  /\ IsList(nav') /\ selected' \in Nat \ {0}
         /\ nav' # <<>> => selected' \in DOMAIN nav'
<1>1. \A k : IsList(Group(rs, ks, k))
  <2> TAKE k
  <2>1. IsFiniteSet({a \in rs : ks[a] = k})
    BY FS_Subset
  <2> QED BY <2>1, GroupIsList DEF Group
<1>2. IsList(<<Toggle>>) /\ IsList(<<>>)
  <2>1. <<Toggle>> \in Seq({Toggle}) /\ <<>> \in Seq({Toggle})
    OBVIOUS
  <2> QED BY <2>1 DEF IsList
<1>3. IsList(Items(rs, ks, withDone))
  <2> DEFINE a == Group(rs, ks, "waiting")   b == Group(rs, ks, "errored")
             c == Group(rs, ks, "working")
             d == IF \E x \in rs : ks[x] = "done" THEN <<Toggle>> ELSE <<>>
             e == IF withDone THEN Reverse(Group(rs, ks, "done")) ELSE <<>>
  <2>1. IsList(a) /\ IsList(b) /\ IsList(c) /\ IsList(d) /\ IsList(e)
    BY <1>1, <1>2, ListReversed
  <2>2. Items(rs, ks, withDone) = a \o b \o c \o d \o e
    BY DEF Items
  <2> HIDE DEF a, b, c, d, e
  <2>3. IsList(a \o b)
    BY <2>1, ListsJoin
  <2>4. IsList(a \o b \o c)
    BY <2>1, <2>3, ListsJoin
  <2>5. IsList(a \o b \o c \o d)
    BY <2>1, <2>4, ListsJoin
  <2> QED BY <2>1, <2>2, <2>5, ListsJoin
<1>4. IsList(nav') /\ Clamped(Len(nav'))
  BY <1>3 DEF RenderList
<1>5. /\ Len(nav') \in Nat /\ DOMAIN nav' = 1..Len(nav')
      /\ (nav' = <<>> <=> Len(nav') = 0)
  BY <1>4, ListFacts
<1>6. selected \in Nat \ {0}
  BY DEF BoardInv
<1>7. selected' = IF Len(nav') = 0 THEN selected
                  ELSE IF selected > Len(nav') THEN Len(nav') ELSE selected
  BY <1>4 DEF Clamped
<1> QED BY <1>4, <1>5, <1>6, <1>7

(* The sessions listed are finitely many, whether gone or not. *)
LEMMA TrackedFinite ==
  ASSUME NEW s, IsList(s), NEW t
  PROVE  IsFiniteSet(ToSet(s) \ t)
BY ListFacts, FS_Subset

LEMMA EventStep ==
  ASSUME BoardInv, NEW a, NEW k, Event(a, k)
  PROVE  BoardInv'
<1>1. IsList(since')
  BY AddedLast DEF BoardInv, Event
<1>2. CASE open
  <2>1. SetRows(ToSet(since') \ gone, kind', doneExpanded)
    BY <1>2 DEF Event
  <2>2. IsFiniteSet(ToSet(since') \ gone)
    BY <1>1, TrackedFinite
  <2>3. /\ listed' = ToSet(since') \ gone
        /\ RenderList(ToSet(since') \ gone, kind', doneExpanded)
    BY <2>1 DEF SetRows
  <2> HIDE DEF RenderList
  <2>4. /\ IsList(nav') /\ selected' \in Nat \ {0}
        /\ nav' # <<>> => selected' \in DOMAIN nav'
    BY <2>2, <2>3, ListDrawn
  <2> QED BY <1>1, <2>2, <2>3, <2>4 DEF BoardInv
<1>3. CASE ~open
  BY <1>1, <1>3 DEF Event, BoardInv
<1> QED BY <1>2, <1>3

LEMMA OpenStep ==
  ASSUME BoardInv, OpenBoard
  PROVE  BoardInv'
<1>1. since' = since /\ SetRows(Tracked, kind, FALSE)
  BY DEF OpenBoard, storeVars
<1>2. IsFiniteSet(Tracked)
  BY TrackedFinite DEF BoardInv, Tracked
<1>3. listed' = Tracked /\ RenderList(Tracked, kind, FALSE)
  BY <1>1 DEF SetRows
<1>4. /\ IsList(nav') /\ selected' \in Nat \ {0}
      /\ nav' # <<>> => selected' \in DOMAIN nav'
  BY <1>2, <1>3, ListDrawn
<1> QED BY <1>1, <1>2, <1>3, <1>4 DEF BoardInv

LEMMA CloseStep ==
  ASSUME BoardInv, Close, since' = since, selected' = selected
  PROVE  BoardInv'
<1>1. IsList(<<>>) /\ IsFiniteSet({})
  <2>1. <<>> \in Seq({})
    OBVIOUS
  <2> QED BY <2>1, FS_EmptySet DEF IsList
<1> QED BY <1>1 DEF Close, BoardInv

LEMMA ToggleStep ==
  ASSUME BoardInv, ToggleDone
  PROVE  BoardInv'
<1>1. since' = since /\ listed' = listed /\ RenderList(listed, shown, ~doneExpanded)
  BY DEF ToggleDone, storeVars
<1>2. IsFiniteSet(listed)
  BY DEF BoardInv
<1>3. /\ IsList(nav') /\ selected' \in Nat \ {0}
      /\ nav' # <<>> => selected' \in DOMAIN nav'
  BY <1>1, <1>2, ListDrawn
<1> QED BY <1>1, <1>3 DEF BoardInv

LEMMA MoveStep ==
  ASSUME BoardInv, NEW d \in {1, -1}, Move(d)
  PROVE  BoardInv'
<1>1. Len(nav) \in Nat \ {0} /\ DOMAIN nav = 1..Len(nav)
  BY ListFacts DEF BoardInv, Move
<1>2. \A x \in Int, n \in Nat \ {0} : (x % n) + 1 \in 1..n
  OBVIOUS
<1>3. selected - 1 + d + Len(nav) \in Int
  BY <1>1 DEF BoardInv
<1>4. selected' \in 1..Len(nav) /\ UNCHANGED <<since, listed, nav>>
  BY <1>1, <1>2, <1>3 DEF Move, storeVars
<1> QED BY <1>1, <1>4 DEF BoardInv

LEMMA BoardStep ==
  ASSUME BoardInv, [BoardNext]_boardVars
  PROVE  BoardInv'
<1>1. ASSUME NEW a \in Agents, PaneCloses(a)
      PROVE  BoardInv'
  BY <1>1 DEF PaneCloses, BoardInv
<1>2. ASSUME NEW a \in Agents, NEW k \in Kinds, Event(a, k)
      PROVE  BoardInv'
  BY <1>2, EventStep
<1>3. CASE OpenBoard
  BY <1>3, OpenStep
<1>4. CASE CloseBoard
  BY <1>4, CloseStep DEF CloseBoard, storeVars
<1>5. ASSUME NEW i, Take(i)
      PROVE  BoardInv'
  BY <1>5, ToggleStep, CloseStep DEF Take, storeVars
<1>6. CASE ActivateSelected
  BY <1>5, <1>6 DEF ActivateSelected
<1>7. ASSUME NEW i, ClickRow(i)
      PROVE  BoardInv'
  BY <1>5, <1>7 DEF ClickRow
<1>8. ASSUME NEW d \in {1, -1}, Move(d)
      PROVE  BoardInv'
  BY <1>8, MoveStep
<1>9. CASE UNCHANGED boardVars
  BY <1>9 DEF boardVars, BoardInv
<1> QED BY <1>1, <1>2, <1>3, <1>4, <1>6, <1>7, <1>8, <1>9 DEF BoardNext

BoardSpec == BoardInit /\ [][BoardNext]_boardVars

\* However the list shrinks under it the selection is on one of the board's items, for
\* any number of sessions and events (orchestration.ts renderList).
THEOREM SelectionStays == BoardSpec => []SomethingIsSelected
<1>1. BoardInv /\ [BoardNext]_boardVars => BoardInv'
  BY BoardStep
<1>2. BoardInv => SomethingIsSelected
  BY DEF BoardInv, SomethingIsSelected
<1> QED BY <1>1, <1>2, BoardStart, PTL DEF BoardSpec

(***************************************************************************)
(* TabStrip                                                                *)
(*                                                                         *)
(* No id is in the strip twice, so a tab is at one place and goes as a     *)
(* whole; what a job has changed of it is in the store before it ends.     *)
(***************************************************************************)
(* A strip: tabs with the fields of a tab, each id once.                   *)
IsTab(t) == t = [id |-> t.id, kind |-> t.kind, of |-> t.of, pinned |-> t.pinned,
                 opener |-> t.opener]
EachOnce(s) == \A i, j \in DOMAIN s : s[i] = s[j] => i = j
Strip(ts) == /\ IsList(ts) /\ \A i \in DOMAIN ts : IsTab(ts[i])
             /\ \A i, j \in DOMAIN ts : ts[i].id = ts[j].id => i = j

(* Two strips without a common id, one behind the other. *)
LEMMA StripsJoin ==
  ASSUME NEW s, NEW t, Strip(s), Strip(t), Ids(s) \cap Ids(t) = {}
  PROVE  Strip(s \o t) /\ Ids(s \o t) = Ids(s) \cup Ids(t)
<1> DEFINE m == Len(s)
           n == Len(t)
           u == s \o t
<1>1. PICK S : s \in Seq(S) /\ t \in Seq(S)
  <2>1. PICK S1, S2 : s \in Seq(S1) /\ t \in Seq(S2)
    BY DEF Strip, IsList
  <2>2. s \in Seq(S1 \cup S2) /\ t \in Seq(S1 \cup S2)
    BY <2>1
  <2> QED BY <2>2
<1>2. m \in Nat /\ n \in Nat /\ DOMAIN s = 1..m /\ DOMAIN t = 1..n
  BY <1>1
<1>3. /\ u \in Seq(S) /\ Len(u) = m + n
      /\ \A i \in 1..m + n : u[i] = IF i <= m THEN s[i] ELSE t[i - m]
  BY <1>1, ConcatProperties
<1>4. DOMAIN u = 1..m + n
  BY <1>3
<1> HIDE DEF u, m, n
<1>5. ASSUME NEW i \in 1..m
      PROVE  i \in DOMAIN s /\ i \in 1..m + n /\ u[i] = s[i]
  BY <1>2, <1>3
<1>6. ASSUME NEW i \in 1..n
      PROVE  i \in DOMAIN t /\ i + m \in 1..m + n /\ u[i + m] = t[i]
  BY <1>2, <1>3
<1>7. ASSUME NEW i \in 1..m + n
      PROVE  \/ i \in DOMAIN s /\ u[i] = s[i]
             \/ i - m \in DOMAIN t /\ u[i] = t[i - m]
  BY <1>2, <1>3
<1>8. Ids(u) = Ids(s) \cup Ids(t)
  <2>1. \A i \in DOMAIN u : u[i].id \in Ids(s) \cup Ids(t)
    BY <1>4, <1>7 DEF Ids
  <2>2. \A i \in DOMAIN s : s[i].id \in Ids(u)
    BY <1>2, <1>4, <1>5 DEF Ids
  <2>3. \A i \in DOMAIN t : t[i].id \in Ids(u)
    BY <1>2, <1>4, <1>6 DEF Ids
  <2> QED BY <2>1, <2>2, <2>3 DEF Ids
<1>9. \A i \in DOMAIN u : IsTab(u[i])
  BY <1>4, <1>7 DEF Strip
<1>10. ASSUME NEW i \in DOMAIN u, NEW j \in DOMAIN u, u[i].id = u[j].id
       PROVE  i = j
  <2>1. \A a \in DOMAIN s, b \in DOMAIN t : s[a].id # t[b].id
    BY DEF Ids
  <2>2. CASE i \in DOMAIN s /\ u[i] = s[i]
    <3>1. j \in DOMAIN s /\ u[j] = s[j]
      BY <1>4, <1>7, <1>10, <2>1, <2>2
    <3> QED BY <2>2, <3>1, <1>10 DEF Strip
  <2>3. CASE i - m \in DOMAIN t /\ u[i] = t[i - m]
    <3>1. j - m \in DOMAIN t /\ u[j] = t[j - m]
      BY <1>4, <1>7, <1>10, <2>1, <2>3
    <3>2. i - m = j - m
      BY <2>3, <3>1, <1>10 DEF Strip
    <3> QED BY <3>2, <1>2, <1>4
  <2> QED BY <1>4, <1>7, <2>2, <2>3
<1>11. IsList(u)
  BY <1>3 DEF IsList
<1> QED BY <1>8, <1>9, <1>10, <1>11 DEF Strip, u

(* A piece of a strip. *)
LEMMA StripCut ==
  ASSUME NEW s, Strip(s), NEW m \in 1..Len(s) + 1, NEW n \in m - 1..Len(s)
  PROVE  /\ Strip(SubSeq(s, m, n))
         /\ Ids(SubSeq(s, m, n)) = {s[i].id : i \in m..n}
<1> DEFINE u == SubSeq(s, m, n)
<1>1. PICK S : s \in Seq(S)
  BY DEF Strip, IsList
<1>2. /\ Len(s) \in Nat /\ DOMAIN s = 1..Len(s) /\ m \in Int /\ n \in Int
      /\ \A i \in m..n : i \in DOMAIN s
  BY <1>1
<1>3. \A i \in m..n : s[i] \in S
  BY <1>1, <1>2
<1>4. /\ u \in Seq(S) /\ Len(u) = (IF m <= n THEN n - m + 1 ELSE 0)
      /\ \A i \in 1..n - m + 1 : u[i] = s[m + i - 1]
  BY <1>2, <1>3, SubSeqProperties
<1>5. Len(u) = n - m + 1 /\ DOMAIN u = 1..n - m + 1
  <2>1. Len(u) = n - m + 1
    <3> HIDE DEF u
    <3> QED BY <1>2, <1>4
  <2> QED BY <2>1, <1>4
<1> HIDE DEF u
<1>6. ASSUME NEW i \in DOMAIN u
      PROVE  m + i - 1 \in m..n /\ u[i] = s[m + i - 1]
  BY <1>2, <1>4, <1>5
<1>7. ASSUME NEW i \in m..n
      PROVE  i - m + 1 \in DOMAIN u /\ u[i - m + 1] = s[i]
  BY <1>2, <1>4, <1>5
<1>8. Ids(u) = {s[i].id : i \in m..n}
  <2>1. \A i \in DOMAIN u : u[i].id \in {s[j].id : j \in m..n}
    BY <1>6
  <2>2. \A i \in m..n : s[i].id \in {u[j].id : j \in DOMAIN u}
    BY <1>7
  <2> QED BY <2>1, <2>2 DEF Ids
<1>9. \A i \in DOMAIN u : IsTab(u[i])
  BY <1>2, <1>6 DEF Strip
<1>10. ASSUME NEW i \in DOMAIN u, NEW j \in DOMAIN u, u[i].id = u[j].id
       PROVE  i = j
  <2>1. m + i - 1 = m + j - 1
    BY <1>2, <1>6, <1>10 DEF Strip
  <2> QED BY <2>1, <1>2, <1>5
<1>11. IsList(u)
  BY <1>4 DEF IsList
<1> QED BY <1>8, <1>9, <1>10, <1>11 DEF Strip, u

(* A strip of one tab. *)
LEMMA OneTab ==
  ASSUME NEW t, IsTab(t)
  PROVE  Strip(<<t>>) /\ Ids(<<t>>) = {t.id}
<1>1. <<t>> \in Seq({t}) /\ DOMAIN <<t>> = {1} /\ <<t>>[1] = t
  OBVIOUS
<1> HIDE DEF IsTab
<1> QED BY <1>1 DEF Strip, IsList, Ids

(* A tab that comes in at k, or behind them all. *)
LEMMA Inserted ==
  ASSUME NEW s, Strip(s), NEW t, IsTab(t), t.id \notin Ids(s), NEW k \in 1..Len(s) + 1
  PROVE  Strip(InsertAt(s, k, t)) /\ Ids(InsertAt(s, k, t)) = Ids(s) \cup {t.id}
<1> DEFINE a == SubSeq(s, 1, k - 1)
           b == SubSeq(s, k, Len(s))
<1>1. Len(s) \in Nat /\ DOMAIN s = 1..Len(s)
  BY ListFacts DEF Strip
<1>2. Strip(a) /\ Ids(a) = {s[i].id : i \in 1..k - 1}
  <2>1. 1 \in 1..Len(s) + 1 /\ k - 1 \in 1 - 1..Len(s)
    BY <1>1
  <2> QED BY <2>1, StripCut
<1>3. Strip(b) /\ Ids(b) = {s[i].id : i \in k..Len(s)}
  <2>1. Len(s) \in k - 1..Len(s)
    BY <1>1
  <2> QED BY <2>1, StripCut
<1> HIDE DEF a, b
<1>4. Ids(a) \cup Ids(b) = Ids(s)
  <2>1. 1..Len(s) = (1..k - 1) \cup (k..Len(s))
    BY <1>1
  <2> QED BY <2>1, <1>1, <1>2, <1>3 DEF Ids
<1>5. Ids(a) \cap Ids(b) = {}
  <2>1. \A i \in 1..k - 1, j \in k..Len(s) : i \in DOMAIN s /\ j \in DOMAIN s /\ i # j
    BY <1>1
  <2> QED BY <2>1, <1>2, <1>3 DEF Strip
<1>6. Strip(<<t>>) /\ Ids(<<t>>) = {t.id}
  BY OneTab
<1>7. Strip(a \o <<t>>) /\ Ids(a \o <<t>>) = Ids(a) \cup {t.id}
  <2>1. Ids(a) \cap Ids(<<t>>) = {}
    BY <1>4, <1>6
  <2> QED BY <2>1, <1>2, <1>6, StripsJoin
<1>8. Strip((a \o <<t>>) \o b) /\ Ids((a \o <<t>>) \o b) = Ids(a \o <<t>>) \cup Ids(b)
  <2>1. Ids(a \o <<t>>) \cap Ids(b) = {}
    BY <1>4, <1>5, <1>7
  <2> QED BY <2>1, <1>3, <1>7, StripsJoin
<1>9. InsertAt(s, k, t) = (a \o <<t>>) \o b
  BY DEF InsertAt, a, b
<1> QED BY <1>4, <1>7, <1>8, <1>9

(* A tab that comes behind them all. *)
LEMMA Appended ==
  ASSUME NEW s, Strip(s), NEW t, IsTab(t), t.id \notin Ids(s)
  PROVE  Strip(Append(s, t)) /\ Ids(Append(s, t)) = Ids(s) \cup {t.id}
<1>1. Strip(<<t>>) /\ Ids(<<t>>) = {t.id}
  BY OneTab
<1>2. Strip(s \o <<t>>) /\ Ids(s \o <<t>>) = Ids(s) \cup Ids(<<t>>)
  <2>1. Ids(s) \cap Ids(<<t>>) = {}
    BY <1>1
  <2> QED BY <2>1, <1>1, StripsJoin
<1>3. Append(s, t) = s \o <<t>>
  <2>1. PICK S : s \in Seq(S)
    BY DEF Strip, IsList
  <2>2. s \in Seq(S \cup {t}) /\ t \in S \cup {t}
    BY <2>1
  <2> QED BY <2>2, AppendIsConcat
<1> QED BY <1>1, <1>2, <1>3

(* A tab that goes. *)
LEMMA Removed ==
  ASSUME NEW s, Strip(s), NEW k \in DOMAIN s
  PROVE  Strip(RemoveAt(s, k)) /\ Ids(RemoveAt(s, k)) = Ids(s) \ {s[k].id}
<1> DEFINE a == SubSeq(s, 1, k - 1)
           b == SubSeq(s, k + 1, Len(s))
<1>1. Len(s) \in Nat /\ DOMAIN s = 1..Len(s)
  BY ListFacts DEF Strip
<1>2. Strip(a) /\ Ids(a) = {s[i].id : i \in 1..k - 1}
  <2>1. 1 \in 1..Len(s) + 1 /\ k - 1 \in 1 - 1..Len(s)
    BY <1>1
  <2> QED BY <2>1, StripCut
<1>3. Strip(b) /\ Ids(b) = {s[i].id : i \in k + 1..Len(s)}
  <2>1. k + 1 \in 1..Len(s) + 1 /\ Len(s) \in (k + 1) - 1..Len(s)
    BY <1>1
  <2> QED BY <2>1, StripCut
<1> HIDE DEF a, b
<1>4. Ids(a) \cup Ids(b) = Ids(s) \ {s[k].id}
  <2>1. 1..Len(s) = ((1..k - 1) \cup (k + 1..Len(s))) \cup {k}
    BY <1>1
  <2>2. \A i \in (1..k - 1) \cup (k + 1..Len(s)) : i \in DOMAIN s /\ i # k
    BY <1>1
  <2>3. \A i \in (1..k - 1) \cup (k + 1..Len(s)) : s[i].id # s[k].id
    BY <2>2 DEF Strip
  <2> QED BY <2>1, <2>3, <1>1, <1>2, <1>3 DEF Ids
<1>5. Ids(a) \cap Ids(b) = {}
  <2>1. \A i \in 1..k - 1, j \in k + 1..Len(s) : i \in DOMAIN s /\ j \in DOMAIN s /\ i # j
    BY <1>1
  <2> QED BY <2>1, <1>2, <1>3 DEF Strip
<1>6. Strip(a \o b) /\ Ids(a \o b) = Ids(a) \cup Ids(b)
  BY <1>2, <1>3, <1>5, StripsJoin
<1>7. RemoveAt(s, k) = a \o b
  BY DEF RemoveAt, a, b
<1> QED BY <1>4, <1>6, <1>7

(* Place finds the tab of an id, and 0 where there is none. *)
LEMMA PlaceIs ==
  ASSUME NEW s, Strip(s), NEW id
  PROVE  /\ id \in Ids(s) => Place(s, id) \in DOMAIN s /\ s[Place(s, id)].id = id
         /\ id \notin Ids(s) => Place(s, id) = 0
<1> DEFINE I == {i \in 1..Len(s) : s[i].id = id}
<1>1. Len(s) \in Nat /\ DOMAIN s = 1..Len(s)
  BY ListFacts DEF Strip
<1>2. Place(s, id) = IF I # {} THEN Min(I) ELSE 0
  BY DEF Place, SelectInSeq
<1>3. id \in Ids(s) <=> I # {}
  BY <1>1 DEF Ids
<1>4. I \subseteq Nat
  BY <1>1
<1> HIDE DEF I
<1>5. I # {} => Min(I) \in I
  BY <1>4, LeastIsIn
<1> QED BY <1>1, <1>2, <1>3, <1>5 DEF I

(* A place is 0 or one of the strip's. *)
LEMMA PlaceInTabs ==
  ASSUME NEW s, Strip(s), NEW id
  PROVE  Place(s, id) \in 0..Len(s)
<1>1. Len(s) \in Nat /\ DOMAIN s = 1..Len(s)
  BY ListFacts DEF Strip
<1> QED BY <1>1, PlaceIs

(* A strip of the same tabs at the same places, but for what Strip does not see. *)
LEMMA SameIds ==
  ASSUME NEW s, Strip(s), NEW u, u = [i \in DOMAIN s |-> u[i]],
         \A i \in DOMAIN s : IsTab(u[i]) /\ u[i].id = s[i].id
  PROVE  Strip(u) /\ Ids(u) = Ids(s)
<1>1. Len(s) \in Nat /\ DOMAIN s = 1..Len(s)
  BY ListFacts DEF Strip
<1>2. DOMAIN u = DOMAIN s
  OBVIOUS
<1>3. IsList(u)
  <2>1. u = [i \in 1..Len(s) |-> u[i]]
    BY <1>1
  <2> QED BY <2>1, <1>1, ListOf
<1>4. Ids(u) = Ids(s)
  BY <1>2 DEF Ids
<1>5. \A i, j \in DOMAIN u : u[i].id = u[j].id => i = j
  BY <1>2 DEF Strip
<1> QED BY <1>2, <1>3, <1>4, <1>5 DEF Strip

(* Two tabs change places. *)
LEMMA Swapped ==
  ASSUME NEW s, Strip(s), NEW a \in DOMAIN s, NEW b \in DOMAIN s, a # b
  PROVE  /\ Strip([s EXCEPT ![a] = s[b], ![b] = s[a]])
         /\ Ids([s EXCEPT ![a] = s[b], ![b] = s[a]]) = Ids(s)
<1> DEFINE u == [s EXCEPT ![a] = s[b], ![b] = s[a]]
           p(i) == IF i = a THEN b ELSE IF i = b THEN a ELSE i
<1>1. Len(s) \in Nat /\ DOMAIN s = 1..Len(s)
  BY ListFacts DEF Strip
<1>2. DOMAIN u = DOMAIN s /\ \A i \in DOMAIN s : u[i] = s[p(i)]
  <2>1. PICK S : s \in Seq(S)
    BY DEF Strip, IsList
  <2>2. s \in [1..Len(s) -> S]
    BY <2>1
  <2> QED BY <1>1, <2>2
<1>3. u = [i \in 1..Len(s) |-> u[i]]
  BY <1>1
<1> HIDE DEF u
<1>4. \A i \in DOMAIN s : p(i) \in DOMAIN s /\ p(p(i)) = i
  OBVIOUS
<1>5. Ids(u) = Ids(s)
  <2>1. \A i \in DOMAIN u : u[i].id \in {s[j].id : j \in DOMAIN s}
    BY <1>2, <1>4
  <2>2. \A i \in DOMAIN s : s[i].id \in {u[j].id : j \in DOMAIN u}
    BY <1>2, <1>4
  <2> QED BY <2>1, <2>2 DEF Ids
<1>6. ASSUME NEW i \in DOMAIN u, NEW j \in DOMAIN u, u[i].id = u[j].id
      PROVE  i = j
  <2>1. p(i) = p(j)
    BY <1>2, <1>4, <1>6 DEF Strip
  <2> QED BY <2>1, <1>2, <1>4
<1>7. \A i \in DOMAIN u : IsTab(u[i])
  BY <1>2, <1>4 DEF Strip
<1>8. IsList(u)
  BY <1>1, <1>3, ListOf
<1> QED BY <1>5, <1>6, <1>7, <1>8 DEF Strip, u

(* As many ids as tabs. *)
LEMMA IdsCounted ==
  ASSUME NEW s, Strip(s)
  PROVE  IsFiniteSet(Ids(s)) /\ Cardinality(Ids(s)) = Len(s)
<1>1. Len(s) \in Nat /\ DOMAIN s = 1..Len(s)
  BY ListFacts DEF Strip
<1> DEFINE f == [i \in 1..Len(s) |-> s[i].id]
<1>2. f \in Surjection(1..Len(s), Ids(s)) /\ f \in Injection(1..Len(s), Ids(s))
  <2>1. f \in [1..Len(s) -> Ids(s)]
    BY <1>1 DEF Ids
  <2>2. \A x \in Ids(s) : \E i \in 1..Len(s) : f[i] = x
    BY <1>1 DEF Ids
  <2>3. \A i, j \in 1..Len(s) : f[i] = f[j] => i = j
    BY <1>1 DEF Strip
  <2> HIDE DEF f
  <2> QED BY <2>1, <2>2, <2>3 DEF Surjection, Injection, IsInjective
<1>3. IsFiniteSet(1..Len(s)) /\ Cardinality(1..Len(s)) = Len(s)
  <2>1. 1 \in Int /\ Len(s) \in Int
    BY <1>1
  <2>2. /\ IsFiniteSet(1..Len(s))
        /\ Cardinality(1..Len(s)) = IF 1 > Len(s) THEN 0 ELSE Len(s) - 1 + 1
    BY <2>1, FS_Interval
  <2> QED BY <1>1, <2>2
<1> HIDE DEF f
<1> QED BY <1>2, <1>3, FS_Surjection

(* The elements of a finite set of numbers by their rank. *)
LEMMA RankedIn ==
  ASSUME NEW I, IsFiniteSet(I), I \subseteq Nat, NEW k \in 1..Cardinality(I)
  PROVE  \E i \in I : Cardinality({j \in I : j < i}) = k - 1
<1> DEFINE n == Cardinality(I)
           B(i) == {j \in I : j < i}
           r == [i \in I |-> Cardinality(B(i))]
<1>1. n \in Nat
  BY FS_CardinalityType
<1>2. ASSUME NEW i \in I
      PROVE  /\ IsFiniteSet(B(i)) /\ Cardinality(B(i)) \in Nat
             /\ IsFiniteSet(B(i) \cup {i})
             /\ Cardinality(B(i) \cup {i}) = Cardinality(B(i)) + 1
  <2>1. B(i) \in SUBSET I /\ i \notin B(i)
    OBVIOUS
  <2>2. IsFiniteSet(B(i))
    BY <2>1, FS_Subset
  <2> HIDE DEF B
  <2> QED BY <2>1, <2>2, FS_CardinalityType, FS_AddElement
<1>3. ASSUME NEW i \in I
      PROVE  r[i] \in 0..n - 1
  <2>1. B(i) \cup {i} \in SUBSET I
    OBVIOUS
  <2>2. Cardinality(B(i) \cup {i}) <= n
    BY <2>1, FS_Subset
  <2> HIDE DEF B, n
  <2>3. r[i] = Cardinality(B(i))
    OBVIOUS
  <2> QED BY <1>1, <1>2, <2>2, <2>3
<1>4. ASSUME NEW i \in I, NEW j \in I, i < j
      PROVE  r[i] < r[j]
  <2>1. B(i) \cup {i} \in SUBSET B(j)
    <3> SUFFICES ASSUME NEW x \in B(i) \cup {i}
                 PROVE  x \in B(j)
      OBVIOUS
    <3>1. x \in I /\ i \in Nat /\ j \in Nat /\ x \in Nat /\ (x < i \/ x = i)
      OBVIOUS
    <3>2. x < j
      BY ONLY <1>4, <3>1
    <3> QED BY <3>1, <3>2
  <2>2. Cardinality(B(i) \cup {i}) <= Cardinality(B(j))
    BY <2>1, <1>2, FS_Subset
  <2>3. r[i] = Cardinality(B(i)) /\ r[j] = Cardinality(B(j))
    OBVIOUS
  <2>4. Cardinality(B(i)) \in Nat /\ Cardinality(B(j)) \in Nat
    BY <1>2
  <2>5. Cardinality(B(i) \cup {i}) = Cardinality(B(i)) + 1
    BY <1>2
  <2> HIDE DEF B, r
  <2> QED BY <2>2, <2>3, <2>4, <2>5
<1>5. r \in Injection(I, 0..n - 1)
  <2>1. r \in [I -> 0..n - 1]
    <3>1. r = [i \in I |-> r[i]]
      OBVIOUS
    <3> HIDE DEF r
    <3> QED BY <1>3, <3>1
  <2>2. \A i, j \in I : r[i] = r[j] => i = j
    <3> SUFFICES ASSUME NEW i \in I, NEW j \in I, r[i] = r[j], i # j
                 PROVE  FALSE
      OBVIOUS
    <3>1. i < j \/ j < i
      OBVIOUS
    <3>2. r[i] \in Nat /\ r[j] \in Nat
      BY <1>1, <1>3
    <3> HIDE DEF r
    <3> QED BY <1>4, <3>1, <3>2
  <2> HIDE DEF r, n
  <2> QED BY <2>1, <2>2 DEF Injection, IsInjective
<1>6. IsFiniteSet(0..n - 1) /\ Cardinality(0..n - 1) = n
  <2>1. 0 \in Int /\ n - 1 \in Int
    BY <1>1
  <2>2. IsFiniteSet(0..n - 1)
        /\ Cardinality(0..n - 1) = IF 0 > n - 1 THEN 0 ELSE (n - 1) - 0 + 1
    BY <2>1, FS_Interval
  <2> HIDE DEF n
  <2> QED BY <1>1, <2>2
<1>7. r \in Surjection(I, 0..n - 1)
  <2> HIDE DEF r
  <2> QED BY <1>5, <1>6, FS_Injection
<1>8. k - 1 \in 0..n - 1
  BY <1>1
<1>9. PICK i \in I : r[i] = k - 1
  <2> HIDE DEF r, n
  <2> QED BY <1>7, <1>8 DEF Surjection
<1> QED BY <1>9

(* The tabs of a list of ids: a strip of some of them, and of all of them if it is as *)
(* long as the strip.                                                      *)
LEMMA OrderedIds ==
  ASSUME Strip(tabs), NEW ids, IsList(ids), EachOnce(ids), Len(Ordered(ids)) = Len(tabs)
  PROVE  Strip(Ordered(ids)) /\ Ids(Ordered(ids)) = Ids(tabs)
<1> DEFINE alive == {i \in DOMAIN ids : ids[i] \in Ids(tabs)}
           n == Cardinality(alive)
           At(k) == CHOOSE i \in alive : Cardinality({j \in alive : j < i}) = k - 1
           u == Ordered(ids)
<1>1. u = [k \in 1..n |-> Tab(ids[At(k)])]
  BY DEF Ordered
<1>2. Len(ids) \in Nat /\ DOMAIN ids = 1..Len(ids)
  BY ListFacts
<1>3. IsFiniteSet(alive) /\ alive \subseteq Nat /\ n \in Nat
  <2>1. IsFiniteSet(1..Len(ids))
    <3>1. 1 \in Int /\ Len(ids) \in Int
      BY <1>2
    <3> QED BY <3>1, FS_Interval
  <2>2. alive \in SUBSET (1..Len(ids)) /\ alive \subseteq Nat
    BY <1>2
  <2> QED BY <2>1, <2>2, FS_Subset, FS_CardinalityType
<1>4. ASSUME NEW k \in 1..n
      PROVE  At(k) \in alive /\ Cardinality({j \in alive : j < At(k)}) = k - 1
  <2>1. \E i \in alive : Cardinality({j \in alive : j < i}) = k - 1
    <3> HIDE DEF alive
    <3> QED BY <1>3, RankedIn
  <2> HIDE DEF alive
  <2> QED BY <2>1
<1> HIDE DEF At, n
<1>5. ASSUME NEW k \in 1..n, NEW l \in 1..n, At(k) = At(l)
      PROVE  k = l
  <2>1. k - 1 = l - 1
    BY <1>4, <1>5
  <2> QED BY <2>1, <1>3
<1>6. ASSUME NEW k \in 1..n
      PROVE  /\ u[k] = Tab(ids[At(k)]) /\ u[k].id = ids[At(k)]
             /\ IsTab(u[k]) /\ u[k].id \in Ids(tabs) /\ At(k) \in DOMAIN ids
  <2>1. At(k) \in DOMAIN ids /\ ids[At(k)] \in Ids(tabs)
    BY <1>4
  <2>2. /\ Place(tabs, ids[At(k)]) \in DOMAIN tabs
        /\ tabs[Place(tabs, ids[At(k)])].id = ids[At(k)]
    BY <2>1, PlaceIs
  <2>3. u[k] = Tab(ids[At(k)])
    BY <1>1
  <2> HIDE DEF u, alive
  <2> QED BY <2>1, <2>2, <2>3 DEF Tab, Strip
<1>7. DOMAIN u = 1..n /\ u = [k \in 1..n |-> u[k]]
  BY <1>1
<1> HIDE DEF u, alive
<1>8. IsList(u)
  BY <1>3, <1>7, ListOf
<1>9. \A k, l \in DOMAIN u : u[k].id = u[l].id => k = l
  <2> SUFFICES ASSUME NEW k \in 1..n, NEW l \in 1..n, u[k].id = u[l].id
               PROVE  k = l
    BY <1>7
  <2>1. At(k) = At(l)
    BY <1>6 DEF EachOnce
  <2> QED BY <2>1, <1>5
<1>10. Strip(u)
  BY <1>6, <1>7, <1>8, <1>9 DEF Strip
<1>11. Ids(u) = Ids(tabs)
  <2>1. Ids(u) \in SUBSET Ids(tabs)
    BY <1>6, <1>7 DEF Ids
  <2>2. Cardinality(Ids(u)) = Cardinality(Ids(tabs)) /\ IsFiniteSet(Ids(tabs))
    <3>1. Len(u) = Len(tabs)
      BY DEF u
    <3> QED BY <3>1, <1>10, IdsCounted
  <2> QED BY <2>1, <2>2, FS_Subset
<1> QED BY <1>10, <1>11 DEF u

(* The drag's order, reversed. *)
LEMMA ReversedOnce ==
  ASSUME NEW s, IsList(s), EachOnce(s)
  PROVE  IsList(Reverse(s)) /\ EachOnce(Reverse(s))
<1>1. Len(s) \in Nat /\ DOMAIN s = 1..Len(s)
  BY ListFacts
<1>2. Reverse(s) = [i \in 1..Len(s) |-> s[(Len(s) - i) + 1]]
  BY DEF Reverse
<1>3. IsList(Reverse(s))
  <2>1. Reverse(s) = [i \in 1..Len(s) |-> Reverse(s)[i]]
    BY <1>2
  <2> QED BY <2>1, <1>1, ListOf
<1>4. ASSUME NEW i \in 1..Len(s), NEW j \in 1..Len(s), Reverse(s)[i] = Reverse(s)[j]
      PROVE  i = j
  <2>1. /\ (Len(s) - i) + 1 \in DOMAIN s /\ (Len(s) - j) + 1 \in DOMAIN s
        /\ s[(Len(s) - i) + 1] = s[(Len(s) - j) + 1]
    BY <1>1, <1>2, <1>4
  <2>2. (Len(s) - i) + 1 = (Len(s) - j) + 1
    BY <2>1 DEF EachOnce
  <2> QED BY <2>2, <1>1
<1>5. DOMAIN Reverse(s) = 1..Len(s)
  BY <1>2
<1> QED BY <1>3, <1>4, <1>5 DEF EachOnce

(* A new tab, and the tab that goes. *)
LEMMA NewTabIs ==
  ASSUME NEW sort, NEW of, NEW opener
  PROVE  /\ IsTab(NewTabRecord(sort, of, opener))
         /\ NewTabRecord(sort, of, opener).id = made + 1
BY DEF NewTabRecord, IsTab

(* What is left without one of the tabs, and the tab that went. *)
LEMMA WithoutIds ==
  ASSUME Strip(tabs), NEW id \in Ids(tabs)
  PROVE  /\ Strip(Without(id)) /\ Ids(Without(id)) = Ids(tabs) \ {id}
         /\ IsTab(Tab(id)) /\ Tab(id).id = id /\ Place(tabs, id) \in DOMAIN tabs
<1>1. Place(tabs, id) \in DOMAIN tabs /\ tabs[Place(tabs, id)].id = id
  BY PlaceIs
<1>2. /\ Strip(Without(id)) /\ Ids(Without(id)) = Ids(tabs) \ {id}
  BY <1>1, Removed DEF Without
<1> QED BY <1>1, <1>2 DEF Tab, Strip

(* The ids in use, and the job with its fields. *)
IdsFit == /\ Strip(tabs) /\ made \in Nat /\ Ids(tabs) \subseteq 1..made
          /\ sessions \subseteq 1..made /\ IsList(drag) /\ EachOnce(drag)
          /\ job = [step |-> job.step, id |-> job.id, of |-> job.of]
(* Every tab has its session, but the one whose editor still loads. *)
SessionsFit ==
  /\ IF job.step = "editor"
     THEN job.id \notin sessions /\ Ids(tabs) = sessions \cup {job.id}
     ELSE Ids(tabs) = sessions
  /\ job.step = "file" => job.id \in sessions
  /\ job.step = "dispose" => job.of \in Nat \ {0}
(* A tab is in front, or the one in front was just closed. *)
FrontFits == \/ activeId \in sessions \/ sessions = {}
             \/ job.step = "dispose" /\ activeId = job.id
(* What a job has changed it stores before it ends. *)
StoreFits == ~restoring /\ job.step \in {"none", "slot"} =>
                 stored = Written(tabs, activeId, inPane)
TabInv == IdsFit /\ SessionsFit /\ FrontFits /\ StoreFits

(* The first tab has its session, is in front and is stored. *)
LEMMA TabStart == TabInit => TabInv
<1> SUFFICES ASSUME TabInit PROVE TabInv
  OBVIOUS
<1> DEFINE t == [id |-> 1, kind |-> "terminal", of |-> "null", pinned |-> FALSE,
                 opener |-> 0]
<1>1. tabs = <<t>> /\ IsTab(t) /\ t.id = 1
  BY DEF TabInit, IsTab
<1> HIDE DEF t
<1>2. Strip(tabs) /\ Ids(tabs) = {1}
  BY <1>1, OneTab
<1>3. IsList(drag) /\ EachOnce(drag)
  <2>1. drag = <<>> /\ drag \in Seq({}) /\ DOMAIN drag = {}
    BY DEF TabInit
  <2> QED BY <2>1 DEF IsList, EachOnce
<1>4. job = NoJob /\ sessions = {1} /\ made = 1 /\ activeId = 1
      /\ stored = Written(tabs, activeId, inPane)
  BY DEF TabInit
<1>5. IdsFit
  BY <1>2, <1>3, <1>4 DEF IdsFit, NoJob
<1> QED BY <1>2, <1>4, <1>5 DEF TabInv, SessionsFit, FrontFits, StoreFits, NoJob

(* A tab that comes to the front is stored as the one in front. *)
LEMMA FrontsStep ==
  ASSUME TabInv, UNCHANGED <<tabs, sessions, inPane, job, drag, made, restoring>>,
         NEW id \in sessions, Fronts(id)
  PROVE  TabInv'
<1>1. activeId' = id /\ (~restoring => stored' = Written(tabs, id, inPane))
  BY DEF Fronts, Persist
<1>2. IdsFit' /\ SessionsFit'
  BY DEF TabInv, IdsFit, SessionsFit
<1>3. FrontFits' /\ StoreFits'
  BY <1>1 DEF FrontFits, StoreFits
<1> QED BY <1>2, <1>3 DEF TabInv

(* A terminal tab has its session at once. *)
LEMMA TerminalStarts ==
  ASSUME TabInv, job.step = "none", NEW of, NEW files, StartTerminal(of, files),
         restoring' = restoring
  PROVE  TabInv'
<1> DEFINE t == NewTabRecord("terminal", of, 0)
<1>1. IsTab(t) /\ t.id = made + 1
  BY NewTabIs
<1>2. /\ made' = made + 1 /\ tabs' = Append(tabs, t)
      /\ sessions' = sessions \cup {made + 1} /\ activeId' = made + 1
      /\ job' = [step |-> "panes", id |-> made + 1, of |-> of]
      /\ drag' = drag
  BY DEF StartTerminal
<1> HIDE DEF t
<1>3. made \in Nat /\ made + 1 \notin 1..made /\ 1..made + 1 = (1..made) \cup {made + 1}
  BY DEF TabInv, IdsFit
<1>4. /\ Ids(tabs) = sessions /\ Strip(tabs) /\ made + 1 \notin Ids(tabs)
      /\ sessions \subseteq 1..made
  BY <1>3 DEF TabInv, IdsFit, SessionsFit
<1>5. Strip(tabs') /\ Ids(tabs') = Ids(tabs) \cup {made + 1}
  BY <1>1, <1>2, <1>4, Appended
<1>6. IdsFit'
  <2>1. Ids(tabs') \subseteq 1..made' /\ sessions' \subseteq 1..made' /\ made' \in Nat
    BY <1>2, <1>3, <1>4, <1>5
  <2>2. IsList(drag') /\ EachOnce(drag')
    BY <1>2 DEF TabInv, IdsFit
  <2> QED BY <1>2, <1>5, <2>1, <2>2 DEF IdsFit
<1> QED BY <1>2, <1>4, <1>5, <1>6 DEF TabInv, SessionsFit, FrontFits, StoreFits

(* The tab of a file has none before its editor is loaded. *)
LEMMA EditorStarts ==
  ASSUME TabInv, job.step = "none", NEW sort, NEW path, StartEditor(sort, path),
         restoring' = restoring
  PROVE  TabInv'
<1> DEFINE t == NewTabRecord(sort, path, activeId)
<1>1. IsTab(t) /\ t.id = made + 1
  BY NewTabIs
<1>2. PICK i \in 0..Len(tabs) :
        tabs' = IF i = 0 THEN Append(tabs, t) ELSE InsertAt(tabs, i + 1, t)
  <2>1. Place(tabs, activeId) \in 0..Len(tabs)
    BY PlaceInTabs DEF TabInv, IdsFit
  <2>2. 0 \in 0..Len(tabs)
    BY ListFacts DEF TabInv, IdsFit, Strip
  <2> QED BY <2>1, <2>2 DEF StartEditor
<1>3. /\ made' = made + 1 /\ sessions' = sessions /\ activeId' = activeId
      /\ job' = [step |-> "editor", id |-> made + 1, of |-> path] /\ drag' = drag
  BY DEF StartEditor
<1> HIDE DEF t
<1>4. made \in Nat /\ made + 1 \notin 1..made /\ 1..made + 1 = (1..made) \cup {made + 1}
  BY DEF TabInv, IdsFit
<1>5. /\ Ids(tabs) = sessions /\ Strip(tabs) /\ made + 1 \notin Ids(tabs)
      /\ sessions \subseteq 1..made
  BY <1>4 DEF TabInv, IdsFit, SessionsFit
<1>6. Strip(tabs') /\ Ids(tabs') = Ids(tabs) \cup {made + 1}
  <2>1. CASE i = 0
    BY <2>1, <1>1, <1>2, <1>5, Appended
  <2>2. CASE i # 0
    <3>1. i + 1 \in 1..Len(tabs) + 1
      BY <1>5, ListFacts DEF Strip
    <3> QED BY <3>1, <2>2, <1>1, <1>2, <1>5, Inserted
  <2> QED BY <2>1, <2>2
<1>7. IdsFit'
  <2>1. Ids(tabs') \subseteq 1..made' /\ sessions' \subseteq 1..made' /\ made' \in Nat
    BY <1>3, <1>4, <1>5, <1>6
  <2>2. IsList(drag') /\ EachOnce(drag')
    BY <1>3 DEF TabInv, IdsFit
  <2> QED BY <1>3, <1>6, <2>1, <2>2 DEF IdsFit
<1>8. FrontFits'
  BY <1>3 DEF TabInv, FrontFits
<1> QED BY <1>3, <1>5, <1>6, <1>7, <1>8 DEF TabInv, SessionsFit, StoreFits

(* What openFile does, in the window or while it restores. *)
LEMMA FileStarts ==
  ASSUME TabInv, job.step = "none", NEW path, NEW newTab, OpensHere(path, newTab),
         restoring' = restoring
  PROVE  TabInv'
<1>1. CASE StartEditor("editor", path)
  BY <1>1, EditorStarts
<1>2. CASE /\ job' = [step |-> "slot", id |-> activeId, of |-> path]
           /\ UNCHANGED <<tabs, sessions, activeId, inPane, drag, todoProject, stored,
                          made>>
  <2>1. IdsFit'
    BY <1>2 DEF TabInv, IdsFit
  <2>2. SessionsFit' /\ FrontFits'
    BY <1>2 DEF TabInv, SessionsFit, FrontFits
  <2>3. StoreFits'
    BY <1>2 DEF TabInv, StoreFits
  <2> QED BY <2>1, <2>2, <2>3 DEF TabInv
<1> QED BY <1>1, <1>2 DEF OpensHere

(* A view there is comes to the front. *)
LEMMA Revealed ==
  ASSUME TabInv, NEW path, Reveals(path), restoring' = restoring
  PROVE  TabInv'
<1>1. UNCHANGED <<tabs, sessions, inPane, job, drag, made>>
  BY DEF Reveals
<1>2. (\E id \in sessions : Fronts(id)) \/ UNCHANGED <<activeId, todoProject, stored>>
  BY DEF Reveals
<1>3. CASE \E id \in sessions : Fronts(id)
  BY <1>1, <1>3, FrontsStep
<1>4. CASE UNCHANGED <<activeId, todoProject, stored>>
  <2>1. IdsFit'
    BY <1>1 DEF TabInv, IdsFit
  <2>2. SessionsFit' /\ FrontFits'
    BY <1>1, <1>4 DEF TabInv, SessionsFit, FrontFits
  <2>3. StoreFits'
    BY <1>1, <1>4 DEF TabInv, StoreFits
  <2> QED BY <2>1, <2>2, <2>3 DEF TabInv
<1> QED BY <1>2, <1>3, <1>4

(* What is stored once a tab is gone: the tabs that are left, one of them in front. *)
LEMMA ClosedStores ==
  ASSUME NEW ts, Strip(ts), NEW i \in Nat \ {0}, NEW t, AfterClose(ts, i, t),
         activeId \in Ids(ts) \/ Ids(ts) = {} \/ activeId = t.id
  PROVE  /\ activeId' \in Ids(ts) \/ Ids(ts) = {}
         /\ ~restoring => stored' = Written(ts, activeId', inPane)
<1>1. Len(ts) \in Nat /\ DOMAIN ts = 1..Len(ts) /\ (ts = <<>> <=> Len(ts) = 0)
  BY ListFacts DEF Strip
<1>2. activeId' = IF ts = <<>> THEN 0
                  ELSE IF activeId = t.id THEN Successor(ts, i, t) ELSE activeId
  BY DEF AfterClose
<1>3. ~restoring => stored' = Written(ts, activeId', inPane)
  BY <1>2 DEF AfterClose, Persist
<1>4. ts # <<>> => Successor(ts, i, t) \in Ids(ts)
  <2> SUFFICES ASSUME ts # <<>>
               PROVE  Successor(ts, i, t) \in Ids(ts)
    OBVIOUS
  <2>1. Last(ts).id \in Ids(ts)
    <3>1. Len(ts) \in DOMAIN ts
      BY <1>1
    <3> QED BY <3>1 DEF Last, Ids
  <2>2. i <= Len(ts) => ts[i].id \in Ids(ts)
    BY <1>1 DEF Ids
  <2> QED BY <2>1, <2>2 DEF Successor
<1>5. ts = <<>> => Ids(ts) = {}
  BY <1>1 DEF Ids
<1> QED BY <1>2, <1>3, <1>4, <1>5

(* A job ends with what its tab has changed in the store. *)
LEMMA OpenEnds ==
  ASSUME TabInv, PanesAreOpen \/ FileIsOpen
  PROVE  TabInv'
<1>1. /\ job.step \in {"panes", "file"} /\ job' = NoJob /\ restoring' = restoring
      /\ UNCHANGED <<tabs, sessions, activeId, inPane, drag, made>>
      /\ ~restoring => stored' = Written(tabs, activeId, inPane)
  BY DEF PanesAreOpen, FileIsOpen, Kept, Persist
<1>2. IdsFit'
  BY <1>1 DEF TabInv, IdsFit, NoJob
<1>3. SessionsFit' /\ FrontFits'
  BY <1>1 DEF TabInv, SessionsFit, FrontFits, NoJob
<1>4. StoreFits'
  BY <1>1 DEF StoreFits
<1> QED BY <1>2, <1>3, <1>4 DEF TabInv

(* The editor of the new tab has loaded: its session is there. *)
LEMMA LoadStep ==
  ASSUME TabInv, EditorLoads
  PROVE  TabInv'
<1>1. /\ job.step = "editor" /\ job' = [job EXCEPT !.step = "file"]
      /\ sessions' = sessions \cup {job.id} /\ activeId' = job.id
      /\ UNCHANGED <<tabs, drag, made>>
  BY DEF EditorLoads
<1>2. /\ job' = [step |-> "file", id |-> job.id, of |-> job.of]
      /\ job'.step = "file" /\ job'.id = job.id /\ job'.of = job.of
  BY <1>1 DEF TabInv, IdsFit
<1>3. Ids(tabs) = sessions \cup {job.id}
  BY <1>1 DEF TabInv, SessionsFit
<1>4. IdsFit'
  BY <1>1, <1>2, <1>3 DEF TabInv, IdsFit
<1> QED BY <1>1, <1>2, <1>3, <1>4 DEF TabInv, SessionsFit, FrontFits, StoreFits

(* A file that went to a pane is stored with the tab. *)
LEMMA SlotStep ==
  ASSUME TabInv, NEW loads, SlotFills(loads)
  PROVE  TabInv'
<1>1. /\ job.step = "slot" /\ job' = NoJob /\ restoring' = restoring
      /\ UNCHANGED <<tabs, sessions, activeId, drag, made>>
  BY DEF SlotFills, Kept
<1>2. ~restoring => stored' = Written(tabs, activeId, inPane')
  <2>1. CASE loads
    BY <2>1 DEF SlotFills, Slotted, Persist
  <2>2. CASE ~loads
    BY <2>2, <1>1 DEF SlotFills, TabInv, StoreFits
  <2> QED BY <2>1, <2>2
<1>3. IdsFit'
  BY <1>1 DEF TabInv, IdsFit, NoJob
<1>4. SessionsFit' /\ FrontFits'
  BY <1>1 DEF TabInv, SessionsFit, FrontFits, NoJob
<1>5. StoreFits'
  BY <1>1, <1>2 DEF StoreFits
<1> QED BY <1>3, <1>4, <1>5 DEF TabInv

(* ... and so is one that the chooser of a pane opened. *)
LEMMA ChooserStep ==
  ASSUME TabInv, NEW id, NEW p, ChooserOpens(id, p)
  PROVE  TabInv'
<1>1. /\ UNCHANGED <<tabs, sessions, activeId, job, drag, made>> /\ restoring' = restoring
      /\ ~restoring => stored' = Written(tabs, activeId, inPane')
  BY DEF ChooserOpens, Kept, Slotted, Persist
<1>2. IdsFit'
  BY <1>1 DEF TabInv, IdsFit
<1>3. SessionsFit' /\ FrontFits'
  BY <1>1 DEF TabInv, SessionsFit, FrontFits
<1>4. StoreFits'
  BY <1>1 DEF StoreFits
<1> QED BY <1>2, <1>3, <1>4 DEF TabInv

(* A tab is closed: an editor at once, a terminal in two steps. *)
LEMMA CloseTabStep ==
  ASSUME TabInv, NEW id, CloseTab(id)
  PROVE  TabInv'
<1> DEFINE t == Tab(id)
           ts == Without(id)
<1>1. /\ job = NoJob /\ ~restoring /\ restoring' = restoring /\ id \in sessions
      /\ id \in Ids(tabs) /\ tabs' = ts /\ sessions' = sessions \ {id}
      /\ UNCHANGED <<inPane, drag, made>>
  BY DEF CloseTab, Idle, Kept
<1>2. Ids(tabs) = sessions /\ Strip(tabs)
  BY <1>1 DEF TabInv, IdsFit, SessionsFit, NoJob
<1>3. /\ Strip(ts) /\ Ids(ts) = Ids(tabs) \ {id} /\ t.id = id
      /\ Place(tabs, id) \in DOMAIN tabs
  BY <1>1, <1>2, WithoutIds
<1>4. Place(tabs, id) \in Nat \ {0}
  BY <1>2, <1>3, ListFacts DEF Strip
<1>5. activeId \in sessions
  BY <1>1 DEF TabInv, FrontFits, NoJob
<1>6. \/ /\ job' = [step |-> "dispose", id |-> id, of |-> Place(tabs, id)]
         /\ activeId' = activeId
      \/ AfterClose(ts, Place(tabs, id), t) /\ job' = job
  BY DEF CloseTab
<1> HIDE DEF t, ts
<1>7. Strip(tabs') /\ Ids(tabs') = sessions'
  BY <1>1, <1>2, <1>3
<1>8. IdsFit'
  <2>1. job' = [step |-> job'.step, id |-> job'.id, of |-> job'.of]
    BY <1>1, <1>6 DEF NoJob
  <2>2. Ids(tabs') \subseteq 1..made' /\ sessions' \subseteq 1..made'
    BY <1>1, <1>7 DEF TabInv, IdsFit
  <2>3. IsList(drag') /\ EachOnce(drag') /\ made' \in Nat
    BY <1>1 DEF TabInv, IdsFit
  <2> QED BY <2>1, <2>2, <2>3, <1>7 DEF IdsFit
<1>9. CASE /\ job' = [step |-> "dispose", id |-> id, of |-> Place(tabs, id)]
           /\ activeId' = activeId
  <2>1. SessionsFit'
    BY <1>4, <1>7, <1>9 DEF SessionsFit
  <2>2. FrontFits'
    BY <1>1, <1>5, <1>9 DEF FrontFits
  <2>3. StoreFits'
    BY <1>9 DEF StoreFits
  <2> QED BY <1>8, <2>1, <2>2, <2>3 DEF TabInv
<1>10. CASE AfterClose(ts, Place(tabs, id), t) /\ job' = job
  <2>1. activeId \in Ids(ts) \/ activeId = t.id
    BY <1>2, <1>3, <1>5
  <2>2. /\ activeId' \in Ids(ts) \/ Ids(ts) = {}
        /\ ~restoring => stored' = Written(ts, activeId', inPane)
    BY <1>3, <1>4, <1>10, <2>1, ClosedStores
  <2>3. SessionsFit'
    BY <1>1, <1>7, <1>10 DEF SessionsFit, NoJob
  <2>4. FrontFits'
    BY <1>1, <1>7, <2>2 DEF FrontFits
  <2>5. StoreFits'
    BY <1>1, <2>2 DEF StoreFits
  <2> QED BY <1>8, <2>3, <2>4, <2>5 DEF TabInv
<1> QED BY <1>6, <1>9, <1>10

(* The panes of a closed terminal tab are gone: another tab comes to the front. *)
LEMMA DisposeStep ==
  ASSUME TabInv, PanesAreGone
  PROVE  TabInv'
<1> DEFINE t == [id |-> job.id, kind |-> "terminal"]
<1>1. /\ job.step = "dispose" /\ job' = NoJob /\ restoring' = restoring
      /\ AfterClose(tabs, job.of, t) /\ UNCHANGED <<tabs, sessions, inPane, drag, made>>
  BY DEF PanesAreGone, Kept
<1>2. /\ Strip(tabs) /\ Ids(tabs) = sessions /\ job.of \in Nat \ {0} /\ t.id = job.id
      /\ activeId \in Ids(tabs) \/ Ids(tabs) = {} \/ activeId = t.id
  BY <1>1 DEF TabInv, IdsFit, SessionsFit, FrontFits
<1> HIDE DEF t
<1>3. /\ activeId' \in Ids(tabs) \/ Ids(tabs) = {}
      /\ ~restoring => stored' = Written(tabs, activeId', inPane)
  BY <1>1, <1>2, ClosedStores
<1>4. IdsFit'
  BY <1>1 DEF TabInv, IdsFit, NoJob
<1>5. SessionsFit' /\ FrontFits'
  BY <1>1, <1>2, <1>3 DEF SessionsFit, FrontFits, NoJob
<1>6. StoreFits'
  BY <1>1, <1>3 DEF StoreFits
<1> QED BY <1>4, <1>5, <1>6 DEF TabInv

(* A file that could not be opened: its tab and its session go. *)
LEMMA FailStep ==
  ASSUME TabInv, OpenFails
  PROVE  TabInv'
<1> DEFINE t == Tab(job.id)
           ts == Without(job.id)
           i == Place(tabs, job.id)
<1>1. /\ job.step = "file" /\ job' = NoJob /\ restoring' = restoring
      /\ tabs' = ts /\ sessions' = sessions \ {job.id} /\ AfterClose(ts, i, t)
      /\ UNCHANGED <<inPane, drag, made>>
  BY DEF OpenFails, Kept
<1>2. Ids(tabs) = sessions /\ Strip(tabs) /\ job.id \in sessions
  BY <1>1 DEF TabInv, IdsFit, SessionsFit
<1>3. Strip(ts) /\ Ids(ts) = Ids(tabs) \ {job.id} /\ t.id = job.id /\ i \in DOMAIN tabs
  BY <1>2, WithoutIds
<1>4. i \in Nat \ {0}
  BY <1>2, <1>3, ListFacts DEF Strip
<1>5. activeId \in sessions
  BY <1>1, <1>2 DEF TabInv, FrontFits
<1> HIDE DEF t, ts, i
<1>6. /\ activeId' \in Ids(ts) \/ Ids(ts) = {}
      /\ ~restoring => stored' = Written(ts, activeId', inPane)
  <2>1. activeId \in Ids(ts) \/ activeId = t.id
    BY <1>2, <1>3, <1>5
  <2> QED BY <1>1, <1>3, <1>4, <2>1, ClosedStores
<1>7. Strip(tabs') /\ Ids(tabs') = sessions'
  BY <1>1, <1>2, <1>3
<1>8. IdsFit'
  <2>1. Ids(tabs') \subseteq 1..made' /\ sessions' \subseteq 1..made'
    BY <1>1, <1>7 DEF TabInv, IdsFit
  <2>2. IsList(drag') /\ EachOnce(drag') /\ made' \in Nat
    BY <1>1 DEF TabInv, IdsFit
  <2> QED BY <1>1, <1>7, <2>1, <2>2 DEF IdsFit, NoJob
<1>9. SessionsFit' /\ FrontFits'
  BY <1>1, <1>6, <1>7 DEF SessionsFit, FrontFits, NoJob
<1>10. StoreFits'
  BY <1>1, <1>6 DEF StoreFits
<1> QED BY <1>8, <1>9, <1>10 DEF TabInv

(* The same tabs in another order or with other pins. *)
LEMMA RearrangeStep ==
  ASSUME TabInv, NEW ts, Strip(ts), Ids(ts) = Ids(tabs), Rearranged(ts),
         IsList(drag'), EachOnce(drag')
  PROVE  TabInv'
<1>1. /\ tabs' = ts /\ restoring' = restoring
      /\ UNCHANGED <<sessions, activeId, inPane, job, made>>
      /\ ~restoring => stored' = Written(ts, activeId, inPane)
  BY DEF Rearranged, Kept, Persist
<1>2. Strip(tabs') /\ Ids(tabs') = Ids(tabs)
  BY <1>1
<1>3. IdsFit'
  BY <1>1, <1>2 DEF TabInv, IdsFit
<1>4. SessionsFit' /\ FrontFits'
  BY <1>1, <1>2 DEF TabInv, SessionsFit, FrontFits
<1>5. StoreFits'
  BY <1>1 DEF StoreFits
<1> QED BY <1>3, <1>4, <1>5 DEF TabInv

(* A pin turned: the tab leaves its place and comes in at another. *)
LEMMA PinStep ==
  ASSUME TabInv, NEW id, TogglePin(id)
  PROVE  TabInv'
<1> DEFINE rest == Without(id)
           t == [Tab(id) EXCEPT !.pinned = ~@]
           i == SelectInSeq(rest, LAMBDA u : ~u.pinned)
           k == IF ~Tab(id).pinned THEN 1 ELSE IF i = 0 THEN Len(rest) + 1 ELSE i
<1>1. id \in Ids(tabs) /\ drag' = drag /\ Rearranged(InsertAt(rest, k, t))
  BY DEF TogglePin
<1>2. Strip(tabs) /\ IsList(drag) /\ EachOnce(drag)
  BY DEF TabInv, IdsFit
<1>3. Strip(rest) /\ Ids(rest) = Ids(tabs) \ {id} /\ IsTab(Tab(id)) /\ Tab(id).id = id
  BY <1>1, <1>2, WithoutIds
<1>4. IsTab(t) /\ t.id = id
  BY <1>3 DEF IsTab
<1> HIDE DEF rest, t
<1>5. k \in 1..Len(rest) + 1
  <2> DEFINE I == {j \in 1..Len(rest) : ~rest[j].pinned}
  <2>1. i = IF I # {} THEN Min(I) ELSE 0
    BY DEF SelectInSeq
  <2>2. Len(rest) \in Nat
    BY <1>3, ListFacts DEF Strip
  <2>3. I \subseteq Nat /\ I \subseteq 1..Len(rest)
    OBVIOUS
  <2> HIDE DEF I
  <2>4. I # {} => Min(I) \in I
    BY <2>3, LeastIsIn
  <2>5. i \in 0..Len(rest)
    BY <2>1, <2>2, <2>3, <2>4
  <2> HIDE DEF i
  <2> QED BY <2>2, <2>5
<1> HIDE DEF k
<1>6. Strip(InsertAt(rest, k, t)) /\ Ids(InsertAt(rest, k, t)) = Ids(rest) \cup {id}
  BY <1>3, <1>4, <1>5, Inserted
<1> QED BY <1>1, <1>2, <1>3, <1>6, RearrangeStep

(* A tab changes places with the next one. *)
LEMMA MoveTabStep ==
  ASSUME TabInv, NEW dir \in {1}, MoveActiveTab(dir)
  PROVE  TabInv'
<1> DEFINE i == Place(tabs, activeId)
           ts == [tabs EXCEPT ![i] = tabs[i + dir], ![i + dir] = tabs[i]]
<1>1. i # 0 /\ i + dir \in DOMAIN tabs /\ drag' = drag /\ Rearranged(ts)
  BY DEF MoveActiveTab
<1>2. Strip(tabs) /\ IsList(drag) /\ EachOnce(drag)
  BY DEF TabInv, IdsFit
<1>3. i \in DOMAIN tabs /\ i # i + dir
  <2>1. i \in 0..Len(tabs) /\ Len(tabs) \in Nat /\ DOMAIN tabs = 1..Len(tabs)
    BY <1>2, PlaceInTabs, ListFacts DEF Strip
  <2> HIDE DEF i
  <2> QED BY <1>1, <2>1
<1> HIDE DEF i
<1>4. Strip(ts) /\ Ids(ts) = Ids(tabs)
  BY <1>1, <1>2, <1>3, Swapped
<1> HIDE DEF ts
<1> QED BY <1>1, <1>2, <1>4, RearrangeStep

(* A drag starts with each tab once. *)
LEMMA DragStep ==
  ASSUME TabInv, DragTab
  PROVE  TabInv'
<1>1. /\ drag' = [i \in DOMAIN tabs |-> tabs[i].id] /\ restoring' = restoring
      /\ UNCHANGED <<tabs, sessions, activeId, inPane, job, stored, made>>
  BY DEF DragTab, Kept
<1>2. Strip(tabs) /\ Len(tabs) \in Nat /\ DOMAIN tabs = 1..Len(tabs)
  BY ListFacts DEF TabInv, IdsFit, Strip
<1>3. IsList(drag')
  <2>1. drag' = [i \in 1..Len(tabs) |-> drag'[i]]
    BY <1>1, <1>2
  <2> QED BY <1>2, <2>1, ListOf
<1>4. EachOnce(drag')
  BY <1>1, <1>2 DEF Strip, EachOnce
<1>5. IdsFit'
  BY <1>1, <1>3, <1>4 DEF TabInv, IdsFit
<1> QED BY <1>1, <1>5 DEF TabInv, SessionsFit, FrontFits, StoreFits

(* A drop takes the dragged order only if it still has every tab. *)
LEMMA DropStep ==
  ASSUME TabInv, DropTab
  PROVE  TabInv'
<1> DEFINE ids == Reverse(drag)
<1>1. drag' = <<>> /\ ReorderTabs(ids)
  BY DEF DropTab
<1>2. IsList(drag') /\ EachOnce(drag')
  <2>1. drag' \in Seq({}) /\ DOMAIN drag' = {}
    BY <1>1
  <2> QED BY <2>1 DEF IsList, EachOnce
<1>3. IsList(ids) /\ EachOnce(ids) /\ Strip(tabs)
  BY ReversedOnce DEF TabInv, IdsFit
<1> HIDE DEF ids
<1>4. CASE Len(Ordered(ids)) = Len(tabs)
  <2>1. Rearranged(Ordered(ids))
    BY <1>1, <1>4 DEF ReorderTabs
  <2>2. Strip(Ordered(ids)) /\ Ids(Ordered(ids)) = Ids(tabs)
    BY <1>3, <1>4, OrderedIds
  <2> QED BY <1>2, <2>1, <2>2, RearrangeStep
<1>5. CASE Len(Ordered(ids)) # Len(tabs)
  <2>1. /\ UNCHANGED <<tabs, sessions, activeId, inPane, job, stored, made>>
        /\ restoring' = restoring
    BY <1>1, <1>5 DEF ReorderTabs, Kept
  <2>2. IdsFit'
    BY <1>2, <2>1 DEF TabInv, IdsFit
  <2> QED BY <2>1, <2>2 DEF TabInv, SessionsFit, FrontFits, StoreFits
<1> QED BY <1>4, <1>5

(* The next window starts without tabs; nothing is claimed before it is restored. *)
LEMMA RestartStep ==
  ASSUME Restart
  PROVE  TabInv'
<1>1. /\ tabs' = <<>> /\ sessions' = {} /\ job' = NoJob /\ drag' = <<>> /\ made' = 0
      /\ restoring' = TRUE
  BY DEF Restart
<1>2. <<>> \in Seq({}) /\ DOMAIN <<>> = {}
  OBVIOUS
<1>3. Strip(tabs') /\ Ids(tabs') = {} /\ IsList(drag') /\ EachOnce(drag')
  BY <1>1, <1>2 DEF Strip, Ids, IsList, EachOnce
<1> QED BY <1>1, <1>3 DEF TabInv, IdsFit, SessionsFit, FrontFits, StoreFits, NoJob

(* A saved tab is opened again. *)
LEMMA RestoreStep ==
  ASSUME TabInv, RestoreTab \/ RestoreNewTab
  PROVE  TabInv'
<1>1. job.step = "none" /\ restoring' = restoring
  <2>1. CASE RestoreTab
    BY <2>1 DEF RestoreTab, NoJob
  <2>2. CASE RestoreNewTab
    BY <2>2 DEF RestoreNewTab, NoJob
  <2> QED BY <2>1, <2>2
<1>2. \/ \E of, files : StartTerminal(of, files)
      \/ \E path : OpensHere(path, FALSE)
      \/ \E path : Reveals(path)
  BY DEF RestoreTab, RestoreNewTab
<1> QED BY <1>1, <1>2, TerminalStarts, FileStarts, Revealed

(* The last saved tab is back: the pins return, and the strip is stored. *)
LEMMA RestoredStep ==
  ASSUME TabInv, Restored
  PROVE  TabInv'
<1> DEFINE ts == [i \in DOMAIN tabs |-> [tabs[i] EXCEPT !.pinned =
                    IF i \in DOMAIN stored THEN stored[i].pinned ELSE @]]
           front == IF Active \in sessions THEN Active ELSE activeId
<1>1. /\ job = NoJob /\ tabs' = ts /\ restoring' = FALSE /\ activeId' = front
      /\ stored' = Written(ts, front, inPane)
      /\ UNCHANGED <<sessions, inPane, job, drag, made>>
  BY DEF Restored
<1>2. Strip(tabs) /\ Ids(tabs) = sessions
  BY <1>1 DEF TabInv, IdsFit, SessionsFit, NoJob
<1>3. Strip(ts) /\ Ids(ts) = Ids(tabs)
  <2>1. \A i \in DOMAIN tabs : IsTab(ts[i]) /\ ts[i].id = tabs[i].id
    <3> TAKE i \in DOMAIN tabs
    <3>1. PICK p : ts[i] = [tabs[i] EXCEPT !.pinned = p]
      OBVIOUS
    <3>2. IsTab(tabs[i])
      BY <1>2 DEF Strip
    <3> HIDE DEF ts
    <3> QED BY <3>1, <3>2 DEF IsTab
  <2>2. ts = [i \in DOMAIN tabs |-> ts[i]]
    OBVIOUS
  <2> HIDE DEF ts
  <2> QED BY <1>2, <2>1, <2>2, SameIds
<1>4. activeId' \in sessions \/ sessions = {}
  BY <1>1 DEF TabInv, FrontFits, NoJob
<1> HIDE DEF ts, front
<1>5. IdsFit'
  BY <1>1, <1>3 DEF TabInv, IdsFit, NoJob
<1>6. SessionsFit' /\ FrontFits'
  BY <1>1, <1>2, <1>3, <1>4 DEF SessionsFit, FrontFits, NoJob
<1>7. StoreFits'
  BY <1>1 DEF StoreFits
<1> QED BY <1>5, <1>6, <1>7 DEF TabInv

(* Every step keeps the invariant. *)
LEMMA TabStep ==
  ASSUME TabInv, [TabNext]_tabVars
  PROVE  TabInv'
<1>1. CASE NewTab
  BY <1>1, TerminalStarts DEF NewTab, Idle, NoJob, Kept
<1>2. ASSUME NEW p \in Projects, OpenProject(p)
      PROVE  TabInv'
  BY <1>2, TerminalStarts DEF OpenProject, Idle, NoJob, Kept
<1>3. ASSUME NEW p \in Paths, OpenGhost(p)
      PROVE  TabInv'
  BY <1>3, EditorStarts DEF OpenGhost, Idle, NoJob, Kept
<1>4. ASSUME NEW p \in Paths, NEW newTab \in BOOLEAN, OpenFile(p, newTab)
      PROVE  TabInv'
  BY <1>4, FileStarts, Revealed DEF OpenFile, Idle, NoJob, Kept
<1>5. ASSUME NEW id \in 1..made, Activate(id)
      PROVE  TabInv'
  BY <1>5, FrontsStep DEF Activate, Kept
<1>6. CASE UNCHANGED tabVars
  <2>1. UNCHANGED <<tabs, sessions, activeId, inPane, job, drag, stored, restoring, made>>
    BY <1>6 DEF tabVars
  <2>2. IdsFit'
    BY <2>1 DEF TabInv, IdsFit
  <2> QED BY <2>1, <2>2 DEF TabInv, SessionsFit, FrontFits, StoreFits
<1> QED BY <1>1, <1>2, <1>3, <1>4, <1>5, <1>6, OpenEnds, LoadStep, SlotStep, ChooserStep,
           CloseTabStep, DisposeStep, FailStep, PinStep, MoveTabStep, DragStep, DropStep,
           RestartStep, RestoreStep, RestoredStep DEF TabNext

(* It is the property, with as many sessions as tabs. *)
LEMMA StripIsSafe == TabInv => StripIsStored
<1> SUFFICES ASSUME TabInv, Idle
             PROVE  /\ Ids(tabs) = sessions /\ Cardinality(sessions) = Len(tabs)
                    /\ activeId \in sessions \/ tabs = <<>>
                    /\ stored = Written(tabs, activeId, inPane)
  BY DEF StripIsStored
<1>1. job.step = "none" /\ ~restoring
  BY DEF Idle, NoJob
<1>2. Ids(tabs) = sessions /\ Strip(tabs) /\ stored = Written(tabs, activeId, inPane)
  BY <1>1 DEF TabInv, IdsFit, SessionsFit, StoreFits
<1>3. Cardinality(sessions) = Len(tabs)
  BY <1>2, IdsCounted
<1>4. activeId \in sessions \/ tabs = <<>>
  <2>1. Len(tabs) \in Nat /\ DOMAIN tabs = 1..Len(tabs) /\ (tabs = <<>> <=> Len(tabs) = 0)
    BY <1>2, ListFacts DEF Strip
  <2>2. tabs # <<>> => tabs[1].id \in Ids(tabs)
    BY <2>1 DEF Ids
  <2> QED BY <1>1, <1>2, <2>2 DEF TabInv, FrontFits
<1> QED BY <1>2, <1>3, <1>4

(* The strip as a specification of its own. *)
TabSpec == TabInit /\ [][TabNext]_tabVars

(* Between two tab jobs every tab has its session and every session its  *)
(* tab, one of them is in front, and the store holds the strip as it      *)
(* stands (app.ts doCloseTab, doOpenFile, persist, restoreSession), for   *)
(* any number of tabs, files and projects and any order of the steps.     *)
THEOREM StripStaysStored == TabSpec => []StripIsStored
<1>1. TabInv /\ [TabNext]_tabVars => TabInv'
  BY TabStep
<1> QED BY <1>1, TabStart, StripIsSafe, PTL DEF TabSpec

(***************************************************************************)
(* TodoPanel                                                               *)
(*                                                                         *)
(* The rows run ahead of the store by the ticks and moves under way: they  *)
(* are what the commands sent will make of it, or another list comes.      *)
(***************************************************************************)
(* R puts the elements of I in a strict order. *)
Orders(R, I) == /\ \A i \in I : <<i, i>> \notin R
                /\ \A i, j \in I : i = j \/ <<i, j>> \in R \/ <<j, i>> \in R
                /\ \A i, j, k \in I : <<i, j>> \in R /\ <<j, k>> \in R => <<i, k>> \in R

(* The elements of I before one of them. *)
Before(R, I, i) == {j \in I : <<j, i>> \in R}

(* The elements of a finite set by their rank: one for each rank. *)
LEMMA RankBelow ==
  ASSUME NEW I, IsFiniteSet(I), NEW R, Orders(R, I), NEW i \in I
  PROVE  /\ Before(R, I, i) \in SUBSET I /\ IsFiniteSet(Before(R, I, i) \cup {i})
         /\ Cardinality(Before(R, I, i)) \in Nat
         /\ Cardinality(Before(R, I, i) \cup {i}) = Cardinality(Before(R, I, i)) + 1
<1>1. Before(R, I, i) \in SUBSET I /\ i \notin Before(R, I, i)
  BY DEF Orders, Before
<1>2. IsFiniteSet(Before(R, I, i))
  BY <1>1, FS_Subset
<1> QED BY <1>1, <1>2, FS_CardinalityType, FS_AddElement

LEMMA RanksRise ==
  ASSUME NEW I, IsFiniteSet(I), NEW R, Orders(R, I), NEW i \in I, NEW j \in I, <<i, j>> \in R
  PROVE  Cardinality(Before(R, I, i)) < Cardinality(Before(R, I, j))
<1>1. Before(R, I, i) \cup {i} \in SUBSET Before(R, I, j)
  BY DEF Orders, Before
<1>2. IsFiniteSet(Before(R, I, j))
  BY RankBelow, FS_Subset
<1>3. Cardinality(Before(R, I, i) \cup {i}) <= Cardinality(Before(R, I, j))
  BY <1>1, <1>2, FS_Subset
<1>4. /\ Cardinality(Before(R, I, i)) \in Nat /\ Cardinality(Before(R, I, j)) \in Nat
      /\ Cardinality(Before(R, I, i) \cup {i}) = Cardinality(Before(R, I, i)) + 1
  BY RankBelow
<1> QED BY <1>3, <1>4

LEMMA RanksDiffer ==
  ASSUME NEW I, IsFiniteSet(I), NEW R, Orders(R, I), NEW i \in I, NEW j \in I,
         Cardinality(Before(R, I, i)) = Cardinality(Before(R, I, j))
  PROVE  i = j
<1> SUFFICES ASSUME i # j
             PROVE  FALSE
  OBVIOUS
<1>1. <<i, j>> \in R \/ <<j, i>> \in R
  BY DEF Orders
<1>2. Cardinality(Before(R, I, i)) \in Nat /\ Cardinality(Before(R, I, j)) \in Nat
  BY RankBelow
<1>3. CASE <<i, j>> \in R
  BY <1>2, <1>3, RanksRise
<1>4. CASE <<j, i>> \in R
  BY <1>2, <1>4, RanksRise
<1> QED BY <1>1, <1>3, <1>4

LEMMA RankIsIn ==
  ASSUME NEW I, IsFiniteSet(I), NEW R, Orders(R, I), NEW i \in I
  PROVE  Cardinality(Before(R, I, i)) \in 0..Cardinality(I) - 1
<1>1. Before(R, I, i) \cup {i} \in SUBSET I
  BY DEF Before
<1>2. Cardinality(Before(R, I, i) \cup {i}) <= Cardinality(I) /\ Cardinality(I) \in Nat
  BY <1>1, FS_Subset, FS_CardinalityType
<1>3. /\ Cardinality(Before(R, I, i) \cup {i}) = Cardinality(Before(R, I, i)) + 1
      /\ Cardinality(Before(R, I, i)) \in Nat
  BY RankBelow
<1> QED BY <1>2, <1>3

LEMMA RankedBy ==
  ASSUME NEW I, IsFiniteSet(I), NEW R, Orders(R, I), NEW k \in 1..Cardinality(I)
  PROVE  \E i \in I : Cardinality(Before(R, I, i)) = k - 1
<1> DEFINE n == Cardinality(I)
           r == [i \in I |-> Cardinality(Before(R, I, i))]
<1>1. n \in Nat
  BY FS_CardinalityType
<1>2. \A i \in I : r[i] = Cardinality(Before(R, I, i))
  OBVIOUS
<1>3. r = [i \in I |-> r[i]]
  OBVIOUS
<1> HIDE DEF r
<1>4. \A i \in I : r[i] \in 0..n - 1
  BY <1>2, RankIsIn
<1>5. ASSUME NEW i \in I, NEW j \in I, r[i] = r[j]
      PROVE  i = j
  <2>1. Cardinality(Before(R, I, i)) = Cardinality(Before(R, I, j))
    BY <1>2, <1>5
  <2> QED BY <2>1, RanksDiffer
<1> HIDE DEF n
<1>6. r \in Injection(I, 0..n - 1)
  BY <1>3, <1>4, <1>5 DEF Injection, IsInjective
<1>7. IsFiniteSet(0..n - 1) /\ Cardinality(0..n - 1) = n
  <2>1. 0 \in Int /\ n - 1 \in Int
    BY <1>1
  <2>2. IsFiniteSet(0..n - 1)
        /\ Cardinality(0..n - 1) = IF 0 > n - 1 THEN 0 ELSE (n - 1) - 0 + 1
    BY <2>1, FS_Interval
  <2> QED BY <1>1, <2>2
<1>8. r \in Surjection(I, 0..n - 1)
  BY <1>6, <1>7, FS_Injection DEF n
<1>9. k - 1 \in 0..n - 1
  BY <1>1 DEF n
<1>10. PICK i \in I : r[i] = k - 1
  BY <1>8, <1>9 DEF Surjection
<1> QED BY <1>2, <1>10

(* Numbers by their size. *)
LEMMA NumbersOrder ==
  ASSUME NEW I, I \subseteq Int
  PROVE  \E R : /\ Orders(R, I)
                /\ \A i, j \in I : <<i, j>> \in R <=> i < j
<1> DEFINE R == {p \in I \X I : p[1] < p[2]}
<1>1. \A i, j \in I : <<i, j>> \in R <=> i < j
  OBVIOUS
<1> HIDE DEF R
<1>2. Orders(R, I)
  <2>1. \A i \in I : i \in Int
    OBVIOUS
  <2>2. ASSUME NEW i \in I
        PROVE  <<i, i>> \notin R
    <3>1. ~ (i < i)
      BY <2>1
    <3> QED BY <1>1, <3>1
  <2>3. ASSUME NEW i \in I, NEW j \in I
        PROVE  i = j \/ <<i, j>> \in R \/ <<j, i>> \in R
    <3>1. i = j \/ i < j \/ j < i
      BY <2>1
    <3> QED BY <1>1, <3>1
  <2>4. ASSUME NEW i \in I, NEW j \in I, NEW k \in I, <<i, j>> \in R, <<j, k>> \in R
        PROVE  <<i, k>> \in R
    <3>1. i \in Int /\ j \in Int /\ k \in Int /\ i < j /\ j < k
      BY <1>1, <2>1, <2>4
    <3>2. i < k
      BY ONLY <3>1
    <3> QED BY <1>1, <3>2
  <2> QED BY <2>2, <2>3, <2>4 DEF Orders
<1> QED BY <1>1, <1>2

(* The greatest of finitely many numbers. *)
LEMMA GreatestIsIn ==
  ASSUME NEW I, I # {}, I \subseteq Int, IsFiniteSet(I)
  PROVE  \E m \in I : \A o \in I : o <= m
<1>1. PICK R : Orders(R, I) /\ \A i, j \in I : <<i, j>> \in R <=> i < j
  BY NumbersOrder
<1> DEFINE n == Cardinality(I)
           B(i) == Before(R, I, i)
<1>2. n \in Nat /\ n # 0
  BY FS_CardinalityType, FS_EmptySet
<1>3. PICK m \in I : Cardinality(B(m)) = n - 1
  <2>1. n \in 1..n
    BY <1>2
  <2>2. Orders(R, I) /\ IsFiniteSet(I)
    BY <1>1
  <2> HIDE DEF n
  <2> QED BY <2>1, <2>2, RankedBy DEF n
<1>4. B(m) \in SUBSET I /\ m \notin B(m)
  BY <1>1 DEF Orders, Before
<1>5. Cardinality(B(m) \cup {m}) = n
  <2>1. IsFiniteSet(B(m)) /\ Cardinality(B(m)) = n - 1
    BY <1>3, <1>4, FS_Subset
  <2> HIDE DEF B, n
  <2> QED BY <1>2, <1>4, <2>1, FS_AddElement
<1>6. B(m) \cup {m} = I
  <2>1. B(m) \cup {m} \in SUBSET I
    BY <1>4
  <2> HIDE DEF B
  <2> QED BY <1>5, <2>1, FS_Subset
<1>7. ASSUME NEW o \in I
      PROVE  o <= m
  <2>1. o = m \/ o < m
    BY <1>1, <1>6 DEF Before
  <2> QED BY <2>1
<1> QED BY <1>7

(* The elements of a sequence at the places in I, in the order of R. *)
OnceEach(s) == \A i, j \in DOMAIN s : s[i].id = s[j].id => i = j

InOrder(s, I, R) ==
  [k \in 1..Cardinality(I) |-> s[CHOOSE i \in I : Cardinality(Before(R, I, i)) = k - 1]]

LEMMA Arranged ==
  ASSUME NEW T, NEW s \in Seq(T), NEW I, I \subseteq DOMAIN s, NEW R, Orders(R, I)
  PROVE  /\ InOrder(s, I, R) \in Seq(T) /\ ToSet(InOrder(s, I, R)) = {s[i] : i \in I}
         /\ OnceEach(s) => OnceEach(InOrder(s, I, R))
<1> DEFINE n == Cardinality(I)
           u == InOrder(s, I, R)
           r == [i \in I |-> Cardinality(Before(R, I, i))]
           At(k) == CHOOSE i \in I : r[i] = k - 1
<1>1. IsFiniteSet(I) /\ n \in Nat
  <2>1. I \in SUBSET (1..Len(s)) /\ 1 \in Int /\ Len(s) \in Int
    OBVIOUS
  <2>2. IsFiniteSet(I)
    BY <2>1, FS_Interval, FS_Subset
  <2> QED BY <2>2, FS_CardinalityType
<1>2. \A i \in I : r[i] = Cardinality(Before(R, I, i))
  OBVIOUS
<1>3. \A k \in 1..n : u[k] = s[At(k)]
  <2> SUFFICES ASSUME NEW k \in 1..n
               PROVE  u[k] = s[At(k)]
    OBVIOUS
  <2>1. At(k) = CHOOSE i \in I : Cardinality(Before(R, I, i)) = k - 1
    BY <1>2
  <2> QED BY <2>1 DEF InOrder
<1>4. DOMAIN u = 1..n /\ u = [k \in 1..n |-> u[k]]
  BY DEF InOrder
<1> HIDE DEF r, n, u
<1>5. \A k \in 1..n : At(k) \in I /\ r[At(k)] = k - 1
  <2> SUFFICES ASSUME NEW k \in 1..n
               PROVE  At(k) \in I /\ r[At(k)] = k - 1
    OBVIOUS
  <2>1. \E i \in I : Cardinality(Before(R, I, i)) = k - 1
    BY <1>1, RankedBy DEF n
  <2> QED BY <1>2, <2>1
<1>6. \A i \in I : \E k \in 1..n : At(k) = i
  <2> SUFFICES ASSUME NEW i \in I
               PROVE  r[i] + 1 \in 1..n /\ At(r[i] + 1) = i
    OBVIOUS
  <2>1. r[i] \in 0..n - 1
    BY <1>1, <1>2, RankIsIn DEF n
  <2>2. r[i] + 1 \in 1..n /\ (r[i] + 1) - 1 = r[i]
    BY <1>1, <2>1
  <2>3. At(r[i] + 1) \in I /\ r[At(r[i] + 1)] = r[i]
    BY <2>2, <1>5
  <2>4. Cardinality(Before(R, I, At(r[i] + 1))) = Cardinality(Before(R, I, i))
    BY <1>2, <2>3
  <2> QED BY <2>2, <2>3, <2>4, <1>1, RanksDiffer
<1>7. \A k, l \in 1..n : At(k) = At(l) => k = l
  <2> SUFFICES ASSUME NEW k \in 1..n, NEW l \in 1..n, At(k) = At(l)
               PROVE  k = l
    OBVIOUS
  <2>1. k - 1 = l - 1
    BY <1>5
  <2> QED BY <1>1, <2>1
<1> HIDE DEF At
<1>8. u \in Seq(T)
  <2>1. ASSUME NEW k \in 1..n
        PROVE  u[k] \in T
    <3>1. s[At(k)] \in T
      <4>1. At(k) \in 1..Len(s)
        BY <1>5
      <4> QED BY <4>1
    <3> QED BY <1>3, <3>1
  <2>2. u \in [1..n -> T]
    BY <1>4, <2>1
  <2> QED BY <1>1, <2>2
<1>9. ToSet(u) = {s[i] : i \in I}
  <2>1. \A k \in 1..n : u[k] \in {s[i] : i \in I}
    BY <1>3, <1>5
  <2>2. \A i \in I : s[i] \in {u[k] : k \in 1..n}
    BY <1>3, <1>6
  <2> QED BY <1>4, <2>1, <2>2 DEF ToSet
<1>10. OnceEach(s) => OnceEach(u)
  <2> SUFFICES ASSUME OnceEach(s), NEW k \in 1..n, NEW l \in 1..n, u[k].id = u[l].id
               PROVE  k = l
    BY <1>4 DEF OnceEach
  <2>1. /\ At(k) \in DOMAIN s /\ At(l) \in DOMAIN s
        /\ s[At(k)].id = s[At(l)].id
    BY <1>3, <1>5
  <2>2. At(k) = At(l)
    BY <2>1 DEF OnceEach
  <2> QED BY <2>2, <1>7
<1> QED BY <1>8, <1>9, <1>10 DEF u

(* What is in the tables and in the queues.                                *)
Task == [id : Nat, project : TodoProjects \cup {"null"}, done : BOOLEAN, pos : Int, at : Nat]
TodoKind == {"list", "add", "saveNew", "saveEdit", "toggle", "reorder", "delete"}
Call == [kind : TodoKind, project : TodoProjects \cup {"null"}, id : Nat, arg : Int]
Reply == [kind : TodoKind, project : TodoProjects \cup {"null"}, id : Nat, arg : Int,
          ok : BOOLEAN, found : Seq(Task)]

(* sortItems keeps the rows. *)
LEMMA SortedIs ==
  ASSUME NEW s \in Seq(Task)
  PROVE  /\ SortItems(s) \in Seq(Task) /\ ToSet(SortItems(s)) = ToSet(s)
         /\ OnceEach(s) => OnceEach(SortItems(s))
<1> DEFINE D == DOMAIN s
           R == {p \in D \X D : p[1] \in Above(s, p[2])}
           u == InOrder(s, D, R)
<1>1. D = 1..Len(s) /\ Len(s) \in Nat
  OBVIOUS
<1>2. Cardinality(D) = Len(s)
  <2>1. 1 \in Int /\ Len(s) \in Int
    OBVIOUS
  <2>2. Cardinality(1..Len(s)) = IF 1 > Len(s) THEN 0 ELSE Len(s) - 1 + 1
    BY <2>1, FS_Interval
  <2> QED BY <1>1, <2>2
<1>3. \A i, j \in D : <<i, j>> \in R <=> i \in Above(s, j)
  OBVIOUS
<1>4. \A i \in D : i \in Int /\ s[i].done \in BOOLEAN /\ Rank(s[i]) \in Int
  <2> SUFFICES ASSUME NEW i \in D
               PROVE  i \in Int /\ s[i].done \in BOOLEAN /\ Rank(s[i]) \in Int
    OBVIOUS
  <2>1. s[i] \in Task
    BY <1>1
  <2> QED BY <1>1, <2>1 DEF Task, Rank
<1> HIDE DEF R
<1>5. Orders(R, D)
  <2>1. ASSUME NEW i \in D
        PROVE  <<i, i>> \notin R
    BY <1>3, <1>4 DEF Above
  <2>2. ASSUME NEW i \in D, NEW j \in D
        PROVE  i = j \/ <<i, j>> \in R \/ <<j, i>> \in R
    BY <1>3, <1>4 DEF Above
  <2>3. ASSUME NEW i \in D, NEW j \in D, NEW k \in D, <<i, j>> \in R, <<j, k>> \in R
        PROVE  <<i, k>> \in R
    BY <1>3, <1>4, <2>3 DEF Above
  <2> QED BY <2>1, <2>2, <2>3 DEF Orders
<1>6. /\ u \in Seq(Task) /\ ToSet(u) = {s[i] : i \in D}
      /\ OnceEach(s) => OnceEach(u)
  <2>1. D \subseteq DOMAIN s
    OBVIOUS
  <2> QED BY <1>5, <2>1, Arranged
<1>7. IsFiniteSet(D)
  <2>1. 1 \in Int /\ Len(s) \in Int
    OBVIOUS
  <2> QED BY <1>1, <2>1, FS_Interval
<1>8. u = SortItems(s)
  <2>1. \A i \in D : Before(R, D, i) = Above(s, i)
    BY <1>3 DEF Before, Above
  <2>2. ASSUME NEW k \in D
        PROVE  u[k] = SortItems(s)[k]
    <3> DEFINE a == CHOOSE i \in D : Cardinality(Before(R, D, i)) = k - 1
               b == CHOOSE i \in D : Cardinality(Above(s, i)) = k - 1
    <3>1. \E i \in D : Cardinality(Before(R, D, i)) = k - 1
      BY <1>1, <1>2, <1>5, <1>7, RankedBy
    <3>2. a \in D /\ Cardinality(Before(R, D, a)) = k - 1
      BY <3>1
    <3>3. \E i \in D : Cardinality(Above(s, i)) = k - 1
      BY <2>1, <3>1
    <3>4. b \in D /\ Cardinality(Above(s, b)) = k - 1
      BY <3>3
    <3>5. a = b
      <4> HIDE DEF a, b
      <4>1. Cardinality(Before(R, D, b)) = Cardinality(Before(R, D, a))
        BY <2>1, <3>2, <3>4
      <4>2. ASSUME NEW i \in D, NEW j \in D,
                   Cardinality(Before(R, D, i)) = Cardinality(Before(R, D, j))
            PROVE  i = j
        BY <4>2, <1>5, <1>7, RanksDiffer
      <4> QED BY <3>2, <3>4, <4>1, <4>2
    <3>6. u[k] = s[a]
      BY <1>1, <1>2 DEF InOrder
    <3>7. SortItems(s)[k] = s[b]
      BY DEF SortItems
    <3> HIDE DEF a, b, u
    <3> QED BY <3>5, <3>6, <3>7
  <2> QED BY <1>1, <1>2, <2>2 DEF SortItems, InOrder
<1> QED BY <1>6, <1>8 DEF ToSet

(* The rows at some places. *)
LEMMA TasksIs ==
  ASSUME NEW s \in Seq(Task), NEW I, I \subseteq DOMAIN s
  PROVE  /\ Tasks(s, I) \in Seq(Task) /\ ToSet(Tasks(s, I)) = {s[i] : i \in I}
         /\ OnceEach(s) => OnceEach(Tasks(s, I))
<1>1. I \subseteq Int
  OBVIOUS
<1>2. PICK R : Orders(R, I) /\ \A i, j \in I : <<i, j>> \in R <=> i < j
  BY <1>1, NumbersOrder
<1> DEFINE u == InOrder(s, I, R)
<1>3. /\ u \in Seq(Task) /\ ToSet(u) = {s[i] : i \in I}
      /\ OnceEach(s) => OnceEach(u)
  BY <1>2, Arranged
<1>4. IsFiniteSet(I)
  <2>1. I \in SUBSET (1..Len(s)) /\ 1 \in Int /\ Len(s) \in Int
    OBVIOUS
  <2> QED BY <2>1, FS_Interval, FS_Subset
<1>5. u = Tasks(s, I)
  <2>1. \A i \in I : Before(R, I, i) = Under(I, i)
    BY <1>2 DEF Before, Under
  <2>2. ASSUME NEW k \in 1..Cardinality(I)
        PROVE  u[k] = Tasks(s, I)[k]
    <3> DEFINE a == CHOOSE i \in I : Cardinality(Before(R, I, i)) = k - 1
               b == CHOOSE i \in I : Cardinality(Under(I, i)) = k - 1
    <3>1. \E i \in I : Cardinality(Before(R, I, i)) = k - 1
      BY <1>2, <1>4, RankedBy
    <3>2. a \in I /\ Cardinality(Before(R, I, a)) = k - 1
      BY <3>1
    <3>3. \E i \in I : Cardinality(Under(I, i)) = k - 1
      BY <2>1, <3>1
    <3>4. b \in I /\ Cardinality(Under(I, b)) = k - 1
      BY <3>3
    <3>5. a = b
      <4> HIDE DEF a, b
      <4>1. Cardinality(Before(R, I, b)) = Cardinality(Before(R, I, a))
        BY <2>1, <3>2, <3>4
      <4>2. ASSUME NEW i \in I, NEW j \in I,
                   Cardinality(Before(R, I, i)) = Cardinality(Before(R, I, j))
            PROVE  i = j
        BY <4>2, <1>2, <1>4, RanksDiffer
      <4> QED BY <3>2, <3>4, <4>1, <4>2
    <3>6. u[k] = s[a]
      BY DEF InOrder
    <3>7. Tasks(s, I)[k] = s[b]
      BY DEF Tasks
    <3> HIDE DEF a, b, u
    <3> QED BY <3>5, <3>6, <3>7
  <2> QED BY <2>2 DEF Tasks, InOrder
<1> QED BY <1>3, <1>5

(* What the panel shows of a task, and what a command makes of it. *)
Mark(t) == <<t.id, t.done, t.pos>>
After(c, m) ==
  IF c.kind = "toggle" /\ m[1] = c.id THEN <<m[1], ~m[2], m[3]>>
  ELSE IF c.kind = "reorder" /\ m[1] = c.id THEN <<m[1], m[2], c.arg>> ELSE m
Apply(c, ms) == {After(c, m) : m \in ms}

InProject(s, p) == Tasks(s, {i \in DOMAIN s : s[i].project = p})
MarksIn(s, p) == {Mark(s[i]) : i \in {j \in DOMAIN s : s[j].project = p}}

LEMMA MarksAre ==
  ASSUME NEW s \in Seq(Task)
  PROVE  Marks(s) = {Mark(s[i]) : i \in DOMAIN s}
BY DEF Marks, Mark, ToSet

LEMMA ListedMarks ==
  ASSUME NEW s \in Seq(Task), NEW p
  PROVE  /\ InProject(s, p) \in Seq(Task) /\ Marks(InProject(s, p)) = MarksIn(s, p)
         /\ OnceEach(s) => OnceEach(InProject(s, p))
<1> DEFINE I == {i \in DOMAIN s : s[i].project = p}
<1>1. I \subseteq DOMAIN s
  OBVIOUS
<1> HIDE DEF I
<1>2. /\ Tasks(s, I) \in Seq(Task) /\ ToSet(Tasks(s, I)) = {s[i] : i \in I}
      /\ OnceEach(s) => OnceEach(Tasks(s, I))
  BY <1>1, TasksIs
<1>3. Marks(Tasks(s, I)) = {Mark(s[i]) : i \in I}
  BY <1>2 DEF Marks, Mark
<1> QED BY <1>2, <1>3 DEF I, InProject, MarksIn

(* A table whose rows a command has changed, each by itself. *)
LEMMA StoreMoved ==
  ASSUME NEW s \in Seq(Task), NEW t \in Seq(Task), NEW c, NEW p, Len(t) = Len(s),
         \A i \in DOMAIN s : t[i].project = s[i].project /\ Mark(t[i]) = After(c, Mark(s[i]))
  PROVE  MarksIn(t, p) = Apply(c, MarksIn(s, p))
<1> DEFINE J == {j \in DOMAIN s : s[j].project = p}
<1>1. DOMAIN t = DOMAIN s
  OBVIOUS
<1>2. {j \in DOMAIN t : t[j].project = p} = J
  BY <1>1
<1>3. \A i \in J : Mark(t[i]) = After(c, Mark(s[i]))
  OBVIOUS
<1> HIDE DEF J
<1>4. {Mark(t[i]) : i \in J} = Apply(c, {Mark(s[i]) : i \in J})
  BY <1>3 DEF Apply
<1> QED BY <1>2, <1>4 DEF MarksIn, J

LEMMA RowsMoved ==
  ASSUME NEW s \in Seq(Task), NEW t \in Seq(Task), NEW c, Len(t) = Len(s),
         \A i \in DOMAIN s : Mark(t[i]) = After(c, Mark(s[i]))
  PROVE  Marks(t) = Apply(c, Marks(s))
<1>1. DOMAIN t = DOMAIN s
  OBVIOUS
<1>2. {Mark(t[i]) : i \in DOMAIN s} = Apply(c, {Mark(s[i]) : i \in DOMAIN s})
  BY DEF Apply
<1> QED BY <1>1, <1>2, MarksAre

IsMove(c) == c.kind \in {"toggle", "reorder"}

LEMMA NoMove ==
  ASSUME NEW c, ~IsMove(c), NEW ms
  PROVE  Apply(c, ms) = ms
BY DEF Apply, After, IsMove

(* The panel is ahead of the store by the commands that were sent. *)
ShownAs(s, p, cs, drawn) ==
  \E h : /\ h[0] = MarksIn(s, p) /\ h[Len(cs)] = Marks(drawn)
         /\ \A n \in 1..Len(cs) : h[n] = Apply(cs[n], h[n - 1])

LEMMA ShownMore ==
  ASSUME NEW cs \in Seq(Call), NEW c \in Call, NEW s, NEW p, NEW drawn, NEW others,
         ShownAs(s, p, cs, drawn), Marks(others) = Apply(c, Marks(drawn))
  PROVE  ShownAs(s, p, Append(cs, c), others)
<1>1. PICK h : /\ h[0] = MarksIn(s, p) /\ h[Len(cs)] = Marks(drawn)
               /\ \A n \in 1..Len(cs) : h[n] = Apply(cs[n], h[n - 1])
  BY DEF ShownAs
<1> DEFINE l == Len(cs)
           g == [n \in 0..l + 1 |-> IF n <= l THEN h[n] ELSE Marks(others)]
<1>2. l \in Nat /\ Len(Append(cs, c)) = l + 1
  OBVIOUS
<1>3. /\ \A n \in 1..l : Append(cs, c)[n] = cs[n]
      /\ Append(cs, c)[l + 1] = c
  OBVIOUS
<1> HIDE DEF l
<1>4. g[0] = MarksIn(s, p) /\ g[l + 1] = Marks(others)
  BY <1>1, <1>2
<1>5. ASSUME NEW n \in 1..l + 1
      PROVE  g[n] = Apply(Append(cs, c)[n], g[n - 1])
  <2>1. CASE n = l + 1
    <3>1. g[n] = Marks(others) /\ g[n - 1] = h[l]
      BY <1>2, <2>1
    <3>2. h[l] = Marks(drawn)
      BY <1>1 DEF l
    <3> HIDE DEF g
    <3> QED BY <1>3, <2>1, <3>1, <3>2
  <2>2. CASE n \in 1..l
    <3>1. g[n] = h[n] /\ g[n - 1] = h[n - 1]
      BY <1>2, <2>2
    <3>2. h[n] = Apply(cs[n], h[n - 1])
      BY <1>1, <2>2 DEF l
    <3> HIDE DEF g
    <3> QED BY <1>3, <2>2, <3>1, <3>2
  <2> QED BY <1>2, <2>1, <2>2
<1> HIDE DEF g
<1> QED BY <1>2, <1>4, <1>5 DEF ShownAs

LEMMA ShownLess ==
  ASSUME NEW cs \in Seq(Call), cs # <<>>, NEW s, NEW t, NEW p, NEW drawn,
         ShownAs(s, p, cs, drawn), MarksIn(t, p) = Apply(Head(cs), MarksIn(s, p))
  PROVE  ShownAs(t, p, Tail(cs), drawn)
<1>1. PICK h : /\ h[0] = MarksIn(s, p) /\ h[Len(cs)] = Marks(drawn)
               /\ \A n \in 1..Len(cs) : h[n] = Apply(cs[n], h[n - 1])
  BY DEF ShownAs
<1> DEFINE l == Len(Tail(cs))
           g == [n \in 0..l |-> h[n + 1]]
<1>2. l \in Nat /\ Len(cs) = l + 1 /\ Head(cs) = cs[1]
      /\ \A n \in 1..l : Tail(cs)[n] = cs[n + 1]
  OBVIOUS
<1> HIDE DEF l
<1>3. h[1] = MarksIn(t, p)
  <2>1. 1 \in 1..Len(cs) /\ 1 - 1 = 0
    BY <1>2
  <2>2. h[1] = Apply(cs[1], h[1 - 1])
    BY <1>1, <2>1
  <2> QED BY <1>1, <1>2, <2>1, <2>2
<1>4. g[0] = MarksIn(t, p) /\ g[l] = Marks(drawn)
  BY <1>1, <1>2, <1>3
<1>5. ASSUME NEW n \in 1..l
      PROVE  g[n] = Apply(Tail(cs)[n], g[n - 1])
  <2>1. g[n] = h[n + 1] /\ g[n - 1] = h[n]
    BY <1>2
  <2>2. n + 1 \in 1..Len(cs) /\ (n + 1) - 1 = n
    BY <1>2
  <2>3. h[n + 1] = Apply(cs[n + 1], h[(n + 1) - 1])
    BY <1>1, <2>2
  <2> HIDE DEF g
  <2> QED BY <1>2, <2>1, <2>2, <2>3
<1> HIDE DEF g
<1> QED BY <1>2, <1>4, <1>5 DEF ShownAs, l

LEMMA ShownAtOnce ==
  ASSUME NEW cs \in Seq(Call), NEW s, NEW p, NEW drawn, Marks(drawn) = MarksIn(s, p),
         \A i \in DOMAIN cs : ~IsMove(cs[i])
  PROVE  ShownAs(s, p, cs, drawn)
<1> DEFINE g == [n \in 0..Len(cs) |-> Marks(drawn)]
<1>1. Len(cs) \in Nat /\ DOMAIN cs = 1..Len(cs)
  OBVIOUS
<1>2. \A n \in 1..Len(cs) : g[n] = Marks(drawn) /\ g[n - 1] = Marks(drawn)
  BY <1>1
<1>3. g[0] = Marks(drawn) /\ g[Len(cs)] = Marks(drawn)
  BY <1>1
<1> HIDE DEF g
<1>4. \A n \in 1..Len(cs) : g[n] = Apply(cs[n], g[n - 1])
  BY <1>1, <1>2, NoMove
<1> QED BY <1>3, <1>4 DEF ShownAs

(* The last list that is asked for is one of project p. *)
EndsAt(cs, rs, p) ==
  /\ \A i \in DOMAIN cs : cs[i].kind = "list" /\ cs[i].project # p
        => \E j \in DOMAIN cs : j > i /\ cs[j].kind = "list"
  /\ \A i \in DOMAIN rs : rs[i].kind = "list" /\ rs[i].project # p
        => \/ \E j \in DOMAIN rs : j > i /\ rs[j].kind = "list"
           \/ \E j \in DOMAIN cs : cs[j].kind = "list"

LEMMA EndsMore ==
  ASSUME NEW cs \in Seq(Call), NEW rs \in Seq(Reply), NEW c \in Call, NEW p,
         EndsAt(cs, rs, p), c.kind # "list" \/ c.project = p
  PROVE  EndsAt(Append(cs, c), rs, p)
<1> DEFINE ds == Append(cs, c)
<1>1. /\ Len(cs) \in Nat /\ DOMAIN cs = 1..Len(cs) /\ DOMAIN ds = 1..Len(cs) + 1
      /\ \A i \in DOMAIN cs : ds[i] = cs[i]
      /\ ds[Len(cs) + 1] = c
  OBVIOUS
<1> HIDE DEF ds
<1>2. \A i \in DOMAIN ds : ds[i].kind = "list" /\ ds[i].project # p
        => \E j \in DOMAIN ds : j > i /\ ds[j].kind = "list"
  <2> SUFFICES ASSUME NEW i \in DOMAIN ds, ds[i].kind = "list" /\ ds[i].project # p
               PROVE  \E j \in DOMAIN ds : j > i /\ ds[j].kind = "list"
    OBVIOUS
  <2>1. i \in DOMAIN cs
    BY <1>1
  <2>2. PICK j \in DOMAIN cs : j > i /\ cs[j].kind = "list"
    BY <1>1, <2>1 DEF EndsAt
  <2> QED BY <1>1, <2>2
<1>3. \A j \in DOMAIN cs : j \in DOMAIN ds /\ ds[j] = cs[j]
  BY <1>1
<1>4. ASSUME NEW i \in DOMAIN rs, rs[i].kind = "list" /\ rs[i].project # p
      PROVE  \/ \E j \in DOMAIN rs : j > i /\ rs[j].kind = "list"
             \/ \E j \in DOMAIN ds : ds[j].kind = "list"
  <2>1. \/ \E j \in DOMAIN rs : j > i /\ rs[j].kind = "list"
        \/ \E j \in DOMAIN cs : cs[j].kind = "list"
    BY <1>4 DEF EndsAt
  <2> QED BY <2>1, <1>3
<1>5. EndsAt(ds, rs, p)
  BY <1>2, <1>4 DEF EndsAt
<1> QED BY <1>5 DEF ds

LEMMA EndsAnew ==
  ASSUME NEW cs \in Seq(Call), NEW rs \in Seq(Reply), NEW c \in Call,
         c.kind = "list"
  PROVE  EndsAt(Append(cs, c), rs, c.project)
<1> DEFINE ds == Append(cs, c)
<1>1. /\ Len(cs) \in Nat /\ DOMAIN ds = 1..Len(cs) + 1
      /\ ds[Len(cs) + 1] = c
  OBVIOUS
<1> HIDE DEF ds
<1>2. \A i \in DOMAIN ds : i = Len(cs) + 1 \/ Len(cs) + 1 > i
  BY <1>1
<1>3. Len(cs) + 1 \in DOMAIN ds
  BY <1>1
<1> QED BY <1>1, <1>2, <1>3 DEF EndsAt, ds

LEMMA EndsServed ==
  ASSUME NEW cs \in Seq(Call), NEW rs \in Seq(Reply), NEW r \in Reply, NEW p,
         EndsAt(cs, rs, p), cs # <<>>, r.kind = Head(cs).kind, r.project = Head(cs).project
  PROVE  EndsAt(Tail(cs), Append(rs, r), p)
<1> DEFINE ds == Tail(cs)
           qs == Append(rs, r)
<1>1. /\ Len(cs) \in Nat /\ Len(cs) >= 1 /\ DOMAIN cs = 1..Len(cs)
      /\ DOMAIN ds = 1..Len(cs) - 1 /\ Head(cs) = cs[1]
      /\ \A i \in DOMAIN ds : ds[i] = cs[i + 1]
  OBVIOUS
<1>2. /\ Len(rs) \in Nat /\ DOMAIN rs = 1..Len(rs) /\ DOMAIN qs = 1..Len(rs) + 1
      /\ \A i \in DOMAIN rs : qs[i] = rs[i]
      /\ qs[Len(rs) + 1] = r
  OBVIOUS
<1> HIDE DEF ds, qs
<1>3. ASSUME NEW i \in DOMAIN cs, i > 1
      PROVE  i - 1 \in DOMAIN ds /\ ds[i - 1] = cs[i]
  BY <1>1, <1>3
<1>4. ASSUME NEW i \in DOMAIN ds, ds[i].kind = "list" /\ ds[i].project # p
      PROVE  \E j \in DOMAIN ds : j > i /\ ds[j].kind = "list"
  <2>1. i + 1 \in DOMAIN cs /\ cs[i + 1].kind = "list" /\ cs[i + 1].project # p
    BY <1>1, <1>4
  <2>2. PICK j \in DOMAIN cs : j > i + 1 /\ cs[j].kind = "list"
    BY <2>1 DEF EndsAt
  <2>3. j > 1 /\ j - 1 > i
    BY <1>1, <2>2
  <2> QED BY <1>3, <2>2, <2>3
<1>5. ASSUME NEW i \in DOMAIN qs, qs[i].kind = "list" /\ qs[i].project # p
      PROVE  \/ \E j \in DOMAIN qs : j > i /\ qs[j].kind = "list"
             \/ \E j \in DOMAIN ds : ds[j].kind = "list"
  <2>1. CASE i = Len(rs) + 1
    <3>1. 1 \in DOMAIN cs /\ cs[1].kind = "list" /\ cs[1].project # p
      BY <1>1, <1>2, <1>5, <2>1
    <3>2. PICK j \in DOMAIN cs : j > 1 /\ cs[j].kind = "list"
      BY <3>1 DEF EndsAt
    <3> QED BY <1>3, <3>2
  <2>2. CASE i \in DOMAIN rs
    <3>1. rs[i].kind = "list" /\ rs[i].project # p
      BY <1>2, <1>5, <2>2
    <3>2. CASE \E j \in DOMAIN rs : j > i /\ rs[j].kind = "list"
      BY <1>2, <3>2
    <3>3. CASE \E j \in DOMAIN cs : cs[j].kind = "list"
      <4>1. PICK j \in DOMAIN cs : cs[j].kind = "list"
        BY <3>3
      <4>2. CASE j > 1
        BY <1>3, <4>1, <4>2
      <4>3. CASE j = 1
        <5>1. Len(rs) + 1 \in DOMAIN qs /\ Len(rs) + 1 > i /\ qs[Len(rs) + 1].kind = "list"
          BY <1>1, <1>2, <2>2, <4>1, <4>3
        <5> QED BY <5>1
      <4> QED BY <1>1, <4>1, <4>2, <4>3
    <3> QED BY <2>2, <3>1, <3>2, <3>3 DEF EndsAt
  <2> QED BY <1>2, <2>1, <2>2
<1> QED BY <1>4, <1>5 DEF EndsAt, ds, qs

LEMMA EndsAnswered ==
  ASSUME NEW cs \in Seq(Call), NEW rs \in Seq(Reply), NEW p, EndsAt(cs, rs, p), rs # <<>>
  PROVE  EndsAt(cs, Tail(rs), p)
<1> DEFINE qs == Tail(rs)
<1>1. /\ Len(rs) \in Nat /\ DOMAIN rs = 1..Len(rs) /\ DOMAIN qs = 1..Len(rs) - 1
      /\ \A i \in DOMAIN qs : qs[i] = rs[i + 1]
  OBVIOUS
<1> HIDE DEF qs
<1>2. ASSUME NEW i \in DOMAIN qs, qs[i].kind = "list" /\ qs[i].project # p,
             ~ \E j \in DOMAIN cs : cs[j].kind = "list"
      PROVE  \E j \in DOMAIN qs : j > i /\ qs[j].kind = "list"
  <2>1. i + 1 \in DOMAIN rs /\ rs[i + 1].kind = "list" /\ rs[i + 1].project # p
    BY <1>1, <1>2
  <2>2. PICK j \in DOMAIN rs : j > i + 1 /\ rs[j].kind = "list"
    BY <1>2, <2>1 DEF EndsAt
  <2>3. j - 1 \in DOMAIN qs /\ j - 1 > i /\ qs[j - 1] = rs[j]
    <3>1. j - 1 \in DOMAIN qs /\ j - 1 > i /\ (j - 1) + 1 = j
      BY <1>1, <2>2
    <3> QED BY <1>1, <3>1
  <2> QED BY <2>2, <2>3
<1> QED BY <1>2 DEF EndsAt, qs

(* A list that was read and not overtaken by a change is what is stored. *)
Changes(r) == r.ok /\ r.kind \in {"add", "saveNew", "delete", "toggle", "reorder"}

ListsFit(s, rs) ==
  \A i \in DOMAIN rs :
     (/\ rs[i].kind = "list" /\ rs[i].ok
      /\ \A j \in DOMAIN rs : j > i => ~Changes(rs[j]))
     => rs[i].found = InProject(s, rs[i].project)

LEMMA ListsServed ==
  ASSUME NEW s, NEW t, NEW rs \in Seq(Reply), NEW r \in Reply, ListsFit(s, rs),
         Changes(r) \/ t = s, r.kind = "list" => r.found = InProject(t, r.project)
  PROVE  ListsFit(t, Append(rs, r))
<1> DEFINE qs == Append(rs, r)
           l == Len(rs) + 1
<1>1. /\ Len(rs) \in Nat /\ DOMAIN rs = 1..Len(rs) /\ DOMAIN qs = 1..l
      /\ \A i \in DOMAIN rs : qs[i] = rs[i]
      /\ qs[l] = r
  OBVIOUS
<1> HIDE DEF qs
<1>2. SUFFICES ASSUME NEW i \in DOMAIN qs, qs[i].kind = "list" /\ qs[i].ok,
                      \A j \in DOMAIN qs : j > i => ~Changes(qs[j])
               PROVE  qs[i].found = InProject(t, qs[i].project)
  BY DEF ListsFit, qs
<1>3. CASE i = l
  BY <1>1, <1>2, <1>3
<1>4. CASE i \in DOMAIN rs
  <2>1. l \in DOMAIN qs /\ l > i
    BY <1>1, <1>4
  <2>2. t = s
    BY <1>1, <1>2, <2>1
  <2>3. \A j \in DOMAIN rs : j > i => ~Changes(rs[j])
    BY <1>1, <1>2
  <2> QED BY <1>1, <1>2, <1>4, <2>2, <2>3 DEF ListsFit
<1> QED BY <1>1, <1>3, <1>4

LEMMA ListsAnswered ==
  ASSUME NEW s, NEW rs \in Seq(Reply), ListsFit(s, rs), rs # <<>>
  PROVE  ListsFit(s, Tail(rs))
<1> DEFINE qs == Tail(rs)
<1>1. /\ Len(rs) \in Nat /\ DOMAIN rs = 1..Len(rs) /\ DOMAIN qs = 1..Len(rs) - 1
      /\ \A i \in DOMAIN qs : qs[i] = rs[i + 1]
  OBVIOUS
<1> HIDE DEF qs
<1>2. SUFFICES ASSUME NEW i \in DOMAIN qs, qs[i].kind = "list" /\ qs[i].ok,
                      \A j \in DOMAIN qs : j > i => ~Changes(qs[j])
               PROVE  qs[i].found = InProject(s, qs[i].project)
  BY DEF ListsFit, qs
<1>3. i + 1 \in DOMAIN rs /\ rs[i + 1] = qs[i]
  BY <1>1
<1>4. ASSUME NEW j \in DOMAIN rs, j > i + 1
      PROVE  ~Changes(rs[j])
  <2>1. j - 1 \in DOMAIN qs /\ j - 1 > i /\ (j - 1) + 1 = j
    BY <1>1, <1>4
  <2> QED BY <1>1, <1>2, <2>1
<1> QED BY <1>2, <1>3, <1>4 DEF ListsFit

(* A command or an answer after which the list is read again, or the panel *)
(* is known to be stale.                                                   *)
Relists(r) == \/ r.kind = "list"
              \/ r.ok /\ r.kind \in {"add", "delete", "saveNew", "saveEdit"}
              \/ ~r.ok /\ r.kind \in {"toggle", "reorder"}
              \/ r.kind = "saveEdit" /\ r.arg = 1
WillList(c) == c.kind = "list" \/ (c.kind = "saveEdit" /\ c.arg = 1)
Comes(cs, rs) == \/ \E i \in DOMAIN rs : Relists(rs[i])
                 \/ \E i \in DOMAIN cs : WillList(cs[i])

LEMMA ComesMore ==
  ASSUME NEW cs \in Seq(Call), NEW rs \in Seq(Reply), NEW c \in Call
  PROVE  Comes(cs, rs) \/ WillList(c) => Comes(Append(cs, c), rs)
<1> DEFINE ds == Append(cs, c)
<1>1. /\ \A i \in DOMAIN cs : i \in DOMAIN ds /\ ds[i] = cs[i]
      /\ Len(cs) + 1 \in DOMAIN ds /\ ds[Len(cs) + 1] = c
  OBVIOUS
<1> HIDE DEF ds
<1> QED BY <1>1 DEF Comes, ds

LEMMA ComesServed ==
  ASSUME NEW cs \in Seq(Call), NEW rs \in Seq(Reply), NEW r \in Reply, cs # <<>>,
         WillList(Head(cs)) => Relists(r)
  PROVE  Comes(cs, rs) \/ Relists(r) => Comes(Tail(cs), Append(rs, r))
<1> DEFINE ds == Tail(cs)
           qs == Append(rs, r)
<1>1. /\ Head(cs) = cs[1] /\ \A i \in DOMAIN cs : i = 1 \/ (i - 1 \in DOMAIN ds /\ ds[i - 1] = cs[i])
  <2>1. /\ Len(cs) \in Nat /\ Len(cs) >= 1 /\ DOMAIN cs = 1..Len(cs)
        /\ DOMAIN ds = 1..Len(cs) - 1 /\ Head(cs) = cs[1]
        /\ \A i \in DOMAIN ds : ds[i] = cs[i + 1]
    OBVIOUS
  <2> HIDE DEF ds
  <2>2. ASSUME NEW i \in DOMAIN cs, i # 1
        PROVE  i - 1 \in DOMAIN ds /\ ds[i - 1] = cs[i]
    <3>1. i - 1 \in DOMAIN ds /\ (i - 1) + 1 = i
      BY <2>1, <2>2
    <3> QED BY <2>1, <3>1
  <2> QED BY <2>1, <2>2
<1>2. /\ \A i \in DOMAIN rs : i \in DOMAIN qs /\ qs[i] = rs[i]
      /\ Len(rs) + 1 \in DOMAIN qs /\ qs[Len(rs) + 1] = r
  OBVIOUS
<1> HIDE DEF ds, qs
<1> QED BY <1>1, <1>2 DEF Comes, ds, qs

LEMMA ComesAnswered ==
  ASSUME NEW cs \in Seq(Call), NEW rs \in Seq(Reply), rs # <<>>, Comes(cs, rs),
         ~Relists(Head(rs))
  PROVE  Comes(cs, Tail(rs))
<1> DEFINE qs == Tail(rs)
<1>1. /\ Len(rs) \in Nat /\ Len(rs) >= 1 /\ DOMAIN rs = 1..Len(rs)
      /\ DOMAIN qs = 1..Len(rs) - 1 /\ Head(rs) = rs[1]
      /\ \A i \in DOMAIN qs : qs[i] = rs[i + 1]
  OBVIOUS
<1> HIDE DEF qs
<1>2. ASSUME NEW i \in DOMAIN rs, Relists(rs[i])
      PROVE  i - 1 \in DOMAIN qs /\ qs[i - 1] = rs[i]
  <2>1. i # 1
    BY <1>1, <1>2
  <2>2. i - 1 \in DOMAIN qs /\ (i - 1) + 1 = i
    BY <1>1, <2>1
  <2> QED BY <1>1, <2>2
<1> QED BY <1>2 DEF Comes, qs

(***************************************************************************)
(* The invariant of the panel.                                             *)
(***************************************************************************)
TodoTypes ==
  /\ Unit \in Int
  /\ store \in Seq(Task) /\ items \in Seq(Task)
  /\ added \in Nat /\ moves \in Nat
  /\ projectId \in TodoProjects \cup {"null"}
  /\ calls \in Seq(Call) /\ answers \in Seq(Reply) /\ stale \in BOOLEAN

(* An id is given once, and a list has no task twice. *)
TasksOnce ==
  /\ OnceEach(store) /\ OnceEach(items)
  /\ \A i \in DOMAIN store : store[i].id <= added
  /\ \A i \in DOMAIN answers : OnceEach(answers[i].found)

(* The rows are right once the commands under way have run, or another list comes. *)
RowsFollow ==
  ~stale /\ projectId # "null"
    => Comes(calls, answers) \/ ShownAs(store, projectId, calls, items)

TodoInv ==
  /\ TodoTypes /\ TasksOnce /\ ListsFit(store, answers)
  /\ projectId # "null" => EndsAt(calls, answers, projectId)
  /\ RowsFollow

LEMMA TodoStart ==
  ASSUME Unit \in Int
  PROVE  TodoInit => TodoInv
<1> SUFFICES ASSUME TodoInit PROVE TodoInv
  OBVIOUS
<1>1. <<>> \in Seq(Task) /\ <<>> \in Seq(Call) /\ <<>> \in Seq(Reply)
  OBVIOUS
<1>2. DOMAIN <<>> = {}
  OBVIOUS
<1> QED BY <1>1, <1>2
        DEF TodoInit, TodoInv, TodoTypes, TasksOnce, OnceEach, ListsFit, RowsFollow

(* The property follows when nothing is under way. *)
LEMMA TodoIsSafe == TodoInv => PanelAgrees
<1> SUFFICES ASSUME TodoInv, calls = <<>>, answers = <<>>, ~stale, projectId # "null"
             PROVE  Marks(items) = Marks(TasksOf(projectId))
  BY DEF PanelAgrees
<1>1. ~Comes(calls, answers)
  BY DEF Comes
<1>2. PICK h : h[0] = MarksIn(store, projectId) /\ h[Len(calls)] = Marks(items)
  BY <1>1 DEF TodoInv, RowsFollow, ShownAs
<1>3. Len(calls) = 0
  OBVIOUS
<1>4. Marks(InProject(store, projectId)) = MarksIn(store, projectId)
  BY ListedMarks DEF TodoInv, TodoTypes
<1> QED BY <1>2, <1>3, <1>4 DEF InProject, TasksOf

(* A command is sent, and the rows change as it will change the store.     *)
LEMMA AskStep ==
  ASSUME TodoInv, NEW c \in Call, c.kind # "list", calls' = Append(calls, c),
         items' \in Seq(Task), OnceEach(items'), Marks(items') = Apply(c, Marks(items)),
         moves' \in Nat, UNCHANGED <<store, added, projectId, answers, stale>>
  PROVE  TodoInv'
<1>1. TodoTypes /\ TasksOnce /\ ListsFit(store, answers)
      /\ (projectId # "null" => EndsAt(calls, answers, projectId)) /\ RowsFollow
  BY DEF TodoInv
<1>2. calls' \in Seq(Call)
  BY <1>1 DEF TodoTypes
<1>3. TodoTypes' /\ TasksOnce' /\ ListsFit(store, answers)'
  BY <1>1, <1>2 DEF TodoTypes, TasksOnce
<1>4. (projectId # "null" => EndsAt(calls, answers, projectId))'
  BY <1>1, EndsMore DEF TodoTypes
<1>5. RowsFollow'
  <2> SUFFICES ASSUME ~stale, projectId # "null"
               PROVE  \/ Comes(Append(calls, c), answers)
                      \/ ShownAs(store, projectId, Append(calls, c), items')
    BY DEF RowsFollow
  <2>1. CASE Comes(calls, answers)
    BY <1>1, <2>1, ComesMore DEF TodoTypes
  <2>2. CASE ShownAs(store, projectId, calls, items)
    BY <1>1, <2>2, ShownMore DEF TodoTypes
  <2> QED BY <1>1, <2>1, <2>2 DEF RowsFollow
<1> QED BY <1>3, <1>4, <1>5 DEF TodoInv

(* The rows stay as they are. *)
LEMMA QuietAskStep ==
  ASSUME TodoInv, NEW c \in Call, c.kind # "list", ~IsMove(c), calls' = Append(calls, c),
         UNCHANGED <<store, added, items, projectId, answers, moves, stale>>
  PROVE  TodoInv'
<1>1. Marks(items') = Apply(c, Marks(items))
  BY NoMove
<1>2. items' \in Seq(Task) /\ OnceEach(items') /\ moves' \in Nat
  BY DEF TodoInv, TodoTypes, TasksOnce
<1> QED BY <1>1, <1>2, AskStep

(* A list of the panel's project is asked for: what the rows are does not matter. *)
LEMMA ListStep ==
  ASSUME TodoInv, projectId' \in TodoProjects,
         calls' = Append(calls, List(projectId')),
         items' \in Seq(Task), OnceEach(items'),
         answers' = answers \/ (answers # <<>> /\ answers' = Tail(answers)),
         UNCHANGED <<store, added, moves, stale>>
  PROVE  TodoInv'
<1>1. TodoTypes /\ TasksOnce /\ ListsFit(store, answers)
  BY DEF TodoInv
<1> DEFINE c == List(projectId')
<1>2. c \in Call /\ c.kind = "list" /\ c.project = projectId'
  BY DEF List, Call, TodoKind
<1> HIDE DEF c
<1>3. calls' = Append(calls, c) /\ calls' \in Seq(Call)
  BY <1>1, <1>2 DEF TodoTypes, c
<1>4. answers' \in Seq(Reply) /\ \A i \in DOMAIN answers' : OnceEach(answers'[i].found)
  <2>1. CASE answers' = answers
    BY <1>1, <2>1 DEF TodoTypes, TasksOnce
  <2>2. CASE answers # <<>> /\ answers' = Tail(answers)
    <3>1. /\ answers' \in Seq(Reply)
          /\ \A i \in DOMAIN answers' : i + 1 \in DOMAIN answers /\ answers'[i] = answers[i + 1]
      BY <1>1, <2>2 DEF TodoTypes
    <3> QED BY <1>1, <3>1 DEF TasksOnce
  <2> QED BY <2>1, <2>2
<1>5. TodoTypes'
  BY <1>1, <1>3, <1>4 DEF TodoTypes
<1>6. TasksOnce'
  BY <1>1, <1>4 DEF TasksOnce
<1>7. ListsFit(store', answers')
  BY <1>1, ListsAnswered DEF TodoTypes
<1>8. EndsAt(calls', answers', projectId')
  BY <1>1, <1>2, <1>3, <1>4, EndsAnew DEF TodoTypes
<1>9. Comes(calls', answers')
  <2>1. WillList(c)
    BY <1>2 DEF WillList
  <2> QED BY <1>1, <1>2, <1>3, <1>4, <2>1, ComesMore DEF TodoTypes
<1> QED BY <1>5, <1>6, <1>7, <1>8, <1>9 DEF TodoInv, RowsFollow

(* Without a project the panel promises nothing. *)
LEMMA NoProjectStep ==
  ASSUME TodoInv, projectId' = "null", items' \in Seq(Task), OnceEach(items'),
         answers' = answers \/ (answers # <<>> /\ answers' = Tail(answers)),
         UNCHANGED <<store, added, calls, moves, stale>>
  PROVE  TodoInv'
<1>1. TodoTypes /\ TasksOnce /\ ListsFit(store, answers)
  BY DEF TodoInv
<1>2. answers' \in Seq(Reply) /\ \A i \in DOMAIN answers' : OnceEach(answers'[i].found)
  <2>1. CASE answers' = answers
    BY <1>1, <2>1 DEF TodoTypes, TasksOnce
  <2>2. CASE answers # <<>> /\ answers' = Tail(answers)
    <3>1. /\ answers' \in Seq(Reply)
          /\ \A i \in DOMAIN answers' : i + 1 \in DOMAIN answers /\ answers'[i] = answers[i + 1]
      BY <1>1, <2>2 DEF TodoTypes
    <3> QED BY <1>1, <3>1 DEF TasksOnce
  <2> QED BY <2>1, <2>2
<1>3. TodoTypes' /\ TasksOnce'
  BY <1>1, <1>2 DEF TodoTypes, TasksOnce
<1>4. ListsFit(store', answers')
  BY <1>1, ListsAnswered DEF TodoTypes
<1> QED BY <1>3, <1>4 DEF TodoInv, RowsFollow

(* Another project, from the tabs or from the modal that was saved.        *)
LEMMA ProjectStep ==
  ASSUME TodoInv, NEW p \in TodoProjects \cup {"null"}, SetProject(p),
         answers' = answers \/ (answers # <<>> /\ answers' = Tail(answers)),
         UNCHANGED <<store, added, moves, stale>>
  PROVE  TodoInv'
<1>1. projectId' = p /\ items' \in Seq(Task) /\ OnceEach(items')
  <2>1. <<>> \in Seq(Task) /\ DOMAIN <<>> = {}
    OBVIOUS
  <2> QED BY <2>1 DEF SetProject, TodoInv, TodoTypes, TasksOnce, OnceEach
<1>2. CASE p = "null"
  <2>1. calls' = calls
    BY <1>2 DEF SetProject
  <2> QED BY <1>1, <1>2, <2>1, NoProjectStep
<1>3. CASE p # "null"
  <2>1. calls' = Append(calls, List(projectId')) /\ projectId' \in TodoProjects
    BY <1>1, <1>3 DEF SetProject
  <2> QED BY <1>1, <2>1, ListStep
<1> QED BY <1>2, <1>3

(* A row that changes, with the command that changes it in the store.      *)
LEMMA RowMoved ==
  ASSUME NEW s \in Seq(Task), OnceEach(s), NEW i \in 1..Len(s), NEW t \in Task, NEW c,
         IsMove(c), c.id = s[i].id, t.id = s[i].id, Mark(t) = After(c, Mark(s[i]))
  PROVE  LET u == SortItems([s EXCEPT ![i] = t])
         IN  u \in Seq(Task) /\ OnceEach(u) /\ Marks(u) = Apply(c, Marks(s))
<1> DEFINE e == [s EXCEPT ![i] = t]
<1>1. /\ e \in Seq(Task) /\ Len(e) = Len(s) /\ DOMAIN e = DOMAIN s
      /\ \A j \in DOMAIN s : e[j] = IF j = i THEN t ELSE s[j]
  OBVIOUS
<1> HIDE DEF e
<1>2. OnceEach(e)
  BY <1>1 DEF OnceEach
<1>3. ASSUME NEW j \in DOMAIN s
      PROVE  Mark(e[j]) = After(c, Mark(s[j]))
  <2>1. CASE j = i
    BY <1>1, <2>1
  <2>2. CASE j # i
    <3>1. s[j].id # c.id
      BY <2>2 DEF OnceEach
    <3>2. After(c, Mark(s[j])) = Mark(s[j])
      BY <3>1 DEF After, Mark
    <3> QED BY <1>1, <2>2, <3>2
  <2> QED BY <2>1, <2>2
<1>4. Marks(e) = Apply(c, Marks(s))
  BY <1>1, <1>3, RowsMoved
<1>5. /\ SortItems(e) \in Seq(Task) /\ ToSet(SortItems(e)) = ToSet(e)
      /\ OnceEach(SortItems(e))
  BY <1>1, <1>2, SortedIs
<1>6. Marks(SortItems(e)) = Marks(e)
  BY <1>5 DEF Marks
<1> QED BY <1>4, <1>5, <1>6 DEF e

LEMMA TickStep ==
  ASSUME TodoInv, ToggleSelected
  PROVE  TodoInv'
<1> DEFINE todo == items[selectedTask]
           t == [todo EXCEPT !.done = ~@]
           c == [kind |-> "toggle", project |-> "null", id |-> todo.id,
                 arg |-> IF todo.done THEN 1 ELSE 0]
<1>1. /\ items \in Seq(Task) /\ OnceEach(items) /\ moves \in Nat
      /\ selectedTask \in 1..Len(items) /\ todo \in Task
  BY DEF TodoInv, TodoTypes, TasksOnce, ToggleSelected
<1>2. t \in Task /\ t.id = todo.id /\ t.done = (~todo.done) /\ t.pos = todo.pos
      /\ c \in Call /\ c.kind = "toggle" /\ c.id = todo.id
  <2>1. /\ todo.done \in BOOLEAN /\ todo.id \in Nat
        /\ todo = [id |-> todo.id, project |-> todo.project, done |-> todo.done,
                   pos |-> todo.pos, at |-> todo.at]
    BY <1>1 DEF Task
  <2>2. t = [id |-> todo.id, project |-> todo.project, done |-> ~todo.done,
             pos |-> todo.pos, at |-> todo.at]
    BY <2>1
  <2>3. t \in Task
    BY <1>1, <2>2 DEF Task
  <2>4. c \in Call /\ c.kind = "toggle" /\ c.id = todo.id
    BY <2>1 DEF Call, TodoKind
  <2> HIDE DEF c
  <2> QED BY <2>2, <2>3, <2>4
<1>3. /\ items' = SortItems([items EXCEPT ![selectedTask] = t])
      /\ calls' = Append(calls, c) /\ moves' = moves + 1
      /\ UNCHANGED <<store, added, projectId, answers, stale>>
  BY <1>1 DEF ToggleSelected
<1> HIDE DEF t, c
<1>4. IsMove(c) /\ Mark(t) = After(c, Mark(todo))
  BY <1>2 DEF IsMove, Mark, After
<1>5. items' \in Seq(Task) /\ OnceEach(items') /\ Marks(items') = Apply(c, Marks(items))
  BY <1>1, <1>2, <1>3, <1>4, RowMoved
<1>6. moves' \in Nat /\ c.kind # "list"
  BY <1>1, <1>2, <1>3
<1> QED BY <1>2, <1>3, <1>5, <1>6, AskStep

LEMMA ReorderStep ==
  ASSUME TodoInv, NEW dir \in {-1, 1}, ReorderSelected(dir)
  PROVE  TodoInv'
<1> DEFINE todo == items[selectedTask]
           pos == NewPosition(selectedTask, dir)
           t == [todo EXCEPT !.pos = pos]
           c == [kind |-> "reorder", project |-> "null", id |-> todo.id, arg |-> pos]
<1>1. /\ items \in Seq(Task) /\ OnceEach(items) /\ moves \in Nat /\ Unit \in Int
      /\ selectedTask \in 1..Len(items) /\ todo \in Task /\ selectedTask + dir \in 1..Len(items)
  BY DEF TodoInv, TodoTypes, TasksOnce, ReorderSelected
<1>2. pos \in Int
  <2>1. ASSUME NEW i \in 1..Len(items)
        PROVE  items[i].pos \in Int
    <3>1. items[i] \in Task
      BY <1>1
    <3> QED BY <3>1 DEF Task
  <2>2. items[selectedTask + dir].pos \in Int
    BY <1>1, <2>1
  <2>3. CASE selectedTask + 2 * dir \in 1..Len(items)
    <3>1. items[selectedTask + 2 * dir].pos \in Int
      BY <2>1, <2>3
    <3> QED BY <2>2, <2>3, <3>1 DEF NewPosition
  <2>4. CASE ~(selectedTask + 2 * dir \in 1..Len(items))
    BY <1>1, <2>2, <2>4 DEF NewPosition
  <2> QED BY <2>3, <2>4
<1> HIDE DEF pos
<1>3. t \in Task /\ t.id = todo.id /\ t.done = todo.done /\ t.pos = pos
      /\ c \in Call /\ c.kind = "reorder" /\ c.id = todo.id /\ c.arg = pos
  BY <1>1, <1>2 DEF Task, Call, TodoKind
<1>4. /\ items' = SortItems([items EXCEPT ![selectedTask] = t])
      /\ calls' = Append(calls, c) /\ moves' = moves + 1
      /\ UNCHANGED <<store, added, projectId, answers, stale>>
  BY <1>1 DEF ReorderSelected, pos
<1> HIDE DEF t, c
<1>5. IsMove(c) /\ Mark(t) = After(c, Mark(todo))
  BY <1>3 DEF IsMove, Mark, After
<1>6. items' \in Seq(Task) /\ OnceEach(items') /\ Marks(items') = Apply(c, Marks(items))
  BY <1>1, <1>3, <1>4, <1>5, RowMoved
<1>7. moves' \in Nat /\ c.kind # "list"
  BY <1>1, <1>3, <1>4
<1> QED BY <1>3, <1>4, <1>6, <1>7, AskStep

(* The other commands the user sends.                                      *)
LEMMA AddStep ==
  ASSUME TodoInv, QuickAdd
  PROVE  TodoInv'
<1> DEFINE c == [kind |-> "add", project |-> projectId, id |-> 0, arg |-> 0]
<1>1. c \in Call /\ c.kind = "add" /\ ~IsMove(c)
  BY DEF TodoInv, TodoTypes, Call, TodoKind, IsMove
<1>2. calls' = Append(calls, c)
  BY DEF QuickAdd
<1>3. UNCHANGED <<store, added, items, projectId, answers, moves, stale>>
  BY DEF QuickAdd
<1> HIDE DEF c
<1> QED BY <1>1, <1>2, <1>3, QuietAskStep

LEMMA DeleteStep ==
  ASSUME TodoInv, DeleteSelected
  PROVE  TodoInv'
<1> DEFINE c == [kind |-> "delete", project |-> "null", id |-> items[selectedTask].id, arg |-> 0]
<1>1. items[selectedTask] \in Task
  BY DEF TodoInv, TodoTypes, DeleteSelected
<1>2. c \in Call /\ c.kind = "delete" /\ ~IsMove(c)
  BY <1>1 DEF Task, Call, TodoKind, IsMove
<1>3. calls' = Append(calls, c)
  BY DEF DeleteSelected
<1>4. UNCHANGED <<store, added, items, projectId, answers, moves, stale>>
  BY DEF DeleteSelected
<1> HIDE DEF c
<1> QED BY <1>2, <1>3, <1>4, QuietAskStep

LEMMA SaveStep ==
  ASSUME TodoInv, NEW p \in TodoProjects, NEW k \in 0..MaxTasks, NEW meta \in BOOLEAN,
         SaveModal(k, p, meta)
  PROVE  TodoInv'
<1> DEFINE c == [kind |-> IF k = 0 THEN "saveNew" ELSE "saveEdit",
                 project |-> p, id |-> k, arg |-> IF meta THEN 1 ELSE 0]
<1>1. c \in Call /\ c.kind # "list" /\ ~IsMove(c)
  BY DEF Call, TodoKind, IsMove
<1>2. calls' = Append(calls, c)
  BY DEF SaveModal
<1>3. UNCHANGED <<store, added, items, projectId, answers, moves, stale>>
  BY DEF SaveModal
<1> HIDE DEF c
<1> QED BY <1>1, <1>2, <1>3, QuietAskStep

(* The next position of a project is a number: there are finitely many.    *)
LEMMA NextIsNumber ==
  ASSUME TodoTypes, NEW p
  PROVE  NextPosition(p) \in Int
<1> DEFINE todo == {i \in DOMAIN store : store[i].project = p /\ ~store[i].done}
           seen == {store[i].pos : i \in todo}
           taken == IF todo = {} THEN {0} ELSE seen
           m == CHOOSE m \in taken : \A o \in taken : o <= m
<1>1. store \in Seq(Task) /\ Unit \in Int
  BY DEF TodoTypes
<1>2. IsFiniteSet(todo)
  <2>1. todo \in SUBSET (1..Len(store)) /\ 1 \in Int /\ Len(store) \in Int
    BY <1>1
  <2> QED BY <2>1, FS_Interval, FS_Subset
<1>3. \A i \in todo : store[i].pos \in Int
  <2> SUFFICES ASSUME NEW i \in todo
               PROVE  store[i].pos \in Int
    OBVIOUS
  <2>1. store[i] \in Task
    BY <1>1
  <2> QED BY <2>1 DEF Task
<1>4. IsFiniteSet(seen)
  <2>1. [i \in todo |-> store[i].pos] \in Surjection(todo, seen)
    BY DEF Surjection
  <2> HIDE DEF todo
  <2> QED BY <1>2, <2>1, FS_Surjection
<1>5. seen \subseteq Int /\ (todo # {} => seen # {})
  <2> HIDE DEF todo
  <2> QED BY <1>3
<1> HIDE DEF todo, seen
<1>6. IsFiniteSet(taken) /\ taken # {} /\ taken \subseteq Int
  BY <1>4, <1>5, FS_Singleton
<1> HIDE DEF taken
<1>7. \E n \in taken : \A o \in taken : o <= n
  BY <1>6, GreatestIsIn
<1>8. m \in Int
  BY <1>6, <1>7
<1>9. NextPosition(p) = m + Unit
  BY DEF NextPosition, m, taken, seen, todo
<1> HIDE DEF m
<1> QED BY <1>1, <1>8, <1>9

(* What the commands make of the store. *)
LEMMA AddedIs ==
  ASSUME TodoTypes, TasksOnce, NEW p \in TodoProjects \cup {"null"}
  PROVE  /\ Added(p) \in Seq(Task) /\ OnceEach(Added(p))
         /\ \A i \in DOMAIN Added(p) : Added(p)[i].id <= added + 1
<1> DEFINE t == [id |-> added + 1, project |-> p, done |-> FALSE, pos |-> NextPosition(p),
                 at |-> 0]
<1>1. t \in Task /\ t.id = added + 1 /\ added \in Nat /\ store \in Seq(Task)
  BY NextIsNumber DEF Task, TodoTypes
<1>2. Added(p) = Append(store, t)
  BY DEF Added
<1> HIDE DEF t
<1> DEFINE u == Append(store, t)
<1>3. /\ u \in Seq(Task) /\ DOMAIN u = 1..Len(store) + 1 /\ u[Len(store) + 1] = t
      /\ DOMAIN store = 1..Len(store) /\ Len(store) \in Nat
      /\ \A i \in DOMAIN store : u[i] = store[i]
  BY <1>1
<1> HIDE DEF u
<1>4. ASSUME NEW i \in DOMAIN store
      PROVE  store[i].id \in Nat /\ store[i].id <= added
  <2>1. store[i] \in Task
    BY <1>1
  <2> QED BY <2>1 DEF Task, TasksOnce
<1>5. \A i \in DOMAIN u : u[i].id <= added + 1
  <2> SUFFICES ASSUME NEW i \in DOMAIN u
               PROVE  u[i].id <= added + 1
    OBVIOUS
  <2>1. CASE i \in DOMAIN store
    BY <1>1, <1>3, <1>4, <2>1
  <2>2. CASE i = Len(store) + 1
    BY <1>1, <1>3, <2>2
  <2> QED BY <1>3, <2>1, <2>2
<1>6. OnceEach(u)
  <2> SUFFICES ASSUME NEW i \in DOMAIN u, NEW j \in DOMAIN u, u[i].id = u[j].id
               PROVE  i = j
    BY DEF OnceEach
  <2>1. CASE i \in DOMAIN store /\ j \in DOMAIN store
    BY <1>3, <2>1 DEF TasksOnce, OnceEach
  <2>2. CASE i = Len(store) + 1 /\ j \in DOMAIN store
    BY <1>1, <1>3, <1>4, <2>2
  <2>3. CASE i \in DOMAIN store /\ j = Len(store) + 1
    BY <1>1, <1>3, <1>4, <2>3
  <2> QED BY <1>3, <2>1, <2>2, <2>3
<1> QED BY <1>2, <1>3, <1>5, <1>6 DEF u

LEMMA TurnedIs ==
  ASSUME NEW t \in Task, NEW n \in Nat
  PROVE  LET u == [t EXCEPT !.done = ~@, !.at = n]
         IN  /\ u \in Task /\ u.id = t.id /\ u.project = t.project
             /\ u.done = ~t.done /\ u.pos = t.pos
<1>1. t.done \in BOOLEAN
  BY DEF Task
<1>2. [t EXCEPT !.done = ~@, !.at = n] = [t EXCEPT !.done = ~t.done, !.at = n]
  OBVIOUS
<1>3. ASSUME NEW d \in BOOLEAN
      PROVE  LET u == [t EXCEPT !.done = d, !.at = n]
             IN  /\ u \in Task /\ u.id = t.id /\ u.project = t.project
                 /\ u.done = d /\ u.pos = t.pos
  BY DEF Task
<1>4. (~t.done) \in BOOLEAN
  BY <1>1
<1> QED BY <1>2, <1>3, <1>4

LEMMA ToggledIs ==
  ASSUME TodoTypes, TasksOnce, NEW c \in Call, c.kind = "toggle"
  PROVE  /\ Toggled(c.id) \in Seq(Task) /\ OnceEach(Toggled(c.id))
         /\ \A i \in DOMAIN Toggled(c.id) : Toggled(c.id)[i].id <= added
         /\ \A p : MarksIn(Toggled(c.id), p) = Apply(c, MarksIn(store, p))
<1> DEFINE u == Toggled(c.id)
           Turned(i) == [store[i] EXCEPT !.done = ~@, !.at = IF store[i].done THEN 0 ELSE moves]
<1>1. store \in Seq(Task) /\ moves \in Nat
  BY DEF TodoTypes
<1>2. ASSUME NEW i \in DOMAIN store
      PROVE  /\ Turned(i) \in Task /\ Turned(i).id = store[i].id /\ Turned(i).project = store[i].project
             /\ Turned(i).done = ~store[i].done /\ Turned(i).pos = store[i].pos
  <2>1. store[i] \in Task
    BY <1>1
  <2>2. (IF store[i].done THEN 0 ELSE moves) \in Nat
    BY <1>1
  <2> QED BY <2>1, <2>2, TurnedIs
<1>3. u = [i \in DOMAIN store |-> IF store[i].id = c.id THEN Turned(i) ELSE store[i]]
  BY DEF Toggled
<1> HIDE DEF u, Turned
<1>4. u \in Seq(Task) /\ Len(u) = Len(store) /\ DOMAIN u = DOMAIN store
  BY <1>1, <1>2, <1>3
<1>5. \A i \in DOMAIN store : u[i].id = store[i].id /\ u[i].project = store[i].project
                              /\ Mark(u[i]) = After(c, Mark(store[i]))
  BY <1>2, <1>3 DEF Mark, After
<1>6. \A p : MarksIn(u, p) = Apply(c, MarksIn(store, p))
  BY <1>1, <1>4, <1>5, StoreMoved
<1>7. OnceEach(u)
  BY <1>4, <1>5 DEF OnceEach, TasksOnce
<1>8. \A i \in DOMAIN u : u[i].id <= added
  BY <1>4, <1>5 DEF TasksOnce
<1> QED BY <1>4, <1>6, <1>7, <1>8 DEF u

LEMMA ReorderedIs ==
  ASSUME TodoTypes, TasksOnce, NEW c \in Call, c.kind = "reorder"
  PROVE  /\ Reordered(c.id, c.arg) \in Seq(Task) /\ OnceEach(Reordered(c.id, c.arg))
         /\ \A i \in DOMAIN Reordered(c.id, c.arg) : Reordered(c.id, c.arg)[i].id <= added
         /\ \A p : MarksIn(Reordered(c.id, c.arg), p) = Apply(c, MarksIn(store, p))
<1> DEFINE u == Reordered(c.id, c.arg)
           Placed(i) == [store[i] EXCEPT !.pos = c.arg]
<1>1. store \in Seq(Task) /\ c.arg \in Int
  BY DEF TodoTypes, Call
<1>2. ASSUME NEW i \in DOMAIN store
      PROVE  /\ Placed(i) \in Task /\ Placed(i).id = store[i].id /\ Placed(i).project = store[i].project
             /\ Placed(i).done = store[i].done /\ Placed(i).pos = c.arg
  <2>1. store[i] \in Task
    BY <1>1
  <2> QED BY <1>1, <2>1 DEF Task
<1>3. u = [i \in DOMAIN store |-> IF store[i].id = c.id THEN Placed(i) ELSE store[i]]
  BY DEF Reordered
<1> HIDE DEF u, Placed
<1>4. u \in Seq(Task) /\ Len(u) = Len(store) /\ DOMAIN u = DOMAIN store
  BY <1>1, <1>2, <1>3
<1>5. \A i \in DOMAIN store : u[i].id = store[i].id /\ u[i].project = store[i].project
                              /\ Mark(u[i]) = After(c, Mark(store[i]))
  BY <1>2, <1>3 DEF Mark, After
<1>6. \A p : MarksIn(u, p) = Apply(c, MarksIn(store, p))
  BY <1>1, <1>4, <1>5, StoreMoved
<1>7. OnceEach(u)
  BY <1>4, <1>5 DEF OnceEach, TasksOnce
<1>8. \A i \in DOMAIN u : u[i].id <= added
  BY <1>4, <1>5 DEF TasksOnce
<1> QED BY <1>4, <1>6, <1>7, <1>8 DEF u

LEMMA DeletedIs ==
  ASSUME TodoTypes, TasksOnce, NEW I, I \subseteq DOMAIN store
  PROVE  /\ Tasks(store, I) \in Seq(Task) /\ OnceEach(Tasks(store, I))
         /\ \A i \in DOMAIN Tasks(store, I) : Tasks(store, I)[i].id <= added
<1> DEFINE u == Tasks(store, I)
<1>1. u \in Seq(Task) /\ ToSet(u) = {store[i] : i \in I} /\ OnceEach(u)
  BY TasksIs DEF TodoTypes, TasksOnce
<1> HIDE DEF u
<1>2. ASSUME NEW i \in DOMAIN u
      PROVE  u[i].id <= added
  <2>1. u[i] \in {store[j] : j \in I}
    BY <1>1 DEF ToSet
  <2> QED BY <2>1 DEF TasksOnce
<1> QED BY <1>1, <1>2 DEF u

(* The store has run a command.                                            *)
LEMMA ServedStep ==
  ASSUME TodoInv, calls # <<>>, NEW r \in Reply,
         r.kind = Head(calls).kind, r.project = Head(calls).project, r.arg = Head(calls).arg,
         OnceEach(r.found), r.kind = "list" => r.found = InProject(store', r.project),
         Changes(r) \/ store' = store,
         store' \in Seq(Task), OnceEach(store'), added' \in Nat,
         \A i \in DOMAIN store' : store'[i].id <= added',
         Relists(r) \/ \A p : MarksIn(store', p) = Apply(Head(calls), MarksIn(store, p)),
         answers' = Append(answers, r), calls' = Tail(calls),
         UNCHANGED <<items, projectId, moves, stale>>
  PROVE  TodoInv'
<1>1. TodoTypes /\ TasksOnce /\ ListsFit(store, answers)
      /\ (projectId # "null" => EndsAt(calls, answers, projectId)) /\ RowsFollow
  BY DEF TodoInv
<1>2. calls \in Seq(Call) /\ answers \in Seq(Reply)
  BY <1>1 DEF TodoTypes
<1>3. calls' \in Seq(Call) /\ answers' \in Seq(Reply)
  BY <1>2
<1>4. TodoTypes'
  BY <1>1, <1>3 DEF TodoTypes
<1>5. TasksOnce'
  <2>1. \A i \in DOMAIN answers' : (i \in DOMAIN answers /\ answers'[i] = answers[i])
                                    \/ answers'[i] = r
    BY <1>2
  <2>2. \A i \in DOMAIN answers' : OnceEach(answers'[i].found)
    BY <1>1, <2>1 DEF TasksOnce
  <2> QED BY <1>1, <2>2 DEF TasksOnce
<1>6. ListsFit(store', answers')
  BY <1>1, <1>2, ListsServed
<1>7. projectId # "null" => EndsAt(calls', answers', projectId)
  BY <1>1, <1>2, EndsServed
<1>8. WillList(Head(calls)) => Relists(r)
  BY DEF WillList, Relists
<1>9. RowsFollow'
  <2> SUFFICES ASSUME ~stale, projectId # "null"
               PROVE  \/ Comes(Tail(calls), Append(answers, r))
                      \/ ShownAs(store', projectId, Tail(calls), items)
    BY DEF RowsFollow
  <2>1. CASE Comes(calls, answers) \/ Relists(r)
    BY <1>2, <1>8, <2>1, ComesServed
  <2>2. CASE ShownAs(store, projectId, calls, items) /\ ~Relists(r)
    BY <1>2, <2>2, ShownLess
  <2> QED BY <1>1, <2>1, <2>2 DEF RowsFollow
<1> QED BY <1>4, <1>5, <1>6, <1>7, <1>9 DEF TodoInv

LEMMA ServeStep ==
  ASSUME TodoInv, NEW ok \in BOOLEAN, Serve(ok)
  PROVE  TodoInv'
<1> DEFINE c == Head(calls)
           found == IF c.kind = "list" THEN TasksOf(c.project) ELSE <<>>
           r == [kind |-> c.kind, project |-> c.project, id |-> c.id, arg |-> c.arg,
                 ok |-> ok, found |-> found]
<1>1. TodoTypes /\ TasksOnce
  BY DEF TodoInv
<1>2. calls # <<>> /\ calls \in Seq(Call) /\ store \in Seq(Task) /\ c \in Call /\ added \in Nat
  BY <1>1 DEF TodoTypes, Serve
<1>3. /\ found \in Seq(Task) /\ OnceEach(found)
      /\ c.kind = "list" => found = InProject(store, c.project)
  <2>1. /\ InProject(store, c.project) \in Seq(Task)
        /\ OnceEach(InProject(store, c.project))
    BY <1>1, <1>2, ListedMarks DEF TasksOnce
  <2>2. TasksOf(c.project) = InProject(store, c.project)
    BY DEF TasksOf, InProject
  <2>3. <<>> \in Seq(Task) /\ OnceEach(<<>>)
    BY DEF OnceEach
  <2> QED BY <2>1, <2>2, <2>3
<1>4. answers' = Append(answers, r) /\ calls' = Tail(calls)
      /\ UNCHANGED <<items, projectId, moves, stale>>
  BY DEF Serve
<1>5. added' = added + (IF ok /\ c.kind \in {"add", "saveNew"} THEN 1 ELSE 0)
  BY DEF Serve
<1>6. store' = IF ok THEN Changed(c) ELSE store
  BY DEF Serve
<1> HIDE DEF c, found
<1>7. r \in Reply /\ r.kind = c.kind /\ r.project = c.project /\ r.arg = c.arg
      /\ r.ok = ok /\ r.found = found
  BY <1>2, <1>3 DEF Reply, Call
<1> HIDE DEF r
<1>8. c.kind \in TodoKind /\ c.project \in TodoProjects \cup {"null"} /\ c.id \in Nat
  BY <1>2 DEF Call
<1>9. SUFFICES /\ c.kind = "list" => store' = store
               /\ Changes(r) \/ store' = store
               /\ store' \in Seq(Task) /\ OnceEach(store') /\ added' \in Nat
               /\ \A i \in DOMAIN store' : store'[i].id <= added'
               /\ Relists(r) \/ \A p : MarksIn(store', p) = Apply(c, MarksIn(store, p))
  BY <1>2, <1>3, <1>4, <1>7, ServedStep DEF c
<1>10. CASE ~ok \/ c.kind \in {"list", "saveEdit"}
  <2>1. store' = store /\ added' = added
    <3>1. CASE ~ok
      BY <1>2, <1>5, <1>6, <3>1
    <3>2. CASE c.kind \in {"list", "saveEdit"}
      BY <1>2, <1>5, <1>6, <3>2 DEF Changed
    <3> QED BY <1>10, <3>1, <3>2
  <2>2. Relists(r) \/ ~IsMove(c)
    BY <1>7, <1>10 DEF Relists, IsMove
  <2>3. ~IsMove(c) => \A p : MarksIn(store, p) = Apply(c, MarksIn(store, p))
    BY NoMove
  <2>4. store \in Seq(Task) /\ OnceEach(store) /\ added \in Nat
        /\ \A i \in DOMAIN store : store[i].id <= added
    BY <1>1 DEF TodoTypes, TasksOnce
  <2> QED BY <2>1, <2>2, <2>3, <2>4
<1>11. CASE ok /\ c.kind \in {"add", "saveNew"}
  <2>1. store' = Added(c.project) /\ added' = added + 1
    BY <1>5, <1>6, <1>11 DEF Changed
  <2>2. Changes(r) /\ Relists(r) /\ c.kind # "list"
    BY <1>7, <1>11 DEF Changes, Relists
  <2> QED BY <1>1, <1>2, <1>8, <2>1, <2>2, AddedIs
<1>12. CASE ok /\ c.kind = "toggle"
  <2>1. store' = Toggled(c.id) /\ added' = added
    BY <1>2, <1>5, <1>6, <1>12 DEF Changed
  <2>2. Changes(r) /\ c.kind # "list"
    BY <1>7, <1>12 DEF Changes
  <2> QED BY <1>1, <1>2, <1>12, <2>1, <2>2, ToggledIs
<1>13. CASE ok /\ c.kind = "reorder"
  <2>1. store' = Reordered(c.id, c.arg) /\ added' = added
    BY <1>2, <1>5, <1>6, <1>13 DEF Changed
  <2>2. Changes(r) /\ c.kind # "list"
    BY <1>7, <1>13 DEF Changes
  <2> QED BY <1>1, <1>2, <1>13, <2>1, <2>2, ReorderedIs
<1>14. CASE ok /\ c.kind = "delete"
  <2> DEFINE I == {i \in DOMAIN store : store[i].id # c.id}
  <2>1. store' = Tasks(store, I) /\ added' = added /\ I \subseteq DOMAIN store
    BY <1>2, <1>5, <1>6, <1>14 DEF Changed, Deleted
  <2>2. Changes(r) /\ Relists(r) /\ c.kind # "list"
    BY <1>7, <1>14 DEF Changes, Relists
  <2> HIDE DEF I
  <2> QED BY <1>1, <1>2, <2>1, <2>2, DeletedIs
<1> QED BY <1>8, <1>10, <1>11, <1>12, <1>13, <1>14 DEF TodoKind

(* An answer is read that brings nothing: neither a list nor a change of   *)
(* the rows, or the panel is stale from then on.                           *)
LEMMA ReadStep ==
  ASSUME TodoInv, answers # <<>>, answers' = Tail(answers), stale' \in BOOLEAN,
         stale' \/ (stale' = stale /\ ~Relists(Head(answers))),
         UNCHANGED <<store, added, items, projectId, calls, moves>>
  PROVE  TodoInv'
<1>1. TodoTypes /\ TasksOnce /\ ListsFit(store, answers)
      /\ (projectId # "null" => EndsAt(calls, answers, projectId)) /\ RowsFollow
  BY DEF TodoInv
<1>2. calls \in Seq(Call) /\ answers \in Seq(Reply)
  BY <1>1 DEF TodoTypes
<1>3. /\ answers' \in Seq(Reply)
      /\ \A i \in DOMAIN answers' : i + 1 \in DOMAIN answers /\ answers'[i] = answers[i + 1]
  BY <1>2
<1>4. TodoTypes' /\ TasksOnce'
  BY <1>1, <1>3 DEF TodoTypes, TasksOnce
<1>5. ListsFit(store', answers')
  BY <1>1, <1>2, ListsAnswered
<1>6. projectId # "null" => EndsAt(calls', answers', projectId)
  BY <1>1, <1>2, EndsAnswered
<1>7. RowsFollow'
  <2> SUFFICES ASSUME ~stale', projectId # "null"
               PROVE  \/ Comes(calls, Tail(answers))
                      \/ ShownAs(store, projectId, calls, items)
    BY DEF RowsFollow
  <2>1. stale' = stale /\ ~Relists(Head(answers))
    OBVIOUS
  <2>2. CASE Comes(calls, answers)
    BY <1>2, <2>1, <2>2, ComesAnswered
  <2> QED BY <1>1, <2>1, <2>2 DEF RowsFollow
<1> QED BY <1>4, <1>5, <1>6, <1>7 DEF TodoInv

(* A list that was read.                                                   *)
LEMMA ListReadStep ==
  ASSUME TodoInv, answers # <<>>, Head(answers).kind = "list", ListArrives(Head(answers)),
         answers' = Tail(answers), UNCHANGED <<store, added, moves>>
  PROVE  TodoInv'
<1> DEFINE a == Head(answers)
<1>1. TodoTypes /\ TasksOnce /\ ListsFit(store, answers)
      /\ (projectId # "null" => EndsAt(calls, answers, projectId)) /\ RowsFollow
  BY DEF TodoInv
<1>2. calls \in Seq(Call) /\ answers \in Seq(Reply) /\ store \in Seq(Task)
  BY <1>1 DEF TodoTypes
<1>3. /\ a \in Reply /\ a = answers[1] /\ 1 \in DOMAIN answers /\ answers' \in Seq(Reply)
      /\ \A i \in DOMAIN answers' : i + 1 \in DOMAIN answers /\ answers'[i] = answers[i + 1]
      /\ \A i \in DOMAIN answers : i > 1 => i - 1 \in DOMAIN answers' /\ answers'[i - 1] = answers[i]
  <2>1. /\ Len(answers) \in Nat /\ Len(answers) >= 1 /\ DOMAIN answers = 1..Len(answers)
        /\ answers' \in Seq(Reply) /\ DOMAIN answers' = 1..Len(answers) - 1
        /\ \A i \in DOMAIN answers' : answers'[i] = answers[i + 1]
        /\ a \in Reply /\ a = answers[1]
    BY <1>2
  <2>2. ASSUME NEW i \in DOMAIN answers, i > 1
        PROVE  i - 1 \in DOMAIN answers' /\ answers'[i - 1] = answers[i]
    <3>1. i - 1 \in DOMAIN answers' /\ (i - 1) + 1 = i
      BY <2>1, <2>2
    <3> QED BY <2>1, <3>1
  <2>3. 1 \in DOMAIN answers /\ \A i \in DOMAIN answers' : i + 1 \in DOMAIN answers
    BY <2>1
  <2> QED BY <2>1, <2>2, <2>3
<1>4. calls' = calls /\ projectId' = projectId
  BY DEF ListArrives
<1>5. CASE ~a.ok
  <2>1. stale' = TRUE /\ items' = items
    BY <1>5 DEF ListArrives
  <2> QED BY <1>4, <2>1, ReadStep
<1>6. CASE a.ok
  <2>1. /\ items' = SortItems(a.found)
        /\ stale' = \E c \in ToSet(Tail(answers) \o calls) : c.kind \in {"toggle", "reorder"}
    BY <1>6 DEF ListArrives
  <2>2. a.found \in Seq(Task) /\ OnceEach(a.found)
    BY <1>1, <1>3 DEF Reply, TasksOnce
  <2>3. /\ items' \in Seq(Task) /\ OnceEach(items')
        /\ Marks(items') = Marks(a.found)
    BY <2>1, <2>2, SortedIs DEF Marks
  <2>4. TodoTypes'
    BY <1>1, <1>3, <1>4, <2>1, <2>3 DEF TodoTypes
  <2>5. TasksOnce'
    BY <1>1, <1>3, <2>3 DEF TasksOnce
  <2>6. ListsFit(store', answers')
    BY <1>1, <1>2, ListsAnswered
  <2>7. projectId' # "null" => EndsAt(calls', answers', projectId')
    BY <1>1, <1>2, <1>4, EndsAnswered
  <2>8. RowsFollow'
    <3> SUFFICES ASSUME ~stale', projectId # "null", ~Comes(calls, answers')
                 PROVE  ShownAs(store, projectId, calls, items')
      BY <1>4 DEF RowsFollow
    <3>1. \A i \in DOMAIN answers' : ~IsMove(answers'[i])
      <4> SUFFICES ASSUME NEW i \in DOMAIN answers'
                   PROVE  ~IsMove(answers'[i])
        OBVIOUS
      <4>1. answers'[i] \in ToSet(Tail(answers) \o calls)
        <5> DEFINE q == Tail(answers)
        <5>1. q \in Seq(Reply) /\ calls \in Seq(Call) /\ i \in DOMAIN q
          BY <1>2
        <5> HIDE DEF q
        <5>2. i \in DOMAIN (q \o calls) /\ (q \o calls)[i] = q[i]
          BY <5>1
        <5> QED BY <5>2 DEF ToSet, q
      <4> QED BY <2>1, <4>1 DEF IsMove
    <3>2. \A i \in DOMAIN calls : ~IsMove(calls[i])
      <4> SUFFICES ASSUME NEW i \in DOMAIN calls
                   PROVE  ~IsMove(calls[i])
        OBVIOUS
      <4>1. calls[i] \in ToSet(Tail(answers) \o calls)
        <5> DEFINE q == Tail(answers)
        <5>1. q \in Seq(Reply)
          BY <1>2
        <5> HIDE DEF q
        <5>2. Len(q) + i \in DOMAIN (q \o calls) /\ (q \o calls)[Len(q) + i] = calls[i]
          BY <1>2, <5>1
        <5> QED BY <5>2 DEF ToSet, q
      <4> QED BY <2>1, <4>1 DEF IsMove
    <3>3. \A i \in DOMAIN answers' : ~Relists(answers'[i])
      BY DEF Comes
    <3>4. \A i \in DOMAIN answers' : answers'[i].kind # "list" /\ ~Changes(answers'[i])
      BY <3>1, <3>3 DEF Relists, Changes, IsMove
    <3>5. \A i \in DOMAIN calls : calls[i].kind # "list"
      BY DEF Comes, WillList
    <3>6. a.project = projectId
      <4> SUFFICES ASSUME a.project # projectId
                   PROVE  FALSE
        OBVIOUS
      <4>1. \/ \E j \in DOMAIN answers : j > 1 /\ answers[j].kind = "list"
            \/ \E j \in DOMAIN calls : calls[j].kind = "list"
        BY <1>1, <1>3 DEF EndsAt
      <4> QED BY <1>3, <3>4, <3>5, <4>1
    <3>7. \A j \in DOMAIN answers : j > 1 => ~Changes(answers[j])
      BY <1>3, <3>4
    <3>8. a.found = InProject(store, projectId)
      BY <1>1, <1>3, <1>6, <3>6, <3>7 DEF ListsFit
    <3>9. Marks(items') = MarksIn(store, projectId)
      BY <1>2, <2>3, <3>8, ListedMarks
    <3> QED BY <1>2, <3>2, <3>9, ShownAtOnce
  <2> QED BY <2>4, <2>5, <2>6, <2>7, <2>8 DEF TodoInv
<1> QED BY <1>5, <1>6

(* A failed command puts the mark back, and the list is read again.        *)
LEMMA RevertedIs ==
  ASSUME TodoTypes, OnceEach(items), NEW a
  PROVE  Reverted(a) \in Seq(Task) /\ OnceEach(Reverted(a))
<1>1. items \in Seq(Task)
  BY DEF TodoTypes
<1>2. CASE a.kind # "toggle"
  BY <1>1, <1>2 DEF Reverted
<1>3. CASE a.kind = "toggle"
  <2> DEFINE u == Reverted(a)
             Back(i) == [items[i] EXCEPT !.done = (a.arg = 1)]
  <2>1. ASSUME NEW i \in DOMAIN items
        PROVE  Back(i) \in Task /\ Back(i).id = items[i].id
    <3>1. items[i] \in Task
      BY <1>1
    <3> QED BY <3>1 DEF Task
  <2>2. u = [i \in DOMAIN items |-> IF items[i].id = a.id THEN Back(i) ELSE items[i]]
    BY <1>3 DEF Reverted
  <2> HIDE DEF u, Back
  <2>3. u \in Seq(Task) /\ DOMAIN u = DOMAIN items
    BY <1>1, <2>1, <2>2
  <2>4. \A i \in DOMAIN items : u[i].id = items[i].id
    BY <2>1, <2>2
  <2>5. OnceEach(u)
    BY <2>3, <2>4 DEF OnceEach
  <2> QED BY <2>3, <2>5 DEF u
<1> QED BY <1>2, <1>3

(* The list is read again when there is a project. *)
LEMMA ReloadStep ==
  ASSUME TodoInv, answers # <<>>, answers' = Tail(answers), calls' = calls \o Reload,
         items' \in Seq(Task), OnceEach(items'),
         UNCHANGED <<store, added, projectId, moves, stale>>
  PROVE  TodoInv'
<1>1. calls \in Seq(Call) /\ projectId \in TodoProjects \cup {"null"}
  BY DEF TodoInv, TodoTypes
<1>2. CASE projectId = "null"
  <2>1. calls' = calls
    BY <1>1, <1>2 DEF Reload
  <2> QED BY <1>2, <2>1, NoProjectStep
<1>3. CASE projectId # "null"
  <2>1. calls' = calls \o <<List(projectId)>>
    BY <1>3 DEF Reload
  <2>2. List(projectId) \in Call
    BY <1>1 DEF List, Call, TodoKind
  <2>3. calls \o <<List(projectId)>> = Append(calls, List(projectId))
    BY <1>1, <2>2
  <2>4. calls' = Append(calls, List(projectId')) /\ projectId' \in TodoProjects
    BY <1>1, <1>3, <2>1, <2>3
  <2> QED BY <2>4, ListStep
<1> QED BY <1>2, <1>3

(* The second command of a save with a priority, a date or a note.         *)
LEMMA SecondStep ==
  ASSUME TodoInv, answers # <<>>, answers' = Tail(answers), NEW c \in Call,
         c.kind = "saveEdit" /\ c.arg = 1, calls' = Append(calls, c),
         UNCHANGED <<store, added, items, projectId, moves, stale>>
  PROVE  TodoInv'
<1>1. TodoTypes /\ TasksOnce /\ ListsFit(store, answers)
      /\ (projectId # "null" => EndsAt(calls, answers, projectId))
  BY DEF TodoInv
<1>2. calls \in Seq(Call) /\ answers \in Seq(Reply)
  BY <1>1 DEF TodoTypes
<1>3. /\ answers' \in Seq(Reply) /\ calls' \in Seq(Call)
      /\ \A i \in DOMAIN answers' : i + 1 \in DOMAIN answers /\ answers'[i] = answers[i + 1]
  BY <1>2
<1>4. TodoTypes' /\ TasksOnce'
  BY <1>1, <1>3 DEF TodoTypes, TasksOnce
<1>5. ListsFit(store', answers')
  BY <1>1, <1>2, ListsAnswered
<1>6. projectId # "null" => EndsAt(calls', answers', projectId)
  <2>1. projectId # "null" => EndsAt(calls, answers', projectId)
    BY <1>1, <1>2, EndsAnswered
  <2> QED BY <1>2, <1>3, <2>1, EndsMore
<1>7. Comes(calls', answers')
  <2>1. WillList(c)
    BY DEF WillList
  <2> QED BY <1>2, <1>3, <2>1, ComesMore
<1> QED BY <1>4, <1>5, <1>6, <1>7 DEF TodoInv, RowsFollow

LEMMA AnswerStep ==
  ASSUME TodoInv, Answer
  PROVE  TodoInv'
<1> DEFINE a == Head(answers)
<1>1. answers # <<>> /\ answers' = Tail(answers) /\ UNCHANGED <<store, added, moves>>
  BY DEF Answer
<1>2. TodoTypes /\ items \in Seq(Task) /\ OnceEach(items) /\ stale \in BOOLEAN
      /\ answers \in Seq(Reply)
  BY DEF TodoInv, TodoTypes, TasksOnce
<1>3. a \in Reply
  BY <1>1, <1>2
<1>4. CASE a.kind = "list" /\ ListArrives(a)
  BY <1>1, <1>4, ListReadStep
<1>5. CASE a.kind \in {"add", "delete"} /\ ChangeArrives(a)
  <2>1. UNCHANGED <<items, projectId, stale>>
    BY <1>5 DEF ChangeArrives
  <2>2. CASE a.ok
    <3>1. calls' = calls \o Reload
      BY <1>5, <2>2 DEF ChangeArrives
    <3> QED BY <1>1, <1>2, <2>1, <3>1, ReloadStep
  <2>3. CASE ~a.ok
    <3>1. calls' = calls /\ ~Relists(a)
      BY <1>5, <2>3 DEF ChangeArrives, Relists
    <3> QED BY <1>1, <1>2, <2>1, <3>1, ReadStep
  <2> QED BY <2>2, <2>3
<1>6. CASE a.kind \in {"toggle", "reorder"} /\ MoveArrives(a)
  <2>1. CASE a.ok
    <3>1. ~Relists(a) /\ UNCHANGED <<items, projectId, calls, stale>>
      BY <1>6, <2>1 DEF MoveArrives, Relists
    <3> QED BY <1>1, <1>2, <3>1, ReadStep
  <2>2. CASE ~a.ok
    <3>1. /\ items' = Reverted(a) /\ calls' = calls \o Reload
          /\ UNCHANGED <<projectId, stale>>
      BY <1>6, <2>2 DEF MoveArrives
    <3> QED BY <1>1, <1>2, <3>1, RevertedIs, ReloadStep
  <2> QED BY <2>1, <2>2
<1>7. CASE a.kind \in {"saveNew", "saveEdit"} /\ SaveArrives(a)
  <2>1. CASE a.ok /\ a.kind = "saveNew" /\ a.arg = 1
    <3> DEFINE c == [kind |-> "saveEdit", project |-> a.project, id |-> a.id, arg |-> 1]
    <3>1. c \in Call /\ c.kind = "saveEdit" /\ c.arg = 1
      BY <1>3 DEF Reply, Call, TodoKind
    <3>2. calls' = Append(calls, c) /\ UNCHANGED <<items, projectId, stale>>
      BY <1>7, <2>1 DEF SaveArrives
    <3> HIDE DEF c
    <3> QED BY <1>1, <3>1, <3>2, SecondStep
  <2>2. CASE a.ok /\ ~(a.kind = "saveNew" /\ a.arg = 1)
    <3>1. SetProject(a.project) /\ stale' = stale /\ a.project \in TodoProjects \cup {"null"}
      BY <1>3, <1>7, <2>2 DEF SaveArrives, Reply
    <3> QED BY <1>1, <3>1, ProjectStep
  <2>3. CASE ~a.ok
    <3>1. /\ stale' = (stale \/ (a.kind = "saveEdit" /\ a.arg = 1))
          /\ UNCHANGED <<items, projectId, calls>>
      BY <1>7, <2>3 DEF SaveArrives
    <3>2. stale' \in BOOLEAN /\ (stale' \/ (stale' = stale /\ ~Relists(a)))
      BY <1>2, <1>7, <2>3, <3>1 DEF Relists
    <3> QED BY <1>1, <3>1, <3>2, ReadStep
  <2> QED BY <2>1, <2>2, <2>3
<1> QED BY <1>4, <1>5, <1>6, <1>7 DEF Answer

(* Every step keeps the invariant. *)
LEMMA TodoStep == TodoInv /\ [TodoNext]_todoVars => TodoInv'
<1> SUFFICES ASSUME TodoInv, [TodoNext]_todoVars PROVE TodoInv'
  OBVIOUS
<1>1. ASSUME NEW p \in TodoProjects \cup {"null"}, ActivateProject(p)
      PROVE  TodoInv'
  <2>1. SetProject(p) /\ UNCHANGED <<store, added, answers, moves, stale>>
    BY <1>1 DEF ActivateProject
  <2> QED BY <2>1, ProjectStep
<1>2. ASSUME UNCHANGED <<store, added, items, projectId, calls, answers, moves, stale>>
      PROVE  TodoInv'
  BY <1>2 DEF TodoInv, TodoTypes, TasksOnce, RowsFollow
<1>3. ASSUME NEW i, Select(i)
      PROVE  TodoInv'
  BY <1>2, <1>3 DEF Select
<1>4. CASE UNCHANGED todoVars
  BY <1>2, <1>4 DEF todoVars
<1> QED BY <1>1, <1>3, <1>4, SaveStep, AddStep, TickStep, DeleteStep, ReorderStep, ServeStep,
           AnswerStep DEF TodoNext

(* The panel as a specification of its own. *)
TodoSpec == TodoInit /\ [][TodoNext]_todoVars

(* Whenever no command is under way, the panel shows the tasks of its       *)
(* project as the store has them (todopanel.ts reload, toggleSelected,     *)
(* reorderSelected; todomodal.ts save), whatever was sent, refused or      *)
(* asked for by another project meanwhile, for any projects and any number *)
(* of tasks and commands.                                                  *)
THEOREM PanelShowsTheStore ==
  ASSUME Unit \in Int
  PROVE  TodoSpec => []PanelAgrees
<1>1. TodoInit => TodoInv
  BY TodoStart
<1> QED BY <1>1, TodoStep, TodoIsSafe, PTL DEF TodoSpec

(***************************************************************************)
(* Updates                                                                 *)
(***************************************************************************)
ModalTypeOK ==
    modal \in [open : BOOLEAN, locked : BOOLEAN,
               last : {"available", "downloading", "ready", "error"}]

Installing(next) == next \in {"downloading", "ready"}

(* What a modal shows next locks it, unless it is an error. *)
LEMMA RenderedLocks ==
    ASSUME ModalTypeOK, NEW next \in {"downloading", "ready", "error"},
           modal.open /\ Installing(modal.last) => modal.locked,
           modal' = Rendered(modal, next)
    PROVE  /\ ModalTypeOK' /\ modal'.open = modal.open
           /\ modal'.open /\ Installing(next) => modal'.locked
           /\ modal'.open /\ Installing(modal'.last) => modal'.locked
BY DEF Rendered, ModalTypeOK, Installing

(* Only an unlocked modal offers a button, and a modal that has shown a    *)
(* download is locked until the download fails.                            *)
GuardedInv ==
    /\ ModalTypeOK /\ unguarded \in BOOLEAN
    /\ download \in [1..MaxDownloads -> {"none", "running", "ready"}]
    /\ modal.open /\ Installing(modal.last) => modal.locked
    /\ ~unguarded =>
          /\ \A i, j \in Running : i = j
          /\ Running # {} => modal.open /\ modal.locked

(* One release is downloaded at a time (updates.ts install, updatemodal.ts *)
(* render), for every number of checks and downloads under way.            *)
THEOREM OneInstallAtATime ==
    ASSUME MaxDownloads \in Nat
    PROVE  UpdateInit /\ [][UpdateNext]_updateVars => []OneDownload
<1>1. UpdateInit => GuardedInv
  <2> SUFFICES ASSUME UpdateInit PROVE GuardedInv
    OBVIOUS
  <2>1. /\ modal = [open |-> FALSE, locked |-> FALSE, last |-> "available"]
        /\ download = [i \in 1..MaxDownloads |-> "none"] /\ unguarded = FALSE
    BY DEF UpdateInit, Closed, NoDownload
  <2>2. ModalTypeOK /\ ~modal.open
    BY <2>1 DEF ModalTypeOK
  <2>3. Running = {}
    BY <2>1 DEF Running
  <2> QED
    BY <2>1, <2>2, <2>3 DEF GuardedInv
<1>2. GuardedInv /\ [UpdateNext]_updateVars => GuardedInv'
  <2> SUFFICES ASSUME GuardedInv, [UpdateNext]_updateVars PROVE GuardedInv'
    OBVIOUS
  <2> USE DEF GuardedInv
  <2>1. ASSUME UNCHANGED <<modal, download, unguarded>> PROVE GuardedInv'
    BY <2>1 DEF ModalTypeOK, Running
  <2>2. CASE CheckManual \/ FadeEnds \/ UNCHANGED updateVars
    BY <2>1, <2>2 DEF CheckManual, FadeEnds, updateVars
  <2>3. ASSUME NEW k, NEW v, CheckFinds(k, v) PROVE GuardedInv'
    BY <2>3 DEF CheckFinds, CheckEnds, Prompted, OpenedModal, Closed, ModalTypeOK,
                Running, Installing
  <2>4. ASSUME NEW k, CheckFindsNone(k) PROVE GuardedInv'
    BY <2>1, <2>4 DEF CheckFindsNone, CheckEnds
  <2>5. ASSUME NEW k, CheckFails(k) PROVE GuardedInv'
    <3>1. CASE k = "manual"
      BY <2>5, <3>1, RenderedLocks DEF CheckFails, CheckEnds, Told, Running
    <3>2. CASE k # "manual"
      BY <2>1, <2>5, <3>2 DEF CheckFails, CheckEnds
    <3> QED
      BY <3>1, <3>2
  <2>6. CASE OpenUpdatePrompt
    BY <2>6 DEF OpenUpdatePrompt, OpenedModal, Closed, ModalTypeOK, Running, Installing
  <2>7. CASE Dismiss
    BY <2>7 DEF Dismiss, Closed, ModalTypeOK, Running, Installing
  <2>8. ASSUME NEW i \in 1..MaxDownloads, ClickInstall(i) PROVE GuardedInv'
    <3>1. modal' = Rendered(modal, "downloading") /\ UNCHANGED unguarded
          /\ download' = [download EXCEPT ![i] = "running"] /\ modal.open /\ ~modal.locked
      BY <2>8 DEF ClickInstall, Install, Told
    <3>2. ~unguarded => Running' = {i}
      BY <3>1 DEF Running
    <3> QED
      BY <3>1, <3>2, RenderedLocks DEF Installing
  <2>9. ASSUME NEW i \in 1..MaxDownloads, ClickFading(i) PROVE GuardedInv'
    <3>1. modal' = Rendered(modal, "downloading") /\ unguarded'
          /\ download' = [download EXCEPT ![i] = "running"]
      BY <2>9 DEF ClickFading, Install, Told
    <3>2. unguarded' \in BOOLEAN
      BY <2>9 DEF ClickFading
    <3> QED
      BY <3>1, <3>2, RenderedLocks
  <2>10. ASSUME NEW i \in 1..MaxDownloads, DownloadMoves(i) PROVE GuardedInv'
    <3>1. PICK next \in {"downloading", "ready"} :
            /\ modal' = Rendered(modal, next) /\ UNCHANGED unguarded
            /\ download' = IF next = "ready" THEN [download EXCEPT ![i] = "ready"]
                           ELSE download
      BY <2>10 DEF DownloadMoves, Told
    <3>2. Running' = Running
      BY <2>10, <3>1 DEF DownloadMoves, Running
    <3> QED
      BY <3>1, <3>2, RenderedLocks DEF Installing
  <2>11. ASSUME NEW i \in 1..MaxDownloads, InstallFails(i) PROVE GuardedInv'
    <3>1. /\ download' = [download EXCEPT ![i] = "none"] /\ i \in Running
          /\ modal' = Rendered(modal, "error") /\ UNCHANGED unguarded
      BY <2>11 DEF InstallFails, Told, Running
    <3>2. Running' = Running \ {i}
      BY <3>1 DEF Running
    <3>3. ~unguarded => Running' = {}
      BY <3>1, <3>2
    <3> QED
      BY <3>1, <3>3, RenderedLocks
  <2>12. ASSUME NEW i \in 1..MaxDownloads, Relaunch(i) PROVE GuardedInv'
    BY <2>12 DEF Relaunch, NoDownload, Closed, ModalTypeOK, Running, Installing
  <2> QED
    BY <2>2, <2>3, <2>4, <2>5, <2>6, <2>7, <2>8, <2>9, <2>10, <2>11, <2>12
       DEF UpdateNext
<1>3. GuardedInv => OneDownload
  <2> SUFFICES ASSUME \A i, j \in Running : i = j PROVE Cardinality(Running) <= 1
    BY DEF GuardedInv, OneDownload
  <2>1. CASE Running = {}
    BY <2>1, FS_EmptySet
  <2>2. ASSUME NEW i \in Running PROVE Cardinality(Running) <= 1
    <3>1. Running = {i}
      BY <2>2
    <3>2. Cardinality({i}) = 1
      BY FS_Singleton
    <3> QED
      BY <3>1, <3>2
  <2> QED
    BY <2>1, <2>2
<1> QED
  BY <1>1, <1>2, <1>3, PTL

(***************************************************************************)
(* Screencast                                                              *)
(***************************************************************************)
CastEnds == [rec : 1..recorded, ok : BOOLEAN]

(* What is on its way is of the last recording, which is over then, and a  *)
(* recording that failed has no end that says otherwise.                   *)
EndsAreOfTheLast ==
    \A e \in events \cup replies :
        e.rec = recorded /\ recorder = 0 /\ (e.ok => recorded \notin failed)

(* The error of an earlier recording has been shown; that of the last one  *)
(* is shown when the flag falls.                                           *)
ToldOnce ==
    /\ \A r \in failed : r < recorded => toasts[r] = 1
    /\ recorded \in failed => toasts[recorded] = IF recording THEN 0 ELSE 1
    /\ recorder # 0 => toasts[recorded] = 0
    /\ \A r \in 1..MaxRecordings : r > recorded => toasts[r] = 0

CastInv ==
    /\ recorded \in Nat /\ recorded <= MaxRecordings
    /\ recording \in BOOLEAN /\ recorder \in {0, recorded}
    /\ toasts \in [1..MaxRecordings -> Nat]
    /\ events \subseteq CastEnds /\ replies \subseteq CastEnds
    /\ failed \subseteq 1..recorded
    /\ recorder # 0 => recording /\ recorded \notin failed
    /\ recording => recorder # 0 \/ ~Quiet
    /\ EndsAreOfTheLast /\ ToldOnce

(* A step that leaves the books of the recordings alone. *)
castBooks == <<recording, recorder, recorded, failed, events, replies, toasts>>

LEMMA CastAside ==
    ASSUME CastInv, UNCHANGED castBooks
    PROVE  CastInv'
BY DEF CastInv, castBooks, CastEnds, EndsAreOfTheLast, ToldOnce, Quiet

(* An end or a reply that is heard: the flag falls, and an error is shown  *)
(* if it stood and the end was a failure.                                  *)
HeardAs(e) ==
    /\ recording' = FALSE /\ UNCHANGED <<recorder, recorded, failed>>
    /\ events' \subseteq events /\ replies' \subseteq replies
    /\ toasts' = IF ~e.ok /\ recording THEN [toasts EXCEPT ![e.rec] = @ + 1] ELSE toasts

LEMMA HeardKeeps ==
    ASSUME CastInv, NEW e \in events \cup replies, HeardAs(e)
    PROVE  CastInv'
<1>1. /\ e.rec = recorded /\ recorder = 0 /\ (e.ok => recorded \notin failed)
      /\ recorded \in 1..MaxRecordings /\ recorded \in Nat
  BY DEF CastInv, CastEnds, EndsAreOfTheLast
<1>2. /\ toasts' \in [1..MaxRecordings -> Nat]
      /\ \A r \in 1..MaxRecordings : r # recorded => toasts'[r] = toasts[r]
      /\ ~e.ok /\ recording => toasts'[recorded] = toasts[recorded] + 1
      /\ ~recording => toasts'[recorded] = toasts[recorded]
  BY <1>1 DEF CastInv, HeardAs
<1>3. ToldOnce'
  <2>1. \A r \in failed' : r < recorded' => toasts'[r] = 1
    BY <1>1, <1>2 DEF CastInv, ToldOnce, HeardAs
  <2>2. recorded' \in failed' => toasts'[recorded'] = 1
    BY <1>1, <1>2 DEF CastInv, ToldOnce, HeardAs
  <2>3. \A r \in 1..MaxRecordings : r > recorded' => toasts'[r] = 0
    BY <1>1, <1>2 DEF CastInv, ToldOnce, HeardAs
  <2> QED
    BY <1>1, <2>1, <2>2, <2>3 DEF ToldOnce, HeardAs
<1>4. EndsAreOfTheLast'
  BY DEF CastInv, EndsAreOfTheLast, HeardAs
<1> QED
  BY <1>1, <1>2, <1>3, <1>4 DEF CastInv, CastEnds, HeardAs

(* A recording ends: its end is on the way, to one or to both. *)
LEMMA EndKeeps ==
    ASSUME CastInv, NEW ok \in BOOLEAN, Ends(ok),
           replies' \in {replies, replies \cup {[rec |-> recorder, ok |-> ok]}}
    PROVE  CastInv'
<1> DEFINE end == [rec |-> recorded, ok |-> ok]
<1>1. /\ recorder = recorded /\ recorder' = 0 /\ recording /\ recorded \notin failed
      /\ recorded \in 1..MaxRecordings /\ toasts[recorded] = 0
      /\ UNCHANGED <<recording, recorded, toasts>>
  BY DEF CastInv, Ends, ToldOnce
<1>2. events = {} /\ replies = {}
  BY <1>1 DEF CastInv, EndsAreOfTheLast
<1>3. events' = {end} /\ replies' \in {{}, {end}}
  BY <1>1, <1>2 DEF Ends
<1>4. failed' = IF ok THEN failed ELSE failed \cup {recorded}
  BY <1>1 DEF Ends
<1>5. EndsAreOfTheLast'
  BY <1>1, <1>3, <1>4 DEF EndsAreOfTheLast
<1>6. ToldOnce'
  BY <1>1, <1>4 DEF CastInv, ToldOnce
<1>7. end \in CastEnds
  BY <1>1 DEF CastEnds, CastInv
<1>8. failed' \subseteq 1..recorded
  BY <1>1, <1>4 DEF CastInv
<1>9. ~Quiet'
  BY <1>3 DEF Quiet
<1> QED
  BY <1>1, <1>3, <1>5, <1>6, <1>7, <1>8, <1>9 DEF CastInv, CastEnds

(* A failure resets the feature and is told once (screencast.ts), for any  *)
(* number of recordings and of calls that begin one.                       *)
THEOREM FailuresReset ==
    ASSUME MaxRecordings \in Nat
    PROVE  CastInit /\ [][CastNext]_castVars => []FailureResetsOnce
<1>1. CastInit => CastInv
  <2> SUFFICES ASSUME CastInit PROVE CastInv
    OBVIOUS
  <2>1. /\ recording = FALSE /\ recorder = 0 /\ recorded = 0 /\ failed = {}
        /\ events = {} /\ replies = {} /\ toasts = [r \in 1..MaxRecordings |-> 0]
    BY DEF CastInit
  <2>2. EndsAreOfTheLast
    BY <2>1 DEF EndsAreOfTheLast
  <2>3. ToldOnce
    BY <2>1 DEF ToldOnce
  <2>4. toasts \in [1..MaxRecordings -> Nat]
    BY <2>1
  <2>5. /\ recorded \in Nat /\ recorded <= MaxRecordings /\ recorder \in {0, recorded}
        /\ failed \subseteq 1..recorded
    BY <2>1
  <2>6. recording \in BOOLEAN
    BY <2>1, Zenon
  <2> QED
    BY <2>1, <2>2, <2>3, <2>4, <2>5, <2>6 DEF CastInv
<1>2. CastInv /\ [CastNext]_castVars => CastInv'
  <2> SUFFICES ASSUME CastInv, [CastNext]_castVars PROVE CastInv'
    OBVIOUS
  <2>1. CASE UNCHANGED castVars
    BY <2>1, CastAside DEF castVars, castBooks
  <2>2. ASSUME NEW b \in Begins,
               \/ OpenSelector(b) \/ Cancel(b) \/ BeginRecording(b) \/ SelectRegion(b)
               \/ RunCountdown(b) \/ BeginFails(b) \/ OpenHud(b) \/ OpenFrame(b)
        PROVE  CastInv'
    BY <2>2, CastAside DEF OpenSelector, Cancel, BeginRecording, SelectRegion,
       RunCountdown, BeginFails, OpenHud, OpenFrame, Aside, backVars, castBooks
  <2>3. ASSUME NEW b \in Begins, StartRecording(b) PROVE CastInv'
    <3>1. /\ recorder = 0 /\ Quiet /\ recorded < MaxRecordings
          /\ recorded' = recorded + 1 /\ recorder' = recorded + 1 /\ recording' = TRUE
          /\ UNCHANGED <<failed, events, replies, toasts>>
      BY <2>3 DEF StartRecording
    <3>2. ~recording /\ events = {} /\ replies = {} /\ recorded \in Nat
      BY <3>1 DEF CastInv, Quiet
    <3>3. ToldOnce'
      <4>1. \A r \in failed : toasts[r] = 1
        BY <3>2 DEF CastInv, ToldOnce
      <4>2. recorded + 1 \notin failed
        BY <3>2 DEF CastInv
      <4>3. toasts[recorded + 1] = 0
        BY <3>1, <3>2 DEF CastInv, ToldOnce
      <4> QED
        BY <3>1, <3>2, <4>1, <4>2, <4>3 DEF CastInv, ToldOnce
    <3>4. failed' \subseteq 1..recorded'
      BY <3>1, <3>2 DEF CastInv
    <3>5. recorded' \notin failed' /\ recorded' \in Nat /\ recorded' <= MaxRecordings
      BY <3>1, <3>2 DEF CastInv
    <3>6. EndsAreOfTheLast'
      BY <3>1, <3>2 DEF EndsAreOfTheLast
    <3> QED
      BY <3>1, <3>2, <3>3, <3>4, <3>5, <3>6 DEF CastInv, Quiet
  <2>4. ASSUME NEW r \in 1..MaxRecordings, AskFinishPrompt(r) PROVE CastInv'
    BY <2>4, CastAside DEF AskFinishPrompt, backVars, castBooks
  <2>5. CASE StoppedElsewhere
    BY <2>5, EndKeeps DEF StoppedElsewhere
  <2>6. CASE StopAndFinish
    <3>1. CASE \E ok \in BOOLEAN :
                 Ends(ok) /\ replies' = replies \cup {[rec |-> recorder, ok |-> ok]}
      BY <3>1, EndKeeps
    <3>2. CASE /\ recording /\ recorder = 0
               /\ replies' = replies \cup {[rec |-> recorded, ok |-> FALSE]}
               /\ UNCHANGED <<recording, recorder, recorded, failed, events, toasts>>
      <4>1. recorded \in 1..recorded
        BY <3>2 DEF CastInv, Quiet, CastEnds
      <4>2. EndsAreOfTheLast'
        <5> DEFINE refused == [rec |-> recorded, ok |-> FALSE]
        <5>1. refused.rec = recorded /\ ~refused.ok
          OBVIOUS
        <5>2. \A e \in events' \cup replies' : e \in events \cup replies \/ e = refused
          BY <3>2
        <5> QED
          BY <3>2, <5>1, <5>2 DEF CastInv, EndsAreOfTheLast
      <4>3. replies' \subseteq CastEnds'
        <5>1. [rec |-> recorded, ok |-> FALSE] \in CastEnds
          BY <4>1 DEF CastEnds
        <5>2. CastEnds' = CastEnds
          BY <3>2 DEF CastEnds
        <5> QED
          BY <3>2, <5>1, <5>2 DEF CastInv
      <4>4. ToldOnce'
        BY <3>2 DEF CastInv, ToldOnce
      <4>5. ~Quiet'
        BY <3>2 DEF Quiet
      <4> QED
        BY <3>2, <4>2, <4>3, <4>4, <4>5 DEF CastInv, CastEnds
    <3> QED
      BY <2>6, <3>1, <3>2 DEF StopAndFinish
  <2>7. ASSUME NEW e \in events, EndIsHeard(e) PROVE CastInv'
    <3>1. HeardAs(e)
      BY <2>7 DEF EndIsHeard, Reports, Finish, HeardAs, CastInv
    <3> QED
      BY <3>1, HeardKeeps
  <2>8. ASSUME NEW e \in replies, StopReplies(e) PROVE CastInv'
    <3>1. HeardAs(e)
      BY <2>8 DEF StopReplies, Reports, Finish, HeardAs, CastInv
    <3> QED
      BY <3>1, HeardKeeps
  <2> QED
    BY <2>1, <2>2, <2>3, <2>4, <2>5, <2>6, <2>7, <2>8 DEF CastNext
<1>3. CastInv => FailureResetsOnce
  <2> SUFFICES ASSUME CastInv PROVE FailureResetsOnce
    OBVIOUS
  <2>1. \A r \in failed : r < recorded \/ r = recorded
    BY DEF CastInv
  <2>2. ASSUME recorded \in failed PROVE toasts[recorded] <= 1
    BY <2>2 DEF CastInv, ToldOnce
  <2>3. ASSUME recorded \in failed, Quiet PROVE toasts[recorded] = 1
    BY <2>3 DEF CastInv, ToldOnce
  <2> QED
    BY <2>1, <2>2, <2>3 DEF CastInv, ToldOnce, FailureResetsOnce
<1> QED
  BY <1>1, <1>2, <1>3, PTL

(***************************************************************************)
(* WebglPool                                                               *)
(*                                                                         *)
(* The contexts that are alive fit the cap, for any terminals and caps     *)
(* (Fits in ContextsFit), and with them the pool's own books, which        *)
(* ContextsFit needs: a context is only held by an active entry, the       *)
(* active entries are the listed ones, and they fit the cap.               *)
(***************************************************************************)
PoolTyped ==
    /\ life \in [Terminals -> {"new", "loading", "open", "late", "gone"}]
    /\ wantWebgl \in [Terminals -> BOOLEAN]
    /\ entries \subseteq Terminals
    /\ stamp \in [Terminals -> Nat]
    /\ touches \in Nat
    /\ cap \in Nat /\ cap >= 1
    /\ enabled \in BOOLEAN /\ exhausted \in BOOLEAN

\* The books of the pool: active, listed and registered agree, and they fit.
Booked ==
    /\ live \subseteq active
    /\ active = Listed
    /\ active \subseteq entries
    /\ Cardinality(active) <= cap
    /\ \A t \in active : life[t] = "open"
    /\ \A t \in entries : life[t] \in {"open", "gone"}
    /\ exhausted \/ ~enabled => active = {}

PoolInv == PoolTyped /\ Booked

LEMMA SmallSet ==
    ASSUME PoolConstantsOk, NEW S \in SUBSET Terminals
    PROVE  IsFiniteSet(S) /\ Cardinality(S) \in Nat
BY FS_Subset, FS_CardinalityType DEF PoolConstantsOk

LEMMA NothingFits ==
    ASSUME NEW c \in Nat
    PROVE  Cardinality({}) <= c
BY FS_EmptySet

LEMMA CapIsPositive ==
    ASSUME NEW c \in Nat
    PROVE  AtLeastOne(c) \in Nat /\ AtLeastOne(c) >= 1
BY DEF AtLeastOne

\* The coldest of a set of terminals is one of them.
LEMMA ColdestIsOne ==
    ASSUME PoolConstantsOk, PoolTyped, NEW S \in SUBSET Terminals, S # {}
    PROVE  Coldest(S) \in S
<1> DEFINE Colder(v) == {u \in S : stamp[u] <= stamp[v]}
           sets == {Colder(v) : v \in S}
<1>1. sets # {} /\ sets \subseteq FiniteSubsetsOf(S)
  <2>1. IsFiniteSet(S) /\ FiniteSubsetsOf(S) = SUBSET S
    BY SmallSet, FS_FiniteSubsetsOfFinite
  <2>2. sets \subseteq SUBSET S
    OBVIOUS
  <2>3. sets # {}
    OBVIOUS
  <2> HIDE DEF sets
  <2> QED
    BY <2>1, <2>2, <2>3
<1>2. PICK X \in sets : \A Y \in sets : ~(<<Y, X>> \in StrictSubsetOrdering(S))
  <2>1. IsWellFoundedOn(StrictSubsetOrdering(S), FiniteSubsetsOf(S))
    BY FS_StrictSubsetOrderingWellFounded
  <2> QED
    BY <2>1, <1>1, WFMin
<1>3. PICK v \in S : X = Colder(v)
  OBVIOUS
<1>4. \A w \in S : stamp[v] <= stamp[w]
  <2> SUFFICES ASSUME NEW w \in S, ~(stamp[v] <= stamp[w])
               PROVE  FALSE
    OBVIOUS
  <2>1. stamp[v] \in Nat /\ \A u \in S : stamp[u] \in Nat
    BY DEF PoolTyped
  <2>2. Colder(w) \subseteq Colder(v) /\ v \in Colder(v) /\ v \notin Colder(w)
    BY <2>1
  <2>3. <<Colder(w), Colder(v)>> \in StrictSubsetOrdering(S)
    BY <2>2 DEF StrictSubsetOrdering
  <2> QED
    BY <1>2, <1>3, <2>3
<1> QED
  BY <1>4 DEF Coldest

LEMMA PoolInitially ==
    ASSUME PoolConstantsOk
    PROVE  PoolInit => PoolInv
<1> SUFFICES ASSUME PoolInit PROVE PoolInv
  OBVIOUS
<1>1. cap \in Nat /\ cap >= 1
  BY CapIsPositive DEF PoolConstantsOk, PoolInit
<1>2. Listed = {}
  BY DEF PoolInit, Listed
<1> QED
  BY <1>1, <1>2, NothingFits DEF PoolInit, PoolInv, PoolTyped, Booked

\* A step of the terminals alone: nothing the pool has active is touched.
LEMMA OpenKeeps ==
    ASSUME PoolInv, NEW t \in Terminals, Open(t)
    PROVE  PoolInv'
<1>1. PoolTyped'
  BY DEF PoolInv, PoolTyped, Open
<1>2. t \notin entries /\ t \notin active
  BY DEF PoolInv, Booked, Open
<1>3. /\ \A u \in active' : life'[u] = "open"
      /\ \A u \in entries' : life'[u] \in {"open", "gone"}
  BY <1>2 DEF PoolInv, PoolTyped, Booked, Open
<1> QED
  BY <1>1, <1>3 DEF PoolInv, Booked, Open, Listed

LEMMA RegisterKeeps ==
    ASSUME PoolInv, NEW t \in Terminals, Register(t)
    PROVE  PoolInv'
<1>1. PoolTyped'
  BY DEF PoolInv, PoolTyped, Register, Emptied
<1>2. t \notin active /\ life' = [life EXCEPT ![t] = IF life[t] = "late" THEN "gone" ELSE "open"]
  BY DEF PoolInv, Booked, Register
<1>3. \A u \in entries' : life'[u] \in {"open", "gone"}
  BY <1>2 DEF PoolInv, PoolTyped, Booked, Register
<1>4. CASE enabled /\ ~wantWebgl[t]
  <2>1. active' = {} /\ live' = {} /\ Listed' = {}
    BY <1>4 DEF PoolInv, Booked, Register, Emptied, Disabled, Listed
  <2> QED
    BY <1>1, <1>3, <2>1, NothingFits DEF PoolInv, PoolTyped, Booked
<1>5. CASE ~(enabled /\ ~wantWebgl[t])
  <2>1. UNCHANGED <<active, live, stamp, cap, exhausted>>
    BY <1>5 DEF Register
  <2>2. \A u \in active' : life'[u] = "open"
    BY <1>2, <2>1 DEF PoolInv, PoolTyped, Booked
  <2>3. exhausted' \/ ~enabled' => active' = {}
    BY <1>5, <2>1 DEF PoolInv, Booked, Register
  <2> QED
    BY <1>1, <1>3, <2>1, <2>2, <2>3 DEF PoolInv, Booked, Listed, Register
<1> QED
  BY <1>4, <1>5

\* The victim of an eviction, when there is one, makes room for one more.
LEMMA EvictedFits ==
    ASSUME PoolConstantsOk, PoolInv, NEW t \in Terminals, t \notin active
    PROVE  /\ Evicted(t) \subseteq active
           /\ Cardinality((active \ Evicted(t)) \cup {t}) <= cap
<1>1. active \subseteq Terminals /\ Victims(t) = active
  BY DEF PoolInv, PoolTyped, Booked, Victims
<1>2. IsFiniteSet(active) /\ Cardinality(active) \in Nat
  BY <1>1, SmallSet
<1>3. cap \in Nat /\ cap >= 1 /\ Cardinality(active) <= cap
  BY DEF PoolInv, PoolTyped, Booked
<1>4. CASE Cardinality(active) >= cap
  <2>1. active # {}
    BY <1>3, <1>4, FS_EmptySet
  <2>2. Coldest(active) \in active /\ Evicted(t) = {Coldest(active)}
    BY <1>1, <1>4, <2>1, ColdestIsOne DEF Evicted, PoolInv
  <2>3. /\ IsFiniteSet(active \ Evicted(t))
        /\ Cardinality(active \ Evicted(t)) = Cardinality(active) - 1
    BY <1>2, <2>2, FS_RemoveElement
  <2>4. Cardinality((active \ Evicted(t)) \cup {t}) = Cardinality(active) - 1 + 1
    BY <2>3, FS_AddElement
  <2> QED
    BY <1>2, <1>3, <2>2, <2>4
<1>5. CASE ~(Cardinality(active) >= cap)
  <2>1. Evicted(t) = {}
    BY <1>5 DEF Evicted
  <2>2. Cardinality(active \cup {t}) = Cardinality(active) + 1
    BY <1>2, FS_AddElement
  <2>3. (active \ Evicted(t)) \cup {t} = active \cup {t}
    BY <2>1
  <2> QED
    BY <1>2, <1>3, <1>5, <2>1, <2>2, <2>3
<1> QED
  BY <1>4, <1>5

LEMMA TouchKeeps ==
    ASSUME PoolConstantsOk, PoolInv, NEW t \in Terminals, Touch(t)
    PROVE  PoolInv'
<1>1. /\ life[t] = "open" /\ t \in entries /\ enabled /\ ~exhausted
      /\ UNCHANGED <<life, wantWebgl, entries, cap, enabled>>
      /\ touches \in Nat /\ touches' = touches + 1
  BY DEF Touch, PoolInv, PoolTyped, Booked
<1>2. CASE /\ t \in active
           /\ stamp' = [stamp EXCEPT ![t] = touches + 1]
           /\ UNCHANGED <<active, live, exhausted>>
  <2>1. PoolTyped'
    BY <1>1, <1>2 DEF PoolInv, PoolTyped
  <2>2. Listed' = Listed
    BY <1>1, <1>2 DEF PoolInv, PoolTyped, Booked, Listed
  <2> QED
    BY <1>1, <1>2, <2>1, <2>2 DEF PoolInv, Booked
<1>3. CASE /\ t \notin active
           /\ active' = (active \ Evicted(t)) \cup {t}
           /\ live' = (live \ Evicted(t)) \cup {t}
           /\ stamp' = [u \in Terminals |->
                           IF u = t THEN touches + 1
                           ELSE IF u \in Evicted(t) THEN 0 ELSE stamp[u]]
           /\ UNCHANGED exhausted
  <2>1. PoolTyped'
    BY <1>1, <1>3 DEF PoolInv, PoolTyped
  <2>2. /\ Evicted(t) \subseteq active
        /\ Cardinality(active') <= cap
    BY <1>3, EvictedFits
  <2>3. Listed' = (Listed \ Evicted(t)) \cup {t}
    BY <1>1, <1>3 DEF PoolInv, PoolTyped, Listed
  <2>4. /\ live' \subseteq active' /\ active' \subseteq entries' /\ active' = Listed'
        /\ \A u \in active' : life'[u] = "open"
    BY <1>1, <1>3, <2>3 DEF PoolInv, Booked
  <2> QED
    BY <1>1, <1>3, <2>1, <2>2, <2>4 DEF PoolInv, Booked
<1>4. CASE t \notin active /\ Emptied /\ exhausted' = TRUE
  <2>1. PoolTyped'
    BY <1>1, <1>4 DEF PoolInv, PoolTyped, Emptied
  <2>2. active' = {} /\ live' = {} /\ Listed' = {}
    BY <1>4 DEF PoolInv, Booked, Emptied, Disabled, Listed
  <2> QED
    BY <1>1, <2>1, <2>2, NothingFits DEF PoolInv, PoolTyped, Booked
<1> QED
  BY <1>2, <1>3, <1>4 DEF Touch

LEMMA ContextLostKeeps ==
    ASSUME PoolInv, NEW t \in Terminals, ContextLost(t)
    PROVE  PoolInv'
BY DEF PoolInv, PoolTyped, Booked, ContextLost, Listed

LEMMA RecreateFailsKeeps ==
    ASSUME PoolInv, NEW t \in Terminals, RecreateFails(t)
    PROVE  PoolInv'
<1>1. PoolTyped'
  BY DEF PoolInv, PoolTyped, RecreateFails
<1>2. active' = {} /\ live' = {} /\ Listed' = {}
  BY DEF PoolInv, Booked, RecreateFails, Listed
<1> QED
  BY <1>1, <1>2, NothingFits DEF PoolInv, PoolTyped, Booked, RecreateFails

LEMMA DisposeKeeps ==
    ASSUME PoolConstantsOk, PoolInv, NEW t \in Terminals, Dispose(t)
    PROVE  PoolInv'
<1>1. PoolTyped'
  BY DEF PoolInv, PoolTyped, Dispose
<1>2. /\ active' = active \ {t} /\ live' = live \ {t} /\ entries' = entries \ {t}
      /\ UNCHANGED <<cap, enabled, exhausted>>
  BY DEF Dispose, Disabled
<1>3. Listed' = Listed \ {t}
  BY DEF PoolInv, PoolTyped, Dispose, Listed
<1>4. \A u \in Terminals \ {t} : life'[u] = life[u]
  BY DEF PoolInv, PoolTyped, Dispose
<1>5. Cardinality(active') <= cap'
  <2>1. IsFiniteSet(active) /\ Cardinality(active) \in Nat
    BY SmallSet DEF PoolInv, PoolTyped, Booked
  <2>2. active' \subseteq active /\ Cardinality(active') <= Cardinality(active)
                                 /\ Cardinality(active') \in Nat
    BY <1>2, <2>1, FS_Subset, FS_CardinalityType
  <2> QED
    BY <1>2, <2>1, <2>2 DEF PoolInv, PoolTyped, Booked
<1> QED
  BY <1>1, <1>2, <1>3, <1>4, <1>5 DEF PoolInv, PoolTyped, Booked

LEMMA ApplyConfigKeeps ==
    ASSUME PoolConstantsOk, PoolInv, NEW on \in BOOLEAN, NEW c \in Caps, NEW reached \in SUBSET Terminals,
           ApplyConfig(on, c, reached)
    PROVE  PoolInv'
<1>1. /\ AtLeastOne(c) \in Nat /\ AtLeastOne(c) >= 1 /\ cap' = AtLeastOne(c)
      /\ UNCHANGED <<life, entries, touches, exhausted>>
  BY CapIsPositive DEF PoolConstantsOk, ApplyConfig
<1>2. PoolTyped'
  <2>1. stamp' \in [Terminals -> Nat]
    <3>1. \/ Emptied
          \/ \E kept \in SUBSET active :
                stamp' = [t \in Terminals |-> IF t \in active \ kept THEN 0 ELSE stamp[t]]
      BY DEF ApplyConfig
    <3>2. stamp \in [Terminals -> Nat]
      BY DEF PoolInv, PoolTyped
    <3> QED
      BY <3>1, <3>2 DEF Emptied
  <2>2. wantWebgl' \in [Terminals -> BOOLEAN] /\ enabled' \in BOOLEAN
    BY DEF PoolInv, PoolTyped, ApplyConfig
  <2> QED
    BY <1>1, <2>1, <2>2 DEF PoolInv, PoolTyped
<1>3. CASE enabled /\ ~on /\ reached # {}
  <2>1. active' = {} /\ live' = {} /\ Listed' = {}
    BY <1>3 DEF PoolInv, Booked, ApplyConfig, Emptied, Disabled, Listed
  <2> QED
    BY <1>1, <1>2, <2>1, NothingFits DEF PoolInv, PoolTyped, Booked
<1>4. CASE ~(enabled /\ ~on /\ reached # {})
  <2>1. PICK kept \in SUBSET active :
          /\ Fits(kept, AtLeastOne(c))
          /\ Disabled(active \ kept)
          /\ stamp' = [t \in Terminals |-> IF t \in active \ kept THEN 0 ELSE stamp[t]]
    BY <1>4 DEF ApplyConfig
  <2>2. active' = kept /\ live' \subseteq kept
    BY <2>1 DEF Disabled, PoolInv, Booked
  <2>3. Listed' = kept
    BY <2>1 DEF PoolInv, PoolTyped, Booked, Listed
  <2>4. Cardinality(kept) <= AtLeastOne(c)
    <3>1. kept \cap Listed = kept
      BY DEF PoolInv, Booked
    <3>2. Cardinality(kept) <= AtLeastOne(c) \/ kept = {}
      BY <2>1, <3>1 DEF Fits
    <3> QED
      BY <1>1, <3>2, NothingFits
  <2>5. exhausted' \/ ~enabled' => active' = {}
    BY <1>1, <1>4, <2>2 DEF PoolInv, PoolTyped, Booked, ApplyConfig
  <2> QED
    BY <1>1, <1>2, <2>2, <2>3, <2>4, <2>5 DEF PoolInv, Booked
<1> QED
  BY <1>3, <1>4

LEMMA ReloadKeeps ==
    ASSUME PoolConstantsOk, PoolInv, ReloadPage
    PROVE  PoolInv'
<1>1. cap' \in Nat /\ cap' >= 1
  BY CapIsPositive DEF PoolConstantsOk, ReloadPage
<1>2. PoolTyped'
  BY <1>1 DEF PoolInv, PoolTyped, ReloadPage
<1>3. active' = {} /\ live' = {} /\ entries' = {} /\ Listed' = {}
  BY DEF ReloadPage, Listed
<1> QED
  BY <1>1, <1>2, <1>3, NothingFits DEF PoolInv, Booked

\* Whatever terminals and caps there are, the live contexts fit the cap, belong to
\* open terminals that are registered, and there are none while WebGL is off or the
\* fuse has tripped (webgl-pool.ts: setCap, markHot, evict, markExhausted).
THEOREM ContextsAlwaysFit ==
    ASSUME PoolConstantsOk
    PROVE  PoolSpec => []ContextsFit
<1>1. PoolInv /\ [PoolNext]_poolVars => PoolInv'
  <2> SUFFICES ASSUME PoolInv, [PoolNext]_poolVars PROVE PoolInv'
    OBVIOUS
  <2>1. ASSUME NEW t \in Terminals,
               \/ Open(t) \/ Register(t) \/ Touch(t) \/ ContextLost(t)
               \/ RecreateFails(t) \/ Dispose(t)
        PROVE  PoolInv'
    BY <2>1, OpenKeeps, RegisterKeeps, TouchKeeps, ContextLostKeeps,
       RecreateFailsKeeps, DisposeKeeps
  <2>2. ASSUME NEW on \in BOOLEAN, NEW c \in Caps, NEW reached \in SUBSET Terminals,
               ApplyConfig(on, c, reached)
        PROVE  PoolInv'
    BY <2>2, ApplyConfigKeeps
  <2>3. CASE ReloadPage
    BY <2>3, ReloadKeeps
  <2>4. CASE UNCHANGED poolVars
    BY <2>4 DEF poolVars, PoolInv, PoolTyped, Booked, Listed
  <2> QED
    BY <2>1, <2>2, <2>3, <2>4 DEF PoolNext
<1>2. PoolInv => ContextsFit
  <2> SUFFICES ASSUME PoolInv PROVE ContextsFit
    OBVIOUS
  <2>1. live \subseteq active /\ active \in SUBSET Terminals
    BY DEF PoolInv, PoolTyped, Booked
  <2>2. Cardinality(live) <= Cardinality(active) /\ Cardinality(live) \in Nat
                                                /\ Cardinality(active) \in Nat
    BY <2>1, SmallSet, FS_Subset
  <2> QED
    BY <2>1, <2>2 DEF ContextsFit, PoolInv, PoolTyped, Booked
<1> QED
  BY PoolInitially, <1>1, <1>2, PTL DEF PoolSpec

(***************************************************************************)
(* EditorFile                                                              *)
(***************************************************************************)
EdSession ==
    [open : BOOLEAN, text : Nat, saved : Nat, dirty : BOOLEAN, base : {"fresh", "stale"},
     timer : BOOLEAN, autosave : BOOLEAN, lost : BOOLEAN]
Write == [caller : {"user", "auto", "close", "preview"}, text : Nat,
          known : {"fresh", "stale", "force"},
          stage : {"sent", "written", "conflict", "failed"}]

Question == [ask : {"none", "overwrite", "close"}, for : {"user", "close", "preview"}]

(* Autosave never forces a write, and a forced write that got through has  *)
(* the time of the file it wrote.                                          *)
Asked(w) == w.known = "force" => w.caller # "auto" /\ w.stage # "written"

(* While the file is somebody else's no modification time is fresh, and    *)
(* only what the user answers forces a write.                              *)
EdInv ==
    /\ ed \in EdSession /\ writes \subseteq Write
    /\ dialog \in Question
    /\ file = Foreign => ed.base = "stale" /\ \A w \in writes : w.known # "fresh"
    /\ \A w \in writes : Asked(w)

(* What an edit, a reply or an end makes of the session. *)
LEMMA SessionKept ==
    ASSUME NEW e \in EdSession, NEW flag \in BOOLEAN
    PROVE  /\ [e EXCEPT !.timer = FALSE] \in EdSession
           /\ [e EXCEPT !.timer = FALSE].base = e.base
           /\ [e EXCEPT !.base = "stale"] \in EdSession
           /\ [e EXCEPT !.base = "stale"].base = "stale"
           /\ Disposed(e, flag) \in EdSession /\ Disposed(e, flag).base = e.base
           /\ [e EXCEPT !.autosave = ~@, !.timer = e.dirty /\ ~e.autosave] \in EdSession
           /\ [e EXCEPT !.autosave = ~@, !.timer = e.dirty /\ ~e.autosave].base = e.base
           /\ [e EXCEPT !.text = @ + 1, !.dirty = TRUE, !.timer = e.autosave] \in EdSession
           /\ [e EXCEPT !.text = @ + 1, !.dirty = TRUE, !.timer = e.autosave].base
                 = e.base
<1>1. \A b \in BOOLEAN :
         /\ [e EXCEPT !.open = FALSE, !.timer = FALSE, !.lost = b] \in EdSession
         /\ [e EXCEPT !.open = FALSE, !.timer = FALSE, !.lost = b].base = e.base
  BY DEF EdSession
<1>2. \A b, c \in BOOLEAN :
         /\ [e EXCEPT !.autosave = c, !.timer = b] \in EdSession
         /\ [e EXCEPT !.autosave = c, !.timer = b].base = e.base
  BY DEF EdSession
<1>3. /\ [e EXCEPT !.timer = FALSE] \in EdSession
      /\ [e EXCEPT !.timer = FALSE].base = e.base
      /\ [e EXCEPT !.base = "stale"] \in EdSession
      /\ [e EXCEPT !.base = "stale"].base = "stale"
  BY DEF EdSession
<1>4. e.text + 1 \in Nat /\ e.autosave \in BOOLEAN
  BY DEF EdSession
<1>5. \A n \in Nat, b \in BOOLEAN :
         /\ [e EXCEPT !.text = n, !.dirty = TRUE, !.timer = b] \in EdSession
         /\ [e EXCEPT !.text = n, !.dirty = TRUE, !.timer = b].base = e.base
  BY DEF EdSession
<1>6. (~flag /\ e.text # e.saved) \in BOOLEAN /\ (~e.autosave) \in BOOLEAN
      /\ (e.dirty /\ ~e.autosave) \in BOOLEAN
  OBVIOUS
<1>7. Disposed(e, flag) \in EdSession /\ Disposed(e, flag).base = e.base
  BY <1>1, <1>6 DEF Disposed
<1> QED
  BY <1>2, <1>3, <1>4, <1>5, <1>6, <1>7

(* A write that starts. *)
LEMMA StartKept ==
    ASSUME EdInv, NEW STATE caller, caller \in {"user", "auto", "close", "preview"},
           \/ StartWrite(caller, ed.base)
           \/ StartWrite(caller, "force") /\ caller # "auto"
    PROVE  /\ writes' \subseteq Write /\ \A w \in writes' : Asked(w)
           /\ file = Foreign => \A w \in writes' : w.known # "fresh"
<1>1. PICK known \in {ed.base, "force"} :
        /\ writes' = writes \cup {[caller |-> caller, text |-> ed.text, known |-> known,
                                   stage |-> "sent"]}
        /\ known = "force" => caller # "auto"
  BY DEF StartWrite, EdInv, EdSession
<1> DEFINE w == [caller |-> caller, text |-> ed.text, known |-> known, stage |-> "sent"]
<1>2. /\ w \in Write /\ Asked(w)
      /\ file = Foreign => w.known # "fresh"
  BY <1>1 DEF EdInv, EdSession, Write, Asked
<1> HIDE DEF w
<1> QED
  BY <1>1, <1>2 DEF EdInv, w

(* What follows a write that came back, whatever it was for. *)
LEMMA ContinueKept ==
    ASSUME EdInv, NEW STATE e, e \in EdSession, NEW STATE caller, NEW STATE ok,
           Continue(caller, e, ok)
    PROVE  ed' \in EdSession /\ ed'.base = e.base
<1>1. ed' = e \/ ed' = Disposed(e, FALSE)
  BY DEF Continue
<1> QED
  BY <1>1, SessionKept

(* The writes under way when the file changes. *)
LEMMA OutdatedKept ==
    ASSUME NEW ws, ws \subseteq Write, \A w \in ws : Asked(w)
    PROVE  /\ Outdated(ws) \subseteq Write
           /\ \A w \in Outdated(ws) : w.known # "fresh" /\ Asked(w)
<1> SUFFICES ASSUME NEW o \in Outdated(ws)
             PROVE  o \in Write /\ o.known # "fresh" /\ Asked(o)
  OBVIOUS
<1>1. PICK w \in ws : o = IF w.known = "fresh" THEN [w EXCEPT !.known = "stale"] ELSE w
  BY DEF Outdated
<1> QED
  BY <1>1 DEF Write, Asked

(* A text of somebody else is overwritten only by a write the user forced  *)
(* (editor.ts write, saveEditor), for any number of edits and of writes    *)
(* under way.                                                              *)
THEOREM OthersTextIsKept == EdInit /\ [][EdNext]_edVars => NoBlindOverwrite
<1>1. EdInit => EdInv
  BY DEF EdInit, EdInv, EdSession, Question, Foreign, NoDialog
<1>2. EdInv /\ [EdNext]_edVars => EdInv'
  <2> SUFFICES ASSUME EdInv, [EdNext]_edVars PROVE EdInv'
    OBVIOUS
  <2>1. /\ ed \in EdSession /\ ed.base \in {"fresh", "stale"} /\ ed.dirty \in BOOLEAN
        /\ ed.autosave \in BOOLEAN
    BY DEF EdInv, EdSession
  <2>2. ASSUME UNCHANGED <<file, dialog>>, ed' \in EdSession, ed'.base = ed.base,
               \/ UNCHANGED writes
               \/ \E caller \in {"user", "auto", "close", "preview"} :
                     StartWrite(caller, ed.base)
        PROVE  EdInv'
    <3>1. ASSUME NEW caller \in {"user", "auto", "close", "preview"},
                 StartWrite(caller, ed.base)
          PROVE  EdInv'
      <4>1. /\ writes' \subseteq Write /\ \A w \in writes' : Asked(w)
            /\ file = Foreign => \A w \in writes' : w.known # "fresh"
        BY <3>1, StartKept
      <4> QED
        BY <2>2, <4>1 DEF EdInv
    <3>2. CASE UNCHANGED writes
      BY <2>2, <3>2 DEF EdInv
    <3> QED
      BY <2>2, <3>1, <3>2
  <2>3. CASE ManualSave \/ UNCHANGED edVars
    BY <2>1, <2>2, <2>3 DEF ManualSave, edVars
  <2>14. CASE TogglePreview
    BY <2>1, <2>2, <2>14 DEF TogglePreview
  <2>4. CASE Edit \/ Autosave \/ ApplyEditorConfig
    <3>1. ed' \in EdSession /\ ed'.base = ed.base
      BY <2>1, <2>4, SessionKept, ZenonT(60) DEF Edit, Autosave, ApplyEditorConfig
    <3> QED
      BY <2>2, <2>4, <3>1 DEF Edit, Autosave, ApplyEditorConfig
  <2>5. CASE ForeignWrites
    <3>1. /\ writes' = Outdated(writes) /\ ed' = [ed EXCEPT !.base = "stale"]
          /\ UNCHANGED dialog
      BY <2>5 DEF ForeignWrites
    <3>2. /\ writes' \subseteq Write
          /\ \A w \in writes' : w.known # "fresh" /\ Asked(w)
      BY <3>1, OutdatedKept DEF EdInv
    <3>3. ed' \in EdSession /\ ed'.base = "stale"
      BY <2>1, <3>1, SessionKept
    <3> QED
      BY <3>1, <3>2, <3>3 DEF EdInv
  <2>6. ASSUME NEW w \in writes, NEW o \in {"written", "conflict", "failed"}, Lands(w, o)
        PROVE  EdInv'
    <3>1. CASE o = "written"
      <4>1. writes \ {w} \subseteq Write /\ \A v \in writes \ {w} : Asked(v)
        BY DEF EdInv
      <4>2. file' \in Nat
        BY <2>6, <3>1 DEF Lands, EdInv, Write
      <4>3. [w EXCEPT !.stage = "written", !.known = "fresh"] \in Write
            /\ Asked([w EXCEPT !.stage = "written", !.known = "fresh"])
        BY DEF EdInv, Write, Asked
      <4>4. /\ ed' = [ed EXCEPT !.base = "stale"] /\ UNCHANGED dialog
            /\ writes' = Outdated(writes \ {w}) \cup
                         {[w EXCEPT !.stage = "written", !.known = "fresh"]}
        BY <2>6, <3>1 DEF Lands
      <4>5. file' # Foreign
        BY <4>2 DEF Foreign
      <4> HIDE DEF Outdated
      <4>6. writes' \subseteq Write /\ \A v \in writes' : Asked(v)
        BY <4>1, <4>3, <4>4, OutdatedKept
      <4> QED
        BY <2>1, <4>4, <4>5, <4>6, SessionKept DEF EdInv
    <3>2. CASE o # "written"
      <4>1. /\ [w EXCEPT !.stage = o] \in Write /\ [w EXCEPT !.stage = o].known = w.known
            /\ Asked([w EXCEPT !.stage = o])
        BY <3>2 DEF EdInv, Write, Asked
      <4>2. /\ writes' = (writes \ {w}) \cup {[w EXCEPT !.stage = o]}
            /\ UNCHANGED <<file, ed, dialog>>
        BY <2>6, <3>2 DEF Lands
      <4> QED
        BY <4>1, <4>2 DEF EdInv
    <3> QED
      BY <3>1, <3>2
  <2>7. ASSUME NEW w \in writes, ReturnsWritten(w) PROVE EdInv'
    <3> DEFINE e == [ed EXCEPT !.base = w.known, !.dirty = FALSE, !.timer = FALSE,
                               !.saved = w.text]
    <3>1. w.known \in {"fresh", "stale"}
      BY <2>7 DEF ReturnsWritten, EdInv, Write, Asked
    <3>2. e \in EdSession /\ e.base = w.known
      BY <3>1 DEF EdInv, EdSession, Write
    <3>3. Continue(w.caller, e, TRUE)
      BY <2>7 DEF ReturnsWritten
    <3> HIDE DEF e
    <3>4. ed' \in EdSession /\ ed'.base = w.known
      BY <3>2, <3>3, ContinueKept
    <3> QED
      BY <2>7, <3>1, <3>4 DEF ReturnsWritten, EdInv
  <2>8. ASSUME NEW w \in writes, ReturnsConflict(w) PROVE EdInv'
    <3>1. w.caller \in {"user", "auto", "close", "preview"}
      BY DEF EdInv, Write
    <3> QED
      BY <2>8, <3>1 DEF ReturnsConflict, EdInv, Question
  <2>9. ASSUME NEW w \in writes, ReturnsFailed(w) PROVE EdInv'
    <3>1. (w.known = "force") \in BOOLEAN
      OBVIOUS
    <3> QED
      BY <2>1, <2>9, <3>1, ContinueKept DEF ReturnsFailed, EdInv
  <2>10. ASSUME NEW yes \in BOOLEAN, AnswerOverwrite(yes) PROVE EdInv'
    <3>1. dialog.for \in {"user", "close", "preview"} /\ NoDialog \in Question
      BY DEF EdInv, Question, NoDialog
    <3>2. ed' \in EdSession /\ ed'.base = ed.base
      BY <2>1, <2>10, ContinueKept DEF AnswerOverwrite
    <3>3. CASE yes
      <4>1. StartWrite(dialog.for, "force") /\ dialog' = NoDialog /\ UNCHANGED file
        BY <2>10, <3>3 DEF AnswerOverwrite
      <4> QED
        BY <3>1, <3>2, <4>1, StartKept DEF EdInv
    <3>4. CASE ~yes
      BY <2>10, <3>1, <3>2, <3>4 DEF AnswerOverwrite, EdInv
    <3> QED
      BY <3>3, <3>4
  <2>11. CASE CloseEditor
    <3>1. ed' \in EdSession /\ ed'.base = ed.base
      BY <2>1, <2>11, SessionKept DEF CloseEditor
    <3>2. /\ dialog' = dialog \/ dialog' = [ask |-> "close", for |-> "close"]
          /\ UNCHANGED <<file, writes>>
      BY <2>11 DEF CloseEditor
    <3> QED
      BY <3>1, <3>2 DEF EdInv, Question
  <2>12. ASSUME NEW c \in {"save", "discard", "cancel"}, AnswerClose(c) PROVE EdInv'
    <3>1. dialog' \in Question
      BY <2>12 DEF AnswerClose, Question, NoDialog
    <3>2. ed' \in EdSession /\ ed'.base = ed.base /\ UNCHANGED file
      BY <2>1, <2>12, SessionKept DEF AnswerClose
    <3>3. StartWrite("close", ed.base) \/ UNCHANGED writes
      BY <2>12 DEF AnswerClose
    <3>4. CASE StartWrite("close", ed.base)
      BY <2>1, <3>1, <3>2, <3>4, StartKept DEF EdInv
    <3>5. CASE UNCHANGED writes
      BY <3>1, <3>2, <3>5 DEF EdInv
    <3> QED
      BY <3>3, <3>4, <3>5
  <2>13. ASSUME NEW ok \in BOOLEAN, PreviewOpens(ok) \/ PreviewCloses PROVE EdInv'
    BY <2>1, <2>2, <2>13 DEF PreviewOpens, PreviewCloses
  <2> QED
    BY <2>3, <2>4, <2>5, <2>6, <2>7, <2>8, <2>9, <2>10, <2>11, <2>12, <2>13, <2>14
       DEF EdNext
<1>3. EdInv /\ [EdNext]_edVars => [OverwritesKnowingly]_edVars
  <2> SUFFICES ASSUME EdInv, EdNext, file = Foreign, file' # Foreign
               PROVE  OverwritesKnowingly
    BY DEF OverwritesKnowingly, edVars
  <2>1. PICK w \in writes, o \in {"written", "conflict", "failed"} : Lands(w, o)
    BY DEF EdNext, Edit, ManualSave, Autosave, ApplyEditorConfig, ForeignWrites,
           ReturnsWritten, ReturnsConflict, ReturnsFailed, AnswerOverwrite, PreviewOpens,
           CloseEditor, AnswerClose, TogglePreview, PreviewCloses
  <2>2. o = "written" /\ w.stage = "sent" /\ w.known # "stale" /\ file' = w.text
    BY <2>1 DEF Lands
  <2>3. w.known = "force" /\ w.caller # "auto"
    BY <2>2 DEF EdInv, Write, Asked
  <2> QED
    BY <2>2, <2>3 DEF OverwritesKnowingly
<1> QED
  BY <1>1, <1>2, <1>3, PTL DEF NoBlindOverwrite
=============================================================================

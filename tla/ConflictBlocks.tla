--------------------------- MODULE ConflictBlocks ---------------------------
(***************************************************************************)
(* The merge-conflict resolver of the editor (editor-conflict.ts): how the *)
(* blocks of a text are found, what its buttons put in their place, and    *)
(* the set of blocks whose sides are being compared, which follows the     *)
(* text through every edit.                                                *)
(*                                                                         *)
(* A line is what it starts with: one of the four markers, or plain text.  *)
(* Positions are line numbers, since every position kept is a line start.  *)
(***************************************************************************)
EXTENDS Integers, Sequences, SequencesExt, FiniteSetsExt

CONSTANT MaxLines    \* lines of a text (bound)

VARIABLES doc,       \* the lines of the text
          compare    \* compareField: the lines of the blocks being compared

conflictVars == <<doc, compare>>

Markers == {"ours", "base", "sep", "end"}
Kinds == Markers \cup {"text"}

\* The first line of a kind strictly between two lines, or 0.
FirstOf(d, kind, from, to) ==
  LET at == {k \in from + 1 .. to - 1 : d[k] = kind}
  IN IF at = {} THEN 0 ELSE Min(at)

\* The block that the marker on line i opens, or one with end = 0: it ends at
\* the first end marker, if there is a separator before that.
BlockAt(d, i) ==
  LET end == FirstOf(d, "end", i, Len(d) + 1)
      mid == FirstOf(d, "sep", i, end)
  IN [start |-> i, base |-> FirstOf(d, "base", i, mid), mid |-> mid,
      end |-> IF mid = 0 THEN 0 ELSE end]

RECURSIVE BlocksFrom(_, _)
BlocksFrom(d, i) ==
  IF i > Len(d) THEN <<>>
  ELSE LET b == BlockAt(d, i)
       IN IF d[i] /= "ours" \/ b.end = 0 THEN BlocksFrom(d, i + 1)
          ELSE <<b>> \o BlocksFrom(d, b.end + 1)
ParseConflicts(d) == BlocksFrom(d, 1)

Ours(d, b) == SubSeq(d, b.start + 1, (IF b.base > 0 THEN b.base ELSE b.mid) - 1)
Theirs(d, b) == SubSeq(d, b.mid + 1, b.end - 1)

\* What a button inserts for the block; an empty side leaves an empty line.
Chosen(d, b, side) ==
  LET lines == CASE side = "ours" -> Ours(d, b)
                 [] side = "theirs" -> Theirs(d, b)
                 [] side = "both" -> Ours(d, b) \o Theirs(d, b)
  IN IF lines = <<>> THEN <<"text">> ELSE lines

\* Mutant of Put: the first line of the block stays.
PutAfterHeader(d, b, lines) == SubSeq(d, 1, b.start) \o lines
                               \o SubSeq(d, b.end + 1, Len(d))
Put(d, b, lines) == SubSeq(d, 1, b.start - 1) \o lines \o SubSeq(d, b.end + 1, Len(d))

\* compareField after an edit that turns lines first..last into n lines: what
\* was inside goes to the end of the change, and only headers are kept.
Kept(at, d) == {k \in at : k \in DOMAIN d /\ d[k] = "ours"}
Mapped(first, last, n, d) ==
  Kept({k \in compare : k < first}
       \cup {k + n - (last - first + 1) : k \in {c \in compare : c > last}}, d)

ConflictInit == doc \in [1..MaxLines -> Kinds] /\ compare = {}

Blocks == ToSet(ParseConflicts(doc))

Resolve(b, side) ==
  LET lines == Chosen(doc, b, side) IN
  /\ b \in Blocks
  /\ doc' = Put(doc, b, lines)
  /\ compare' = Mapped(b.start, b.end, Len(lines), doc')

ToggleCompare(b) ==
  /\ b \in Blocks /\ UNCHANGED doc
  /\ compare' = IF b.start \in compare THEN compare \ {b.start}
                ELSE compare \cup {b.start}

\* The user deletes or changes a line, or types a new one before it.
DeleteLine(k) ==
  /\ k \in DOMAIN doc /\ Len(doc) > 1 /\ doc' = RemoveAt(doc, k)
  /\ compare' = Mapped(k, k, 0, doc')
InsertLine(k, kind) ==
  /\ k \in DOMAIN doc /\ Len(doc) < MaxLines /\ doc' = InsertAt(doc, k, kind)
  /\ compare' = Mapped(k, k - 1, 1, doc')

ConflictNext ==
  \/ \E b \in Blocks, side \in {"ours", "theirs", "both"} : Resolve(b, side)
  \/ \E b \in Blocks : ToggleCompare(b)
  \/ \E k \in DOMAIN doc : DeleteLine(k) \/ \E kind \in Kinds : InsertLine(k, kind)

-----------------------------------------------------------------------------
\* The lines of a block, and whether its sides are free of markers.
Text(d, b) == SubSeq(d, b.start, b.end)
Clean(d, b) == ToSet(Ours(d, b)) \cup ToSet(Theirs(d, b)) \subseteq {"text"}

\* A step that resolves one block leaves every other block of the text as it was:
\* they are found again, in their order, none is new, and those that were being
\* compared still are (HeaderWidget.resolve, compareField.update).
KeepsTheOthers ==
  \A b \in Blocks, side \in {"ours", "theirs", "both"} :
    doc' = Put(doc, b, Chosen(doc, b, side)) /\ doc' /= doc /\ Clean(doc, b) =>
      LET others == SelectSeq(ParseConflicts(doc), LAMBDA c : c /= b)
          after == ParseConflicts(doc')
      IN [i \in DOMAIN others |-> <<Text(doc, others[i]), others[i].start \in compare>>]
           = [i \in DOMAIN after |-> <<Text(doc', after[i]), after[i].start \in compare'>>]
=============================================================================

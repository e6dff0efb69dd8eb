------------------------------ MODULE GitHistory ------------------------------
(***************************************************************************)
(* The panel with the history of a file (githistory.ts): a list of the     *)
(* commits that touched it and the detail of the selected one, as its own  *)
(* change, against the working copy, or in full.                           *)
(*                                                                         *)
(* Contents are loaded by calls that return in any order, and cached by    *)
(* commit alone; the path is taken when a call is made.  The text of a     *)
(* file at a commit is the pair of the two, and rows, layout and copying   *)
(* are left out.                                                           *)
(***************************************************************************)
EXTENDS Naturals, Sequences, SequencesExt

CONSTANTS
    Files,
    CommitsOf,      \* [Files -> Seq(commit)]: the history of each, newest first
    Binary,         \* the commits at which a file has no text
    MaxOpens,       \* bounds how often a history is asked for
    MaxCalls        \* bounds the calls that wait, those of the user

ViewOrder == {"diff", "working", "full"}

VARIABLES
    path,           \* this.path, or "none"
    opens,          \* the files whose history is on its way
    asked,          \* histories asked for so far
    panel,          \* is the panel on screen
    commits,        \* the file whose commits are listed
    selected,
    mode,
    cache,          \* the contents known
    calls,          \* showCommit calls that wait: [index, load, text], where text
                    \* is <<>>, or holds the content while the one before it loads
    detail,         \* what is shown: a message, or a content
    crossed         \* was a history asked for while the panel or a call of an
                    \* earlier one was there

historyVars == <<path, opens, asked, panel, commits, selected, mode, cache, calls,
                 detail, crossed>>

-----------------------------------------------------------------------------
(* setDetailMessage and mountDetail.                                       *)
Says(message) == [says |-> message, text |-> <<>>]
Shows(c) == [says |-> "content", text |-> <<c>>]

Waits(i, sha, text) ==
    <<[index |-> i, load |-> [of |-> path, sha |-> sha], text |-> text]>>

Missing(sha, known) == ~\E c \in known : c.sha = sha
Of(sha, known) == CHOOSE c \in known : c.sha = sha

(* showCommit, once it has the content c of the i-th commit of f: what is  *)
(* shown, and the call that waits for the commit before it.                *)
Continue(f, i, c, m, known) ==
    LET older == i + 1
        diff == m = "diff" /\ i < Len(CommitsOf[f])
    IN  IF c.sha \in Binary THEN [detail |-> Says("binary"), calls |-> <<>>]
        ELSE IF diff /\ Missing(CommitsOf[f][older], known)
             THEN [detail |-> detail, calls |-> Waits(i, CommitsOf[f][older], <<c>>)]
             ELSE [detail |-> Shows(c), calls |-> <<>>]

(* showCommit for the row i of f, selected by now, in the mode m.          *)
ShowCommit(f, i, m, known) ==
    LET sha == CommitsOf[f][i]
        r == IF Missing(sha, known)
             THEN [detail |-> Says("loading"), calls |-> Waits(i, sha, <<>>)]
             ELSE Continue(f, i, Of(sha, known), m, known)
    IN  detail' = r.detail /\ calls' = calls \o r.calls

HistoryInit ==
    /\ path = "none" /\ opens = {} /\ asked = 0
    /\ panel = FALSE /\ commits \in Files /\ selected = 1 /\ mode = "diff"
    /\ cache = {} /\ calls = <<>> /\ detail = Says("empty") /\ crossed = FALSE

-----------------------------------------------------------------------------
(* openHistory for the file f: path and mode change at once.               *)
OpenHistory(f) ==
    /\ asked' = asked + 1
    /\ path' = f /\ opens' = opens \cup {f}
    /\ mode' \in ViewOrder
    /\ crossed' = (crossed \/ panel \/ calls # <<>> \/ opens # {})
    /\ UNCHANGED <<panel, commits, selected, cache, calls, detail>>

(* The history and the working copy are there: the panel is rendered,      *)
(* which closes one that is open, and shows the first commit.              *)
HistoryArrives(f) ==
    /\ opens' = opens \ {f}
    /\ panel' = TRUE /\ commits' = f /\ selected' = 1 /\ cache' = {}
    /\ IF CommitsOf[f] = <<>> THEN detail' = Says("empty") /\ UNCHANGED calls
       ELSE ShowCommit(f, 1, mode, {})
    /\ UNCHANGED <<path, asked, mode, crossed>>

(* A click on a row, or an arrow key, which stops at the ends.             *)
Select(i) ==
    /\ selected' = i
    /\ ShowCommit(commits, i, mode, cache)
    /\ UNCHANGED <<path, opens, asked, panel, commits, mode, cache, crossed>>

(* The buttons of the views, and d.                                        *)
SetMode(m) ==
    /\ m # mode /\ mode' = m
    /\ IF CommitsOf[commits] = <<>> THEN UNCHANGED <<detail, calls>>
       ELSE ShowCommit(commits, selected, m, cache)
    /\ UNCHANGED <<path, opens, asked, panel, commits, selected, cache, crossed>>

(* A content arrives, is cached, and its call goes on if its row is still  *)
(* the selected one.                                                       *)
\* Mutant of StillShown: the selection is not looked at again.
StillOpen(k) == panel /\ (k.text = <<>> => selected = k.index)

StillShown(k) == panel /\ selected = k.index

Resumed(k, known) ==
    IF ~StillShown(k) THEN [detail |-> detail, calls |-> <<>>]
    ELSE IF k.text # <<>> THEN [detail |-> Shows(k.text[1]), calls |-> <<>>]
         ELSE Continue(commits, k.index, k.load, mode, known)

ContentArrives(n) ==
    LET k == calls[n]
        known == {c \in cache : c.sha # k.load.sha} \cup {k.load}
        r == Resumed(k, known)
    IN  /\ cache' = known
        /\ detail' = r.detail
        /\ calls' = RemoveAt(calls, n) \o r.calls
        /\ UNCHANGED <<path, opens, asked, panel, commits, selected, mode, crossed>>

ClosePanel ==
    /\ panel' = FALSE /\ detail' = Says("empty") /\ cache' = {}
    /\ UNCHANGED <<path, opens, asked, commits, selected, mode, calls, crossed>>

HistoryNext ==
    \/ \E f \in Files : asked < MaxOpens /\ OpenHistory(f)
    \/ \E f \in opens : HistoryArrives(f)
    \/ panel /\ \/ \E i \in 1..Len(CommitsOf[commits]) :
                     Len(calls) < MaxCalls /\ Select(i)
                \/ \E m \in ViewOrder : Len(calls) < MaxCalls /\ SetMode(m)
                \/ ClosePanel
    \/ \E n \in DOMAIN calls : ContentArrives(n)

-----------------------------------------------------------------------------
(* When nothing is loading any more, the detail is that of the selected    *)
(* commit, of the file on screen: selecting, changing the view and the two *)
(* loads of a diff overlap in any order, and a call that comes back late   *)
(* must not paint over what was selected since.  A history that is asked   *)
(* for before an earlier one is done with is left out: its contents are    *)
(* taken for the new file's.                                               *)
DetailIsOfSelected ==
    (panel /\ calls = <<>> /\ ~crossed /\ CommitsOf[commits] # <<>>) =>
        LET sha == CommitsOf[commits][selected]
        IN  detail = IF sha \in Binary THEN Says("binary")
                     ELSE Shows([of |-> commits, sha |-> sha])
=============================================================================

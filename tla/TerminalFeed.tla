---------------------------- MODULE TerminalFeed ----------------------------
(***************************************************************************)
(* What a terminal pane is promised about the session it is attached to:   *)
(* its view is a replay of the output up to some point, followed by every  *)
(* later unit in order.  A view may stop short (the pane was dropped or    *)
(* went away) but never skips or repeats anything; a reset starts it over. *)
(***************************************************************************)
EXTENDS Naturals

CONSTANTS
  Pane,       \* the panes watching the session
  MaxOutput   \* bound on the session's output

VARIABLES
  made,   \* units of output the session has produced
  view    \* view[p]: the pane shows the output up to this unit, 0 when blank

feedVars == <<made, view>>

FeedInit ==
  /\ made \in 0..MaxOutput
  /\ view = [p \in Pane |-> 0]

Produce ==
  /\ made < MaxOutput
  /\ made' = made + 1
  /\ UNCHANGED view

\* A blank view jumps to a replay of the output so far.
Replay(p) ==
  /\ view[p] = 0
  /\ \E n \in 1..made : view' = [view EXCEPT ![p] = n]
  /\ UNCHANGED made

ShowNext(p) ==
  /\ view[p] < made
  /\ view' = [view EXCEPT ![p] = @ + 1]
  /\ UNCHANGED made

Reset(p) ==
  /\ view' = [view EXCEPT ![p] = 0]
  /\ UNCHANGED made

FeedNext == Produce \/ \E p \in Pane : Replay(p) \/ ShowNext(p) \/ Reset(p)

FeedSpec == FeedInit /\ [][FeedNext]_feedVars

=============================================================================

------------------------------ MODULE Screencast ------------------------------
(***************************************************************************)
(* Screen recording as the main window sees it (screencast.ts), with the   *)
(* recorder of the backend, the stop button of the HUD window and the      *)
(* timer of the longest duration.                                          *)
(*                                                                         *)
(* Every end of a recording is emitted as an event; a stop asked by the    *)
(* main window also has a reply, and the two arrive in any order.  What is *)
(* recorded, the format and the file's name are left out.  An end is told  *)
(* before the user is through with the dialogs of another recording: the   *)
(* guard of StartRecording names that assumption.                          *)
(***************************************************************************)
EXTENDS Naturals, FiniteSets

CONSTANTS
    Begins,         \* the beginRecording calls that may be under way together
    MaxRecordings   \* bounds the recordings

VARIABLES
    begin,          \* the stage of each: "none", "selector", "region",
                    \* "countdown", "starting", "hud" or "frame"
    recording,      \* the flag of the main window
    recorder,       \* the recording the backend has, or 0
    recorded,       \* recordings so far
    failed,         \* those whose encoding failed
    events,         \* the ends that have not reached the main window
    replies,        \* the replies of stops asked by the main window
    toasts,         \* [1..MaxRecordings -> Nat]: errors shown of each
    asking,         \* [1..MaxRecordings -> Nat]: finish prompts on screen
    windows         \* the open overlay windows, of "hud" and "frame"

castVars == <<begin, recording, recorder, recorded, failed, events, replies,
              toasts, asking, windows>>

backVars == <<recorder, recorded, failed, events, replies>>

-----------------------------------------------------------------------------
Quiet == events = {} /\ replies = {}

CastInit ==
    /\ begin = [b \in Begins |-> "none"]
    /\ recording = FALSE /\ recorder = 0 /\ recorded = 0 /\ failed = {}
    /\ events = {} /\ replies = {}
    /\ toasts = [r \in 1..MaxRecordings |-> 0]
    /\ asking = [r \in 1..MaxRecordings |-> 0]
    /\ windows = {}

-----------------------------------------------------------------------------
StageMoves(b, from, stages) ==
    /\ begin[b] = from
    /\ \E stage \in stages : begin' = [begin EXCEPT ![b] = stage]

Aside == UNCHANGED <<recording, backVars, toasts, asking>>

OpenSelector(b) ==
    /\ ~recording /\ StageMoves(b, "none", {"selector"})
    /\ Aside /\ UNCHANGED windows

(* The selector is dismissed.                                              *)
Cancel(b) == StageMoves(b, "selector", {"none"}) /\ Aside /\ UNCHANGED windows

(* The selector is confirmed, or a palette command runs.  The flag is      *)
(* looked at here and at none of the awaits that follow.                   *)
BeginRecording(b) ==
    /\ \E from \in {"none", "selector"} :
          StageMoves(b, from, IF recording THEN {"none"}
                         ELSE {"none", "region", "countdown"})
    /\ Aside /\ UNCHANGED windows

SelectRegion(b) ==
    /\ StageMoves(b, "region", {"none", "countdown"}) /\ Aside /\ UNCHANGED windows

RunCountdown(b) ==
    /\ StageMoves(b, "countdown", {"none", "starting"}) /\ Aside /\ UNCHANGED windows

(* screencast_start is refused: no permission, or a recording in progress. *)
BeginFails(b) == StageMoves(b, "starting", {"none"}) /\ Aside /\ UNCHANGED windows

StartRecording(b) ==
    /\ recorder = 0 /\ Quiet /\ recorded < MaxRecordings
    /\ recorded' = recorded + 1 /\ recorder' = recorded + 1
    /\ recording' = TRUE
    /\ StageMoves(b, "starting", {"hud"})
    /\ UNCHANGED <<failed, events, replies, toasts, asking, windows>>

(* The HUD is there, or could not be opened; then the frame, if the        *)
(* setting asks for it.                                                    *)
OpenHud(b) ==
    /\ StageMoves(b, "hud", {"frame", "none"}) /\ Aside
    /\ windows' \in {windows, windows \cup {"hud"}}

OpenFrame(b) ==
    /\ StageMoves(b, "frame", {"none"}) /\ Aside
    /\ windows' \in {windows, windows \cup {"frame"}}

-----------------------------------------------------------------------------
(* finish_and_emit: the recording ends, with a file or with an error.      *)
Ends(ok) ==
    /\ recorder # 0 /\ recorder' = 0
    /\ events' = events \cup {[rec |-> recorder, ok |-> ok]}
    /\ failed' = IF ok THEN failed ELSE failed \cup {recorder}
    /\ UNCHANGED <<begin, recording, recorded, toasts, asking, windows>>

(* The HUD's button, or the timer.  The HUD closes itself.                 *)
StoppedElsewhere == \E ok \in BOOLEAN : Ends(ok) /\ UNCHANGED replies

(* toggle while recording.  Without a recording the backend refuses.       *)
StopAndFinish ==
    /\ recording
    /\ \/ \E ok \in BOOLEAN :
            /\ Ends(ok)
            /\ replies' = replies \cup {[rec |-> recorder, ok |-> ok]}
       \/ /\ recorder = 0
          /\ replies' = replies \cup {[rec |-> recorded, ok |-> FALSE]}
          /\ UNCHANGED <<begin, recording, recorder, recorded, failed, events,
                         toasts, asking, windows>>

(* finish: the flag falls, the windows close, and on_finish is done, or    *)
(* the prompt asks what to do.                                             *)
Finish(r) ==
    /\ recording' = FALSE /\ windows' = {}
    /\ \E ask \in 0..1 : asking' = [asking EXCEPT ![r] = @ + ask]
    /\ UNCHANGED toasts

\* Mutant of Reports: the failed recording keeps running.
ReportsOnly(r) ==
    /\ IF recording
       THEN windows' = {} /\ toasts' = [toasts EXCEPT ![r] = @ + 1]
       ELSE UNCHANGED <<windows, toasts>>
    /\ UNCHANGED <<asking, recording>>

Reports(r) ==
    /\ IF recording
       THEN windows' = {} /\ toasts' = [toasts EXCEPT ![r] = @ + 1]
       ELSE UNCHANGED <<windows, toasts>>
    /\ recording' = FALSE
    /\ UNCHANGED asking

(* screencast://stopped and screencast://failed.                           *)
EndIsHeard(e) ==
    /\ events' = events \ {e}
    /\ IF ~e.ok THEN Reports(e.rec)
       ELSE IF recording THEN Finish(e.rec)
       ELSE UNCHANGED <<recording, windows, asking, toasts>>
    /\ UNCHANGED <<begin, recorder, recorded, failed, replies>>

(* A reply finishes whatever the event has done; an error is reported only *)
(* if the flag still stands.                                               *)
StopReplies(e) ==
    /\ replies' = replies \ {e}
    /\ IF e.ok THEN Finish(e.rec) ELSE Reports(e.rec)
    /\ UNCHANGED <<begin, recorder, recorded, failed, events>>

(* The prompt is answered, by a key, Enter or a dismissal: the file is     *)
(* copied, revealed or shared, or nothing is done.                         *)
AskFinishPrompt(r) ==
    /\ asking[r] > 0
    /\ asking' = [asking EXCEPT ![r] = @ - 1]
    /\ UNCHANGED <<begin, recording, backVars, toasts, windows>>

CastNext ==
    \/ \E b \in Begins :
          \/ OpenSelector(b) \/ Cancel(b) \/ BeginRecording(b) \/ SelectRegion(b)
          \/ RunCountdown(b) \/ BeginFails(b) \/ StartRecording(b)
          \/ OpenHud(b) \/ OpenFrame(b)
    \/ \E r \in 1..MaxRecordings : AskFinishPrompt(r)
    \/ StoppedElsewhere \/ StopAndFinish
    \/ \E e \in events : EndIsHeard(e)
    \/ \E e \in replies : StopReplies(e)

-----------------------------------------------------------------------------
(* A failure resets the feature and is told once (CHANGELOG.md:213): the   *)
(* window believes in a recording only while the backend has one or its    *)
(* end is on the way, the backend never records unknown to the window, and *)
(* of a recording that failed, whoever stopped it, there is one error.     *)
FailureResetsOnce ==
    /\ recording => recorder # 0 \/ ~Quiet
    /\ recorder # 0 => recording
    /\ \A r \in failed : toasts[r] <= 1 /\ (Quiet => toasts[r] = 1)
=============================================================================

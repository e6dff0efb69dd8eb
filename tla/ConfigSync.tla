------------------------------ MODULE ConfigSync ------------------------------
(***************************************************************************)
(* The configuration in its four places: config.json, the ConfigManager of *)
(* the backend, the main window and the settings window (config.rs,        *)
(* watch.rs, App.applyConfig, settings.ts, deepmerge.ts).                  *)
(*                                                                         *)
(* A window edits its own copy and sends all of it; config_set, which runs *)
(* on the main thread, writes the file, stores the value and emits it; a   *)
(* thread watches the file.  Two things are assumed of time: the debounce  *)
(* of the watcher outlasts the rest of the config_set whose write woke it  *)
(* (the guard of WatcherReads), and the watcher does not emit between the  *)
(* store of a config_set and its emit, which are one step here.            *)
(***************************************************************************)
EXTENDS Naturals, Sequences

CONSTANTS
    MaxSize,        \* the largest font size
    MaxConfigEdits  \* bounds the edits of each window, and those of the file

Windows == {"main", "settings"}

VARIABLES
    configFile, store,  \* configurations: [size, theme, font, key]
    conf,           \* [Windows -> configuration]
    opened,         \* the settings window: "closed", "loading", "open"
    sets,           \* [Windows -> Seq(configuration)]: config_set calls under way
    saving,         \* what the running config_set has written and not yet
                    \* stored, in a sequence
    dirty,          \* the file changed since the watcher last drained its queue
    read,           \* what the watcher has read and not yet compared, in a sequence
    heard,          \* [Windows -> Seq(configuration)]: config-changed under way
    fontSize,       \* App.fontSize
    loaded,         \* is the downloaded font loaded
    loading,        \* the configurations that wait for it
    look,           \* the font the sessions are drawn with
    edits           \* [{"main", "settings", "file"} -> Nat]: edits so far

configVars == <<configFile, store, conf, opened, sets, saving, dirty, read, heard,
                fontSize, loaded, loading, look, edits>>

backendVars == <<configFile, store, saving, dirty, read>>
lookVars == <<fontSize, loaded, loading, look>>

-----------------------------------------------------------------------------
(* assignDeep: a key the source lacks stays in the target.                 *)
AssignDeep(target, source) ==
    [source EXCEPT !.key = IF @ = "unset" THEN target.key ELSE @]

Default == [size |-> 1, theme |-> 0, font |-> "builtin", key |-> "unset"]

ConfigInit ==
    /\ \E key \in {"unset", "set"} : store = [Default EXCEPT !.key = key]
    /\ configFile = store /\ conf = [w \in Windows |-> store]
    /\ opened = "closed" /\ saving = <<>>
    /\ sets = [w \in Windows |-> <<>>] /\ heard = [w \in Windows |-> <<>>]
    /\ dirty = FALSE /\ read = <<>>
    /\ fontSize = 1 /\ loaded = FALSE /\ loading = {} /\ look = "builtin"
    /\ edits = [e \in Windows \cup {"file"} |-> 0]

Counted(e) == edits[e] < MaxConfigEdits /\ edits' = [edits EXCEPT ![e] = @ + 1]

-----------------------------------------------------------------------------
(* A window changes its copy in place and saves the whole of it.           *)
Saves(w, c) ==
    /\ conf' = [conf EXCEPT ![w] = c]
    /\ sets' = [sets EXCEPT ![w] = Append(@, c)]

(* setFontSize: the size on screen follows with the echo.                  *)
SetFontSize(delta) ==
    LET size == IF fontSize + delta > MaxSize THEN MaxSize ELSE fontSize + delta
    IN  /\ size > 0 /\ Counted("main")
        /\ IF size = conf["main"].size THEN UNCHANGED <<conf, sets>>
           ELSE Saves("main", [conf["main"] EXCEPT !.size = size])
        /\ UNCHANGED <<opened, heard, backendVars, lookVars>>

(* Another setting of the main window: a divider, the version seen last.   *)
MainSaves ==
    /\ Counted("main")
    /\ Saves("main", [conf["main"] EXCEPT !.theme = 1 - @])
    /\ UNCHANGED <<opened, heard, backendVars, lookVars>>

SettingsSave ==
    /\ opened = "open" /\ Counted("settings")
    /\ LET c == conf["settings"]
       IN  \E edited \in {[c EXCEPT !.font = "download"], [c EXCEPT !.font = "builtin"],
                          [c EXCEPT !.key = "set"], [c EXCEPT !.key = "unset"],
                          [c EXCEPT !.size = 1]} : Saves("settings", edited)
    /\ UNCHANGED <<opened, heard, backendVars, lookVars>>

(* settings.ts takes the config, and listens once its fonts are there.     *)
OpenSettings ==
    /\ opened = "closed" /\ opened' = "loading"
    /\ conf' = [conf EXCEPT !["settings"] = store]
    /\ UNCHANGED <<sets, heard, edits, backendVars, lookVars>>

SettingsListen ==
    /\ opened = "loading" /\ opened' = "open"
    /\ UNCHANGED <<conf, sets, heard, edits, backendVars, lookVars>>

CloseSettings ==
    /\ opened = "open" /\ opened' = "closed"
    /\ heard' = [heard EXCEPT !["settings"] = <<>>]
    /\ UNCHANGED <<conf, sets, edits, backendVars, lookVars>>

-----------------------------------------------------------------------------
Emit(c) ==
    heard' = [heard EXCEPT !["main"] = Append(@, c),
                           !["settings"] = IF opened = "open" THEN Append(@, c) ELSE @]

ConfigSetWrites(w) ==
    /\ saving = <<>> /\ sets[w] # <<>>
    /\ configFile' = Head(sets[w]) /\ dirty' = TRUE
    /\ saving' = <<Head(sets[w])>>
    /\ sets' = [sets EXCEPT ![w] = Tail(@)]
    /\ UNCHANGED <<store, conf, opened, read, heard, edits, lookVars>>

ConfigSetStores ==
    /\ saving # <<>> /\ saving' = <<>>
    /\ store' = Head(saving) /\ Emit(Head(saving))
    /\ UNCHANGED <<configFile, conf, opened, sets, dirty, read, edits, lookVars>>

FileEdited ==
    /\ Counted("file")
    /\ \E c \in {[configFile EXCEPT !.key = "unset"],
                 [configFile EXCEPT !.size = MaxSize]} : configFile' = c
    /\ dirty' = TRUE
    /\ UNCHANGED <<store, conf, opened, sets, saving, read, heard, lookVars>>

WatcherReads ==
    /\ dirty /\ read = <<>> /\ saving = <<>>
    /\ dirty' = FALSE /\ read' = <<configFile>>
    /\ UNCHANGED <<configFile, store, conf, opened, sets, saving, heard, edits, lookVars>>

Compares ==
    /\ read # <<>> /\ read' = <<>>
    /\ IF store = Head(read) THEN UNCHANGED <<store, heard>>
       ELSE store' = Head(read) /\ Emit(Head(read))
    /\ UNCHANGED <<configFile, conf, opened, sets, saving, edits, lookVars>>

\* Mutant of WatcherCompares: a change that came meanwhile is forgotten.
CompareAndDrain == Compares /\ dirty' = FALSE

WatcherCompares == Compares /\ UNCHANGED dirty

-----------------------------------------------------------------------------
(* applySessionLook: a font that is not loaded is waited for.              *)
ApplySessionLook(c) ==
    IF c.font = "download" /\ ~loaded
    THEN loading' = loading \cup {c.font} /\ UNCHANGED look
    ELSE look' = c.font /\ UNCHANGED loading

(* config-changed in the main window: applyConfig takes the event whole.   *)
MainHears ==
    /\ heard["main"] # <<>>
    /\ LET c == Head(heard["main"])
       IN  /\ conf' = [conf EXCEPT !["main"] = c]
           /\ fontSize' = c.size
           /\ ApplySessionLook(c)
    /\ heard' = [heard EXCEPT !["main"] = Tail(@)]
    /\ UNCHANGED <<opened, sets, edits, loaded, backendVars>>

(* The look is applied again with the configuration that asked for it.     *)
FontIsLoaded(f) ==
    /\ loading' = loading \ {f} /\ loaded' = TRUE /\ look' = f
    /\ UNCHANGED <<conf, opened, sets, heard, fontSize, edits, backendVars>>

(* config-changed in the settings window.                                  *)
SettingsHear ==
    /\ heard["settings"] # <<>>
    /\ conf' = [conf EXCEPT !["settings"] = AssignDeep(@, Head(heard["settings"]))]
    /\ heard' = [heard EXCEPT !["settings"] = Tail(@)]
    /\ UNCHANGED <<opened, sets, edits, backendVars, lookVars>>

ConfigNext ==
    \/ \E delta \in 0..1 : SetFontSize(delta)
    \/ MainSaves \/ SettingsSave \/ OpenSettings \/ SettingsListen \/ CloseSettings
    \/ \E w \in Windows : ConfigSetWrites(w)
    \/ ConfigSetStores \/ FileEdited
    \/ WatcherReads \/ WatcherCompares
    \/ MainHears \/ SettingsHear \/ \E f \in loading : FontIsLoaded(f)

-----------------------------------------------------------------------------
Settled ==
    /\ \A w \in Windows : sets[w] = <<>> /\ heard[w] = <<>>
    /\ saving = <<>> /\ ~dirty /\ read = <<>>

(* Once every save has been written and every change heard, the file, the  *)
(* backend and the main window hold the same configuration: with two       *)
(* windows that save, an editor at the file and a watcher that may emit    *)
(* what it read before a save after that save, no place keeps an older one. *)
MainKeepsCurrent == Settled => configFile = store /\ conf["main"] = store
=============================================================================

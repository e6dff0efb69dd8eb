------------------------------ MODULE QuickOpen ------------------------------
(***************************************************************************)
(* The quick-open palette (quickopen.ts, searchscope.ts) and, as far as    *)
(* the palette sees it, the search of the backend.                         *)
(*                                                                         *)
(* search_query and search_close run in the order of the calls;            *)
(* search_start runs on a thread pool, so it may come after them, and two  *)
(* of them in any order.  A walk ends with a Done event, also when a newer *)
(* search has replaced it.  Every search has a channel of its own, told    *)
(* apart here by its generation.  Only the file rows are modelled, and a   *)
(* query is empty, which matches no file, or matches every file.           *)
(***************************************************************************)
EXTENDS Naturals, Sequences

CONSTANTS
    ProjectRoots,   \* the roots a palette may find for the project scope
    Home,           \* the home folder
    MaxSearches,    \* bounds the searches started
    MaxTyped        \* bounds the edits of the query

VARIABLES
    palette,        \* is it open
    scope,          \* "project" or "home"
    projectRoot,    \* roots.project
    generation,
    channel,        \* the generation of the channel that is listened to, or 0
    found,          \* SearchState: [rows, done]
    query,          \* the query that was run last
    filterTimer,    \* the query the debounce timer will run, or "off"
    typed,          \* edits so far
    searchCalls,          \* the queries and closes that have not run yet
    starts,         \* the search_start calls that have not run yet
    walks,          \* the walks under way, with the files they found at their start
    searcher,       \* the session of the backend: [gen, root, index], gen 0 for none
    watching,       \* the generation the file watcher patches, or 0
    events,         \* the events on their way to the palette
    disk            \* the files under each root

quickVars == <<palette, scope, projectRoot, generation, channel, found, query,
               filterTimer, typed, searchCalls, starts, walks, searcher, watching,
               events, disk>>

searchVars == <<starts, walks, searcher, watching, disk>>

-----------------------------------------------------------------------------
Root(s) == IF s = "project" THEN projectRoot ELSE Home

InitialSearch == [rows |-> {}, done |-> FALSE]

NoSearcher == [gen |-> 0, root |-> Home, index |-> {}]

\* applyEvent.  Mutant of Applied: the channel of the event is not looked at.
ApplyAny(ch, e) == IF e.kind = "done" THEN [found EXCEPT !.done = TRUE]
                   ELSE IF e.gen # generation THEN found
                   ELSE [found EXCEPT !.rows = e.rows]

(* onmessage.                                                              *)
Applied(ch, e) == IF ch # e.gen THEN found ELSE ApplyAny(ch, e)

Closing == IF channel # 0 THEN <<[op |-> "close", gen |-> generation]>> ELSE <<>>

QuickInit ==
    /\ palette = FALSE /\ scope = "project" /\ projectRoot \in ProjectRoots
    /\ generation = 0 /\ channel = 0 /\ found = InitialSearch
    /\ query = "empty" /\ filterTimer = "off" /\ typed = 0
    /\ searchCalls = <<>> /\ starts = {} /\ walks = {}
    /\ searcher = NoSearcher /\ watching = 0 /\ events = <<>>
    /\ disk = [r \in ProjectRoots \cup {Home} |-> {"old"}]

-----------------------------------------------------------------------------
(* startSearch, for the scope s and the query q.                           *)
StartSearch(s, root, q) ==
    /\ generation < MaxSearches
    /\ generation' = generation + 1 /\ channel' = generation + 1
    /\ found' = InitialSearch
    /\ searchCalls' = searchCalls \o Closing
                      \o <<[op |-> "query", gen |-> generation + 1, q |-> q]>>
    /\ starts' = starts \cup {[gen |-> generation + 1, root |-> root]}
    /\ UNCHANGED <<walks, searcher, watching, events, disk>>

(* open, which closes a palette that is open already.                      *)
OpenPalette ==
    \E s \in {"project", "home"}, p \in ProjectRoots :
        /\ palette' = TRUE /\ scope' = s /\ projectRoot' = p
        /\ query' = "empty" /\ filterTimer' = "off"
        /\ StartSearch(s, IF s = "project" THEN p ELSE Home, "empty")
        /\ UNCHANGED typed

ToggleScope ==
    /\ palette
    /\ scope' = IF scope = "project" THEN "home" ELSE "project"
    /\ StartSearch(scope', Root(scope'), query)
    /\ UNCHANGED <<palette, projectRoot, query, filterTimer, typed>>

TypeQuery(q) ==
    /\ palette /\ typed < MaxTyped
    /\ typed' = typed + 1 /\ filterTimer' = q
    /\ UNCHANGED <<palette, scope, projectRoot, generation, channel, found, query,
                   searchCalls, events, searchVars>>

RunQuery ==
    /\ filterTimer # "off"
    /\ query' = filterTimer /\ filterTimer' = "off"
    /\ searchCalls' = Append(searchCalls, [op |-> "query", gen |-> generation, q |-> filterTimer])
    /\ UNCHANGED <<palette, scope, projectRoot, generation, channel, found, typed,
                   events, searchVars>>

(* Esc, or the choice of a row, which opens its path under Root(scope).    *)
ClosePalette ==
    /\ palette
    /\ palette' = FALSE /\ filterTimer' = "off"
    /\ searchCalls' = searchCalls \o Closing
    /\ channel' = 0 /\ found' = InitialSearch
    /\ UNCHANGED <<scope, projectRoot, generation, query, typed, events, searchVars>>

EventArrives ==
    /\ events # <<>>
    /\ events' = Tail(events)
    /\ found' = Applied(channel, Head(events))
    /\ UNCHANGED <<palette, scope, projectRoot, generation, channel, query,
                   filterTimer, typed, searchCalls, searchVars>>

paletteVars == <<palette, scope, projectRoot, generation, channel, found, query,
                 filterTimer, typed>>

-----------------------------------------------------------------------------
Matches(q) == IF q = "empty" THEN {}
              ELSE {[root |-> searcher.root, file |-> f] : f \in searcher.index}

(* search_query answers on the channel of its session; search_close drops  *)
(* the session and cancels its walk and its watcher.  Another generation's *)
(* call does nothing.                                                      *)
CallRuns ==
    /\ searchCalls # <<>>
    /\ searchCalls' = Tail(searchCalls)
    /\ LET c == Head(searchCalls)
           ours == c.gen = searcher.gen
       IN  /\ events' = IF ours /\ c.op = "query"
                        THEN Append(events, [kind |-> "results", gen |-> c.gen,
                                             rows |-> Matches(c.q)])
                        ELSE events
           /\ searcher' = IF ours /\ c.op = "close" THEN NoSearcher ELSE searcher
           /\ watching' = IF ours /\ c.op = "close" THEN 0 ELSE watching
    /\ UNCHANGED <<paletteVars, starts, walks, disk>>

StartRuns(s) ==
    /\ starts' = starts \ {s}
    /\ searcher' = [gen |-> s.gen, root |-> s.root, index |-> {}]
    /\ walks' = walks \cup {[gen |-> s.gen, root |-> s.root, seen |-> disk[s.root]]}
    /\ watching' = 0
    /\ UNCHANGED <<paletteVars, searchCalls, events, disk>>

(* A file that appears while the walk is under way may be missed.          *)
WalkEnds(w) ==
    /\ walks' = walks \ {w}
    /\ events' = Append(events, [kind |-> "done", gen |-> w.gen])
    /\ IF w.gen = searcher.gen
       THEN /\ \E S \in {w.seen, disk[w.root]} : searcher' = [searcher EXCEPT !.index = S]
            /\ watching' = w.gen
       ELSE UNCHANGED <<searcher, watching>>
    /\ UNCHANGED <<paletteVars, searchCalls, starts, disk>>

FileAppears(r) ==
    /\ "new" \notin disk[r]
    /\ disk' = [disk EXCEPT ![r] = @ \cup {"new"}]
    /\ searcher' = IF watching # 0 /\ watching = searcher.gen /\ searcher.root = r
                   THEN [searcher EXCEPT !.index = @ \cup {"new"}] ELSE searcher
    /\ UNCHANGED <<paletteVars, searchCalls, starts, walks, watching, events>>

QuickNext ==
    \/ OpenPalette \/ ToggleScope \/ RunQuery \/ ClosePalette \/ EventArrives
    \/ \E q \in {"empty", "q"} : TypeQuery(q)
    \/ CallRuns
    \/ \E s \in starts : StartRuns(s)
    \/ \E w \in walks : WalkEnds(w)
    \/ \E r \in DOMAIN disk : FileAppears(r)

-----------------------------------------------------------------------------
(* The palette shows its own search and no other: choosing a row joins its *)
(* path to the root of the scope on screen, so a row found under another   *)
(* root would open another file; and a Done of a search that was replaced  *)
(* must not end the one that is still indexing.  Events of three searches  *)
(* may be under way at once, and results alone carry a generation.         *)
SearchIsItsOwn ==
    /\ \A r \in found.rows : r.root = Root(scope)
    /\ found.done => \A s \in starts \cup {[gen |-> w.gen, root |-> w.root] : w \in walks} :
                        s.gen # generation
=============================================================================

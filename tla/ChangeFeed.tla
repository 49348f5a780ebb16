---------------------------- MODULE ChangeFeed ----------------------------
(***************************************************************************)
(* The ordered change feed of one user: the canonical state derived from   *)
(* the tracking rows, the log of its movements, the repair that makes the  *)
(* first baseline honest, the bulk import that writes past the model       *)
(* signals, and strict ("contract 2") clients that take a snapshot and     *)
(* then replay the log (app/services/watch_state.py, sync_lock.py,         *)
(* progress_changes.py, signals_watch_state.py, tasks_watch_state.py,      *)
(* api/fork_views_sync.py).                                                *)
(*                                                                         *)
(* Every writer and every strict reader holds the user's sequence row from *)
(* its first read to its commit, so each is one action.  The steps that do *)
(* not hold it are separate actions: the walk over the library, the bulk   *)
(* projection of an import, and the pages of one client.                   *)
(*                                                                         *)
(* A value stands for what a client mirrors (watched with a play count; a  *)
(* resume position).  The dates of a state are not told apart.  A page     *)
(* carries one row: a longer page is a run of one-row pages with no server *)
(* step in between.                                                        *)
(***************************************************************************)
EXTENDS Integers

CONSTANTS
    MaxItem,        \* item ids are 1..MaxItem, in creation order
    Values,         \* what the state of an item can be
    Unwatched,      \* the value derived when no tracking row says otherwise
    None,           \* no row
    Clients,        \* strict clients, each mirroring one resource at a time
    Walkers,        \* tasks that walk the library
    Repairs,        \* those that are the resumable repair, with a saved cursor
    Imports,        \* bulk imports
    Resumable,      \* the items that can have a resume position
    MaxSequence,    \* bound: nothing is logged beyond this sequence
    MaxGeneration   \* bound: invalidations stop at this generation

ASSUME FeedAssumption ==
    /\ MaxItem \in Nat
    /\ Unwatched \in Values
    /\ None \notin Values
    /\ None \notin Int
    /\ Repairs \subseteq Walkers
    /\ Resumable \subseteq 1..MaxItem
    /\ MaxSequence \in Nat
    /\ MaxGeneration \in Nat

VARIABLES
    lastSequence,   \* WatchStateSequence.last_sequence
    emitChanges,    \* .emit_changes: a provider connection wants the log
    apiFeedEnabled, \* .api_feed_enabled: a strict client wants the log
    generation,     \* .sync_generation, as a counter
    floor,          \* .watched_cursor_floor and .progress_cursor_floor
    live,           \* the items that exist
    made,           \* the largest item id ever given out
    src,            \* what the tracking rows of an item say
    state,          \* WatchState and PlaybackProgress
    log,            \* WatchStateChange and ProgressChange
    repaired,       \* the user's repair is marked complete
    saved,          \* the repair's cursor in the database
    walker,         \* the walks in progress
    batch,          \* the projection of each bulk import
    asserted,       \* items whose state an API client set by hand
    client          \* the strict clients

sequenceVars == <<lastSequence, emitChanges, apiFeedEnabled, generation, floor>>
libraryVars == <<live, made, src>>
repairVars == <<repaired, saved>>
vars == <<sequenceVars, libraryVars, state, log, repairVars, walker, batch,
          asserted, client>>

Resources == {"watched", "progress"}
Items == 1..MaxItem
Rows == Values \cup {None}

Changes == [seq : Nat, res : Resources, item : Items \cup {None}, val : Rows]

Derived(rows) == IF rows = None THEN Unwatched ELSE rows

MutantEmitOnly == emitChanges
Recording == emitChanges \/ apiFeedEnabled

Empty == [i \in Items |-> None]

Away == [phase |-> "off", res |-> "watched", gen |-> 0, base |-> 0, ceil |-> 0,
         after |-> 0, cursor |-> 0, view |-> Empty]

AtRest == [phase |-> "idle", gen |-> 0, at |-> 0, next |-> 0]

NoBatch == [phase |-> "idle", item |-> 0, val |-> None]

-----------------------------------------------------------------------------
(* The library before any feed: rows tracked by an older release, whose      *)
(* states are missing or, after an old overwrite, a stale "unwatched".       *)

Init ==
    /\ lastSequence = 0
    /\ emitChanges = FALSE
    /\ apiFeedEnabled = FALSE
    /\ generation = 0
    /\ floor = [r \in Resources |-> 0]
    /\ made \in 0..MaxItem
    /\ live = 1..made
    /\ src \in [Items -> Rows]
    /\ \A i \in Items \ live : src[i] = None
    /\ \E old \in [Items -> {None, Unwatched}] :
          /\ \A i \in Items \ live : old[i] = None
          /\ state = [r \in Resources |-> IF r = "watched" THEN old ELSE Empty]
    /\ log = {}
    /\ repaired = FALSE
    /\ saved = 0
    /\ walker = [w \in Walkers |-> AtRest]
    /\ batch = [m \in Imports |-> NoBatch]
    /\ asserted = {}
    /\ client = [k \in Clients |-> Away]

-----------------------------------------------------------------------------
(* Writing state.                                                            *)

Store(r, i, v) == state' = [state EXCEPT ![r][i] = v]

\* One movement: the next sequence, and the row that carries it.
Record(r, i, v) ==
    /\ lastSequence < MaxSequence
    /\ lastSequence' = lastSequence + 1
    /\ log' = log \cup {[seq |-> lastSequence + 1, res |-> r, item |-> i, val |-> v]}

\* Recompute the state of an item whose tracking rows now say "rows".
Project(i, rows) ==
    \/ /\ state["watched"][i] = Derived(rows)
       /\ UNCHANGED <<lastSequence, log, state>>
    \/ /\ state["watched"][i] # Derived(rows)
       /\ Store("watched", i, Derived(rows))
       /\ \/ Recording /\ Record("watched", i, Derived(rows))
          \/ ~Recording /\ UNCHANGED <<lastSequence, log>>

CreateItem ==
    /\ made < MaxItem
    /\ made' = made + 1
    /\ live' = live \cup {made + 1}
    /\ UNCHANGED <<sequenceVars, src, state, log, repairVars, walker, batch,
                   asserted, client>>

\* A tracking row is saved or deleted, or rows are deleted in bulk: the state is
\* projected in the same transaction.
LocalEdit(i, v) ==
    /\ i \in live
    /\ src[i] # None \/ v # None
    /\ src' = [src EXCEPT ![i] = v]
    /\ Project(i, v)
    /\ asserted' = asserted \ {i}
    /\ UNCHANGED <<emitChanges, apiFeedEnabled, generation, floor, live, made,
                   repairVars, walker, batch, client>>

\* A bulk write while nothing records: no state is projected, contexts are
\* invalidated and the repair starts over.
BulkQuietly(i, v) ==
    /\ ~Recording
    /\ generation < MaxGeneration
    /\ generation' = generation + 1
    /\ repaired' = FALSE
    /\ saved' = 0
    /\ src' = [src EXCEPT ![i] = v]
    /\ UNCHANGED <<lastSequence, log, state, asserted>>

BulkProjected(i, v) ==
    /\ Recording
    /\ src' = [src EXCEPT ![i] = v]
    /\ Project(i, v)
    /\ asserted' = asserted \ {i}
    /\ UNCHANGED <<generation, repairVars>>

BulkWrite(i, v) ==
    /\ i \in live
    /\ BulkQuietly(i, v) \/ BulkProjected(i, v)
    /\ UNCHANGED <<emitChanges, apiFeedEnabled, floor, live, made, walker, client>>

BulkUpdate(i, v) ==
    /\ src[i] # None
    /\ BulkWrite(i, v)
    /\ UNCHANGED batch

\* PUT of a watched flag: a statement about state, always logged.
PutState(i, v) ==
    /\ i \in live
    /\ state["watched"][i] # v
    /\ Store("watched", i, v)
    /\ Record("watched", i, v)
    /\ asserted' = asserted \cup {i}
    /\ UNCHANGED <<emitChanges, apiFeedEnabled, generation, floor, libraryVars,
                   repairVars, walker, batch, client>>

\* A resume position is saved or cleared; a clear is an explicit row.
ProgressEdit(i, v) ==
    /\ i \in live
    /\ state["progress"][i] # v
    /\ Store("progress", i, v)
    /\ \/ Recording /\ Record("progress", i, v)
       \/ ~Recording /\ UNCHANGED <<lastSequence, log>>
    /\ UNCHANGED <<emitChanges, apiFeedEnabled, generation, floor, libraryVars,
                   repairVars, walker, batch, asserted, client>>

-----------------------------------------------------------------------------
(* Identity changes, resets, retention and the recording flag.               *)

Mentioned(i) ==
    \/ \E r \in Resources : state[r][i] # None
    \/ \E c \in log : c.item = i

\* Users the item concerns lose their contexts; rows that track an episode, unlike
\* other tracking rows, concern their user without a state or a log row.
FenceDeletion(i) ==
    \/ /\ Mentioned(i) \/ src[i] # None
       /\ generation < MaxGeneration
       /\ generation' = generation + 1
    \/ /\ ~Mentioned(i)
       /\ UNCHANGED generation

ProgressOf(i) == {c \in log : c.res = "progress" /\ c.item = i}

\* The catalogue row goes: its states cascade, the watched log keeps its rows
\* without an item, the progress log loses its rows and says so in the floor.
DeleteItem(i) ==
    /\ i \in live
    /\ FenceDeletion(i)
    /\ live' = live \ {i}
    /\ src' = [src EXCEPT ![i] = None]
    /\ state' = [r \in Resources |-> [state[r] EXCEPT ![i] = None]]
    /\ log' = {[c EXCEPT !.item = IF c.item = i THEN None ELSE c.item] :
               c \in log \ ProgressOf(i)}
    /\ \/ /\ \A c \in ProgressOf(i) : c.seq <= floor["progress"]
          /\ UNCHANGED floor
       \/ \E top \in ProgressOf(i) :
             /\ \A c \in ProgressOf(i) : c.seq <= top.seq
             /\ top.seq > floor["progress"]
             /\ floor' = [floor EXCEPT !["progress"] = top.seq]
    /\ asserted' = asserted \ {i}
    /\ UNCHANGED <<lastSequence, emitChanges, apiFeedEnabled, made, repairVars,
                   walker, batch, client>>

\* The reset command, a corrected match or a rewritten identity.
InvalidateContexts ==
    /\ generation < MaxGeneration
    /\ generation' = generation + 1
    /\ UNCHANGED <<lastSequence, emitChanges, apiFeedEnabled, floor, libraryVars,
                   state, log, repairVars, walker, batch, asserted, client>>

MutantFloorStays(r, n) == floor[r]
MutantFloorPast(r, n) == n + 1
Raised(r, n) == IF n > floor[r] THEN n ELSE floor[r]

\* Retention: rows through n are old.  The floor rises to the newest of them,
\* and those that nothing holds back go (FeedRetention says which).
Compact(r, n) ==
    /\ \E c \in log : c.res = r /\ c.seq = n
    /\ floor' = [floor EXCEPT ![r] = Raised(r, n)]
    /\ \E gone \in SUBSET {c \in log : c.res = r /\ c.seq <= n} :
          log' = log \ gone
    /\ UNCHANGED <<lastSequence, emitChanges, apiFeedEnabled, generation,
                   libraryVars, state, repairVars, walker, batch, asserted, client>>

\* The last connection that wants the log goes, or the first one comes.
SetEmitChanges(b) ==
    /\ emitChanges' = b
    /\ UNCHANGED <<lastSequence, apiFeedEnabled, generation, floor, libraryVars,
                   state, log, repairVars, walker, batch, asserted, client>>

-----------------------------------------------------------------------------
(* The walk over a library: bootstrap's backfill and the resumable repair.   *)

Step(w, rec) == walker' = [walker EXCEPT ![w] = rec]

WalkStart(w) ==
    /\ walker[w].phase = "idle"
    /\ ~repaired
    /\ Step(w, [phase |-> "look", gen |-> generation, next |-> 0,
                at |-> IF w \in Repairs THEN saved ELSE 0])
    /\ UNCHANGED <<sequenceVars, libraryVars, state, log, repairVars, batch,
                   asserted, client>>

MutantFromHere(at) == {i \in live : i >= at /\ src[i] # None}
Tracked(at) == {i \in live : i > at /\ src[i] # None}

\* The query for the next tracked item, outside the lock.
WalkLook(w) ==
    /\ walker[w].phase = "look"
    /\ \/ /\ Tracked(walker[w].at) = {}
          /\ Step(w, [walker[w] EXCEPT !.phase = "end"])
       \/ \E i \in Tracked(walker[w].at) :
             /\ \A j \in Tracked(walker[w].at) : i <= j
             /\ Step(w, [walker[w] EXCEPT !.phase = "project", !.next = i])
    /\ UNCHANGED <<sequenceVars, libraryVars, state, log, repairVars, batch,
                   asserted, client>>

\* project_watch_state(record_changes=False): a state moved without a log row
\* invalidates the contexts of a running feed.
WalkItem(w) ==
    LET i == walker[w].next
        new == Derived(src[i])
    IN  /\ walker[w].phase = "project"
        /\ i \in live
        /\ \/ /\ state["watched"][i] = new
              /\ UNCHANGED <<state, generation>>
           \/ /\ state["watched"][i] # new
              /\ Store("watched", i, new)
              /\ generation' = IF apiFeedEnabled THEN generation + 1 ELSE generation
        /\ asserted' = asserted \ {i}
        /\ Step(w, [walker[w] EXCEPT !.phase = IF w \in Repairs THEN "save" ELSE "look",
                                     !.at = i, !.next = 0])
        /\ UNCHANGED <<lastSequence, emitChanges, apiFeedEnabled, floor,
                       libraryVars, log, repairVars, batch, client>>

MutantAnyGeneration(w) == TRUE
Unmoved(w) == walker[w].gen = generation

\* The repair keeps its place, unless the contexts moved under it.
WalkSave(w) ==
    /\ walker[w].phase = "save"
    /\ \/ /\ Unmoved(w)
          /\ saved' = walker[w].at
          /\ Step(w, [walker[w] EXCEPT !.phase = "look"])
       \/ /\ ~Unmoved(w)
          /\ Step(w, AtRest)
          /\ UNCHANGED saved
    /\ UNCHANGED <<sequenceVars, libraryVars, state, log, repaired, batch,
                   asserted, client>>

WalkEnd(w) ==
    /\ walker[w].phase = "end"
    /\ \/ /\ Unmoved(w)
          /\ repaired' = TRUE
          /\ saved' = 0
       \/ /\ ~Unmoved(w)
          /\ UNCHANGED repairVars
    /\ Step(w, AtRest)
    /\ UNCHANGED <<sequenceVars, libraryVars, state, log, batch, asserted, client>>

\* The item it was about to project has been deleted: the insert fails.
WalkFails(w) ==
    /\ walker[w].phase = "project"
    /\ walker[w].next \notin live
    /\ Step(w, AtRest)
    /\ UNCHANGED <<sequenceVars, libraryVars, state, log, repairVars, batch,
                   asserted, client>>

\* The worker stops, or the time budget runs out.
WalkDies(w) ==
    /\ walker[w].phase # "idle"
    /\ Step(w, AtRest)
    /\ UNCHANGED <<sequenceVars, libraryVars, state, log, repairVars, batch,
                   asserted, client>>

-----------------------------------------------------------------------------
(* A bulk import: the rows are written in one transaction, and projected     *)
(* afterwards by reads and an insert that do not hold the sequence row.      *)

ImportWrite(m, i, v) ==
    /\ batch[m].phase = "idle"
    /\ BulkWrite(i, v)
    /\ batch' = [batch EXCEPT ![m] = [phase |-> "written", item |-> i, val |-> None]]

To(m, phase, v) == batch' = [batch EXCEPT ![m].phase = phase, ![m].val = v]

Done(m) == batch' = [batch EXCEPT ![m] = NoBatch]

ReadOnly ==
    UNCHANGED <<sequenceVars, libraryVars, state, log, repairVars, walker,
                asserted, client>>

\* Which path: the recording flags are read without the lock.
ImportDerive(m) ==
    /\ batch[m].phase = "written"
    /\ \/ Recording /\ To(m, "project", None)
       \/ ~Recording /\ To(m, "derived", Derived(src[batch[m].item]))
    /\ ReadOnly

ImportCheck(m) ==
    LET held == state["watched"][batch[m].item]
    IN  /\ batch[m].phase = "derived"
        /\ \/ held = None /\ To(m, "insert", batch[m].val)
           \/ held \notin {None, batch[m].val} /\ To(m, "project", None)
           \/ held = batch[m].val /\ Done(m)
        /\ ReadOnly

\* bulk_create(ignore_conflicts=True): no log row, no invalidation.
ImportInsert(m) ==
    LET i == batch[m].item
    IN  /\ batch[m].phase = "insert"
        /\ i \in live
        /\ \/ state["watched"][i] = None /\ Store("watched", i, batch[m].val)
           \/ state["watched"][i] # None /\ UNCHANGED state
        /\ Done(m)
        /\ UNCHANGED <<sequenceVars, libraryVars, log, repairVars, walker, asserted,
                       client>>

ImportProject(m) ==
    LET i == batch[m].item
    IN  /\ batch[m].phase = "project"
        /\ i \in live
        /\ Project(i, src[i])
        /\ asserted' = asserted \ {i}
        /\ Done(m)
        /\ UNCHANGED <<emitChanges, apiFeedEnabled, generation, floor, libraryVars,
                       repairVars, walker, client>>

\* The task fails, or the item is gone.
ImportDies(m) ==
    /\ batch[m].phase # "idle"
    /\ Done(m)
    /\ ReadOnly

-----------------------------------------------------------------------------
(* Strict clients.                                                           *)

Valid(k) ==
    /\ client[k].phase # "off"
    /\ client[k].gen = generation
    /\ apiFeedEnabled
    /\ client[k].cursor >= floor[client[k].res]
    /\ client[k].cursor <= lastSequence
    /\ client[k].cursor >= client[k].base

Now(k, rec) == client' = [client EXCEPT ![k] = rec]

ServerUnchanged ==
    UNCHANGED <<sequenceVars, libraryVars, state, log, repairVars, walker, batch,
                asserted>>

Ready == repaired

\* POST /sync/bootstrap/: refused until the repair is complete; the first one
\* turns recording on and starts both resources above everything logged before.
Bootstrap(k, r) ==
    /\ client[k].phase = "off"
    /\ Ready
    /\ \/ /\ ~apiFeedEnabled
          /\ apiFeedEnabled' = TRUE
          /\ lastSequence' = lastSequence + 1
          /\ floor' = [x \in Resources |-> lastSequence + 1]
       \/ /\ apiFeedEnabled
          /\ UNCHANGED <<apiFeedEnabled, lastSequence, floor>>
    /\ \E top \in 0..MaxItem :
          /\ \A i \in live : i <= top
          /\ top \in live \cup {0}
          /\ Now(k, [phase |-> "snap", res |-> r, gen |-> generation,
                     base |-> lastSequence', ceil |-> top, after |-> 0,
                     cursor |-> lastSequence', view |-> Empty])
    /\ UNCHANGED <<emitChanges, generation, libraryVars, state, log, repairVars,
                   walker, batch, asserted>>

ToRead(k) ==
    {i \in Items : /\ i > client[k].after
                   /\ i <= client[k].ceil
                   /\ state[client[k].res][i] # None}

\* One page of the baseline, by item id.
SnapshotPage(k) ==
    /\ client[k].phase = "snap"
    /\ Valid(k)
    /\ \/ /\ ToRead(k) = {}
          /\ Now(k, [client[k] EXCEPT !.phase = "replay"])
       \/ \E i \in ToRead(k) :
             /\ \A j \in ToRead(k) : i <= j
             /\ Now(k, [client[k] EXCEPT
                          !.view[i] = state[client[k].res][i],
                          !.after = i,
                          !.phase = IF ToRead(k) = {i} THEN "replay" ELSE "snap"])
    /\ ServerUnchanged

Unread(k) == {c \in log : c.res = client[k].res /\ c.seq > client[k].cursor}

Applied(k, c) ==
    [i \in Items |-> IF i = c.item THEN c.val ELSE client[k].view[i]]

MutantNoMore(k, c) == FALSE
HasMore(k, c) == Unread(k) # {c}

\* One page of the feed.  The last page moves the cursor to the high water.
FeedPage(k) ==
    /\ client[k].phase \in {"replay", "live"}
    /\ Valid(k)
    /\ \/ /\ Unread(k) = {}
          /\ Now(k, [client[k] EXCEPT !.phase = "live", !.cursor = lastSequence])
       \/ \E c \in Unread(k) :
             /\ \A d \in Unread(k) : c.seq <= d.seq
             /\ Now(k, [client[k] EXCEPT
                          !.view = Applied(k, c),
                          !.cursor = IF HasMore(k, c) THEN c.seq ELSE lastSequence,
                          !.phase = IF HasMore(k, c) THEN "replay" ELSE "live"])
    /\ ServerUnchanged

\* The client dies after it applied a page and before it saved the cursor.
FeedPageForgotten(k) ==
    /\ client[k].phase \in {"replay", "live"}
    /\ Valid(k)
    /\ \E c \in Unread(k) :
          /\ \A d \in Unread(k) : c.seq <= d.seq
          /\ Now(k, [client[k] EXCEPT !.view = Applied(k, c), !.phase = "replay"])
    /\ ServerUnchanged

\* An expired cursor or a reset: the client starts over.
TurnedAway(k) ==
    /\ client[k].phase # "off"
    /\ ~Valid(k)
    /\ Now(k, Away)
    /\ ServerUnchanged

-----------------------------------------------------------------------------
Edits ==
    \/ CreateItem
    \/ \E i \in Items, v \in Rows : LocalEdit(i, v)
    \/ \E i \in Items, v \in Values : BulkUpdate(i, v)
    \/ \E i \in Items, v \in Values : PutState(i, v)
    \/ \E i \in Resumable, v \in Rows : ProgressEdit(i, v)
    \/ \E i \in Items : DeleteItem(i)

Upkeep ==
    \/ InvalidateContexts
    \/ \E r \in Resources, n \in 1..MaxSequence : Compact(r, n)
    \/ \E b \in BOOLEAN : SetEmitChanges(b)

Walk(w) ==
    \/ WalkStart(w)
    \/ WalkLook(w)
    \/ WalkItem(w)
    \/ WalkSave(w)
    \/ WalkEnd(w)
    \/ WalkFails(w)

Import(m) ==
    \/ \E i \in Items, v \in Values : ImportWrite(m, i, v)
    \/ ImportDerive(m)
    \/ ImportCheck(m)
    \/ ImportInsert(m)
    \/ ImportProject(m)
    \/ ImportDies(m)

Pull(k) ==
    \/ \E r \in Resources : Bootstrap(k, r)
    \/ SnapshotPage(k)
    \/ FeedPage(k)
    \/ TurnedAway(k)

Next ==
    \/ Edits
    \/ Upkeep
    \/ \E m \in Imports : Import(m)
    \/ \E w \in Walkers : Walk(w) \/ WalkDies(w)
    \/ \E k \in Clients : Pull(k) \/ FeedPageForgotten(k)

Spec == Init /\ [][Next]_vars

\* The task queue starts a walk that bootstrap asked for and runs it; a client that
\* keeps polling is answered.
FairSpec ==
    /\ Spec
    /\ \A w \in Walkers : WF_vars(Walk(w))
    /\ \A k \in Clients : WF_vars(Pull(k))

-----------------------------------------------------------------------------
(* Properties.                                                               *)

\* Every variable keeps its type, and nothing is kept for an item that is gone.
TypeOK ==
    /\ lastSequence \in 0..MaxSequence + 1
    /\ emitChanges \in BOOLEAN
    /\ apiFeedEnabled \in BOOLEAN
    /\ generation \in Nat
    /\ floor \in [Resources -> 0..lastSequence]
    /\ made \in 0..MaxItem
    /\ live \subseteq 1..made
    /\ src \in [Items -> Rows]
    /\ state \in [Resources -> [Items -> Rows]]
    /\ log \subseteq Changes
    /\ \A c \in log : c.seq \in 1..lastSequence
    /\ repaired \in BOOLEAN
    /\ saved \in 0..MaxItem
    /\ walker \in [Walkers -> [phase : {"idle", "look", "project", "save", "end"},
                              gen : Nat, at : 0..MaxItem, next : 0..MaxItem]]
    /\ batch \in [Imports -> [phase : {"idle", "written", "derived", "insert", "project"},
                             item : 0..MaxItem, val : Rows]]
    /\ asserted \subseteq live
    /\ client \in [Clients -> [phase : {"off", "snap", "replay", "live"},
                              res : Resources, gen : Nat, base : 0..MaxSequence + 1,
                              ceil : 0..MaxItem, after : 0..MaxItem,
                              cursor : 0..MaxSequence + 1, view : [Items -> Rows]]]

\* What client k has still to be told of item i.
Owed(k, i) == {c \in Unread(k) : c.item = i}

\* The item comes on a later page of the baseline.
NotYetRead(k, i) ==
    /\ client[k].phase = "snap"
    /\ i > client[k].after
    /\ i <= client[k].ceil

\* Replaying the retained log from a cursor the server still accepts ends at the
\* state: the last row a client is owed for an item carries the item's present
\* state, and an item nothing is owed for is already mirrored.  It would fail if
\* a writer moved state without a row or a reset, if retention removed a row
\* above the floor, or if a page moved the cursor past a row it did not carry.
ReplayReachesState ==
    \A k \in Clients : Valid(k) =>
        \A i \in Items :
            \/ \E c \in Owed(k, i) :
                  /\ \A d \in Owed(k, i) : d.seq <= c.seq
                  /\ c.val = state[client[k].res][i]
            \/ /\ Owed(k, i) = {}
               /\ ~NotYetRead(k, i) => client[k].view[i] = state[client[k].res][i]

\* The canonical state of an item agrees with its tracking rows, or an API client
\* stated it by hand, or there is nothing to say about it.
Settled(i) ==
    \/ i \in asserted
    \/ state["watched"][i] = Derived(src[i])
    \/ state["watched"][i] = None /\ src[i] = None

\* A repair marked complete has left no stale or missing state behind, whatever
\* was written while its walk ran: the baseline bootstrap hands out is the truth.
BaselineIsRepaired == repaired => \A i \in Items : Settled(i)

\* Once a strict feed is on, the baseline stays repaired: no later bulk write takes
\* the quiet path under a running feed.
FeedKeepsBaseline == apiFeedEnabled => repaired

\* The page that tells a client it is level leaves its mirror equal to the state,
\* and a watched mirror equal to what the tracking rows say.
CaughtUpIsTrue ==
    [][\A k \in Clients :
          (client'[k].phase = "live" /\ client'[k] # client[k]) =>
              /\ client'[k].view = state[client[k].res]
              /\ client[k].res = "watched" =>
                     \A i \in Items \ asserted :
                         Derived(client'[k].view[i]) = Derived(src[i])]_vars

\* When the walks stop dying, every client that keeps polling ends level with the
\* state and stays so: a refused bootstrap, an expired cursor and a reset all lead
\* back to a baseline, and the replay of the log comes to its end.
MirrorsCatchUp ==
    <>[][\A w \in Walkers : ~WalkDies(w)]_vars =>
        \A k \in Clients :
            <>[](/\ client[k].phase = "live"
                 /\ client[k].view = state[client[k].res])

=============================================================================

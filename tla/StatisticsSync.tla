--------------------------- MODULE StatisticsSync ---------------------------
(***************************************************************************)
(* The background Statistics sync of one user: app/statistics_sync.py.     *)
(*                                                                         *)
(* Writers change rows and mark what they touched (a dirty day, then the   *)
(* generation).  Sync passes, on any number of workers, claim a fenced     *)
(* lease, rebuild dirty day payloads into the cache, aggregate ranges from *)
(* the payloads and publish them as durable snapshots.  One bulk import at *)
(* a time may coalesce its marks.  A reconciler finds unfinished work when *)
(* a message is lost.                                                      *)
(*                                                                         *)
(* Data is abstracted to versions: every change takes the next number of   *)
(* `changes`, and a payload or a snapshot remembers, per source, the       *)
(* version it was computed from.                                           *)
(***************************************************************************)
EXTENDS Integers, FiniteSets

CONSTANTS
    LastDay,        \* local days are 1..LastDay
    FirstToday,     \* the local day the behaviour starts on
    Hot, Heavy,     \* HOT_RANGES and HEAVY_RANGES
    Window,         \* Window[r][t]: the days range r covers when today is t
    Workers,        \* processes that can run a sync pass
    Writers,        \* requests and tasks that save media rows
    Readers,        \* build_statistics_days_task instances (custom ranges)
    ImportKinds,    \* which endings an import may have, {} for no import
    Faults,         \* among "crash" "abort" "yield" "lose" "evict" "flush"
    SlowAt,         \* program points where a live pass may outlive its lease
    MidnightAt,     \* program points a pass may be at when the day turns
    MaxChanges, MaxRefreshes, MaxImports, MaxInline, MaxLapses, MaxFaults

Days   == 1..LastDay
Ranges == Hot \cup Heavy

Undated == 0                       \* rows with no day: status, score, credits
Sources == Days \cup {Undated}
Missing == -1                      \* no day payload in the cache
Absent  == -1                      \* no day_epoch key in the cache
Plain   == 0                       \* a day_epoch that names no sweep request
NoRange == "none"
Nobody  == "nobody"
NoDay   == 0

ASSUME ConstantsOK ==
    /\ LastDay \in Nat \ {0}
    /\ FirstToday \in Days
    /\ Hot \cap Heavy = {}
    /\ NoRange \notin Ranges
    /\ Nobody \notin Workers
    /\ Window \in [Ranges -> [Days -> SUBSET Days]]
    /\ MaxChanges \in Nat /\ MaxRefreshes \in Nat /\ MaxImports \in Nat
    /\ MaxInline \in Nat /\ MaxLapses \in Nat /\ MaxFaults \in Nat

VARIABLES
    today,      \* timezone.localdate()
    changes,    \* changes committed so far: the next version number
    data,       \* version of each source's committed rows
    payload,    \* day payloads in the cache
    epoch,      \* the stats:sync:day_epoch key
    dirty,      \* StatisticsDirtyDay: token per day, 0 when there is no row
    marks,      \* tokens handed out per day; a mark takes the next one
    generation, \* StatisticsSyncState.generation
    sweep,      \* full_sweep_requested_at as a request number, 0 when null
    sweeps,     \* sweep requests made so far (the clock of their timestamps)
    hotGen, heavyGen, syncedDay,      \* the synced markers
    settled,    \* last_marked_at is past the settle window, or the cap is
    lease,      \* [owner, state]: lease_token and lease_expires_at
    snaps,      \* StatisticsSnapshot per range
    wake,       \* a sync message waits in a queue
    writer,     \* per writer: where it is between saving and marking
    import,     \* the bulk import
    reader,     \* per custom-range builder: the day it has built
    pc, pass,   \* per worker: program point and local variables of run_sync
    bounds      \* how often each bounded event has happened

dayVars    == <<payload, epoch, dirty, marks>>
markVars   == <<generation, sweep, sweeps, settled>>
syncedVars == <<hotGen, heavyGen, syncedDay>>
srcVars    == <<changes, data>>
actorVars  == <<writer, import, reader>>
passVars   == <<pc, pass>>

vars == <<today, srcVars, dayVars, markVars, syncedVars, lease, snaps, wake,
          actorVars, passVars, bounds>>

-----------------------------------------------------------------------------
(* Shapes *)

Versions == 0..MaxChanges
NoSnap   == [gen |-> -1, builtDay |-> NoDay, window |-> NoDay, shows |-> <<>>]

\* What a published payload shows: a version per source it covers.
Shows == UNION {[{Undated} \cup D -> Versions] : D \in SUBSET Days}

Snapshot == [gen : Nat, builtDay : Days, window : Days, shows : Shows]
            \cup {NoSnap}

Idle == [only |-> NoRange, gen |-> 0, day |-> NoDay, stamp |-> 0,
         sweep |-> 0, full |-> FALSE, toks |-> [d \in Days |-> 0],
         work |-> {}, heavyDue |-> FALSE, todo |-> {}, cur |-> NoRange,
         window |-> NoDay, left |-> {}, built |-> NoDay, version |-> 0,
         read |-> [s \in Sources |-> Missing]]

Pass == [only : Ranges \cup {NoRange}, gen : Nat, day : 0..LastDay,
         stamp : Nat, sweep : Nat, full : BOOLEAN, toks : [Days -> Nat],
         work : SUBSET Days, heavyDue : BOOLEAN, todo : SUBSET Ranges,
         cur : Ranges \cup {NoRange}, window : 0..LastDay,
         left : SUBSET Days, built : 0..LastDay, version : Versions,
         read : [Sources -> Versions \cup {Missing}]]

\* Program points of run_sync, in the order it reaches them.
Points == {"idle", "start", "claimed", "prepare", "tokens", "days", "built",
           "epoch", "plan", "ranges", "fill", "filled", "collect", "late",
           "lateBuilt", "publish", "published", "clear", "record", "release"}

RowsOK   == changes \in Versions /\ data \in [Sources -> Versions]

DaysOK ==
    /\ payload \in [Days -> Versions \cup {Missing}]
    /\ epoch \in Nat \cup {Absent}
    /\ dirty \in [Days -> Nat]
    /\ marks \in [Days -> Nat]

MarksOK  == generation \in Nat /\ sweep \in Nat /\ sweeps \in Nat
FlagsOK  == settled \in BOOLEAN /\ wake \in BOOLEAN
SyncedOK == hotGen \in Nat /\ heavyGen \in Nat /\ syncedDay \in 0..LastDay
LeaseOK  == lease \in [owner : Workers \cup {Nobody},
                      state : {"free", "held", "lapsed"}]
SnapsOK  == snaps \in [Ranges -> Snapshot]
WriterOK == writer \in [Writers -> [at : {"idle", "saved", "dirtied", "dropped",
                                         "open"}, src : Sources]]
ImportOK == import \in [at : {"idle", "created", "open", "saved", "marked",
                             "closing", "publishing"},
                       kind : ImportKinds \cup {NoRange}, src : Sources,
                       prevGen : Nat, prevSweep : Nat, marker : Nat]
ReaderOK == reader \in [Readers -> [day : 0..LastDay, version : Versions]]
PassOK   == pc \in [Workers -> Points] /\ pass \in [Workers -> Pass]
BoundsOK == bounds \in [imports : Nat, inline : Nat, refreshes : Nat,
                       lapses : Nat, faults : Nat]

TypeOK ==
    /\ today \in Days
    /\ RowsOK /\ DaysOK /\ MarksOK /\ FlagsOK /\ SyncedOK /\ LeaseOK
    /\ SnapsOK /\ WriterOK /\ ImportOK /\ ReaderOK /\ PassOK /\ BoundsOK

NoImport == [at |-> "idle", kind |-> NoRange, src |-> Undated,
             prevGen |-> 0, prevSweep |-> 0, marker |-> 0]

\* A user whose state row was just bootstrapped, with a library already there.
Init ==
    /\ today = FirstToday
    /\ changes = 0
    /\ data = [s \in Sources |-> 0]
    /\ payload = [d \in Days |-> Missing]
    /\ epoch = Absent
    /\ dirty = [d \in Days |-> 0]
    /\ marks = [d \in Days |-> 0]
    /\ generation = 1 /\ sweep = 1 /\ sweeps = 1
    /\ hotGen = 0 /\ heavyGen = 0 /\ syncedDay = NoDay
    /\ settled = TRUE /\ wake = FALSE
    /\ lease = [owner |-> Nobody, state |-> "free"]
    /\ snaps = [r \in Ranges |-> NoSnap]
    /\ writer = [x \in Writers |-> [at |-> "idle", src |-> Undated]]
    /\ import = NoImport
    /\ reader = [x \in Readers |-> [day |-> NoDay, version |-> 0]]
    /\ pc = [w \in Workers |-> "idle"]
    /\ pass = [w \in Workers |-> Idle]
    /\ bounds = [imports |-> 0, inline |-> 0, refreshes |-> 0, lapses |-> 0,
                 faults |-> 0]

-----------------------------------------------------------------------------
(* Marking *)

MutantNoBulkImport == FALSE
BulkImportActive == import.at \notin {"idle", "publishing"}

\* ensure_sync: queues nothing during a bulk import, and may queue nothing
\* while a browser request is active or a message was queued moments ago.
EnsureSync == wake' \in IF BulkImportActive THEN {wake} ELSE {wake, TRUE}

\* _bump_generation, without and with a full-sweep request.
BumpGeneration ==
    /\ generation' = generation + 1
    /\ settled' = FALSE
    /\ UNCHANGED <<sweep, sweeps>>

BumpWithSweep ==
    /\ generation' = generation + 1
    /\ settled' = FALSE
    /\ sweeps' = sweeps + 1
    /\ sweep' = sweeps + 1

\* The upsert of dirty rows: every marked day gets a fresh token.
Upsert(D) ==
    /\ marks' = [d \in Days |-> marks[d] + (IF d \in D THEN 1 ELSE 0)]
    /\ dirty' = [d \in Days |-> IF d \in D THEN marks[d] + 1 ELSE dirty[d]]

Dropped(D) == [d \in Days |-> IF d \in D THEN Missing ELSE payload[d]]

CommitRow(s) ==
    /\ changes < MaxChanges
    /\ changes' = changes + 1
    /\ data' = [data EXCEPT ![s] = changes + 1]

-----------------------------------------------------------------------------
(* Writers: save a row, then mark_days (dirty row, payload, generation) or
   mark_aggregate (generation only), each its own commit. *)

SaveRow(x, s) ==
    /\ writer[x].at = "idle"
    /\ CommitRow(s)
    /\ writer' = [writer EXCEPT ![x] =
            [at |-> IF s = Undated THEN "dropped" ELSE "saved", src |-> s]]
    /\ UNCHANGED <<today, dayVars, markVars, syncedVars, lease, snaps, wake,
                   import, reader, passVars, bounds>>

MarkDirty(x) ==
    /\ writer[x].at = "saved"
    /\ Upsert({writer[x].src})
    /\ writer' = [writer EXCEPT ![x].at = "dirtied"]
    /\ UNCHANGED <<today, srcVars, payload, epoch, markVars, syncedVars,
                   lease, snaps, wake, import, reader, passVars, bounds>>

DropPayload(x) ==
    /\ writer[x].at = "dirtied"
    /\ payload' = Dropped({writer[x].src})
    /\ writer' = [writer EXCEPT ![x].at = "dropped"]
    /\ UNCHANGED <<today, srcVars, epoch, dirty, marks, markVars, syncedVars,
                   lease, snaps, wake, import, reader, passVars, bounds>>

Bump(x) ==
    /\ writer[x].at = "dropped"
    /\ BumpGeneration
    /\ EnsureSync
    /\ writer' = [writer EXCEPT ![x] = [at |-> "idle", src |-> Undated]]
    /\ UNCHANGED <<today, srcVars, dayVars, syncedVars, lease, snaps, import,
                   reader, passVars, bounds>>

\* The same save and mark inside one transaction: the cache delete happens at
\* once, the rows become visible together at commit, ensure_sync on commit.
OpenTransaction(x, s) ==
    /\ writer[x].at = "idle"
    /\ changes < MaxChanges
    /\ payload' = Dropped({s})
    /\ writer' = [writer EXCEPT ![x] = [at |-> "open", src |-> s]]
    /\ UNCHANGED <<today, srcVars, epoch, dirty, marks, markVars, syncedVars,
                   lease, snaps, wake, import, reader, passVars, bounds>>

CommitTransaction(x) ==
    /\ writer[x].at = "open"
    /\ CommitRow(writer[x].src)
    /\ Upsert({writer[x].src})
    /\ BumpGeneration
    /\ EnsureSync
    /\ writer' = [writer EXCEPT ![x] = [at |-> "idle", src |-> Undated]]
    /\ UNCHANGED <<today, payload, epoch, syncedVars, lease, snaps, import,
                   reader, passVars, bounds>>

RollBack(x) ==
    /\ writer[x].at = "open"
    /\ writer' = [writer EXCEPT ![x] = [at |-> "idle", src |-> Undated]]
    /\ UNCHANGED <<today, srcVars, dayVars, markVars, syncedVars, lease,
                   snaps, wake, import, reader, passVars, bounds>>

\* request_manual_refresh: mark every day of the range, then the aggregate
\* with a full sweep, then an urgent sync.
RequestManualRefresh(r) ==
    /\ bounds.refreshes < MaxRefreshes
    /\ Upsert(Window[r][today])
    /\ payload' = Dropped(Window[r][today])
    /\ generation' = generation + 2
    /\ settled' = FALSE
    /\ sweeps' = sweeps + 1
    /\ sweep' = sweeps + 1
    /\ wake' = (wake \/ ~BulkImportActive)
    /\ bounds' = [bounds EXCEPT !.refreshes = @ + 1]
    /\ UNCHANGED <<today, srcVars, epoch, syncedVars, lease, snaps, actorVars,
                   passVars>>

Writer(x) ==
    \/ \E s \in Sources : SaveRow(x, s) \/ OpenTransaction(x, s)
    \/ MarkDirty(x) \/ DropPayload(x) \/ Bump(x)
    \/ CommitTransaction(x) \/ RollBack(x)

-----------------------------------------------------------------------------
(* A bulk import under coalesce_import_changes: the generation advances once,
   at the start, with a full sweep that a clean end may take back. *)

importFrame == <<today, syncedVars, lease, snaps, writer, reader, passVars>>

ImportCreate(k) ==
    /\ import.at = "idle"
    /\ bounds.imports < MaxImports
    /\ import' = [NoImport EXCEPT !.at = "created", !.kind = k]
    /\ bounds' = [bounds EXCEPT !.imports = @ + 1]
    /\ UNCHANGED <<importFrame, srcVars, dayVars, markVars, wake>>

ImportOpen ==
    /\ import.at = "created"
    /\ BumpWithSweep
    /\ import' = [import EXCEPT !.at = "open", !.prevGen = generation,
                                !.prevSweep = sweep, !.marker = sweeps + 1]
    /\ UNCHANGED <<importFrame, srcVars, dayVars, wake, bounds>>

\* Only a scoped import marks the days it writes; its marks skip the bump.
ImportSave(s) ==
    /\ import.at = "open" /\ import.kind # "unchanged"
    /\ CommitRow(s)
    /\ import' = IF import.kind = "scoped" /\ s # Undated
                 THEN [import EXCEPT !.at = "saved", !.src = s]
                 ELSE import
    /\ UNCHANGED <<importFrame, dayVars, markVars, wake, bounds>>

ImportMark ==
    /\ import.at = "saved"
    /\ Upsert({import.src})
    /\ import' = [import EXCEPT !.at = "marked"]
    /\ UNCHANGED <<importFrame, srcVars, payload, epoch, markVars, wake,
                   bounds>>

ImportDrop ==
    /\ import.at = "marked"
    /\ payload' = Dropped({import.src})
    /\ import' = [import EXCEPT !.at = "open", !.src = Undated]
    /\ UNCHANGED <<importFrame, srcVars, epoch, dirty, marks, markVars, wake,
                   bounds>>

\* A poll that imported nothing restores the generation it bumped.
RestoreUnchanged ==
    /\ import.kind = "unchanged"
    /\ generation = import.prevGen + 1
    /\ sweep = import.marker
    /\ generation' = import.prevGen
    /\ sweep' = import.prevSweep
    /\ settled' \in {settled, TRUE}
    /\ UNCHANGED sweeps

\* What a scoped import marked itself covers all it wrote: only it may drop
\* the sweep it requested up front.
MutantEndedAnyhow == TRUE
MarkedItsDays == import.kind = "scoped"

DropSweep ==
    /\ MarkedItsDays
    /\ sweep = import.marker
    /\ sweep' = import.prevSweep
    /\ UNCHANGED <<generation, sweeps, settled>>

KeepRequest ==
    /\ \/ import.kind # "unchanged" /\ ~MarkedItsDays
       \/ sweep # import.marker
       \/ import.kind = "unchanged" /\ generation # import.prevGen + 1
    /\ UNCHANGED markVars

ImportEnd ==
    /\ import.at = "open"
    /\ RestoreUnchanged \/ DropSweep \/ KeepRequest
    /\ import' = [import EXCEPT !.at = "closing"]
    /\ UNCHANGED <<importFrame, srcVars, dayVars, wake, bounds>>

\* The ImportRun leaves RUNNING; only a blanket import has more to publish.
ImportClose ==
    /\ import.at = "closing"
    /\ import' = IF import.kind = "blanket"
                 THEN [NoImport EXCEPT !.at = "publishing"] ELSE NoImport
    /\ UNCHANGED <<importFrame, srcVars, dayVars, markVars, wake, bounds>>

\* publish_everything -> invalidate_all_statistics_days.
ImportPublish ==
    /\ import.at = "publishing"
    /\ payload' = Dropped(Days)
    /\ BumpWithSweep
    /\ EnsureSync
    /\ import' = NoImport
    /\ UNCHANGED <<importFrame, srcVars, epoch, dirty, marks, bounds>>

Import ==
    \/ \E k \in ImportKinds : ImportCreate(k)
    \/ \E s \in Sources : ImportSave(s)
    \/ ImportOpen \/ ImportMark \/ ImportDrop \/ ImportEnd \/ ImportClose
    \/ ImportPublish

-----------------------------------------------------------------------------
(* The lease *)

\* _renew_lease / _check_lease: the caller still owns the token.
MutantUnfenced(w) == TRUE
Owns(w) == lease.owner = w
Renewed == [lease EXCEPT !.state = "held"]

\* _release_lease: only the owner's token matches.
Released(w) == IF Owns(w) THEN [lease EXCEPT !.state = "free"] ELSE lease

\* Pass w moves to program point p with q for its local variables.
Goto(w, p, q) == /\ pc' = [pc EXCEPT ![w] = p]
                 /\ pass' = [pass EXCEPT ![w] = q]

HasHotWork == (\E d \in Days : dirty[d] # 0) \/ hotGen < generation

\* How run_sync ends: release in `finally`, then a follow-up message when the
\* pass was cut short or changes landed.  An inline pass that did not publish
\* leaves a full sweep behind instead (refresh_range_inline).
Finish(w, status) ==
    /\ lease' = Released(w)
    /\ Goto(w, "idle", Idle)
    /\ IF pass[w].only # NoRange
       THEN IF status = "done"
            THEN UNCHANGED <<markVars, wake>>
            ELSE BumpWithSweep /\ EnsureSync
       ELSE /\ UNCHANGED markVars
            /\ IF status # "locked" /\ (status = "continued" \/ HasHotWork)
               THEN EnsureSync ELSE UNCHANGED wake

finishFrame == <<today, srcVars, dayVars, syncedVars, snaps, actorVars>>

\* _yield_if_interactive: a background pass stops for a bulk import.
MustYield(w) == pass[w].only = NoRange /\ BulkImportActive

\* A fenced operation that finds another token ends the pass.
LoseLease(w) ==
    /\ pc[w] \in {"prepare", "days", "built", "epoch", "fill", "filled",
                  "publish", "published"}
    /\ ~Owns(w)
    /\ pc[w] = "days" => ~MustYield(w)
    /\ Finish(w, "lost_lease")
    /\ UNCHANGED <<finishFrame, bounds>>

-----------------------------------------------------------------------------
(* A sync pass: run_sync *)

passFrame == <<today, srcVars, markVars, syncedVars, snaps, wake, actorVars,
               bounds>>

\* sync_task_body: take the message; during a bulk import the pass defers.
Start(w) ==
    /\ wake /\ pc[w] = "idle"
    /\ wake' = FALSE
    /\ IF BulkImportActive THEN UNCHANGED passVars ELSE Goto(w, "start", Idle)
    /\ UNCHANGED <<today, srcVars, dayVars, markVars, syncedVars, lease,
                   snaps, actorVars, bounds>>

\* refresh_range_inline: the request upgrading one legacy range payload.
StartInline(w, r) ==
    /\ pc[w] = "idle"
    /\ bounds.inline < MaxInline
    /\ snaps[r] # NoSnap
    /\ Goto(w, "start", [Idle EXCEPT !.only = r])
    /\ bounds' = [bounds EXCEPT !.inline = @ + 1]
    /\ UNCHANGED <<today, srcVars, dayVars, markVars, syncedVars, lease,
                   snaps, wake, actorVars>>

\* _claim_lease: a free or expired lease only; the token rotates.  The pass
\* takes its `now` and `today` right after.
Claim(w) ==
    /\ pc[w] = "start"
    /\ lease.state # "held"
    /\ lease' = [owner |-> w, state |-> "held"]
    /\ Goto(w, "claimed", [pass[w] EXCEPT !.day = today, !.stamp = sweeps])
    /\ UNCHANGED <<passFrame, dayVars>>

\* "busy" ends before there is a lease to release or a follow-up to queue.
Busy(w) ==
    /\ pc[w] = "start"
    /\ lease.state = "held"
    /\ Goto(w, "idle", Idle)
    /\ IF pass[w].only = NoRange
       THEN UNCHANGED <<markVars, wake>>
       ELSE BumpWithSweep /\ EnsureSync
    /\ UNCHANGED <<finishFrame, lease, bounds>>

\* The state row as run_sync reads it, with heavy_due decided from it.
ReadState(w) ==
    /\ pc[w] = "claimed"
    /\ LET full == sweep # 0 \/ epoch = Absent
           heavyDue == \/ full \/ syncedDay # pass[w].day
                       \/ heavyGen < generation /\ (settled \/ heavyGen = 0)
       IN Goto(w, IF sweep # 0 /\ epoch # sweep THEN "prepare" ELSE "tokens",
               [pass[w] EXCEPT !.gen = generation, !.sweep = sweep,
                               !.full = full, !.heavyDue = heavyDue])
    /\ UNCHANGED <<passFrame, dayVars, lease>>

\* Once per full-sweep request: every activity day becomes a dirty row.
PrepareSweep(w) ==
    /\ pc[w] = "prepare"
    /\ Owns(w)
    /\ lease' = Renewed
    /\ Upsert(Days)
    /\ payload' = Dropped(Days)
    /\ epoch' = pass[w].sweep
    /\ Goto(w, "tokens", pass[w])
    /\ UNCHANGED passFrame

WarmDays(t)     == {t, t - 1} \cap Days
MissingDays(D)  == {d \in D : payload[d] = Missing}
DirtyDays(toks) == {d \in Days : toks[d] # 0}

\* Where a pass goes when it has the days in work, or the ranges in todo, left.
NextDays(p, work) == IF work # {} THEN "days"
                     ELSE IF p.full THEN "epoch" ELSE "plan"
NextRanges(p, todo) == IF todo # {} THEN "ranges"
                       ELSE IF p.only # NoRange THEN "release"
                       ELSE IF p.full THEN "clear" ELSE "record"

ReadTokens(w) ==
    /\ pc[w] = "tokens"
    /\ LET p    == pass[w]
           warm == IF p.sweep # 0 THEN MissingDays(WarmDays(p.day))
                                  ELSE WarmDays(p.day)
           work == DirtyDays(dirty) \cup warm \cup
                       IF p.full THEN MissingDays(Days) ELSE {}
       IN Goto(w, NextDays(p, work),
               [p EXCEPT !.toks = dirty, !.work = work])
    /\ UNCHANGED <<passFrame, dayVars, lease>>

\* One slice: renew, then read the day's rows.  Dirty days come first.
BuildDay(w) ==
    /\ pc[w] = "days" /\ ~MustYield(w) /\ Owns(w)
    /\ LET p == pass[w]
           first == p.work \cap DirtyDays(p.toks)
       IN \E d \in IF first # {} THEN first ELSE p.work :
            Goto(w, "built", [p EXCEPT !.built = d, !.version = data[d]])
    /\ lease' = Renewed
    /\ UNCHANGED <<passFrame, dayVars>>

\* _clear_dirty deletes by token: the row is still the one this pass read.
MutantAnyToken(d, t) == TRUE
SameToken(d, t) == t # 0 /\ dirty[d] = t

\* The slice's transaction: check the lease, store the payload, clear the
\* dirty row if it was not marked again since.
StoreDay(w) ==
    /\ pc[w] = "built" /\ Owns(w)
    /\ LET d == pass[w].built
           t == pass[w].toks[d]
       IN /\ payload' = [payload EXCEPT ![d] = pass[w].version]
          /\ dirty' = [dirty EXCEPT ![d] =
                          IF SameToken(d, t) THEN 0 ELSE @]
          /\ Goto(w, NextDays(pass[w], pass[w].work \ {d}),
                  [pass[w] EXCEPT !.work = @ \ {d}, !.built = NoDay,
                                  !.version = 0])
    /\ lease' = Renewed
    /\ UNCHANGED <<passFrame, epoch, marks>>

MarkEpoch(w) ==
    /\ pc[w] = "epoch" /\ Owns(w)
    /\ epoch' = IF pass[w].sweep # 0 THEN pass[w].sweep ELSE Plain
    /\ lease' = Renewed
    /\ Goto(w, "plan", pass[w])
    /\ UNCHANGED <<passFrame, payload, dirty, marks>>

MutantIgnoresDay(r, p) == snaps[r] = NoSnap \/ snaps[r].gen < p.gen

NeedsRebuild(r, p) ==
    \/ snaps[r] = NoSnap
    \/ snaps[r].gen < p.gen
    \/ snaps[r].builtDay # p.day

MutantHotOnly(p) == Hot
DueRanges(p) == Hot \cup IF p.heavyDue THEN Heavy ELSE {}

\* The ranges this pass owes, from the snapshots as it finds them now.
PlanRanges(w) ==
    /\ pc[w] = "plan"
    /\ LET p   == pass[w]
           todo == IF p.only # NoRange THEN {p.only}
                   ELSE {r \in DueRanges(p) : NeedsRebuild(r, p)}
       IN Goto(w, NextRanges(p, todo), [p EXCEPT !.todo = todo])
    /\ UNCHANGED <<passFrame, dayVars, lease>>

\* _aggregate_range: resolve the window, list its missing days.  Hot first.
BeginRange(w) ==
    /\ pc[w] = "ranges" /\ ~MustYield(w)
    /\ LET p == pass[w] IN
       \E r \in IF p.todo \cap Hot # {} THEN p.todo \cap Hot ELSE p.todo :
          LET missing == MissingDays(Window[r][today]) IN
          Goto(w, IF missing = {} THEN "collect" ELSE "fill",
               [p EXCEPT !.cur = r, !.window = today, !.left = missing])
    /\ UNCHANGED <<passFrame, dayVars, lease>>

\* The range's missing days go through _build_days with no tokens.
BuildMissingDay(w) ==
    /\ pc[w] = "fill" /\ Owns(w)
    /\ \E d \in pass[w].left :
         Goto(w, "filled", [pass[w] EXCEPT !.built = d, !.version = data[d]])
    /\ lease' = Renewed
    /\ UNCHANGED <<passFrame, dayVars>>

StoreMissingDay(w) ==
    /\ pc[w] = "filled" /\ Owns(w)
    /\ LET d == pass[w].built
       IN /\ payload' = [payload EXCEPT ![d] = pass[w].version]
          /\ Goto(w, IF pass[w].left = {d} THEN "collect" ELSE "fill",
                  [pass[w] EXCEPT !.left = @ \ {d}, !.built = NoDay,
                                  !.version = 0])
    /\ lease' = Renewed
    /\ UNCHANGED <<passFrame, epoch, dirty, marks>>

\* _aggregate_statistics_from_days fetches the payloads together ...
CollectPayloads(w) ==
    /\ pc[w] = "collect"
    /\ LET D == Window[pass[w].cur][pass[w].window]
       IN Goto(w, "late", [pass[w] EXCEPT !.left = MissingDays(D),
                  !.read = [s \in Sources |->
                               IF s \in D THEN payload[s] ELSE Missing]])
    /\ UNCHANGED <<passFrame, dayVars, lease>>

\* ... builds a payload that went missing since on the spot ...
BuildLateDay(w) ==
    /\ pc[w] = "late"
    /\ \E d \in pass[w].left :
         Goto(w, "lateBuilt",
              [pass[w] EXCEPT !.built = d, !.version = data[d]])
    /\ UNCHANGED <<passFrame, dayVars, lease>>

\* ... which build_stats_for_day caches with no lease check ...
StoreLateDay(w) ==
    /\ pc[w] = "lateBuilt"
    /\ LET d == pass[w].built
           v == pass[w].version
       IN /\ payload' = [payload EXCEPT ![d] = v]
          /\ Goto(w, "late",
                  [pass[w] EXCEPT !.left = @ \ {d}, !.read = [@ EXCEPT ![d] = v],
                                  !.built = NoDay, !.version = 0])
    /\ UNCHANGED <<passFrame, epoch, dirty, marks, lease>>

\* ... and reads the undated rows from the database.
ReadUndated(w) ==
    /\ pc[w] = "late" /\ pass[w].left = {}
    /\ Goto(w, "publish",
            [pass[w] EXCEPT !.read[Undated] = data[Undated]])
    /\ UNCHANGED <<passFrame, dayVars, lease>>

\* The generation a snapshot is stamped with: the one read before the rows.
MutantGenerationNow(p) == generation
StampOf(p) == p.gen

\* publish_snapshot: fenced, never to an older generation, stamped with the
\* local day at publication.
PublishSnapshot(w) ==
    /\ pc[w] = "publish" /\ Owns(w)
    /\ LET p == pass[w]
           covered == {Undated} \cup Window[p.cur][p.window]
           new == [gen |-> StampOf(p), builtDay |-> today, window |-> p.window,
                   shows |-> [s \in covered |-> p.read[s]]]
       IN /\ snaps' = [snaps EXCEPT ![p.cur] =
                          IF @.gen <= StampOf(p) THEN new ELSE @]
          /\ Goto(w, "published",
                  [p EXCEPT !.todo = @ \ {p.cur}, !.cur = NoRange,
                            !.window = NoDay,
                            !.read = [s \in Sources |-> Missing]])
    /\ lease' = Renewed
    /\ UNCHANGED <<today, srcVars, dayVars, markVars, syncedVars, wake,
                   actorVars, bounds>>

CheckAfterPublish(w) ==
    /\ pc[w] = "published" /\ Owns(w)
    /\ lease' = Renewed
    /\ Goto(w, NextRanges(pass[w], pass[w].todo), pass[w])
    /\ UNCHANGED <<passFrame, dayVars>>

\* A request raised after this pass started is left for the next one.
ClearSweep(w) ==
    /\ pc[w] = "clear"
    /\ sweep' = IF Owns(w) /\ sweep <= pass[w].stamp THEN 0 ELSE sweep
    /\ Goto(w, "record", pass[w])
    /\ UNCHANGED <<today, srcVars, dayVars, generation, sweeps, settled,
                   syncedVars, lease, snaps, wake, actorVars, bounds>>

Greatest(a, b) == IF a >= b THEN a ELSE b

\* The heavy markers move only for a pass that owed the heavy ranges.
HeavyDone(p) == p.heavyDue

\* The day the markers vouch for: the one read with the state.
MutantDayNow(p)   == today
MutantNextDay(p)  == p.day + 1
DayOf(p)          == p.day

RecordMarkers(w) ==
    /\ pc[w] = "record"
    /\ IF Owns(w)
       THEN /\ hotGen' = Greatest(hotGen, pass[w].gen)
            /\ IF HeavyDone(pass[w])
               THEN /\ heavyGen' = Greatest(heavyGen, pass[w].gen)
                    /\ syncedDay' = Greatest(syncedDay, DayOf(pass[w]))
               ELSE UNCHANGED <<heavyGen, syncedDay>>
       ELSE UNCHANGED syncedVars
    /\ Goto(w, "release", pass[w])
    /\ UNCHANGED <<today, srcVars, dayVars, markVars, lease, snaps, wake,
                   actorVars, bounds>>

Release(w) ==
    /\ pc[w] = "release"
    /\ Finish(w, "done")
    /\ UNCHANGED <<finishFrame, bounds>>

\* A bulk import that began meanwhile stops the pass at its next boundary.
YieldToImport(w) ==
    /\ pc[w] \in {"days", "ranges"}
    /\ MustYield(w)
    /\ Finish(w, "continued")
    /\ UNCHANGED <<finishFrame, bounds>>

Step(w) ==
    \/ Claim(w) \/ Busy(w) \/ ReadState(w) \/ PrepareSweep(w) \/ ReadTokens(w)
    \/ BuildDay(w) \/ StoreDay(w) \/ MarkEpoch(w)
    \/ PlanRanges(w) \/ BeginRange(w) \/ BuildMissingDay(w)
    \/ StoreMissingDay(w) \/ CollectPayloads(w) \/ BuildLateDay(w)
    \/ StoreLateDay(w) \/ ReadUndated(w) \/ PublishSnapshot(w)
    \/ CheckAfterPublish(w) \/ ClearSweep(w) \/ RecordMarkers(w)
    \/ Release(w) \/ YieldToImport(w) \/ LoseLease(w)

-----------------------------------------------------------------------------
(* The page.  build_statistics_days_task fills missing days for a custom range,
   with neither a lease nor a token. *)

ReaderBuild(x) ==
    /\ reader[x].day = NoDay
    /\ \E d \in MissingDays(Days) :
         reader' = [reader EXCEPT ![x] = [day |-> d, version |-> data[d]]]
    /\ UNCHANGED <<today, srcVars, dayVars, markVars, syncedVars, lease,
                   snaps, wake, writer, import, passVars, bounds>>

ReaderStore(x) ==
    /\ reader[x].day # NoDay
    /\ payload' = [payload EXCEPT ![reader[x].day] = reader[x].version]
    /\ reader' = [reader EXCEPT ![x] = [day |-> NoDay, version |-> 0]]
    /\ UNCHANGED <<today, srcVars, epoch, dirty, marks, markVars, syncedVars,
                   lease, snaps, wake, writer, import, passVars, bounds>>

\* entry_is_stale, on the durable snapshot.
Stale(r) == snaps[r] = NoSnap \/ snaps[r].builtDay # today
            \/ snaps[r].gen < generation

\* _published_entry: the page serves what is published and, when that is
\* stale, queues a sync.
OpenPage(r) ==
    /\ Stale(r) /\ ~wake
    /\ EnsureSync
    /\ UNCHANGED <<today, srcVars, dayVars, markVars, syncedVars, lease,
                   snaps, actorVars, passVars, bounds>>

-----------------------------------------------------------------------------
(* The reconciler: users_needing_sync, then one message if none waits. *)

MutantNeverBehind == FALSE
HeavyBehind == heavyGen < generation

NeedsSync ==
    /\ lease.state # "held"
    /\ \/ hotGen < generation
       \/ sweep # 0
       \/ syncedDay < today
       \/ \E d \in Days : dirty[d] # 0
       \/ HeavyBehind /\ (settled \/ heavyGen = 0)

Reconcile ==
    /\ NeedsSync /\ ~BulkImportActive /\ ~wake
    /\ wake' = TRUE
    /\ UNCHANGED <<today, srcVars, dayVars, markVars, syncedVars, lease,
                   snaps, actorVars, passVars, bounds>>

-----------------------------------------------------------------------------
(* Time and faults *)

\* lease_expires_at passes: freely when no live pass holds the lease (its
\* worker was killed), otherwise only where a pass may be that slow.
Dead == lease.owner = Nobody \/ pc[lease.owner] \in {"idle", "start"}

LeaseLapses ==
    /\ lease.state = "held"
    /\ \/ Dead /\ UNCHANGED bounds
       \/ /\ ~Dead
          /\ pc[lease.owner] \in SlowAt
          /\ bounds.lapses < MaxLapses
          /\ bounds' = [bounds EXCEPT !.lapses = @ + 1]
    /\ lease' = [lease EXCEPT !.state = "lapsed"]
    /\ UNCHANGED <<today, srcVars, dayVars, markVars, syncedVars, snaps, wake,
                   actorVars, passVars>>

Midnight ==
    /\ today < LastDay
    /\ \A w \in Workers : pc[w] \in MidnightAt
    /\ today' = today + 1
    /\ UNCHANGED <<srcVars, dayVars, markVars, syncedVars, lease, snaps, wake,
                   actorVars, passVars, bounds>>

\* STATISTICS_SYNC_HEAVY_SETTLE_SECONDS without a change, or the delay cap.
Settle ==
    /\ ~settled
    /\ settled' = TRUE
    /\ UNCHANGED <<today, srcVars, dayVars, generation, sweep, sweeps,
                   syncedVars, lease, snaps, wake, actorVars, passVars,
                   bounds>>

Strike(f) ==
    /\ f \in Faults
    /\ bounds.faults < MaxFaults
    /\ bounds' = [bounds EXCEPT !.faults = @ + 1]

\* Killed worker.  Inside a slice's transaction the payload may already be in
\* the cache although the commit, and so the dirty clear, never happens.
Crash(w) ==
    /\ pc[w] # "idle"
    /\ Strike("crash")
    /\ Goto(w, "idle", Idle)
    /\ \/ UNCHANGED payload
       \/ /\ pc[w] \in {"built", "filled"} /\ Owns(w)
          /\ payload' = [payload EXCEPT ![pass[w].built] = pass[w].version]
    /\ UNCHANGED <<today, srcVars, epoch, dirty, marks, markVars, syncedVars,
                   lease, snaps, wake, actorVars>>

\* SQLite stayed locked past the wait: release, no follow-up.
Abort(w) ==
    /\ pc[w] \notin {"idle", "start"}
    /\ Strike("abort")
    /\ Finish(w, "locked")
    /\ UNCHANGED finishFrame

\* The time budget ran out, or a browser request is active, at a boundary.
Yield(w) ==
    /\ pc[w] \in {"days", "ranges", "fill"}
    /\ pass[w].only = NoRange
    /\ Strike("yield")
    /\ Finish(w, "continued")
    /\ UNCHANGED finishFrame

\* A queued message is lost, or the task starts only to defer to a browser.
LoseMessage ==
    /\ wake
    /\ Strike("lose")
    /\ wake' = FALSE
    /\ UNCHANGED <<today, srcVars, dayVars, markVars, syncedVars, lease,
                   snaps, actorVars, passVars>>

\* volatile-lru drops day payloads; a flush takes the epoch key with them.
Evict ==
    /\ \/ /\ Strike("evict")
          /\ \E d \in Days : payload[d] # Missing /\ payload' = Dropped({d})
          /\ UNCHANGED epoch
       \/ /\ Strike("flush")
          /\ payload' = Dropped(Days)
          /\ epoch' = Absent
    /\ UNCHANGED <<today, srcVars, dirty, marks, markVars, syncedVars, lease,
                   snaps, wake, actorVars, passVars>>

Next ==
    \/ \E x \in Writers : Writer(x)
    \/ \E r \in Ranges : RequestManualRefresh(r)
    \/ Import
    \/ \E w \in Workers :
         \/ Start(w) \/ \E r \in Ranges : StartInline(w, r)
         \/ Step(w)
         \/ Crash(w) \/ Abort(w) \/ Yield(w)
    \/ \E x \in Readers : ReaderBuild(x) \/ ReaderStore(x)
    \/ \E r \in Ranges : OpenPage(r)
    \/ Reconcile \/ LeaseLapses \/ Midnight \/ Settle
    \/ LoseMessage \/ Evict

Spec == Init /\ [][Next]_vars

\* What the deployment provides: a worker keeps executing what it started and
\* the reconciler ticks; time passes; a writer finishes marking what it saved.
\* No fairness on saves, faults, midnight or imports beginning.
Fairness ==
    /\ \A w \in Workers : WF_vars(Step(w))
    /\ WF_vars(\E w \in Workers : Start(w))
    /\ WF_vars(Reconcile) /\ WF_vars(LeaseLapses /\ Dead) /\ WF_vars(Settle)
    /\ \A x \in Writers :
         WF_vars(MarkDirty(x) \/ DropPayload(x) \/ Bump(x) \/
                 CommitTransaction(x) \/ RollBack(x))
    /\ WF_vars(ImportOpen \/ ImportMark \/ ImportDrop \/ ImportEnd \/
               ImportClose \/ ImportPublish)

FairSpec == Spec /\ Fairness

-----------------------------------------------------------------------------
(* Properties *)

Marking(d) == \E x \in Writers : writer[x].at \in {"saved", "dirtied"}
                                 /\ writer[x].src = d
InFlight == (\E x \in Writers : writer[x].at \in {"saved", "dirtied", "dropped"})
            \/ import.at # "idle"

\* A cached day payload that no longer matches the committed rows is always
\* on record: as a dirty row, as a mark on its way, or as a pending sweep.
\* Nothing may overwrite a rebuilt day with older numbers once its dirty row
\* is gone (_build_days, _clear_dirty, mark_days).
StaleDaysAreOnRecord ==
    \A d \in Days :
        payload[d] \notin {Missing, data[d]} =>
            dirty[d] # 0 \/ Marking(d) \/ sweep # 0 \/ import.at # "idle"

Current(r) ==
    LET n == snaps[r] IN
    /\ n # NoSnap
    /\ n.window = today
    /\ \A s \in {Undated} \cup Window[r][today] : n.shows[s] = data[s]

\* What a reader takes for fresh is fresh: a snapshot at the user's current
\* generation and day shows every committed change of today's window, unless
\* a change is still being marked.
FreshIsCurrent ==
    ~InFlight => \A r \in Ranges : ~Stale(r) => Current(r)

\* The generation markers never claim more than was published: every hot range
\* is at hot_synced_generation or later, every heavy one at
\* heavy_synced_generation or later, whatever passes crashed, lost their lease
\* or were cut short between publishing and recording (run_sync's last step).
MarkersAreHonest ==
    /\ \A r \in Hot   : snaps[r].gen >= hotGen \/ hotGen = 0
    /\ \A r \in Heavy : snaps[r].gen >= heavyGen \/ heavyGen = 0

\* No range was built on an earlier local day than synced_day says, although
\* the day may turn anywhere between reading the state and recording it.
SyncedDayIsHonest == \A r \in Ranges : snaps[r].builtDay >= syncedDay

\* Whenever the reconciler finds nothing to do and nothing is under way, all
\* ranges are current: no unfinished work is invisible to users_needing_sync.
IdleMeansCurrent ==
    /\ ~NeedsSync /\ lease.state # "held" /\ ~InFlight /\ settled
    /\ \A w \in Workers : pc[w] = "idle"
    => \A r \in Ranges : Current(r)

\* A pass whose token was rotated away changes nothing durable any more: not
\* the days, the snapshots, the markers, the epoch or its successor's lease.
LoserIsInert ==
    [][\A w \in Workers :
         /\ pc[w] \notin {"idle", "start"} /\ lease.owner # w
         /\ pc'[w] # pc[w] \/ pass'[w] # pass[w]
         => UNCHANGED <<dayVars, snaps, syncedVars, lease>>]_vars

\* The whole mechanism keeps the contract of StatisticsContract: what a range
\* shows of any source is committed data and never goes back to an earlier
\* version, whichever worker publishes and whoever was replaced on the way.
Contract == INSTANCE StatisticsContract
                WITH shown <- [r \in Ranges |-> snaps[r].shows]

KeepsContract == Contract!Spec

\* Once changes stop, every range becomes current and stays so, whatever
\* messages, workers or cache entries were lost on the way.
EventuallyCurrent == <>[](\A r \in Ranges : Current(r))

=============================================================================

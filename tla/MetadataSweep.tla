--------------------------- MODULE MetadataSweep ---------------------------
(***************************************************************************)
(* The backfill of one metadata field (watch providers): the resumable     *)
(* sweep over the library with its durable state row, the retries of what  *)
(* was tried before, and the drains that try the queued items              *)
(* (app/tasks_providers.py, app/reconcile_state.py,                        *)
(* app/tasks_backfill_state.py; app/tasks_external_ids.py has the same     *)
(* shape).  The queue between them is BackfillQueue, seen as the set of    *)
(* what it holds, from which a fault may take members.                     *)
(*                                                                         *)
(* A step is one query with the writes that follow it, one queue command,  *)
(* or one item tried.                                                      *)
(***************************************************************************)
EXTENDS Integers, FiniteSets

CONSTANTS
    MaxItem,        \* bound: item ids are 1..MaxItem
    Sweepers,       \* processes that run the sweep's task
    Drains,         \* processes that drain the queue
    ChunkSize,      \* items a chunk of a sweep selects
    MaxChunks,      \* chunks of one pass
    MaxAttempts,    \* failures after which an item is given up
    MaxVersion,     \* bound: versions of the backfill strategy that are deployed
    MaxFaults       \* bound: crashes and losses

ASSUME SweepAssumption ==
    /\ MaxItem \in Nat
    /\ ChunkSize \in Nat \ {0}
    /\ MaxChunks \in Nat \ {0}
    /\ MaxAttempts \in Nat \ {0}
    /\ MaxVersion \in Nat \ {0}
    /\ MaxFaults \in Nat

VARIABLES
    version,        \* the strategy version of the running code
    library,        \* the tracked items
    found,          \* those whose metadata field is filled
    row,            \* the MetadataBackfillState of an item
    state,          \* the BackfillReconcileState
    lock,           \* the sweep's lock in the cache is taken
    sweep,          \* where each sweep is
    queue,          \* what the backfill queue holds
    drain,          \* the batch of each drain
    faults          \* history: how many faults happened

vars == <<version, library, found, row, state, lock, sweep, queue, drain, faults>>

Items == 1..MaxItem
Versions == 1..MaxVersion

\* The version of the last success is 0 when last_success_at is null.
NoRow == [fails |-> 0, givenUp |-> FALSE, due |-> "unset", success |-> 0]
AtRest == [phase |-> "idle", start |-> 0, cursor |-> 0, chunks |-> 0]
Fresh(v) == [v |-> v, completed |-> FALSE, waits |-> FALSE, cursor |-> 0]

Init ==
    /\ version = 1
    /\ library \in SUBSET Items
    /\ found = {}
    /\ row = [i \in Items |-> NoRow]
    /\ state = Fresh(1)
    /\ lock = FALSE
    /\ sweep = [s \in Sweepers |-> AtRest]
    /\ queue = {}
    /\ drain = [d \in Drains |-> {}]
    /\ faults = 0

-----------------------------------------------------------------------------
(* Which items are wanted.                                                   *)

Blocked(i) == row[i].givenUp \/ row[i].due = "later"
Completed(i) == ~row[i].givenUp /\ row[i].fails = 0 /\ row[i].success >= version

\* What a drain takes up.
Wanted(i) == i \in library \ found /\ ~Blocked(i) /\ ~Completed(i)

\* What a sweep discovers: an item that failed once is left to the retries.
MutantRetriesToo(i) == Wanted(i)
Candidate(i) == Wanted(i) /\ row[i].fails = 0

Tried(i) == row[i] # NoRow

\* What the retries look for, whether or not the sweep is complete.
Open(i) == i \in library \ found /\ Tried(i) /\ ~row[i].givenUp /\ row[i].success = 0
Due(i) == Open(i) /\ row[i].due \in {"unset", "now"}
MutantWhileOpen == IF state.completed THEN {} ELSE {i \in Items : Due(i)}
Retries == {i \in Items : Due(i)}

-----------------------------------------------------------------------------
(* What the steps are made of.                                               *)

SweepTo(s, phase) == sweep' = [sweep EXCEPT ![s].phase = phase]
SweepEnds(s) == sweep' = [sweep EXCEPT ![s] = AtRest]
Fault == faults < MaxFaults /\ faults' = faults + 1
Record(i, r) == row' = [row EXCEPT ![i] = r]

MutantUncapped(n) == n + 1
Counted(n) == IF n < MaxAttempts THEN n + 1 ELSE MaxAttempts

Failed(r) ==
    LET n == Counted(r.fails)
        last == n = MaxAttempts
    IN  [r EXCEPT !.fails = n, !.givenUp = last, !.due = IF last THEN "unset" ELSE "later"]

Pending(r) ==
    [fails |-> Counted(r.fails), givenUp |-> FALSE, due |-> "later", success |-> 0]

Succeeded == [fails |-> 0, givenUp |-> FALSE, due |-> "unset", success |-> version]

-----------------------------------------------------------------------------
(* The library, the clock and the deployments.                               *)

\* A title is tracked: its details fill the field, or leave it to the retries.
Track(i) ==
    /\ i \notin library
    /\ library' = library \cup {i}
    /\ \/ found' = found \cup {i} /\ UNCHANGED row
       \/ Record(i, Pending(row[i])) /\ UNCHANGED found
    /\ UNCHANGED <<version, state, lock, sweep, queue, drain, faults>>

DelayPasses(i) ==
    /\ row[i].due = "later"
    /\ row' = [row EXCEPT ![i].due = "now"]
    /\ UNCHANGED <<version, library, found, state, lock, sweep, queue, drain, faults>>

WindowPasses ==
    /\ state.waits
    /\ state' = [state EXCEPT !.waits = FALSE]
    /\ UNCHANGED <<version, library, found, row, lock, sweep, queue, drain, faults>>

LockLapses ==
    /\ lock
    /\ lock' = FALSE
    /\ UNCHANGED <<version, library, found, row, state, sweep, queue, drain, faults>>

\* New code starts and what ran is gone.
Deploy ==
    /\ version < MaxVersion
    /\ version' = version + 1
    /\ sweep' = [s \in Sweepers |-> AtRest]
    /\ drain' = [d \in Drains |-> {}]
    /\ UNCHANGED <<library, found, row, state, lock, queue, faults>>

-----------------------------------------------------------------------------
(* The sweep.                                                                *)

\* The retries come first.
Beat(s) ==
    /\ sweep[s].phase = "idle"
    /\ queue' = queue \cup Retries
    /\ sweep' = [sweep EXCEPT ![s].phase = "decide"]
    /\ UNCHANGED <<version, library, found, row, state, lock, drain, faults>>

\* get_state: the row of another version starts over.
Current == IF state.v = version THEN state ELSE Fresh(version)

ShouldRun(s) ==
    /\ sweep[s].phase = "decide"
    /\ state' = Current
    /\ IF state'.completed \/ state'.waits THEN SweepEnds(s) ELSE SweepTo(s, "acquire")
    /\ UNCHANGED <<version, library, found, row, lock, queue, drain, faults>>

\* The lock, and a window in which no other pass begins; a refused or
\* unanswered request for the lock ends the task.
Acquire(s) ==
    /\ sweep[s].phase = "acquire"
    /\ IF ~lock
       THEN /\ lock' = TRUE
            /\ state' = [state EXCEPT !.waits = TRUE]
            /\ sweep' = [sweep EXCEPT ![s] = [phase |-> "chunk", chunks |-> MaxChunks,
                                       start |-> state.cursor, cursor |-> state.cursor]]
       ELSE SweepEnds(s) /\ UNCHANGED <<lock, state>>
    /\ UNCHANGED <<version, library, found, row, queue, drain, faults>>

Ahead(s) == {i \in Items : Candidate(i) /\ i > sweep[s].cursor}

\* The first of them, by id.
Chunk(s) ==
    {i \in Ahead(s) : Cardinality({j \in Ahead(s) : j < i}) < ChunkSize}

SelectChunk(s) ==
    /\ sweep[s].phase = "chunk"
    /\ Ahead(s) # {}
    /\ \E last \in Chunk(s) :
          /\ \A i \in Chunk(s) : i <= last
          /\ sweep' = [sweep EXCEPT ![s].cursor = last, ![s].chunks = @ - 1,
                ![s].phase = IF sweep[s].chunks = 1 THEN "progress" ELSE "chunk"]
    /\ queue' = queue \cup Chunk(s)
    /\ UNCHANGED <<version, library, found, row, state, lock, drain, faults>>

\* A pass that finds nothing from the top has seen everything.
MutantAtTheEnd(s) == TRUE
FromTheTop(s) == sweep[s].cursor = 0 /\ sweep[s].start = 0

EndOfTable(s) ==
    /\ sweep[s].phase = "chunk"
    /\ Ahead(s) = {}
    /\ sweep' = [sweep EXCEPT ![s].cursor = 0,
            ![s].phase = IF FromTheTop(s) THEN "complete" ELSE "progress"]
    /\ UNCHANGED <<version, library, found, row, state, lock, queue, drain, faults>>

MarkComplete(s) ==
    /\ sweep[s].phase = "complete"
    /\ state' = [Fresh(state.v) EXCEPT !.completed = TRUE]
    /\ SweepTo(s, "release")
    /\ UNCHANGED <<version, library, found, row, lock, queue, drain, faults>>

MarkProgress(s) ==
    /\ sweep[s].phase = "progress"
    /\ state' = [state EXCEPT !.waits = TRUE, !.cursor = sweep[s].cursor]
    /\ SweepTo(s, "release")
    /\ UNCHANGED <<version, library, found, row, lock, queue, drain, faults>>

\* Whoever holds it.
Release(s) ==
    /\ sweep[s].phase = "release"
    /\ lock' = FALSE
    /\ SweepEnds(s)
    /\ UNCHANGED <<version, library, found, row, state, queue, drain, faults>>

\* An error ends the task; behind the lock it is released all the same.
SweepFails(s) ==
    /\ sweep[s].phase # "idle"
    /\ Fault
    /\ IF sweep[s].phase \in {"decide", "acquire"} THEN SweepEnds(s) ELSE SweepTo(s, "release")
    /\ UNCHANGED <<version, library, found, row, state, lock, queue, drain>>

SweepDies(s) ==
    /\ sweep[s].phase \notin {"idle", "decide"}
    /\ Fault
    /\ SweepEnds(s)
    /\ UNCHANGED <<version, library, found, row, state, lock, queue, drain>>

-----------------------------------------------------------------------------
(* The drains.                                                               *)

\* A batch is looked up again: what waits, is given up or is filled is dropped.
Take(d) ==
    /\ drain[d] = {}
    /\ queue # {}
    /\ queue' = {}
    /\ drain' = [drain EXCEPT ![d] = {i \in queue : Wanted(i)}]
    /\ UNCHANGED <<version, library, found, row, state, lock, sweep, faults>>

\* The next item follows, or a person uses the instance and the rest is queued
\* again; what is blocked by now is not.
Rest(d, i) ==
    \/ drain' = [drain EXCEPT ![d] = @ \ {i}] /\ UNCHANGED queue
    \/ /\ drain' = [drain EXCEPT ![d] = {}]
       /\ queue' = queue \cup {j \in drain[d] \ {i} : ~Blocked(j)}

\* The provider has the field; or it has nothing yet; or there is nothing to ask
\* for under this strategy; or the attempt fails.
Try(d, i) ==
    /\ i \in drain[d]
    /\ \/ Record(i, Succeeded) /\ found' = found \cup {i}
       \/ Record(i, Succeeded) /\ UNCHANGED found
       \/ Record(i, Pending(row[i])) /\ UNCHANGED found
       \/ Record(i, Failed(row[i])) /\ UNCHANGED found
    /\ Rest(d, i)
    /\ UNCHANGED <<version, library, state, lock, sweep, faults>>

\* The worker dies, with its batch or between the item and its row.
DrainDies(d) ==
    /\ drain[d] # {}
    /\ Fault
    /\ \/ UNCHANGED found
       \/ \E i \in drain[d] : found' = found \cup {i}
    /\ drain' = [drain EXCEPT ![d] = {}]
    /\ UNCHANGED <<version, library, row, state, lock, sweep, queue>>

\* What BackfillQueue loses to a fault.
LoseQueued ==
    /\ queue # {}
    /\ Fault
    /\ \E S \in SUBSET queue : queue' = queue \ S /\ S # {}
    /\ UNCHANGED <<version, library, found, row, state, lock, sweep, drain>>

-----------------------------------------------------------------------------
SweepStep(s) ==
    \/ ShouldRun(s)
    \/ Acquire(s)
    \/ SelectChunk(s)
    \/ EndOfTable(s)
    \/ MarkComplete(s)
    \/ MarkProgress(s)
    \/ Release(s)

Broken ==
    \/ \E s \in Sweepers : SweepFails(s) \/ SweepDies(s)
    \/ \E d \in Drains : DrainDies(d)
    \/ LoseQueued

Next ==
    \/ \E i \in Items : Track(i) \/ DelayPasses(i)
    \/ WindowPasses
    \/ LockLapses
    \/ Deploy
    \/ \E s \in Sweepers : Beat(s) \/ SweepStep(s)
    \/ \E d \in Drains : Take(d) \/ \E i \in Items : Try(d, i)
    \/ Broken

Spec == Init /\ [][Next]_vars

\* The beat keeps coming, tasks that run go on, messages and queued items are
\* taken, time passes, and a person is not there every time an item is next.
FairSpec ==
    /\ Spec
    /\ WF_vars(\E s \in Sweepers : Beat(s))
    /\ \A s \in Sweepers : WF_vars(SweepStep(s))
    /\ WF_vars(WindowPasses)
    /\ WF_vars(LockLapses)
    /\ \A i \in Items : WF_vars(DelayPasses(i))
    /\ WF_vars(\E d \in Drains : Take(d))
    /\ \A i \in Items : SF_vars(\E d \in Drains : Try(d, i))

-----------------------------------------------------------------------------
(* Properties.                                                               *)

Rows == [fails : 0..MaxAttempts, givenUp : BOOLEAN, due : {"unset", "later", "now"},
         success : 0..MaxVersion]

\* Every variable keeps its type, and a row that is given up has used its attempts
\* and waits for nothing.
TypeOK ==
    /\ version \in Versions
    /\ library \subseteq Items
    /\ found \subseteq library
    /\ row \in [Items -> Rows]
    /\ \A i \in Items : row[i].givenUp => row[i].fails = MaxAttempts /\ row[i].due = "unset"
    /\ state \in [v : Versions, completed : BOOLEAN, waits : BOOLEAN, cursor : 0..MaxItem]
    /\ lock \in BOOLEAN
    /\ sweep \in [Sweepers -> [phase : {"idle", "decide", "acquire", "chunk",
                                        "complete", "progress", "release"},
                               start : 0..MaxItem, cursor : 0..MaxItem,
                               chunks : 0..MaxChunks]]
    /\ queue \subseteq Items
    /\ drain \in [Drains -> SUBSET Items]
    /\ faults \in 0..MaxFaults

\* "Starting from the top and finding nothing means the strategy is genuinely
\* reconciled" (reconcile_provider_backfill): when the row says that the running
\* strategy is complete, no tracked item is left that nothing has tried, whatever was
\* lost from the queue and however sweeps overlapped.
CompleteMeansTried ==
    state.completed /\ state.v = version =>
        \A i \in library \ found : row[i].fails > 0 \/ Completed(i)

\* Under the fairness stated the sweep ends for good, as the items that keep failing
\* are not its business (issue #521: the candidate set never emptied).
SweepConverges == <>[](state.completed /\ state.v = version)

\* An item that is owed another look gets it, also when the sweep has long been
\* complete (enqueue_due_provider_backfill_retries).
RetriesKeepComing == \A i \in Items : Due(i) ~> ~Due(i)

=============================================================================

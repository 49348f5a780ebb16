-------------------------- MODULE OutboundDelivery --------------------------
(* The transactional outbox (integrations/state/outbound.py) for ONE subject: *)
(* one binding, one item and one coalesced operation sent one write at a      *)
(* time, either "rating" (TMDb) or "watched" (Jellyfin).  Rows are named by   *)
(* their target_revision; created_at orders them as the revisions do.         *)
(*                                                                            *)
(* Covered: enqueueing with coalescing, the kick and its loss, claiming, the  *)
(* approval and supersession checks, read-before-retry, the write and its     *)
(* uncertain outcomes, the read-back, rescheduling, giving up, the minute     *)
(* sweep, the release of attempts whose worker died, and pausing a binding.   *)
(* Not covered: batch adapters and plays (they have a path of their own),     *)
(* and writes to the provider by anyone but this outbox.                      *)
EXTENDS Integers, FiniteSets

CONSTANTS
    Operation,    \* "rating" or "watched"
    Values,       \* the states a subject can have: scores, or watched or not
    NoValue,      \* the provider's state before anything was sent
    Workers,      \* Celery workers, each running one task at a time
    MaxRev,       \* bound: the edits made in a behaviour
    MaxAttempts,  \* MAX_ATTEMPTS
    MaxCrashes,   \* bound: the attempts cut short by a dying worker
    ReadsKnown    \* FALSE: a read may come back "unknown"

ASSUME OutboxAssumption ==
    /\ Operation \in {"rating", "watched"}
    /\ NoValue \in Values
    /\ MaxRev \in Nat \ {0} /\ MaxAttempts \in Nat \ {0} /\ MaxCrashes \in Nat
    /\ ReadsKnown \in BOOLEAN

Revisions == 1..MaxRev

VARIABLES
    latest,   \* the newest target_revision, 0 before the first
    rows,     \* OutboundStateDelivery by revision
    remote,   \* the provider: the state it holds, and the revision that set it
    applied,  \* the revisions the provider has applied (a history)
    allowed,  \* binding.allows(OUTBOUND, the operation's capability)
    kicks,    \* deliver_watched_state messages in the broker
    jobs,     \* what each worker is doing
    crashes   \* workers lost so far

vars == <<latest, rows, remote, applied, allowed, kicks, jobs, crashes>>

-----------------------------------------------------------------------------
\* A row's clock is "ripe" when next_attempt_at has passed (pending) or when
\* claimed_at is older than STALE_IN_FLIGHT_SECONDS (in flight).
Outcomes == {"delivered", "failed", "superseded", "skipped"}
Statuses == {"none", "pending", "in_flight"} \cup Outcomes
Row      == [status: Statuses, attempts: Nat, ripe: BOOLEAN, value: Values]
NoRow    == [status |-> "none", attempts |-> 0, ripe |-> FALSE, value |-> NoValue]
\* Mutant of NewRow: the counter starts below zero.
MutantBelowZero(v) == [status |-> "pending", attempts |-> -1, ripe |-> TRUE, value |-> v]
NewRow(v) == [status |-> "pending", attempts |-> 0, ripe |-> TRUE, value |-> v]

\* Where a worker stands.  From "load" on it has claimed jobs[w].rev; a worker
\* at an outcome is about to record it.  todo: the rest of the sweep's list.
Sending  == {"load", "check", "read", "write", "readback", "failing",
             "requeue"} \cup Outcomes
Places   == {"idle", "list", "run"} \cup Sending
Job      == [at: Places, rev: 0..MaxRev, todo: SUBSET Revisions]
Idle     == [at |-> "idle", rev |-> 0, todo |-> {}]

Holds(w, r)   == jobs[w].at \in Sending /\ jobs[w].rev = r
Rev(w)        == jobs[w].rev
Delivery(w)   == rows[Rev(w)]
Pending(r)    == rows[r].status = "pending"
InFlight(r)   == rows[r].status = "in_flight"
Open(r)       == Pending(r) \/ InFlight(r)

\* Mutant of Superseded: newer intents are never looked for.
MutantNeverSuperseded(r) == FALSE
\* A newer revision of a coalesced operation exists.
Superseded(r) == r < latest

\* A worker goes on to the oldest delivery of its list, or ends its task.
MoveOn(w, todo) ==
    \/ /\ todo = {}
       /\ jobs' = [jobs EXCEPT ![w] = Idle]
    \/ \E r \in todo :
          /\ \A s \in todo : r <= s
          /\ jobs' = [jobs EXCEPT ![w] =
                        [at |-> "run", rev |-> r, todo |-> todo \ {r}]]

Init ==
    /\ latest = 0
    /\ rows = [r \in Revisions |-> NoRow]
    /\ remote = [rev |-> 0, value |-> NoValue]
    /\ applied = {}
    /\ allowed = TRUE
    /\ kicks = {}
    /\ jobs = [w \in Workers |-> Idle]
    /\ crashes = 0

-----------------------------------------------------------------------------
(* The user.                                                                *)

\* Mutant of RetirePending: every row is retired, whatever its status.
MutantRetireAll(status) == [r \in Revisions |-> [rows[r] EXCEPT !.status = status]]
\* The rows as one transaction leaves them: waiting rows take a new status.
RetirePending(status) ==
    [r \in Revisions |-> IF Pending(r) THEN [rows[r] EXCEPT !.status = status]
                         ELSE rows[r]]

\* An edit commits with its delivery; the kick follows the commit.
Enqueue(v) ==
    /\ allowed
    /\ latest < MaxRev
    /\ latest' = latest + 1
    /\ rows' = [RetirePending("superseded") EXCEPT ![latest + 1] = NewRow(v)]
    /\ kicks' = kicks \cup {latest + 1}
    /\ UNCHANGED <<remote, applied, allowed, jobs, crashes>>

\* Stopping TMDb retires what waits; pausing Jellyfin leaves it to be claimed.
Stop ==
    /\ allowed
    /\ allowed' = FALSE
    /\ rows' = IF Operation = "rating" THEN RetirePending("skipped") ELSE rows
    /\ UNCHANGED <<latest, remote, applied, kicks, jobs, crashes>>

Resume ==
    /\ ~allowed
    /\ allowed' = TRUE
    /\ UNCHANGED <<latest, rows, remote, applied, kicks, jobs, crashes>>

-----------------------------------------------------------------------------
(* The broker and the clock.                                                *)

LoseKick(r) ==
    /\ r \in kicks
    /\ kicks' = kicks \ {r}
    /\ UNCHANGED <<latest, rows, remote, applied, allowed, jobs, crashes>>

TakeKick(w, r) ==
    /\ jobs[w].at = "idle"
    /\ r \in kicks
    /\ kicks' = kicks \ {r}
    /\ MoveOn(w, {r})
    /\ UNCHANGED <<latest, rows, remote, applied, allowed, crashes>>

\* No live attempt outlasts STALE_IN_FLIGHT_SECONDS: its requests time out.
Ripen(r) ==
    /\ ~rows[r].ripe
    /\ Pending(r) \/ (InFlight(r) /\ \A w \in Workers : ~Holds(w, r))
    /\ rows' = [rows EXCEPT ![r].ripe = TRUE]
    /\ UNCHANGED <<latest, remote, applied, allowed, kicks, jobs, crashes>>

-----------------------------------------------------------------------------
(* The sweep.                                                               *)

\* Mutant of Abandoned: no sweep releases anything.
MutantNeverAbandoned(r) == FALSE
\* claimed_at is stale: the worker that claimed the row is taken for dead.
Abandoned(r) == InFlight(r) /\ rows[r].ripe

\* A sweep first puts abandoned attempts back in the queue ...
StartSweep(w) ==
    /\ jobs[w].at = "idle"
    /\ rows' = [r \in Revisions |->
                  IF Abandoned(r)
                  THEN [rows[r] EXCEPT !.status = "pending"] ELSE rows[r]]
    /\ jobs' = [jobs EXCEPT ![w].at = "list"]
    /\ UNCHANGED <<latest, remote, applied, allowed, kicks, crashes>>

\* ... and then lists what is due.
ListDue(w) ==
    /\ jobs[w].at = "list"
    /\ MoveOn(w, {r \in Revisions : Pending(r) /\ rows[r].ripe})
    /\ UNCHANGED <<latest, rows, remote, applied, allowed, kicks, crashes>>

-----------------------------------------------------------------------------
(* One attempt.                                                             *)

GoTo(w, place) == jobs' = [jobs EXCEPT ![w].at = place]

\* Mutant of Claimable: the index over the rows in flight is dropped.
MutantAnyClaim(r) == Pending(r) /\ rows[r].ripe
\* The conditional update, and the index that allows one row in flight.
Claimable(r) == Pending(r) /\ rows[r].ripe /\ \A s \in Revisions : ~InFlight(s)

Claim(w) ==
    /\ jobs[w].at = "run"
    /\ Claimable(Rev(w))
    /\ rows' = [rows EXCEPT ![Rev(w)].status = "in_flight",
                            ![Rev(w)].attempts = @ + 1,
                            ![Rev(w)].ripe = FALSE]
    /\ GoTo(w, "load")
    /\ UNCHANGED <<latest, remote, applied, allowed, kicks, crashes>>

ClaimRefused(w) ==
    /\ jobs[w].at = "run"
    /\ ~Claimable(Rev(w))
    /\ MoveOn(w, jobs[w].todo)
    /\ UNCHANGED <<latest, rows, remote, applied, allowed, kicks, crashes>>

\* Mutant of Resolve: the first retry writes without reading.
MutantBlindRetry(w) ==
    \/ GoTo(w, IF Delivery(w).attempts > 2 THEN "read" ELSE "write")
    \/ \E place \in {"skipped", "failed", "failing"} : GoTo(w, place)

\* The item is resolved (an attempt after the first then reads before it
\* writes), unresolvable or without an account, refused for good, or the
\* provider is unreachable.
Resolve(w) ==
    \/ GoTo(w, IF Delivery(w).attempts > 1 THEN "read" ELSE "write")
    \/ \E place \in {"skipped", "failed", "failing"} : GoTo(w, place)

\* The binding is read with the claimed row.
Load(w) ==
    /\ jobs[w].at = "load"
    /\ \/ ~allowed /\ GoTo(w, "skipped")
       \/ allowed /\ Operation = "rating" /\ GoTo(w, "check")
       \/ allowed /\ Operation = "watched" /\ Resolve(w)
    /\ UNCHANGED <<latest, rows, remote, applied, allowed, kicks, crashes>>

\* Only a rating is checked against newer intents before it is sent.
CheckSuperseded(w) ==
    /\ jobs[w].at = "check"
    /\ \/ Superseded(Rev(w)) /\ GoTo(w, "superseded")
       \/ ~Superseded(Rev(w)) /\ Resolve(w)
    /\ UNCHANGED <<latest, rows, remote, applied, allowed, kicks, crashes>>

\* Mutant of Agrees: the read is compared with the newest intent.
MutantAgreesWithNewest(w) == remote.value = rows[latest].value
\* The provider already holds what the delivery asks for.
Agrees(w) == remote.value = Delivery(w).value

Read(w) ==
    /\ jobs[w].at = "read"
    /\ \/ GoTo(w, IF Agrees(w) THEN "delivered" ELSE "write")
       \/ ~ReadsKnown /\ GoTo(w, "write")
       \/ \E place \in {"failed", "failing"} : GoTo(w, place)
    /\ UNCHANGED <<latest, rows, remote, applied, allowed, kicks, crashes>>

\* A watched write is read back; a rating write is trusted.
Written == IF Operation = "watched" THEN "readback" ELSE "delivered"

\* The provider applied the write; the answer may still be lost.
WriteApplied(w) ==
    /\ jobs[w].at = "write"
    /\ remote' = [rev |-> Rev(w), value |-> Delivery(w).value]
    /\ applied' = applied \cup {Rev(w)}
    /\ \E place \in {Written, "failing"} : GoTo(w, place)
    /\ UNCHANGED <<latest, rows, allowed, kicks, crashes>>

WriteRefused(w) ==
    /\ jobs[w].at = "write"
    /\ \E place \in {"failed", "failing"} : GoTo(w, place)
    /\ UNCHANGED <<latest, rows, remote, applied, allowed, kicks, crashes>>

ReadBack(w) ==
    /\ jobs[w].at = "readback"
    /\ \E place \in {"delivered", "failed", "failing"} : GoTo(w, place)
    /\ UNCHANGED <<latest, rows, remote, applied, allowed, kicks, crashes>>

\* Mutant of Exhausted: one attempt more than the limit.
MutantOneMore(w) == Delivery(w).attempts > MaxAttempts
\* The attempts are used up.
Exhausted(w) == Delivery(w).attempts >= MaxAttempts

\* _reschedule decides here ...
Reschedule(w) ==
    /\ jobs[w].at = "failing"
    /\ GoTo(w, IF Superseded(Rev(w)) THEN "superseded"
               ELSE IF Exhausted(w) THEN "failed"
               ELSE "requeue")
    /\ UNCHANGED <<latest, rows, remote, applied, allowed, kicks, crashes>>

\* ... and saves the row afterwards.
Requeue(w) ==
    /\ jobs[w].at = "requeue"
    /\ rows' = [rows EXCEPT ![Rev(w)].status = "pending", ![Rev(w)].ripe = FALSE]
    /\ MoveOn(w, jobs[w].todo)
    /\ UNCHANGED <<latest, remote, applied, allowed, kicks, crashes>>

Finish(w) ==
    /\ jobs[w].at \in Outcomes
    /\ rows' = [rows EXCEPT ![Rev(w)].status = jobs[w].at]
    /\ MoveOn(w, jobs[w].todo)
    /\ UNCHANGED <<latest, remote, applied, allowed, kicks, crashes>>

\* The worker is killed, times out, or an exception no handler names ends the
\* task: the message is already acknowledged and the row stays as it is.
Crash(w) ==
    /\ jobs[w].at # "idle"
    /\ crashes < MaxCrashes
    /\ crashes' = crashes + 1
    /\ jobs' = [jobs EXCEPT ![w] = Idle]
    /\ UNCHANGED <<latest, rows, remote, applied, allowed, kicks>>

-----------------------------------------------------------------------------
Attempt(w) ==
    \/ Claim(w) \/ ClaimRefused(w) \/ Load(w) \/ CheckSuperseded(w)
    \/ Read(w) \/ WriteApplied(w) \/ WriteRefused(w)
    \/ ReadBack(w) \/ Reschedule(w) \/ Requeue(w) \/ Finish(w)

Step(w) == ListDue(w) \/ Attempt(w)

Next ==
    \/ \E v \in Values : Enqueue(v)
    \/ Stop \/ Resume
    \/ \E r \in Revisions : LoseKick(r) \/ Ripen(r)
    \/ \E w \in Workers : \/ \E r \in Revisions : TakeKick(w, r)
                          \/ StartSweep(w) \/ Step(w) \/ Crash(w)

Spec == Init /\ [][Next]_vars

\* Tasks run to their end, the beat starts a sweep every minute, clocks run.
\* Nothing obliges a kick to arrive or a user to edit, stop or resume.
Fairness ==
    /\ \A w \in Workers : WF_vars(Step(w))
    /\ WF_vars(\E w \in Workers : StartSweep(w))
    /\ \A r \in Revisions : WF_vars(Ripen(r))

FairSpec == Spec /\ Fairness

-----------------------------------------------------------------------------
(* The contract, as the rows and the provider show it.                      *)
FateOf(status) ==
    CASE status \in {"pending", "in_flight"} -> "open"
      [] status = "delivered" -> "told"
      [] status = "superseded" -> "replaced"
      [] status \in {"failed", "skipped"} -> "dropped"
      [] OTHER -> "none"

Contract == INSTANCE OutboundContract
                WITH intent <- [r \in Revisions |-> rows[r].value],
                     fate   <- [r \in Revisions |-> FateOf(rows[r].status)],
                     shown  <- remote

\* A rating's outbox implements the contract: edits are shown in order, and
\* every outcome is final and says what really happened.
KeepsContract == Contract!Spec

-----------------------------------------------------------------------------
(* Properties.                                                              *)

\* Every variable keeps its type.
TypeOK ==
    /\ latest \in 0..MaxRev
    /\ rows \in [Revisions -> Row]
    /\ remote \in [rev: 0..MaxRev, value: Values]
    /\ applied \subseteq Revisions
    /\ allowed \in BOOLEAN
    /\ kicks \subseteq Revisions
    /\ jobs \in [Workers -> Job]
    /\ crashes \in 0..MaxCrashes

\* "Claim before you write" (outbound.py): of all workers at most one is
\* between its claim and its outcome, and its row is the one in flight; nobody
\* else releases, supersedes or claims that row under it.
ExclusiveAttempt ==
    /\ \A w \in Workers : jobs[w].at \in Sending => InFlight(Rev(w))
    /\ \A w, x \in Workers :
          jobs[w].at \in Sending /\ jobs[x].at \in Sending => w = x

\* "The revision orders the write" (OutboundStateDelivery): whatever is
\* retried, released or delayed, the provider never goes back from a newer
\* revision to an older one.
RevisionsOrderWrites == [][remote'.rev >= remote.rev]_vars

\* When the newest delivery is recorded as delivered the provider holds its
\* value, and no straggler has since put an older value over it.
NewestStands ==
    \A r \in Revisions :
        r = latest /\ rows[r].status = "delivered" => remote.value = rows[r].value

\* "A write that timed out may well have applied" (outbound.py): while reads
\* are conclusive, no revision is applied a second time, by a retry or by the
\* attempt after a dead worker.
AppliedOnce ==
    [][\A w \in Workers : WriteApplied(w) => Rev(w) \notin applied]_vars

\* A row becomes delivered only at a moment when the provider does hold the
\* row's value.
DeliveredIsTrue ==
    [][\A r \in Revisions :
          rows'[r].status = "delivered" /\ rows[r].status # "delivered"
             => remote'.value = rows[r].value]_vars

\* _reschedule gives up at MAX_ATTEMPTS, but release_stale_deliveries does not
\* count: only a dying worker takes a row past the limit, once per death.
RetryBudget == \A r \in Revisions : rows[r].attempts <= MaxAttempts + crashes

\* An outcome is final: no sweep, late worker or pause reopens a settled row.
OutcomesAreFinal ==
    [][\A r \in Revisions : rows[r].status \in Outcomes
                              => rows'[r].status = rows[r].status]_vars

\* "Correctness never depends on the broker being up": every delivery reaches
\* an outcome though kicks are lost and workers die in the middle of it.
Settles == \A r \in Revisions : Open(r) ~> rows[r].status \in Outcomes
=============================================================================

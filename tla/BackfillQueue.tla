--------------------------- MODULE BackfillQueue ---------------------------
(***************************************************************************)
(* The work queue of one metadata backfill: a Redis set of members, a      *)
(* marker that says a drain is on its way or at work, the drain tasks in   *)
(* the broker, and the callers that enqueue, at once or at the end of an   *)
(* import (app/backfill_queue.py, app/task_cooperation.py; the drain task  *)
(* of a backfill as in app/tasks_providers.py).                            *)
(*                                                                         *)
(* A step is one Redis command or pipeline, one message, or one member     *)
(* tried; nothing holds a lock over two of them.                           *)
(***************************************************************************)
EXTENDS Integers, FiniteSets

CONSTANTS
    Members,        \* the ids a queue can hold
    Workers,        \* worker processes
    Callers,        \* pages and imports that enqueue
    Sweep,          \* the scheduled sweep, which enqueues what is still owed
    BatchSize,      \* members a drain takes at a time
    MaxWakes,       \* bound: no enqueue and no lapse while so many drains wait
    MaxFaults       \* bound: losses, deaths and failed commands

ASSUME QueueAssumption ==
    /\ Sweep \notin Callers
    /\ BatchSize \in Nat \ {0}
    /\ MaxWakes \in Nat
    /\ MaxFaults \in Nat

VARIABLES
    queue,          \* the Redis set
    marker,         \* the scheduled key: absent, short (30 s) or a claim (15 min)
    wakes,          \* drain messages in the broker
    direct,         \* members in messages that carry them
    caller,         \* where each enqueuer is
    job,            \* what each worker is doing
    owed,           \* history: enqueued, and not tried since
    lost,           \* history: owed members that a fault took
    early,          \* history: a marker ran out before its drain was done
    faults          \* history: how many faults happened

vars == <<queue, marker, wakes, direct, caller, job, owed, lost, early, faults>>

Enqueuers == Callers \cup {Sweep}

Idle == [phase |-> "idle", drain |-> FALSE, batch |-> {}, begun |-> FALSE]

Init ==
    /\ queue = {}
    /\ marker = "none"
    /\ wakes = 0
    /\ direct = {}
    /\ caller = [c \in Enqueuers |-> "idle"]
    /\ job = [w \in Workers |-> Idle]
    /\ owed = {}
    /\ lost = {}
    /\ early = FALSE
    /\ faults = 0

-----------------------------------------------------------------------------
(* What the steps are made of.                                               *)

CallerTo(c, phase) == caller' = [caller EXCEPT ![c] = phase]
JobTo(w, phase) == job' = [job EXCEPT ![w].phase = phase]
End(w) == job' = [job EXCEPT ![w] = Idle]

\* A batch is over: a drain goes on to its release, a direct message is done.
After(w) ==
    IF job[w].drain THEN [Idle EXCEPT !.phase = "release", !.drain = TRUE] ELSE Idle

\* SET NX: the marker is there afterwards, and only its creator sends a drain.
Free == marker = "none"
Marked == IF Free THEN "scheduled" ELSE marker

Fault == faults < MaxFaults /\ faults' = faults + 1

Owe(S) == owed' = owed \cup S /\ lost' = lost \ S

-----------------------------------------------------------------------------
(* Enqueueing.                                                               *)

\* SADD and SET NX in one pipeline; the creator of the marker sends a drain.
Put(c, S) ==
    /\ caller[c] = "idle"
    /\ S # {}
    /\ wakes < MaxWakes
    /\ queue' = queue \cup S
    /\ marker' = Marked
    /\ CallerTo(c, IF Free THEN "send" ELSE "idle")
    /\ Owe(S)
    /\ UNCHANGED <<wakes, direct, job, early, faults>>

Enqueue(c) == \E S \in SUBSET Members : Put(c, S)

\* The sweep finds what nobody has tried, wherever it got lost.
Reconcile == Put(Sweep, owed)

\* Redis does not answer: the caller sends the members themselves.  The pipeline
\* may have run all the same.
EnqueueUnavailable(c) ==
    \E S \in SUBSET Members :
        /\ caller[c] = "idle"
        /\ S # {}
        /\ Fault
        /\ direct' = direct \cup S
        /\ Owe(S)
        /\ \/ queue' = queue \cup S /\ marker' = Marked
           \/ UNCHANGED <<queue, marker>>
        /\ UNCHANGED <<wakes, caller, job, early>>

Send(c) ==
    /\ caller[c] = "send"
    /\ wakes' = wakes + 1
    /\ CallerTo(c, "idle")
    /\ UNCHANGED <<queue, marker, direct, job, owed, lost, early, faults>>

\* An import: members join the queue, the drain is published at the end.
Defer(c) ==
    /\ caller[c] = "idle"
    /\ CallerTo(c, "deferring")
    /\ UNCHANGED <<queue, marker, wakes, direct, job, owed, lost, early, faults>>

EnqueueDeferred(c) ==
    \E S \in SUBSET Members :
        /\ caller[c] \in {"deferring", "pending"}
        /\ S # {}
        /\ queue' = queue \cup S
        /\ CallerTo(c, "pending")
        /\ Owe(S)
        /\ UNCHANGED <<marker, wakes, direct, job, early, faults>>

\* The import is over, with or without an error.
Publish(c) ==
    /\ caller[c] \in {"deferring", "pending"}
    /\ \/ /\ caller[c] = "deferring" \/ ~Free
          /\ CallerTo(c, "idle")
          /\ UNCHANGED marker
       \/ /\ caller[c] = "pending"
          /\ Free
          /\ marker' = Marked
          /\ CallerTo(c, "send")
    /\ UNCHANGED <<queue, wakes, direct, job, owed, lost, early, faults>>

\* The process ends, the broker refuses the message, or SET NX has no answer and
\* the message is sent without it.
CallerFails(c) ==
    /\ Fault
    /\ \/ /\ caller[c] # "idle"
          /\ CallerTo(c, "idle")
       \/ /\ caller[c] = "pending"
          /\ CallerTo(c, "send")
    /\ UNCHANGED <<queue, marker, wakes, direct, job, owed, lost, early>>

-----------------------------------------------------------------------------
(* A worker: a drain takes a batch, claims the queue, tries the members one  *)
(* by one, hands back what it does not get to, releases and looks again.     *)

StartDrain(w) ==
    /\ job[w].phase = "idle"
    /\ wakes > 0
    /\ wakes' = wakes - 1
    /\ job' = [job EXCEPT ![w] = [Idle EXCEPT !.phase = "pop", !.drain = TRUE]]
    /\ UNCHANGED <<queue, marker, direct, caller, owed, lost, early, faults>>

StartDirect(w) ==
    /\ job[w].phase = "idle"
    /\ \E S \in SUBSET direct :
          /\ S # {}
          /\ direct' = direct \ S
          /\ job' = [job EXCEPT ![w] = [Idle EXCEPT !.phase = "work", !.batch = S]]
    /\ UNCHANGED <<queue, marker, wakes, caller, owed, lost, early, faults>>

\* SPOP.
Popped(S) ==
    /\ S \subseteq queue
    /\ Cardinality(S) <= BatchSize
    /\ S = queue \/ Cardinality(S) = BatchSize

Pop(w) ==
    /\ job[w].phase = "pop"
    /\ \E S \in SUBSET queue :
          /\ Popped(S)
          /\ queue' = queue \ S
          /\ job' = [job EXCEPT ![w].phase = "claim", ![w].batch = S]
    /\ UNCHANGED <<marker, wakes, direct, caller, owed, lost, early, faults>>

\* The marker is overwritten, whoever had set it.
MutantNoClaim == marker
Claimed == "claimed"

Claim(w) ==
    /\ job[w].phase = "claim"
    /\ marker' = Claimed
    /\ JobTo(w, "work")
    /\ UNCHANGED <<queue, wakes, direct, caller, owed, lost, early, faults>>

\* The provider has answered, with whatever result, or nothing was needed.
Try(w) ==
    /\ job[w].phase = "work"
    /\ \E m \in job[w].batch :
          /\ job' = [job EXCEPT ![w].batch = @ \ {m}, ![w].begun = TRUE]
          /\ owed' = owed \ {m}
          /\ lost' = lost \ {m}
    /\ UNCHANGED <<queue, marker, wakes, direct, caller, early, faults>>

MutantAtOnce(w) == TRUE
AfterOne(w) == job[w].begun

\* A person uses the instance: after at least one member, the rest is given back.
GiveBack(w) ==
    /\ job[w].phase = "work"
    /\ AfterOne(w)
    /\ job[w].batch # {}
    /\ JobTo(w, "requeue")
    /\ UNCHANGED <<queue, marker, wakes, direct, caller, owed, lost, early, faults>>

MutantAllTried(w) == {}
Remaining(w) == job[w].batch

Requeue(w) ==
    /\ job[w].phase = "requeue"
    /\ queue' = queue \cup Remaining(w)
    /\ marker' = Marked
    /\ job' = [job EXCEPT ![w] = IF Free THEN [@ EXCEPT !.phase = "resend", !.batch = {}]
                                       ELSE After(w)]
    /\ UNCHANGED <<wakes, direct, caller, owed, lost, early, faults>>

Resend(w) ==
    /\ job[w].phase = "resend"
    /\ wakes' = wakes + 1
    /\ job' = [job EXCEPT ![w] = After(w)]
    /\ UNCHANGED <<queue, marker, direct, caller, owed, lost, early, faults>>

Done(w) ==
    /\ job[w].phase = "work"
    /\ job[w].batch = {}
    /\ job' = [job EXCEPT ![w] = After(w)]
    /\ UNCHANGED <<queue, marker, wakes, direct, caller, owed, lost, early, faults>>

\* The claim goes first, and the depth is read afterwards.
Release(w) ==
    /\ job[w].phase = "release"
    /\ marker' = "none"
    /\ JobTo(w, "depth")
    /\ UNCHANGED <<queue, wakes, direct, caller, owed, lost, early, faults>>

MutantNeverMore(w) == FALSE
MoreWaits(w) == queue # {}

ReadDepth(w) ==
    /\ job[w].phase = "depth"
    /\ IF MoreWaits(w) THEN JobTo(w, "mark") ELSE End(w)
    /\ UNCHANGED <<queue, marker, wakes, direct, caller, owed, lost, early, faults>>

Reschedule(w) ==
    /\ job[w].phase = "mark"
    /\ IF Free THEN JobTo(w, "send") ELSE End(w)
    /\ marker' = Marked
    /\ UNCHANGED <<queue, wakes, direct, caller, owed, lost, early, faults>>

SendNext(w) ==
    /\ job[w].phase = "send"
    /\ wakes' = wakes + 1
    /\ End(w)
    /\ UNCHANGED <<queue, marker, direct, caller, owed, lost, early, faults>>

-----------------------------------------------------------------------------
(* Faults.                                                                   *)

\* SPOP, or the commands after it, have no answer: the batch counts as empty and
\* what was popped is gone.
TakeFails(w) ==
    /\ job[w].phase \in {"pop", "claim"}
    /\ Fault
    /\ \E S \in SUBSET queue :
          /\ S = {} \/ (job[w].phase = "pop" /\ Popped(S))
          /\ queue' = queue \ S
          /\ lost' = lost \cup (owed \cap (S \cup job[w].batch))
    /\ marker' \in IF job[w].phase = "claim" THEN {marker, Claimed} ELSE {marker}
    /\ job' = [job EXCEPT ![w] = After(w)]
    /\ UNCHANGED <<wakes, direct, caller, owed, early>>

\* The queue does not take the rest back: it is sent as it is.
RequeueFails(w) ==
    /\ job[w].phase = "requeue"
    /\ Fault
    /\ direct' = direct \cup Remaining(w)
    /\ job' = [job EXCEPT ![w] = After(w)]
    /\ UNCHANGED <<queue, marker, wakes, caller, owed, lost, early>>

\* "Better a duplicate drain than a queue that stops being drained."
ReleaseFails(w) ==
    /\ job[w].phase \in {"release", "depth", "mark"}
    /\ Fault
    /\ \/ /\ job[w].phase = "release"
          /\ marker' \in {marker, "none"}
          /\ JobTo(w, "mark")
       \/ /\ job[w].phase = "depth"
          /\ JobTo(w, "mark")
          /\ UNCHANGED marker
       \/ /\ job[w].phase = "mark"
          /\ marker' \in {marker, Marked}
          /\ JobTo(w, "send")
    /\ UNCHANGED <<queue, wakes, direct, caller, owed, lost, early>>

\* An error or a time limit inside the batch: a drain still releases.
Abort(w) ==
    /\ job[w].phase \in {"work", "requeue", "resend"}
    /\ Fault
    /\ lost' = lost \cup (owed \cap job[w].batch)
    /\ job' = [job EXCEPT ![w] = After(w)]
    /\ UNCHANGED <<queue, marker, wakes, direct, caller, owed, early>>

\* The worker is killed, and its message with it.
Crash(w) ==
    /\ job[w].phase # "idle"
    /\ Fault
    /\ lost' = lost \cup (owed \cap job[w].batch)
    /\ End(w)
    /\ UNCHANGED <<queue, marker, wakes, direct, caller, owed, early>>

LoseMessage ==
    /\ Fault
    /\ \/ wakes > 0 /\ wakes' = wakes - 1 /\ UNCHANGED <<direct, lost>>
       \/ \E S \in SUBSET direct :
             /\ S # {}
             /\ direct' = direct \ S
             /\ lost' = lost \cup (owed \cap S)
             /\ UNCHANGED wakes
    /\ UNCHANGED <<queue, marker, caller, job, owed, early>>

\* The queue's own expiry, or a flushed cache.
LoseQueue ==
    /\ queue # {}
    /\ Fault
    /\ queue' = {}
    /\ lost' = lost \cup (owed \cap queue)
    /\ marker' \in {marker, "none"}
    /\ UNCHANGED <<wakes, direct, caller, job, owed, early>>

\* Between the SPOP or the message that stands for it and the release.
AtWork(w) ==
    job[w].drain /\ job[w].phase \in {"pop", "claim", "work", "requeue", "resend",
                                      "release"}

Sending == \/ \E c \in Enqueuers : caller[c] = "send"
           \/ \E w \in Workers : job[w].phase \in {"resend", "send"}

\* A scheduled marker outlives the message it stands for and the step from the pop
\* to the claim, and a claim outlives the batch, unless it runs out early.
Early ==
    \/ wakes > 0
    \/ Sending
    \/ \E w \in Workers : AtWork(w) /\ (marker = "claimed" \/ job[w].phase \in {"pop", "claim"})

MarkerLapses ==
    /\ marker # "none"
    /\ wakes < MaxWakes
    /\ marker' = "none"
    /\ early' = (early \/ Early)
    /\ UNCHANGED <<queue, wakes, direct, caller, job, owed, lost, faults>>

-----------------------------------------------------------------------------
CallerStep(c) == Send(c) \/ Publish(c)

Work(w) ==
    \/ Pop(w)
    \/ Claim(w)
    \/ Try(w)
    \/ Requeue(w)
    \/ Resend(w)
    \/ Done(w)
    \/ Release(w)
    \/ ReadDepth(w)
    \/ Reschedule(w)
    \/ SendNext(w)

Start(w) == StartDrain(w) \/ StartDirect(w)

Broken(w) ==
    \/ TakeFails(w)
    \/ RequeueFails(w)
    \/ ReleaseFails(w)
    \/ Abort(w)
    \/ Crash(w)

Next ==
    \/ \E c \in Callers : Enqueue(c) \/ Defer(c) \/ EnqueueDeferred(c)
    \/ Reconcile
    \/ \E c \in Enqueuers : CallerStep(c) \/ CallerFails(c) \/ EnqueueUnavailable(c)
    \/ \E w \in Workers : Start(w) \/ Work(w) \/ GiveBack(w) \/ Broken(w)
    \/ LoseMessage
    \/ LoseQueue
    \/ MarkerLapses

Spec == Init /\ [][Next]_vars

-----------------------------------------------------------------------------
(* Properties.                                                               *)

Phases == {"idle", "pop", "claim", "work", "requeue", "resend", "release", "depth",
           "mark", "send"}

Jobs == [phase : Phases, drain : BOOLEAN, batch : SUBSET Members, begun : BOOLEAN]

\* Every variable keeps its type, and only a batch that was begun is handed back.
TypeOK ==
    /\ queue \subseteq Members
    /\ marker \in {"none", "scheduled", "claimed"}
    /\ wakes \in Nat
    /\ direct \subseteq Members
    /\ caller \in [Enqueuers -> {"idle", "send", "deferring", "pending"}]
    /\ job \in [Workers -> Jobs]
    /\ owed \subseteq Members
    /\ lost \subseteq owed
    /\ early \in BOOLEAN
    /\ faults \in 0..MaxFaults
    /\ \A w \in Workers : job[w].phase = "requeue" => job[w].begun

\* What was enqueued and not tried is in the queue, in a message, in a worker's
\* hands, or was taken by a fault; no race between callers, drains that give back
\* and drains that pop drops it.
NothingDropped ==
    owed \subseteq queue \cup direct \cup lost \cup UNION {job[w].batch : w \in Workers}

\* A drain is waiting, at work or about to be sent.
Coming ==
    \/ wakes > 0
    \/ Sending
    \/ \E c \in Callers : caller[c] = "pending"
    \/ \E w \in Workers : AtWork(w) \/ job[w].phase \in {"depth", "mark"}

\* "Dropping the claim can never strand work" (release): while nothing has failed,
\* no member waits in a queue that no drain will look at, even when markers run out
\* early, drains overlap and one drops another's claim.
NothingStranded == faults = 0 /\ queue # {} => Coming

\* Two drains never work side by side unless a marker ran out under its drain:
\* "two drains writing at once only add contention" (DRAIN_CLAIM_TTL).
OneDrain ==
    faults = 0 /\ ~early =>
        \A v, w \in Workers : AtWork(v) /\ AtWork(w) => v = w

=============================================================================

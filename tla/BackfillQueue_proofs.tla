------------------------ MODULE BackfillQueue_proofs ------------------------
(***************************************************************************)
(* Proofs about BackfillQueue, for any members, workers, callers, batch    *)
(* size and number of faults: types, that no member is dropped, that no    *)
(* member waits in a queue nobody will look at, and that drains do not run *)
(* side by side.                                                           *)
(*                                                                         *)
(* HeldInv: a job keeps members in its batch only while it may still try   *)
(* or hand them back.  StrandInv: without faults a marker stands for a     *)
(* drain that waits, works or is about to be sent, so whoever finds it     *)
(* taken may leave.  TokenInv: without early lapses there is at most one   *)
(* such drain, and none without a marker.                                  *)
(***************************************************************************)
EXTENDS BackfillQueue, TLAPS

HandsEmpty ==
    \A w \in Workers : job[w].phase \notin {"claim", "work", "requeue"} => job[w].batch = {}

Held(m) == m \in queue \/ m \in direct \/ m \in lost \/ \E w \in Workers : m \in job[w].batch

HeldInv ==
    /\ TypeOK
    /\ HandsEmpty
    /\ \A m \in owed : Held(m)

-----------------------------------------------------------------------------
(* Types.                                                                    *)

LEMMA JobTypes ==
    ASSUME TypeOK, NEW w \in Workers
    PROVE  /\ job[w] \in Jobs
           /\ Idle \in Jobs /\ Idle.phase = "idle" /\ Idle.batch = {}
           /\ After(w) \in Jobs
           /\ After(w).batch = {} /\ After(w).phase \in {"idle", "release"}
           /\ ~job[w].drain => After(w) = Idle
           /\ job[w].drain => After(w).phase = "release" /\ After(w).drain
<1>1. job[w] \in Jobs
  BY DEF TypeOK
<1>2. Idle \in Jobs /\ Idle.phase = "idle" /\ Idle.batch = {}
  BY DEF Idle, Jobs, Phases
<1>. QED
  BY <1>1, <1>2 DEF After, Jobs, Phases, Idle

LEMMA InitTypeOK == Init => TypeOK
<1>. SUFFICES ASSUME Init PROVE TypeOK
  OBVIOUS
<1>1. 0 \in 0..MaxFaults
  BY QueueAssumption
<1>2. Idle \in Jobs /\ Idle.phase # "requeue"
  BY DEF Idle, Jobs, Phases
<1>3. \A w \in Workers : job[w] = Idle
  BY DEF Init
<1>. QED
  BY <1>1, <1>2, <1>3 DEF Init, TypeOK

\* A step of a worker that changes its own job only.
LEMMA JobStep ==
    ASSUME TypeOK, NEW w \in Workers, NEW j \in Jobs, j.phase = "requeue" => j.begun,
           job' = [job EXCEPT ![w] = j]
    PROVE  /\ job' \in [Workers -> Jobs]
           /\ \A v \in Workers : job'[v].phase = "requeue" => job'[v].begun
           /\ \A v \in Workers : job'[v] = IF v = w THEN j ELSE job[v]
BY DEF TypeOK

LEMMA JobToStep ==
    ASSUME TypeOK, NEW w \in Workers, NEW p \in Phases \ {"requeue"}, JobTo(w, p)
    PROVE  /\ job' = [job EXCEPT ![w] = [job[w] EXCEPT !.phase = p]]
           /\ [job[w] EXCEPT !.phase = p] \in Jobs
           /\ [job[w] EXCEPT !.phase = p].phase = p
           /\ [job[w] EXCEPT !.phase = p].drain = job[w].drain
           /\ [job[w] EXCEPT !.phase = p].batch = job[w].batch
BY DEF TypeOK, JobTo, Jobs

\* The parts of TypeOK that are not about the jobs.
QueueTypes ==
    /\ queue \subseteq Members
    /\ marker \in {"none", "scheduled", "claimed"}
    /\ wakes \in Nat
    /\ direct \subseteq Members
    /\ caller \in [Enqueuers -> {"idle", "send", "deferring", "pending"}]
    /\ owed \subseteq Members
    /\ lost \subseteq owed
    /\ early \in BOOLEAN
    /\ faults \in 0..MaxFaults

JobsOK ==
    /\ job \in [Workers -> Jobs]
    /\ \A w \in Workers : job[w].phase = "requeue" => job[w].begun

LEMMA TypeParts == TypeOK <=> QueueTypes /\ JobsOK
BY DEF TypeOK, QueueTypes, JobsOK

LEMMA NextQueueTypes ==
    ASSUME TypeOK, [Next]_vars
    PROVE  QueueTypes'
<1>. USE DEF QueueTypes
<1>0. QueueTypes /\ \A w \in Workers : job[w].batch \subseteq Members
  BY TypeParts DEF TypeOK, Jobs
<1>f. ASSUME Fault PROVE faults' \in 0..MaxFaults
  BY <1>0, <1>f, QueueAssumption DEF Fault
<1>m. Marked \in {"none", "scheduled", "claimed"}
  BY <1>0 DEF Marked
<1>c. \A c \in Callers : c \in Enqueuers
  BY DEF Enqueuers
<1>s. Sweep \in Enqueuers
  BY DEF Enqueuers
<1>1. ASSUME NEW c \in Enqueuers, NEW S \in SUBSET Members, Put(c, S) PROVE QueueTypes'
  BY <1>0, <1>m, <1>1 DEF Put, CallerTo, Owe
<1>2. ASSUME NEW c \in Callers, Enqueue(c) \/ Defer(c) \/ EnqueueDeferred(c) PROVE QueueTypes'
  BY <1>0, <1>c, <1>1, <1>2 DEF Enqueue, Defer, EnqueueDeferred, CallerTo, Owe
<1>3. CASE Reconcile
  BY <1>0, <1>s, <1>1, <1>3 DEF Reconcile
<1>4. ASSUME NEW c \in Enqueuers, CallerStep(c) PROVE QueueTypes'
  BY <1>0, <1>m, <1>4 DEF CallerStep, Send, Publish, CallerTo
<1>5. ASSUME NEW c \in Enqueuers, CallerFails(c) PROVE QueueTypes'
  BY <1>0, <1>f, <1>5 DEF CallerFails, CallerTo
<1>6. ASSUME NEW c \in Enqueuers, EnqueueUnavailable(c) PROVE QueueTypes'
  BY <1>0, <1>f, <1>m, <1>6 DEF EnqueueUnavailable, Owe
<1>7. ASSUME NEW w \in Workers, Start(w) PROVE QueueTypes'
  <2>1. CASE StartDrain(w)
    <3>1. wakes - 1 \in Nat
      BY <1>0, <2>1 DEF StartDrain
    <3>. QED
      BY <1>0, <2>1, <3>1 DEF StartDrain
  <2>2. CASE StartDirect(w)
    BY <1>0, <2>2 DEF StartDirect
  <2>. QED
    BY <1>7, <2>1, <2>2 DEF Start
<1>8. ASSUME NEW w \in Workers, Work(w) PROVE QueueTypes'
  <2>1. CASE Requeue(w)
    BY <1>0, <1>m, <2>1 DEF Requeue, Remaining
  <2>2. CASE Try(w)
    BY <1>0, <2>2 DEF Try
  <2>3. CASE Reschedule(w)
    BY <1>0, <1>m, <2>3 DEF Reschedule
  <2>. QED
    BY <1>0, <1>8, <2>1, <2>2, <2>3
       DEF Work, Pop, Claim, Claimed, Resend, Done, Release, ReadDepth, SendNext
<1>9. ASSUME NEW w \in Workers, GiveBack(w) PROVE QueueTypes'
  BY <1>0, <1>9 DEF GiveBack
<1>10. ASSUME NEW w \in Workers, Broken(w) PROVE QueueTypes'
  <2>1. CASE TakeFails(w)
    BY <1>0, <1>f, <2>1 DEF TakeFails, Claimed
  <2>2. CASE RequeueFails(w)
    BY <1>0, <1>f, <2>2 DEF RequeueFails, Remaining
  <2>3. CASE ReleaseFails(w)
    BY <1>0, <1>f, <1>m, <2>3 DEF ReleaseFails
  <2>4. CASE Abort(w) \/ Crash(w)
    BY <1>0, <1>f, <2>4 DEF Abort, Crash
  <2>. QED
    BY <1>10, <2>1, <2>2, <2>3, <2>4 DEF Broken
<1>11. CASE LoseMessage
  BY <1>0, <1>f, <1>11 DEF LoseMessage
<1>12. CASE LoseQueue
  BY <1>0, <1>f, <1>12 DEF LoseQueue
<1>13. CASE MarkerLapses
  <2>1. (early \/ Early) \in BOOLEAN
    BY Zenon
  <2>2. early' \in BOOLEAN
    BY <1>13, <2>1, Zenon DEF MarkerLapses
  <2>. QED
    BY <1>0, <1>13, <2>2 DEF MarkerLapses
<1>14. CASE UNCHANGED vars
  BY <1>0, <1>14 DEF vars
<1>. QED
  BY <1>2, <1>3, <1>4, <1>5, <1>6, <1>7, <1>8, <1>9, <1>10, <1>11, <1>12, <1>13, <1>14 DEF Next

LEMMA NextJobsOK ==
    ASSUME TypeOK, [Next]_vars
    PROVE  JobsOK'
<1>0. ASSUME UNCHANGED job PROVE JobsOK'
  BY <1>0, TypeParts DEF JobsOK
<1>j. ASSUME NEW w \in Workers, NEW j \in Jobs, j.phase = "requeue" => j.begun,
             job' = [job EXCEPT ![w] = j]
      PROVE  JobsOK'
  <2>1. /\ job' \in [Workers -> Jobs]
        /\ \A v \in Workers : job'[v].phase = "requeue" => job'[v].begun
    BY <1>j, JobStep
  <2>. QED
    BY <2>1 DEF JobsOK
<1>t. ASSUME NEW w \in Workers, NEW p \in Phases \ {"requeue"}, JobTo(w, p)
      PROVE  JobsOK'
  <2>. DEFINE j == [job[w] EXCEPT !.phase = p]
  <2>1. job' = [job EXCEPT ![w] = j] /\ j \in Jobs /\ j.phase = p
    BY <1>t, JobToStep
  <2>2. j.phase # "requeue"
    BY <2>1
  <2>. HIDE DEF j
  <2>. QED
    BY <1>j, <2>1, <2>2
<1>e. ASSUME NEW w \in Workers, End(w) PROVE JobsOK'
  <2>1. Idle \in Jobs /\ Idle.phase # "requeue"
    BY JobTypes
  <2>. QED
    BY <1>e, <1>j, <2>1 DEF End
<1>a. ASSUME NEW w \in Workers, job' = [job EXCEPT ![w] = After(w)] PROVE JobsOK'
  BY <1>a, <1>j, JobTypes
<1>1. ASSUME NEW c \in Callers, Enqueue(c) \/ Defer(c) \/ EnqueueDeferred(c) PROVE JobsOK'
  BY <1>0, <1>1 DEF Enqueue, Defer, EnqueueDeferred, Put
<1>2. CASE Reconcile \/ LoseMessage \/ LoseQueue \/ MarkerLapses \/ UNCHANGED vars
  BY <1>0, <1>2 DEF Reconcile, Put, LoseMessage, LoseQueue, MarkerLapses, vars
<1>3. ASSUME NEW c \in Enqueuers, CallerStep(c) \/ CallerFails(c) \/ EnqueueUnavailable(c)
      PROVE  JobsOK'
  BY <1>0, <1>3 DEF CallerStep, Send, Publish, CallerFails, EnqueueUnavailable
<1>4. ASSUME NEW w \in Workers, Start(w) PROVE JobsOK'
  <2>1. CASE StartDrain(w)
    <3>1. [Idle EXCEPT !.phase = "pop", !.drain = TRUE] \in Jobs
            /\ [Idle EXCEPT !.phase = "pop", !.drain = TRUE].phase = "pop"
      BY DEF Idle, Jobs, Phases
    <3>. QED
      BY <1>j, <2>1, <3>1 DEF StartDrain
  <2>2. CASE StartDirect(w)
    <3>1. PICK S \in SUBSET direct :
             job' = [job EXCEPT ![w] = [Idle EXCEPT !.phase = "work", !.batch = S]]
      BY <2>2 DEF StartDirect
    <3>2. S \subseteq Members
      BY DEF TypeOK
    <3>3. [Idle EXCEPT !.phase = "work", !.batch = S] \in Jobs
            /\ [Idle EXCEPT !.phase = "work", !.batch = S].phase = "work"
      BY <3>2 DEF Idle, Jobs, Phases
    <3>. QED
      BY <1>j, <3>1, <3>3
  <2>. QED
    BY <1>4, <2>1, <2>2 DEF Start
<1>5. ASSUME NEW w \in Workers, Work(w) PROVE JobsOK'
  <2>1. CASE Pop(w)
    <3>1. PICK S \in SUBSET queue : job' = [job EXCEPT ![w].phase = "claim", ![w].batch = S]
      BY <2>1 DEF Pop
    <3>2. S \subseteq Members /\ job[w] \in Jobs
      BY DEF TypeOK
    <3>3. [job[w] EXCEPT !.phase = "claim", !.batch = S] \in Jobs
            /\ [job[w] EXCEPT !.phase = "claim", !.batch = S].phase = "claim"
      BY <3>2 DEF Jobs, Phases
    <3>4. job' = [job EXCEPT ![w] = [job[w] EXCEPT !.phase = "claim", !.batch = S]]
      BY <3>1 DEF TypeOK
    <3>. QED
      BY <1>j, <3>3, <3>4
  <2>2. CASE Try(w)
    <3>1. PICK m \in job[w].batch :
             job' = [job EXCEPT ![w].batch = @ \ {m}, ![w].begun = TRUE]
      BY <2>2 DEF Try
    <3>2. job[w] \in Jobs
      BY DEF TypeOK
    <3>3. [job[w] EXCEPT !.batch = @ \ {m}, !.begun = TRUE] \in Jobs
            /\ [job[w] EXCEPT !.batch = @ \ {m}, !.begun = TRUE].begun
      BY <3>2 DEF Jobs
    <3>4. job' = [job EXCEPT ![w] = [job[w] EXCEPT !.batch = @ \ {m}, !.begun = TRUE]]
      BY <3>1 DEF TypeOK
    <3>. QED
      BY <1>j, <3>3, <3>4
  <2>3. CASE Requeue(w)
    <3>1. job[w] \in Jobs
      BY DEF TypeOK
    <3>2. [job[w] EXCEPT !.phase = "resend", !.batch = {}] \in Jobs
            /\ [job[w] EXCEPT !.phase = "resend", !.batch = {}].phase = "resend"
      BY <3>1 DEF Jobs, Phases
    <3>. QED
      BY <1>a, <1>j, <2>3, <3>2 DEF Requeue
  <2>4. CASE Resend(w) \/ Done(w)
    BY <1>a, <2>4 DEF Resend, Done
  <2>5. CASE Claim(w) \/ Release(w)
    BY <1>t, <2>5 DEF Claim, Release, Phases
  <2>6. CASE ReadDepth(w) \/ Reschedule(w) \/ SendNext(w)
    BY <1>e, <1>t, <2>6 DEF ReadDepth, Reschedule, SendNext, Phases
  <2>. QED
    BY <1>5, <2>1, <2>2, <2>3, <2>4, <2>5, <2>6 DEF Work
<1>6. ASSUME NEW w \in Workers, GiveBack(w) PROVE JobsOK'
  <2>1. job' = [job EXCEPT ![w].phase = "requeue"] /\ job[w].begun /\ job[w] \in Jobs
    BY <1>6 DEF GiveBack, AfterOne, JobTo, TypeOK
  <2>2. [job[w] EXCEPT !.phase = "requeue"] \in Jobs
          /\ [job[w] EXCEPT !.phase = "requeue"].begun
    BY <2>1 DEF Jobs, Phases
  <2>. QED
    BY <1>j, <2>1, <2>2
<1>7. ASSUME NEW w \in Workers, Broken(w) PROVE JobsOK'
  BY <1>a, <1>e, <1>t, <1>7
     DEF Broken, TakeFails, RequeueFails, ReleaseFails, Abort, Crash, Phases
<1>. QED
  BY <1>1, <1>2, <1>3, <1>4, <1>5, <1>6, <1>7 DEF Next

LEMMA NextTypeOK == TypeOK /\ [Next]_vars => TypeOK'
<1>1. ASSUME TypeOK, [Next]_vars PROVE TypeOK'
  BY <1>1, NextQueueTypes, NextJobsOK DEF TypeOK, QueueTypes, JobsOK
<1>. QED
  BY <1>1

\* TypeOK holds in every reachable state.
THEOREM TypeCorrect == Spec => []TypeOK
BY InitTypeOK, NextTypeOK, PTL DEF Spec

-----------------------------------------------------------------------------
(* What a worker's steps do to the jobs.                                     *)

WorkerStep(w) == Start(w) \/ Work(w) \/ GiveBack(w) \/ Broken(w)

LEMMA OthersStay ==
    ASSUME TypeOK, NEW w \in Workers, WorkerStep(w)
    PROVE  \A v \in Workers : v # w => job'[v] = job[v]
<1>0. job \in [Workers -> Jobs]
  BY DEF TypeOK
<1>1. CASE Start(w)
  BY <1>0, <1>1 DEF Start, StartDrain, StartDirect
<1>2. CASE Work(w)
  <2>1. CASE Pop(w) \/ Claim(w) \/ Try(w) \/ Requeue(w) \/ Resend(w)
    BY <1>0, <2>1 DEF Pop, Claim, Try, Requeue, Resend, JobTo
  <2>2. CASE Done(w) \/ Release(w) \/ ReadDepth(w) \/ Reschedule(w) \/ SendNext(w)
    BY <1>0, <2>2 DEF Done, Release, ReadDepth, Reschedule, SendNext, JobTo, End
  <2>. QED
    BY <1>2, <2>1, <2>2 DEF Work
<1>3. CASE GiveBack(w)
  BY <1>0, <1>3 DEF GiveBack, JobTo
<1>4. CASE Broken(w)
  BY <1>0, <1>4 DEF Broken, TakeFails, RequeueFails, ReleaseFails, Abort, Crash, JobTo, End
<1>. QED
  BY <1>1, <1>2, <1>3, <1>4 DEF WorkerStep

-----------------------------------------------------------------------------
(* No member is dropped.                                                     *)

\* The members a job holds after a step: those it held, or fewer.
LEMMA Hands ==
    ASSUME TypeOK, HandsEmpty, NEW w \in Workers, WorkerStep(w)
    PROVE  HandsEmpty'
<1>0. job[w] \in Jobs /\ job \in [Workers -> Jobs]
  BY DEF TypeOK
<1>1. SUFFICES job'[w].phase \notin {"claim", "work", "requeue"} => job'[w].batch = {}
  BY OthersStay DEF HandsEmpty
<1>2. job[w].phase \notin {"claim", "work", "requeue"} => job[w].batch = {}
  BY DEF HandsEmpty
<1>a. ASSUME job' = [job EXCEPT ![w] = After(w)] PROVE job'[w].batch = {}
  BY <1>0, <1>a, JobTypes
<1>e. ASSUME End(w) PROVE job'[w].batch = {}
  BY <1>0, <1>e, JobTypes DEF End
<1>t. ASSUME NEW p \in Phases, JobTo(w, p),
             job[w].phase \notin {"claim", "work", "requeue"}
      PROVE  job'[w].batch = {}
  BY <1>0, <1>2, <1>t DEF JobTo, Jobs
<1>w. ASSUME NEW p \in {"claim", "work", "requeue"}, JobTo(w, p)
      PROVE  job'[w].phase \in {"claim", "work", "requeue"}
  BY <1>0, <1>w DEF JobTo, Jobs
<1>3. CASE Start(w)
  BY <1>0, <1>3 DEF Start, StartDrain, StartDirect, Idle
<1>4. CASE Work(w)
  <2>1. CASE Pop(w)
    BY <1>0, <2>1 DEF Pop, Jobs
  <2>2. CASE Claim(w)
    BY <1>w, <2>2 DEF Claim
  <2>3. CASE Try(w)
    BY <1>0, <2>3 DEF Try, Jobs
  <2>4. CASE Requeue(w)
    BY <1>0, <1>a, <2>4 DEF Requeue, Jobs
  <2>5. CASE Resend(w) \/ Done(w)
    BY <1>a, <2>5 DEF Resend, Done
  <2>6. CASE Release(w) \/ ReadDepth(w) \/ Reschedule(w) \/ SendNext(w)
    BY <1>e, <1>t, <2>6 DEF Release, ReadDepth, Reschedule, SendNext, Phases
  <2>. QED
    BY <1>4, <2>1, <2>2, <2>3, <2>4, <2>5, <2>6 DEF Work
<1>5. CASE GiveBack(w)
  BY <1>w, <1>5 DEF GiveBack
<1>6. CASE Broken(w)
  BY <1>a, <1>e, <1>t, <1>6
     DEF Broken, TakeFails, RequeueFails, ReleaseFails, Abort, Crash, Phases
<1>. QED
  BY <1>3, <1>4, <1>5, <1>6 DEF WorkerStep

\* A member that is still owed after a worker's step is held by someone.
LEMMA WorkerHolds ==
    ASSUME HeldInv, NEW w \in Workers, WorkerStep(w), NEW m \in owed'
    PROVE  Held(m)'
<1>0. job[w] \in Jobs /\ job \in [Workers -> Jobs] /\ lost \subseteq owed
  BY DEF HeldInv, TypeOK
<1>1. \A v \in Workers : v # w => job'[v] = job[v]
  BY OthersStay DEF HeldInv
<1>2. owed' \subseteq owed
  BY <1>0 DEF WorkerStep, Start, StartDrain, StartDirect, Work, Pop, Claim, Try, Requeue, Resend,
     Done, Release, ReadDepth, Reschedule, SendNext, GiveBack, Broken, TakeFails,
     RequeueFails, ReleaseFails, Abort, Crash
<1>3. m \in owed /\ Held(m)
  BY <1>2 DEF HeldInv
\* What a job held and does not hold any more is elsewhere.
<1>4. SUFFICES ASSUME m \in queue \/ m \in direct \/ m \in lost \/ m \in job[w].batch
               PROVE  m \in queue' \/ m \in direct' \/ m \in lost' \/ m \in job'[w].batch
  <2>1. CASE m \in queue \/ m \in direct \/ m \in lost \/ m \in job[w].batch
    BY <1>4, <2>1 DEF Held
  <2>2. CASE \E v \in Workers : v # w /\ m \in job[v].batch
    BY <1>1, <2>2 DEF Held
  <2>. QED
    BY <1>3, <2>1, <2>2 DEF Held
<1>5. job[w].phase \notin {"claim", "work", "requeue"} => job[w].batch = {}
  BY DEF HeldInv, HandsEmpty
<1>6. \A p \in Phases : JobTo(w, p) => job'[w].batch = job[w].batch
  BY <1>0 DEF JobTo, Jobs
<1>7. CASE Start(w)
  BY <1>0, <1>4, <1>5, <1>7 DEF Start, StartDrain, StartDirect, Idle
<1>8. CASE Work(w)
  <2>1. CASE Pop(w)
    BY <1>0, <1>4, <1>5, <2>1 DEF Pop, Jobs
  <2>2. CASE Claim(w)
    BY <1>4, <1>6, <2>2 DEF Claim, Phases
  <2>3. CASE Try(w)
    BY <1>0, <1>4, <2>3 DEF Try, Jobs
  <2>4. CASE Requeue(w)
    BY <1>4, <2>4 DEF Requeue, Remaining
  <2>5. CASE Resend(w) \/ Done(w)
    BY <1>4, <1>5, <2>5 DEF Resend, Done
  <2>6. CASE Release(w) \/ ReadDepth(w) \/ Reschedule(w) \/ SendNext(w)
    BY <1>4, <1>5, <2>6 DEF Release, ReadDepth, Reschedule, SendNext
  <2>. QED
    BY <1>8, <2>1, <2>2, <2>3, <2>4, <2>5, <2>6 DEF Work
<1>9. CASE GiveBack(w)
  BY <1>4, <1>6, <1>9 DEF GiveBack, Phases
<1>10. CASE Broken(w)
  <2>1. CASE TakeFails(w)
    BY <1>3, <1>4, <2>1 DEF TakeFails
  <2>2. CASE RequeueFails(w)
    BY <1>4, <2>2 DEF RequeueFails, Remaining
  <2>3. CASE ReleaseFails(w)
    BY <1>4, <1>5, <2>3 DEF ReleaseFails
  <2>4. CASE Abort(w) \/ Crash(w)
    BY <1>3, <1>4, <2>4 DEF Abort, Crash
  <2>. QED
    BY <1>10, <2>1, <2>2, <2>3, <2>4 DEF Broken
<1>. QED
  BY <1>7, <1>8, <1>9, <1>10 DEF WorkerStep

LEMMA NextHeldInv == HeldInv /\ [Next]_vars => HeldInv'
<1>. SUFFICES ASSUME HeldInv, [Next]_vars PROVE HeldInv'
  OBVIOUS
<1>0. TypeOK' /\ TypeOK /\ lost \subseteq owed
  BY NextTypeOK DEF HeldInv, TypeOK
<1>1. SUFFICES HandsEmpty' /\ \A m \in owed' : Held(m)'
  BY <1>0 DEF HeldInv
<1>2. ASSUME UNCHANGED job PROVE HandsEmpty'
  BY <1>2 DEF HeldInv, HandsEmpty
<1>3. ASSUME NEW S \in SUBSET Members, UNCHANGED job, Owe(S),
             queue \subseteq queue', direct \subseteq direct', S \subseteq queue' \cup direct'
      PROVE  \A m \in owed' : Held(m)'
  BY <1>3 DEF HeldInv, Held, Owe
<1>4. ASSUME UNCHANGED <<job, owed>>,
             \A m \in owed : m \in queue \/ m \in direct \/ m \in lost
                               => m \in queue' \/ m \in direct' \/ m \in lost'
      PROVE  \A m \in owed' : Held(m)'
  BY <1>4 DEF HeldInv, Held
<1>p. ASSUME NEW c \in Enqueuers, NEW S \in SUBSET Members, Put(c, S)
      PROVE  HandsEmpty' /\ \A m \in owed' : Held(m)'
  BY <1>2, <1>3, <1>p DEF Put
<1>5. ASSUME NEW c \in Callers, Enqueue(c) \/ Defer(c) \/ EnqueueDeferred(c)
      PROVE  HandsEmpty' /\ \A m \in owed' : Held(m)'
  <2>0. c \in Enqueuers
    BY DEF Enqueuers
  <2>1. CASE Enqueue(c)
    BY <1>p, <2>0, <2>1 DEF Enqueue
  <2>2. CASE Defer(c)
    BY <1>2, <1>4, <2>2 DEF Defer
  <2>3. CASE EnqueueDeferred(c)
    BY <1>2, <1>3, <2>3 DEF EnqueueDeferred
  <2>. QED
    BY <1>5, <2>1, <2>2, <2>3
<1>6. CASE Reconcile
  BY <1>0, <1>p, <1>6 DEF Reconcile, Enqueuers, TypeOK
<1>7. ASSUME NEW c \in Enqueuers, CallerStep(c) \/ CallerFails(c)
      PROVE  HandsEmpty' /\ \A m \in owed' : Held(m)'
  BY <1>2, <1>4, <1>7 DEF CallerStep, Send, Publish, CallerFails
<1>8. ASSUME NEW c \in Enqueuers, EnqueueUnavailable(c)
      PROVE  HandsEmpty' /\ \A m \in owed' : Held(m)'
  BY <1>2, <1>3, <1>8 DEF EnqueueUnavailable
<1>9. ASSUME NEW w \in Workers, WorkerStep(w)
      PROVE  HandsEmpty' /\ \A m \in owed' : Held(m)'
  BY <1>9, Hands, WorkerHolds DEF HeldInv
<1>10. CASE LoseMessage
  BY <1>2, <1>4, <1>10 DEF LoseMessage
<1>11. CASE LoseQueue
  BY <1>2, <1>4, <1>11 DEF LoseQueue
<1>12. CASE MarkerLapses \/ UNCHANGED vars
  BY <1>2, <1>4, <1>12 DEF MarkerLapses, vars
<1>. QED
  BY <1>5, <1>6, <1>7, <1>8, <1>9, <1>10, <1>11, <1>12 DEF Next, WorkerStep

LEMMA InitHeldInv == Init => HeldInv
<1>. SUFFICES ASSUME Init PROVE HeldInv
  OBVIOUS
<1>1. \A w \in Workers : job[w].batch = {}
  BY DEF Init, Idle
<1>2. owed = {}
  BY DEF Init
<1>. QED
  BY <1>1, <1>2, InitTypeOK DEF HeldInv, HandsEmpty

LEMMA HeldMeansNotDropped == HeldInv => NothingDropped
BY DEF HeldInv, Held, NothingDropped

\* What was enqueued and not tried is in the queue, in a message, in a worker's hands,
\* or was taken by a fault.
THEOREM NothingDroppedHolds == Spec => []NothingDropped
BY InitHeldInv, NextHeldInv, HeldMeansNotDropped, PTL DEF Spec

-----------------------------------------------------------------------------
(* No member waits in a queue no drain will look at.                         *)

\* Whoever finds the marker taken may leave: some drain stands for it.
Stood == wakes > 0 \/ Sending \/ \E w \in Workers : AtWork(w)

DrainPhases ==
    \A w \in Workers : job[w].phase \in {"pop", "claim", "release"} => job[w].drain

StrandInv ==
    /\ TypeOK
    /\ DrainPhases
    /\ faults = 0 /\ marker # "none" => Stood
    /\ NothingStranded

LEMMA DrainPhasesStay ==
    ASSUME TypeOK, DrainPhases, [Next]_vars
    PROVE  DrainPhases'
<1>0. job \in [Workers -> Jobs]
  BY DEF TypeOK
<1>1. ASSUME UNCHANGED job PROVE DrainPhases'
  BY <1>1 DEF DrainPhases
<1>2. ASSUME NEW w \in Workers, WorkerStep(w) PROVE DrainPhases'
  <2>0. job[w] \in Jobs
    BY <1>0
  <2>1. SUFFICES job'[w].phase \in {"pop", "claim", "release"} => job'[w].drain
    BY <1>2, OthersStay DEF DrainPhases
  <2>a. ASSUME job' = [job EXCEPT ![w] = After(w)]
        PROVE  job'[w].phase \in {"pop", "claim", "release"} => job'[w].drain
    <3>1. After(w).phase \in {"pop", "claim", "release"} => After(w).drain
      BY JobTypes
    <3>. QED
      BY <1>0, <2>a, <3>1
  <2>e. ASSUME End(w) PROVE job'[w].phase \notin {"pop", "claim", "release"}
    BY <1>0, <2>e, JobTypes DEF End
  <2>t. ASSUME NEW p \in Phases \ {"pop", "claim", "release"}, JobTo(w, p)
        PROVE  job'[w].phase \notin {"pop", "claim", "release"}
    BY <1>0, <2>0, <2>t DEF JobTo, Jobs
  <2>2. CASE Start(w)
    BY <1>0, <2>2 DEF Start, StartDrain, StartDirect, Idle
  <2>3. CASE Work(w)
    <3>1. CASE Pop(w)
      BY <1>0, <2>0, <3>1 DEF Pop, DrainPhases, Jobs
    <3>2. CASE Try(w)
      BY <1>0, <2>0, <3>2 DEF Try, Jobs
    <3>3. CASE Requeue(w)
      BY <1>0, <2>0, <2>a, <3>3 DEF Requeue, Jobs
    <3>4. CASE Resend(w) \/ Done(w)
      BY <2>a, <3>4 DEF Resend, Done
    <3>5. CASE Claim(w) \/ Release(w) \/ ReadDepth(w) \/ Reschedule(w) \/ SendNext(w)
      BY <2>e, <2>t, <3>5 DEF Claim, Release, ReadDepth, Reschedule, SendNext, Phases
    <3>. QED
      BY <2>3, <3>1, <3>2, <3>3, <3>4, <3>5 DEF Work
  <2>4. CASE GiveBack(w)
    BY <2>t, <2>4 DEF GiveBack, Phases
  <2>5. CASE Broken(w)
    BY <2>a, <2>e, <2>t, <2>5
       DEF Broken, TakeFails, RequeueFails, ReleaseFails, Abort, Crash, Phases
  <2>. QED
    BY <1>2, <2>2, <2>3, <2>4, <2>5 DEF WorkerStep
<1>3. ASSUME NEW c \in Enqueuers, CallerStep(c) \/ CallerFails(c) \/ EnqueueUnavailable(c)
      PROVE  DrainPhases'
  BY <1>1, <1>3 DEF CallerStep, Send, Publish, CallerFails, EnqueueUnavailable
<1>4. ASSUME NEW c \in Callers, Enqueue(c) \/ Defer(c) \/ EnqueueDeferred(c)
      PROVE  DrainPhases'
  BY <1>1, <1>4 DEF Enqueue, Defer, EnqueueDeferred, Put
<1>5. CASE Reconcile \/ LoseMessage \/ LoseQueue \/ MarkerLapses \/ UNCHANGED vars
  BY <1>1, <1>5 DEF Reconcile, Put, LoseMessage, LoseQueue, MarkerLapses, vars
<1>. QED
  BY <1>2, <1>3, <1>4, <1>5 DEF Next, WorkerStep

\* A step that counts a fault claims nothing any more.
LEMMA FaultCounts ==
    ASSUME TypeOK, Fault
    PROVE  faults' # 0
BY QueueAssumption DEF TypeOK, Fault

Strand == (faults = 0 /\ marker # "none" => Stood) /\ NothingStranded

LEMMA CallersStrand ==
    ASSUME StrandInv, NEW c \in Enqueuers, NEW S \in SUBSET Members,
           Put(c, S) \/ CallerStep(c) \/ Defer(c)
    PROVE  Strand'
<1>0. /\ caller \in [Enqueuers -> {"idle", "send", "deferring", "pending"}]
      /\ wakes \in Nat
      /\ \A d \in Callers : d \in Enqueuers
  BY DEF StrandInv, TypeOK, Enqueuers
<1>1. (faults = 0 /\ marker # "none" => Stood) /\ (faults = 0 /\ queue # {} => Coming)
  BY DEF StrandInv, NothingStranded
<1>2. Stood => Coming
  BY DEF Stood, Coming
<1>3. UNCHANGED <<job, faults>>
  BY DEF Put, CallerStep, Send, Publish, Defer
<1>4. (\E w \in Workers : AtWork(w)) => (\E w \in Workers : AtWork(w))'
  BY <1>3 DEF AtWork
<1>5. (\E w \in Workers : job[w].phase \in {"resend", "send"})
        => (\E w \in Workers : job'[w].phase \in {"resend", "send"})
  BY <1>3
<1>s. ASSUME caller'[c] = "send" PROVE Strand'
  <2>1. Sending'
    BY <1>s DEF Sending
  <2>. QED
    BY <2>1 DEF Strand, Stood, Coming, NothingStranded
\* A caller that neither was nor becomes a sender, and no pending one unless the
\* marker is taken.
<1>k. ASSUME caller[c] # "send", UNCHANGED wakes, marker # "none" \/ caller[c] # "pending",
             \A d \in Enqueuers : d # c => caller'[d] = caller[d],
             marker' = marker, queue' = queue \/ marker # "none"
      PROVE  Strand'
  <2>1. Sending => Sending'
    BY <1>k, <1>5 DEF Sending
  <2>2. Stood => Stood'
    BY <2>1, <1>k, <1>4 DEF Stood
  <2>3. Stood' => Coming'
    BY DEF Stood, Coming
  <2>4. (faults = 0 /\ marker # "none" => Stood)'
    BY <1>1, <1>3, <1>k, <2>2
  <2>5. CASE marker # "none"
    BY <1>1, <1>3, <1>k, <2>2, <2>3, <2>4, <2>5 DEF Strand, NothingStranded
  <2>6. CASE marker = "none"
    <3>1. Coming => Coming'
      BY <1>0, <1>3, <1>4, <1>k, <2>1, <2>6 DEF Coming, AtWork
    <3>. QED
      BY <1>1, <1>3, <1>k, <2>4, <2>6, <3>1 DEF Strand, NothingStranded
  <2>. QED
    BY <2>5, <2>6
<1>6. CASE Put(c, S)
  BY <1>0, <1>s, <1>k, <1>6 DEF Put, CallerTo, Marked, Free
<1>7. CASE Defer(c)
  BY <1>0, <1>k, <1>7 DEF Defer, CallerTo
<1>8. CASE Send(c)
  <2>1. wakes' > 0
    BY <1>0, <1>8 DEF Send
  <2>. QED
    BY <2>1 DEF Strand, Stood, Coming, NothingStranded
<1>9. CASE Publish(c)
  BY <1>0, <1>s, <1>k, <1>9 DEF Publish, CallerTo, Marked, Free
<1>. QED
  BY <1>6, <1>7, <1>8, <1>9 DEF CallerStep

LEMMA WorkersStrand ==
    ASSUME StrandInv, NEW w \in Workers, Start(w) \/ Work(w) \/ GiveBack(w)
    PROVE  Strand'
<1>0. job[w] \in Jobs /\ job \in [Workers -> Jobs] /\ wakes \in Nat
  BY DEF StrandInv, TypeOK
<1>1. (faults = 0 /\ marker # "none" => Stood) /\ (faults = 0 /\ queue # {} => Coming)
  BY DEF StrandInv, NothingStranded
<1>2. UNCHANGED <<caller, faults>>
  BY DEF Start, StartDrain, StartDirect, Work, Pop, Claim, Try, Requeue, Resend, Done,
     Release, ReadDepth, Reschedule, SendNext, GiveBack
<1>3. \A v \in Workers : v # w => job'[v] = job[v]
  BY OthersStay DEF WorkerStep, StrandInv
\* The three ways a step keeps the promise: a drain stands, the marker is gone and
\* the worker still has to look, or the worker stood for nothing.
<1>s. ASSUME Stood' PROVE Strand'
  BY <1>s DEF Strand, Stood, Coming, NothingStranded
<1>a. ASSUME AtWork(w)' PROVE Strand'
  BY <1>a, <1>s DEF Stood
<1>d. ASSUME marker' = "none", job'[w].phase \in {"depth", "mark"} PROVE Strand'
  BY <1>d DEF Strand, Coming, NothingStranded
<1>k. ASSUME ~AtWork(w), job[w].phase \notin {"resend", "send"}, UNCHANGED <<wakes, marker>>,
             \/ queue' = {}
             \/ marker # "none"
             \/ job'[w].phase = "mark"
             \/ queue' = queue /\ job[w].phase \notin {"depth", "mark"}
      PROVE  Strand'
  <2>1. Sending => Sending'
    BY <1>2, <1>3, <1>k DEF Sending
  <2>2. (\E v \in Workers : AtWork(v)) => (\E v \in Workers : AtWork(v))'
    BY <1>3, <1>k DEF AtWork
  <2>3. Stood => Stood'
    BY <2>1, <2>2, <1>k DEF Stood
  <2>4. (faults = 0 /\ marker # "none" => Stood)'
    BY <1>1, <1>2, <1>k, <2>3
  <2>5. CASE queue' = {}
    BY <2>4, <2>5 DEF Strand, NothingStranded
  <2>6. CASE marker # "none"
    BY <1>1, <1>2, <1>s, <2>3, <2>4, <2>6 DEF Strand, NothingStranded
  <2>7. CASE job'[w].phase = "mark"
    BY <2>4, <2>7 DEF Strand, NothingStranded, Coming
  <2>8. CASE queue' = queue /\ job[w].phase \notin {"depth", "mark"}
    <3>1. (\E v \in Workers : job[v].phase \in {"depth", "mark"})
            => (\E v \in Workers : job'[v].phase \in {"depth", "mark"})
      BY <1>3, <2>8
    <3>2. Coming => Coming'
      BY <1>2, <1>k, <2>1, <2>2, <3>1 DEF Coming
    <3>. QED
      BY <1>1, <1>2, <2>4, <2>8, <3>2 DEF Strand, NothingStranded
  <2>. QED
    BY <1>k, <2>5, <2>6, <2>7, <2>8
<1>t. \A p \in Phases : JobTo(w, p) => job'[w].phase = p /\ job'[w].drain = job[w].drain
  BY <1>0 DEF JobTo, Jobs
<1>n. ASSUME job' = [job EXCEPT ![w] = After(w)], job[w].drain PROVE AtWork(w)'
  BY <1>0, <1>n, JobTypes DEF AtWork, StrandInv
<1>w. ASSUME wakes' = wakes + 1 PROVE Strand'
  BY <1>0, <1>s, <1>w DEF Stood
<1>o. ASSUME job'[w].phase \in {"resend", "send"} PROVE Strand'
  BY <1>o, <1>s DEF Stood, Sending
<1>4. CASE StartDrain(w)
  <2>1. AtWork(w)'
    BY <1>0, <1>4 DEF StartDrain, AtWork, Idle
  <2>. QED
    BY <1>a, <2>1
<1>5. CASE StartDirect(w)
  BY <1>k, <1>5 DEF StartDirect, AtWork
<1>6. CASE Pop(w)
  <2>1. job[w].drain
    BY <1>6 DEF StrandInv, DrainPhases, Pop
  <2>2. AtWork(w)'
    BY <1>0, <1>6, <2>1 DEF Pop, AtWork, Jobs
  <2>. QED
    BY <1>a, <2>2
<1>7. CASE Claim(w)
  <2>1. job[w].drain
    BY <1>7 DEF StrandInv, DrainPhases, Claim
  <2>2. AtWork(w)'
    BY <1>t, <1>7, <2>1 DEF Claim, AtWork, Phases
  <2>. QED
    BY <1>a, <2>2
<1>8. CASE Try(w)
  <2>1. job'[w].drain = job[w].drain /\ job'[w].phase = "work"
    BY <1>0, <1>8 DEF Try, Jobs
  <2>. QED
    BY <1>a, <1>k, <1>8, <2>1 DEF Try, AtWork
<1>9. CASE GiveBack(w)
  <2>1. job'[w].drain = job[w].drain /\ job'[w].phase = "requeue"
    BY <1>t, <1>9 DEF GiveBack, Phases
  <2>. QED
    BY <1>a, <1>k, <1>9, <2>1 DEF GiveBack, AtWork
<1>10. CASE Requeue(w)
  <2>1. CASE Free
    BY <1>0, <1>o, <1>10, <2>1 DEF Requeue, Jobs
  <2>2. CASE ~Free
    BY <1>a, <1>k, <1>n, <1>10, <2>2 DEF Requeue, Free, Marked, AtWork
  <2>. QED
    BY <2>1, <2>2
<1>11. CASE Resend(w) \/ SendNext(w)
  BY <1>w, <1>11 DEF Resend, SendNext
<1>12. CASE Done(w)
  BY <1>a, <1>k, <1>n, <1>12 DEF Done, AtWork
<1>13. CASE Release(w)
  BY <1>d, <1>t, <1>13 DEF Release, Phases
<1>14. CASE ReadDepth(w)
  BY <1>k, <1>t, <1>14 DEF ReadDepth, MoreWaits, AtWork, Phases
<1>15. CASE Reschedule(w)
  BY <1>k, <1>o, <1>t, <1>15 DEF Reschedule, Free, Marked, AtWork, Phases
<1>. QED
  BY <1>4, <1>5, <1>6, <1>7, <1>8, <1>9, <1>10, <1>11, <1>12, <1>13, <1>14, <1>15 DEF Start, Work

LEMMA NextStrandInv == StrandInv /\ [Next]_vars => StrandInv'
<1>. SUFFICES ASSUME StrandInv, [Next]_vars PROVE StrandInv'
  OBVIOUS
<1>0. TypeOK /\ TypeOK' /\ DrainPhases'
  BY NextTypeOK, DrainPhasesStay DEF StrandInv
<1>1. SUFFICES Strand'
  BY <1>0 DEF StrandInv, Strand
<1>f. ASSUME Fault PROVE Strand'
  <2>1. faults' # 0
    BY <1>0, <1>f, FaultCounts
  <2>. QED
    BY <2>1 DEF Strand, NothingStranded
<1>2. ASSUME NEW c \in Callers, Enqueue(c) \/ Defer(c) \/ EnqueueDeferred(c) PROVE Strand'
  <2>0. c \in Enqueuers
    BY DEF Enqueuers
  <2>1. CASE Enqueue(c)
    BY <2>0, <2>1, CallersStrand DEF Enqueue
  <2>2. CASE Defer(c)
    BY <2>0, <2>2, CallersStrand
  <2>3. CASE EnqueueDeferred(c)
    <3>1. /\ caller'[c] = "pending"
          /\ caller[c] # "send"
          /\ \A d \in Enqueuers : d # c => caller'[d] = caller[d]
      BY <1>0, <2>0, <2>3 DEF EnqueueDeferred, CallerTo, TypeOK
    <3>2. UNCHANGED <<marker, wakes, job, faults>>
      BY <2>3 DEF EnqueueDeferred
    <3>3. Coming'
      BY <3>1 DEF Coming
    <3>4. Sending => Sending'
      BY <3>1, <3>2 DEF Sending
    <3>5. (\E w \in Workers : AtWork(w)) => (\E w \in Workers : AtWork(w))'
      BY <3>2 DEF AtWork
    <3>6. Stood => Stood'
      BY <3>2, <3>4, <3>5 DEF Stood
    <3>. QED
      BY <3>2, <3>3, <3>6 DEF StrandInv, Strand, NothingStranded
  <2>. QED
    BY <1>2, <2>1, <2>2, <2>3
<1>3. CASE Reconcile
  BY <1>0, <1>3, CallersStrand DEF Reconcile, Enqueuers, TypeOK
<1>4. ASSUME NEW c \in Enqueuers, CallerStep(c) \/ CallerFails(c) \/ EnqueueUnavailable(c)
      PROVE  Strand'
  BY <1>4, <1>f, CallersStrand DEF CallerFails, EnqueueUnavailable
<1>5. ASSUME NEW w \in Workers, WorkerStep(w) PROVE Strand'
  BY <1>5, <1>f, WorkersStrand
     DEF WorkerStep, Broken, TakeFails, RequeueFails, ReleaseFails, Abort, Crash
<1>6. CASE LoseMessage \/ LoseQueue
  BY <1>6, <1>f DEF LoseMessage, LoseQueue
<1>7. CASE MarkerLapses
  <2>1. marker' = "none" /\ UNCHANGED <<queue, wakes, caller, job, faults>>
    BY <1>7 DEF MarkerLapses
  <2>2. Coming' <=> Coming
    BY <2>1 DEF Coming, Sending, AtWork
  <2>. QED
    BY <2>1, <2>2 DEF StrandInv, Strand, NothingStranded
<1>8. CASE UNCHANGED vars
  <2>1. UNCHANGED <<queue, marker, wakes, caller, job, faults>>
    BY <1>8 DEF vars
  <2>. QED
    BY <2>1 DEF StrandInv, Strand, NothingStranded, Stood, Coming, Sending, AtWork
<1>. QED
  BY <1>2, <1>3, <1>4, <1>5, <1>6, <1>7, <1>8 DEF Next, WorkerStep

LEMMA InitStrandInv == Init => StrandInv
<1>. SUFFICES ASSUME Init PROVE StrandInv
  OBVIOUS
<1>1. \A w \in Workers : job[w].phase = "idle"
  BY DEF Init, Idle
<1>. QED
  BY <1>1, InitTypeOK DEF Init, StrandInv, DrainPhases, NothingStranded

\* While nothing has failed, no member waits in a queue no drain will look at.
THEOREM NothingStrandedHolds == Spec => []NothingStranded
<1>1. StrandInv => NothingStranded
  BY DEF StrandInv
<1>. QED
  BY <1>1, InitStrandInv, NextStrandInv, PTL DEF Spec

-----------------------------------------------------------------------------
(* One drain at a time.                                                      *)

\* Callers and workers about to send a drain, and workers that are one.
Sender(c) == caller[c] = "send"
Holder(w) == AtWork(w) \/ job[w].phase \in {"resend", "send"}

\* One token: a waiting message, a sender or a drain at work, under the marker.
Token ==
    /\ marker = "none" =>
         wakes = 0 /\ (\A c \in Enqueuers : ~Sender(c)) /\ (\A w \in Workers : ~Holder(w))
    /\ wakes <= 1
    /\ wakes > 0 => (\A c \in Enqueuers : ~Sender(c)) /\ (\A w \in Workers : ~Holder(w))
    /\ \A c, d \in Enqueuers : Sender(c) /\ Sender(d) => c = d
    /\ \A v, w \in Workers : Holder(v) /\ Holder(w) => v = w
    /\ \A c \in Enqueuers, w \in Workers : ~(Sender(c) /\ Holder(w))
    /\ \A w \in Workers :
         AtWork(w) => /\ job[w].phase # "resend"
                      /\ marker # "scheduled" \/ job[w].phase \in {"pop", "claim"}

TokenInv == TypeOK /\ DrainPhases /\ (faults = 0 /\ ~early => Token)

\* A caller's step from a state with the token in order.
LEMMA CallersToken ==
    ASSUME TypeOK, Token, NEW c \in Enqueuers, NEW S \in SUBSET Members,
           Put(c, S) \/ CallerStep(c) \/ Defer(c) \/ EnqueueDeferred(c)
    PROVE  Token'
<1>0. /\ caller \in [Enqueuers -> {"idle", "send", "deferring", "pending"}]
      /\ wakes \in Nat
      /\ marker \in {"none", "scheduled", "claimed"}
  BY DEF TypeOK
<1>1. UNCHANGED job
  BY DEF Put, CallerStep, Send, Publish, Defer, EnqueueDeferred
<1>2. \A w \in Workers : (Holder(w)' <=> Holder(w)) /\ (AtWork(w)' <=> AtWork(w))
  BY <1>1 DEF Holder, AtWork
<1>3. \A d \in Enqueuers : d # c => caller'[d] = caller[d]
  BY <1>0 DEF Put, CallerStep, Send, Publish, Defer, EnqueueDeferred, CallerTo
\* The caller stays out of it.
<1>k. ASSUME caller[c] # "send", caller'[c] # "send", UNCHANGED <<wakes, marker>>
      PROVE  Token'
  <2>1. \A d \in Enqueuers : Sender(d)' <=> Sender(d)
    BY <1>3, <1>k DEF Sender
  <2>. QED
    BY <1>1, <1>2, <1>k, <2>1 DEF Token
\* The caller creates the marker, and becomes the only sender.
<1>c. ASSUME marker = "none", marker' = "scheduled", caller'[c] = "send", UNCHANGED wakes
      PROVE  Token'
  <2>1. \A d \in Enqueuers : Sender(d)' <=> d = c
    BY <1>3, <1>c DEF Sender, Token
  <2>2. \A w \in Workers : ~Holder(w)'
    BY <1>2, <1>c DEF Token
  <2>3. \A w \in Workers : ~AtWork(w)'
    BY <2>2 DEF Holder
  <2>. QED
    BY <1>c, <2>1, <2>2, <2>3 DEF Token
<1>4. CASE Put(c, S)
  <2>1. CASE Free
    BY <1>0, <1>c, <1>4, <2>1 DEF Put, CallerTo, Marked, Free
  <2>2. CASE ~Free
    BY <1>0, <1>k, <1>4, <2>2 DEF Put, CallerTo, Marked, Free
  <2>. QED
    BY <2>1, <2>2
<1>5. CASE Defer(c) \/ EnqueueDeferred(c)
  BY <1>0, <1>k, <1>5 DEF Defer, EnqueueDeferred, CallerTo
<1>6. CASE Publish(c)
  BY <1>0, <1>c, <1>k, <1>6 DEF Publish, CallerTo, Marked, Free
<1>7. CASE Send(c)
  <2>1. /\ caller[c] = "send"
        /\ wakes' = wakes + 1
        /\ marker' = marker
        /\ caller'[c] = "idle"
    BY <1>0, <1>7 DEF Send, CallerTo
  <2>2. wakes = 0 /\ wakes' = 1 /\ marker # "none"
    BY <1>0, <2>1 DEF Token, Sender
  <2>3. \A d \in Enqueuers : ~Sender(d)'
    BY <1>3, <2>1 DEF Token, Sender
  <2>4. \A w \in Workers : ~Holder(w)' /\ ~AtWork(w)'
    BY <1>2, <2>1 DEF Token, Sender, Holder
  <2>. QED
    BY <2>1, <2>2, <2>3, <2>4 DEF Token
<1>. QED
  BY <1>4, <1>5, <1>6, <1>7 DEF CallerStep

LEMMA WorkersToken ==
    ASSUME TypeOK, DrainPhases, Token, NEW w \in Workers, Start(w) \/ Work(w) \/ GiveBack(w)
    PROVE  Token'
<1>0. /\ job[w] \in Jobs /\ job \in [Workers -> Jobs] /\ wakes \in Nat
      /\ marker \in {"none", "scheduled", "claimed"}
  BY DEF TypeOK
<1>1. UNCHANGED caller
  BY DEF Start, StartDrain, StartDirect, Work, Pop, Claim, Try, Requeue, Resend, Done,
     Release, ReadDepth, Reschedule, SendNext, GiveBack
<1>2. \A c \in Enqueuers : Sender(c)' <=> Sender(c)
  BY <1>1 DEF Sender
<1>3. \A v \in Workers : v # w => job'[v] = job[v]
  BY OthersStay DEF WorkerStep
<1>4. \A v \in Workers : v # w => (Holder(v)' <=> Holder(v)) /\ (AtWork(v)' <=> AtWork(v))
  BY <1>3 DEF Holder, AtWork
<1>t. \A p \in Phases : JobTo(w, p) => job'[w].phase = p /\ job'[w].drain = job[w].drain
  BY <1>0 DEF JobTo, Jobs
<1>e. End(w) => job'[w].phase = "idle"
  BY <1>0, JobTypes DEF End
<1>a. job' = [job EXCEPT ![w] = After(w)] =>
        /\ job'[w].phase \in {"idle", "release"}
        /\ job'[w].drain => job[w].drain
  <2>1. After(w).phase \in {"idle", "release"} /\ (After(w).drain => job[w].drain)
    BY JobTypes DEF Idle
  <2>. QED
    BY <1>0, <2>1
\* The worker neither held nor holds the token.
<1>k. ASSUME ~Holder(w), ~Holder(w)', UNCHANGED <<wakes, marker>>
      PROVE  Token'
  <2>1. \A v \in Workers : (Holder(v)' <=> Holder(v)) /\ (AtWork(v)' => AtWork(v) /\ v # w)
    BY <1>4, <1>k DEF Holder
  <2>2. \A v \in Workers : AtWork(v)' => job'[v].phase = job[v].phase
    BY <1>3, <2>1
  <2>. QED
    BY <1>2, <1>k, <2>1, <2>2 DEF Token
\* It holds the token before and after.
<1>h. ASSUME Holder(w), Holder(w)', UNCHANGED wakes, marker' # "none",
             AtWork(w)' => /\ job'[w].phase # "resend"
                           /\ marker' # "scheduled" \/ job'[w].phase \in {"pop", "claim"}
      PROVE  Token'
  <2>1. \A v \in Workers : Holder(v)' => v = w
    BY <1>4, <1>h DEF Token
  <2>2. \A v \in Workers : AtWork(v)' => v = w
    BY <2>1 DEF Holder
  <2>3. wakes = 0 /\ \A c \in Enqueuers : ~Sender(c)'
    BY <1>0, <1>2, <1>h DEF Token
  <2>. QED
    BY <1>h, <2>1, <2>2, <2>3 DEF Token
\* It takes the token: a message, or the marker.
<1>g. ASSUME wakes > 0 \/ marker = "none", wakes' = 0, Holder(w)', marker' # "none",
             AtWork(w)' => /\ job'[w].phase # "resend"
                           /\ marker' # "scheduled" \/ job'[w].phase \in {"pop", "claim"}
      PROVE  Token'
  <2>1. \A v \in Workers : Holder(v)' => v = w
    BY <1>4, <1>g DEF Token
  <2>2. \A v \in Workers : AtWork(v)' => v = w
    BY <2>1 DEF Holder
  <2>3. \A c \in Enqueuers : ~Sender(c)'
    BY <1>2, <1>g DEF Token
  <2>. QED
    BY <1>g, <2>1, <2>2, <2>3 DEF Token
\* It passes the token on: a message, or the marker removed.
<1>p. ASSUME Holder(w), ~Holder(w)',
             \/ wakes' = wakes + 1 /\ marker' = marker
             \/ wakes' = wakes /\ marker' = "none"
      PROVE  Token'
  <2>1. \A v \in Workers : ~Holder(v)' /\ ~AtWork(v)'
    BY <1>4, <1>p DEF Token, Holder
  <2>2. wakes = 0 /\ marker # "none" /\ \A c \in Enqueuers : ~Sender(c)'
    BY <1>0, <1>2, <1>p DEF Token
  <2>. QED
    BY <1>p, <2>1, <2>2 DEF Token
<1>5. CASE StartDrain(w)
  <2>1. /\ wakes > 0 /\ wakes' = 0 /\ marker' = marker
        /\ job'[w].phase = "pop" /\ job'[w].drain
    BY <1>0, <1>5 DEF StartDrain, Idle, Token
  <2>2. Holder(w)' /\ marker # "none"
    BY <1>0, <2>1 DEF Holder, AtWork, Token
  <2>. QED
    BY <1>g, <2>1, <2>2
<1>6. CASE StartDirect(w)
  <2>1. /\ UNCHANGED <<wakes, marker>>
        /\ job[w].phase = "idle" /\ job'[w].phase = "work" /\ ~job'[w].drain
    BY <1>0, <1>6 DEF StartDirect, Idle
  <2>. QED
    BY <1>k, <2>1 DEF Holder, AtWork
<1>7. CASE Pop(w) \/ Claim(w)
  <2>1. /\ job[w].drain
        /\ job'[w].drain
        /\ job[w].phase \in {"pop", "claim"}
        /\ UNCHANGED wakes
        /\ \/ job'[w].phase = "claim" /\ marker' = marker
           \/ job'[w].phase = "work" /\ marker' = "claimed"
    BY <1>0, <1>t, <1>7 DEF DrainPhases, Pop, Claim, Claimed, Jobs, Phases
  <2>2. Holder(w) /\ Holder(w)'
    BY <2>1 DEF Holder, AtWork
  <2>3. marker # "none"
    BY <2>2 DEF Token
  <2>. QED
    BY <1>h, <2>1, <2>2, <2>3
\* In the batch of a drain the marker is the drain's claim.
<1>b. ASSUME job[w].phase \in {"work", "requeue"}, job[w].drain
      PROVE  AtWork(w) /\ Holder(w) /\ marker = "claimed"
  <2>1. AtWork(w) /\ Holder(w)
    BY <1>b DEF AtWork, Holder
  <2>. QED
    BY <1>0, <1>b, <2>1 DEF Token
<1>8. CASE Try(w) \/ GiveBack(w)
  <2>1. /\ UNCHANGED <<wakes, marker>>
        /\ job[w].phase = "work" /\ job'[w].phase \in {"work", "requeue"}
        /\ job'[w].drain = job[w].drain
    <3>1. CASE Try(w)
      BY <1>0, <3>1 DEF Try, Jobs
    <3>2. CASE GiveBack(w)
      BY <1>t, <3>2 DEF GiveBack, Phases
    <3>. QED
      BY <1>8, <3>1, <3>2
  <2>2. CASE job[w].drain
    BY <1>b, <1>h, <2>1, <2>2 DEF Holder, AtWork
  <2>3. CASE ~job[w].drain
    BY <1>k, <2>1, <2>3 DEF Holder, AtWork
  <2>. QED
    BY <2>2, <2>3
<1>9. CASE Requeue(w)
  <2>1. job[w].phase = "requeue" /\ UNCHANGED wakes /\ marker' = Marked
    BY <1>9 DEF Requeue
  <2>2. CASE Free
    <3>1. job'[w].phase = "resend" /\ job'[w].drain = job[w].drain
      BY <1>0, <1>9, <2>2 DEF Requeue, Jobs
    <3>2. marker = "none" /\ marker' = "scheduled" /\ ~job[w].drain
      BY <1>b, <2>1, <2>2 DEF Free, Marked
    <3>3. wakes' = 0 /\ Holder(w)' /\ ~AtWork(w)'
      BY <2>1, <3>1, <3>2 DEF Token, Holder, AtWork
    <3>. QED
      BY <1>g, <3>2, <3>3
  <2>3. CASE ~Free
    <3>1. job' = [job EXCEPT ![w] = After(w)] /\ marker' = marker /\ marker # "none"
      BY <1>9, <2>1, <2>3 DEF Requeue, Free, Marked
    <3>2. CASE job[w].drain
      <4>1. job'[w].phase = "release" /\ job'[w].drain
        BY <1>0, <3>1, <3>2, JobTypes
      <4>. QED
        BY <1>b, <1>h, <2>1, <3>1, <3>2, <4>1 DEF Holder, AtWork
    <3>3. CASE ~job[w].drain
      BY <1>a, <1>k, <2>1, <3>1, <3>3 DEF Holder, AtWork
    <3>. QED
      BY <3>2, <3>3
  <2>. QED
    BY <2>2, <2>3
<1>10. CASE Resend(w) \/ SendNext(w)
  <2>1. job[w].phase \in {"resend", "send"} /\ wakes' = wakes + 1 /\ marker' = marker
    BY <1>10 DEF Resend, SendNext
  <2>2. Holder(w)
    BY <2>1 DEF Holder
  <2>3. job'[w].phase \in {"idle", "release"} /\ (job'[w].drain => job[w].phase = "send")
    <3>1. CASE Resend(w)
      <4>1. ~job[w].drain
        BY <3>1 DEF Resend, Token, AtWork
      <4>. QED
        BY <1>a, <3>1, <4>1 DEF Resend
    <3>2. CASE SendNext(w)
      BY <1>e, <3>2 DEF SendNext
    <3>. QED
      BY <1>10, <3>1, <3>2
  <2>4. ~Holder(w)'
    <3>1. CASE Resend(w)
      BY <2>3, <3>1 DEF Resend, Holder, AtWork
    <3>2. CASE SendNext(w)
      BY <1>e, <3>2 DEF SendNext, Holder, AtWork
    <3>. QED
      BY <1>10, <3>1, <3>2
  <2>. QED
    BY <1>p, <2>1, <2>2, <2>4
<1>11. CASE Done(w)
  <2>1. /\ job[w].phase = "work" /\ UNCHANGED <<wakes, marker>>
        /\ job' = [job EXCEPT ![w] = After(w)]
    BY <1>11 DEF Done
  <2>2. CASE job[w].drain
    <3>1. job'[w].phase = "release" /\ job'[w].drain
      BY <1>0, <2>1, <2>2, JobTypes
    <3>. QED
      BY <1>b, <1>h, <2>1, <2>2, <3>1 DEF Holder, AtWork
  <2>3. CASE ~job[w].drain
    BY <1>a, <1>k, <2>1, <2>3 DEF Holder, AtWork
  <2>. QED
    BY <2>2, <2>3
<1>12. CASE Release(w)
  <2>1. /\ job[w].phase = "release" /\ job'[w].phase = "depth"
        /\ UNCHANGED wakes /\ marker' = "none"
    BY <1>t, <1>12 DEF Release, Phases
  <2>2. ~Holder(w)'
    BY <2>1 DEF Holder, AtWork
  <2>3. Holder(w)
    BY <2>1 DEF DrainPhases, Holder, AtWork
  <2>. QED
    BY <1>p, <2>1, <2>2, <2>3
<1>13. CASE ReadDepth(w)
  <2>1. job[w].phase = "depth" /\ job'[w].phase \in {"mark", "idle"} /\ UNCHANGED <<wakes, marker>>
    BY <1>e, <1>t, <1>13 DEF ReadDepth, Phases
  <2>. QED
    BY <1>k, <2>1 DEF Holder, AtWork
<1>14. CASE Reschedule(w)
  <2>1. job[w].phase = "mark" /\ UNCHANGED wakes /\ marker' = Marked
    BY <1>14 DEF Reschedule
  <2>2. CASE Free
    <3>1. marker = "none" /\ marker' = "scheduled" /\ job'[w].phase = "send"
      BY <1>t, <1>14, <2>1, <2>2 DEF Reschedule, Free, Marked, Phases
    <3>2. wakes' = 0 /\ Holder(w)' /\ ~AtWork(w)'
      BY <2>1, <3>1 DEF Token, Holder, AtWork
    <3>. QED
      BY <1>g, <3>1, <3>2
  <2>3. CASE ~Free
    BY <1>e, <1>k, <1>14, <2>1, <2>3 DEF Reschedule, Free, Marked, Holder, AtWork
  <2>. QED
    BY <2>2, <2>3
<1>. QED
  BY <1>5, <1>6, <1>7, <1>8, <1>9, <1>10, <1>11, <1>12, <1>13, <1>14 DEF Start, Work

LEMMA NextTokenInv == TokenInv /\ [Next]_vars => TokenInv'
<1>. SUFFICES ASSUME TokenInv, [Next]_vars PROVE TokenInv'
  OBVIOUS
<1>0. TypeOK /\ TypeOK' /\ DrainPhases /\ DrainPhases'
  BY NextTypeOK, DrainPhasesStay DEF TokenInv
<1>1. SUFFICES faults' = 0 /\ ~early' => Token'
  BY <1>0 DEF TokenInv
<1>f. Fault => faults' # 0
  BY <1>0, FaultCounts
<1>s. UNCHANGED <<faults, early>> /\ faults' = 0 /\ ~early' => Token
  BY DEF TokenInv
<1>2. ASSUME NEW c \in Callers, Enqueue(c) \/ Defer(c) \/ EnqueueDeferred(c)
      PROVE  faults' = 0 /\ ~early' => Token'
  <2>0. c \in Enqueuers
    BY DEF Enqueuers
  <2>1. UNCHANGED <<faults, early>>
    BY <1>2 DEF Enqueue, Put, Defer, EnqueueDeferred
  <2>2. \E S \in SUBSET Members : Put(c, S) \/ Defer(c) \/ EnqueueDeferred(c)
    BY <1>2 DEF Enqueue
  <2>. QED
    BY <1>0, <1>s, <2>0, <2>1, <2>2, CallersToken
<1>3. CASE Reconcile
  <2>1. Sweep \in Enqueuers /\ owed \in SUBSET Members
    BY <1>0 DEF Enqueuers, TypeOK
  <2>2. Put(Sweep, owed) /\ UNCHANGED <<faults, early>>
    BY <1>3 DEF Reconcile, Put
  <2>. QED
    BY <1>0, <1>s, <2>1, <2>2, CallersToken
<1>4. ASSUME NEW c \in Enqueuers, CallerStep(c)
      PROVE  faults' = 0 /\ ~early' => Token'
  <2>1. UNCHANGED <<faults, early>>
    BY <1>4 DEF CallerStep, Send, Publish
  <2>. QED
    BY <1>0, <1>4, <1>s, <2>1, CallersToken
<1>5. ASSUME NEW w \in Workers, Start(w) \/ Work(w) \/ GiveBack(w)
      PROVE  faults' = 0 /\ ~early' => Token'
  <2>1. UNCHANGED <<faults, early>>
    BY <1>5 DEF Start, StartDrain, StartDirect, Work, Pop, Claim, Try, Requeue, Resend,
       Done, Release, ReadDepth, Reschedule, SendNext, GiveBack
  <2>. QED
    BY <1>0, <1>5, <1>s, <2>1, WorkersToken
<1>6. ASSUME NEW w \in Workers, Broken(w) PROVE faults' # 0
  BY <1>6, <1>f DEF Broken, TakeFails, RequeueFails, ReleaseFails, Abort, Crash
<1>7. ASSUME NEW c \in Enqueuers, CallerFails(c) \/ EnqueueUnavailable(c) PROVE faults' # 0
  BY <1>7, <1>f DEF CallerFails, EnqueueUnavailable
<1>8. CASE LoseMessage \/ LoseQueue
  BY <1>8, <1>f DEF LoseMessage, LoseQueue
<1>9. CASE MarkerLapses
  <2>. SUFFICES ASSUME faults' = 0, ~early' PROVE Token'
    OBVIOUS
  <2>1. marker' = "none" /\ UNCHANGED <<wakes, caller, job, faults>>
    BY <1>9 DEF MarkerLapses
  <2>2. ~early /\ ~Early /\ Token
    BY <1>9, <2>1 DEF MarkerLapses, TokenInv
  <2>3. wakes = 0 /\ ~Sending
    BY <1>0, <2>2 DEF Early, TypeOK
  <2>4. marker \in {"scheduled", "claimed"}
    BY <1>0, <1>9 DEF MarkerLapses, TypeOK
  <2>5. \A w \in Workers : ~AtWork(w)
    BY <2>2, <2>4 DEF Early, Token
  <2>6. (\A c \in Enqueuers : ~Sender(c)) /\ (\A w \in Workers : ~Holder(w))
    BY <2>3, <2>5 DEF Sending, Sender, Holder
  <2>7. /\ \A c \in Enqueuers : ~Sender(c)'
        /\ \A w \in Workers : ~Holder(w)' /\ ~AtWork(w)'
    BY <2>1, <2>5, <2>6 DEF Sender, Holder, AtWork
  <2>. QED
    BY <2>1, <2>3, <2>7 DEF Token
<1>10. CASE UNCHANGED vars
  <2>1. UNCHANGED <<marker, wakes, caller, job, faults, early>>
    BY <1>10 DEF vars
  <2>2. /\ \A c \in Enqueuers : Sender(c)' <=> Sender(c)
        /\ \A w \in Workers : (Holder(w)' <=> Holder(w)) /\ (AtWork(w)' <=> AtWork(w))
    BY <2>1 DEF Sender, Holder, AtWork
  <2>. QED
    BY <2>1, <2>2 DEF TokenInv, Token
<1>. QED
  BY <1>2, <1>3, <1>4, <1>5, <1>6, <1>7, <1>8, <1>9, <1>10 DEF Next

LEMMA InitTokenInv == Init => TokenInv
<1>. SUFFICES ASSUME Init PROVE TokenInv
  OBVIOUS
<1>1. \A w \in Workers : job[w].phase = "idle" /\ ~Holder(w) /\ ~AtWork(w)
  BY DEF Init, Idle, Holder, AtWork
<1>2. \A c \in Enqueuers : ~Sender(c)
  BY DEF Init, Sender
<1>3. wakes = 0
  BY DEF Init
<1>. QED
  BY <1>1, <1>2, <1>3, InitTypeOK DEF TokenInv, DrainPhases, Token

\* Two drains never work side by side unless something failed or a marker ran out
\* under its drain.
THEOREM OneDrainHolds == Spec => []OneDrain
<1>1. TokenInv => OneDrain
  BY DEF TokenInv, Token, Holder, OneDrain
<1>. QED
  BY <1>1, InitTokenInv, NextTokenInv, PTL DEF Spec

=============================================================================

----------------------- MODULE OutboundDelivery_proofs -----------------------
(* Proofs about OutboundDelivery, for every number of workers, edits, values, *)
(* attempts and crashes.                                                      *)
EXTENDS OutboundDelivery, TLAPS

USE OutboxAssumption DEF Revisions, Sending, Outcomes

-----------------------------------------------------------------------------
(* Type correctness.                                                        *)

JobsOK == jobs \in [Workers -> Job]
RowsOK == rows \in [Revisions -> Row]

\* A claimed or listed row is one of the revisions.
Numbered == \A w \in Workers :
               jobs[w].at \notin {"idle", "list"} => jobs[w].rev \in Revisions

TypeInv == TypeOK /\ Numbered

\* A worker that changes place keeps its row.
LEMMA GoToType ==
    ASSUME JobsOK, Numbered, NEW w \in Workers, NEW place \in Places, GoTo(w, place),
           place \in {"idle", "list"} \/ jobs[w].at \notin {"idle", "list"}
    PROVE  JobsOK' /\ Numbered'
  BY DEF JobsOK, Numbered, Job, GoTo

\* A worker that moves on takes one of the revisions on its list.
LEMMA MoveOnType ==
    ASSUME JobsOK, Numbered, NEW w \in Workers, NEW T \in SUBSET Revisions,
           MoveOn(w, T)
    PROVE  JobsOK' /\ Numbered'
  <1>1. CASE jobs' = [jobs EXCEPT ![w] = Idle]
    BY <1>1 DEF JobsOK, Numbered, Job, Idle, Places
  <1>2. ASSUME NEW r \in T,
               jobs' = [jobs EXCEPT ![w] = [at |-> "run", rev |-> r, todo |-> T \ {r}]]
        PROVE  JobsOK' /\ Numbered'
    BY <1>2 DEF JobsOK, Numbered, Job, Places
  <1> QED BY <1>1, <1>2 DEF MoveOn

LEMMA TypeInit == Init => TypeInv
  BY DEF Init, TypeInv, TypeOK, Numbered, Row, NoRow, Statuses, Job, Idle, Places

\* Each step keeps the types.
LEMMA TypeStep == TypeInv /\ [Next]_vars => TypeInv'
  <1> SUFFICES ASSUME TypeInv, [Next]_vars PROVE TypeInv'
    OBVIOUS
  <1> USE DEF TypeInv, TypeOK, JobsOK
  <1>1. ASSUME NEW v \in Values, Enqueue(v) PROVE TypeInv'
    <2>1. RetirePending("superseded") \in [Revisions -> Row]
      BY DEF RetirePending, Pending, Row, Statuses
    <2>2. NewRow(v) \in Row BY DEF NewRow, Row, Statuses
    <2>3. latest + 1 \in Revisions BY <1>1 DEF Enqueue
    <2>4. rows' \in [Revisions -> Row] BY <1>1, <2>1, <2>2, <2>3 DEF Enqueue
    <2> QED BY <1>1, <2>3, <2>4 DEF Enqueue, Numbered
  <1>2. CASE Stop
    BY <1>2 DEF Stop, RetirePending, Pending, Row, Statuses, Numbered
  <1>3. CASE Resume
    BY <1>3 DEF Resume, Numbered
  <1>4. ASSUME NEW r \in Revisions, LoseKick(r) PROVE TypeInv'
    BY <1>4 DEF LoseKick, Numbered
  <1>5. ASSUME NEW r \in Revisions, Ripen(r) PROVE TypeInv'
    BY <1>5 DEF Ripen, Row, Numbered, Pending, InFlight
  <1>6. ASSUME NEW w \in Workers, NEW r \in Revisions, TakeKick(w, r)
        PROVE  TypeInv'
    BY <1>6, MoveOnType, {r} \in SUBSET Revisions DEF TakeKick
  <1>7. ASSUME NEW w \in Workers, StartSweep(w) PROVE TypeInv'
    <2>1. rows' \in [Revisions -> Row]
      BY <1>7 DEF StartSweep, Row, Statuses
    <2>2. JobsOK' /\ Numbered'
      BY <1>7 DEF StartSweep, Numbered, Job, Places
    <2> QED BY <1>7, <2>1, <2>2 DEF StartSweep
  <1>8. ASSUME NEW w \in Workers, ListDue(w) PROVE TypeInv'
    BY <1>8, MoveOnType DEF ListDue
  <1>9. ASSUME NEW w \in Workers, Claim(w) PROVE TypeInv'
    <2>1. rows' \in [Revisions -> Row]
      <3>1. Rev(w) \in Revisions /\ rows[Rev(w)] \in Row
        BY <1>9 DEF Claim, Rev, Numbered
      <3> HIDE DEF Revisions
      <3> QED BY <1>9, <3>1 DEF Claim, Row, Statuses
    <2>2. JobsOK' /\ Numbered'
      BY <1>9, GoToType DEF Claim, Places
    <2> QED BY <1>9, <2>1, <2>2 DEF Claim
  <1>10. ASSUME NEW w \in Workers, ClaimRefused(w) PROVE TypeInv'
    BY <1>10, MoveOnType DEF ClaimRefused, Job
  <1>11. ASSUME NEW w \in Workers, Load(w) PROVE TypeInv'
    <2>1. JobsOK' /\ Numbered'
      BY <1>11, GoToType DEF Load, Resolve, Places
    <2> QED BY <1>11, <2>1 DEF Load
  <1>12. ASSUME NEW w \in Workers, CheckSuperseded(w) PROVE TypeInv'
    <2>1. JobsOK' /\ Numbered'
      BY <1>12, GoToType DEF CheckSuperseded, Resolve, Places
    <2> QED BY <1>12, <2>1 DEF CheckSuperseded
  <1>13. ASSUME NEW w \in Workers, Read(w) PROVE TypeInv'
    <2>1. JobsOK' /\ Numbered'
      BY <1>13, GoToType DEF Read, Places
    <2> QED BY <1>13, <2>1 DEF Read
  <1>14. ASSUME NEW w \in Workers, WriteApplied(w) PROVE TypeInv'
    <2>1. JobsOK' /\ Numbered'
      BY <1>14, GoToType DEF WriteApplied, Written, Places
    <2>2. jobs[w].rev \in Revisions
      BY <1>14 DEF WriteApplied, Numbered
    <2>3. Delivery(w).value \in Values
      BY <2>2 DEF Delivery, Rev, Row
    <2>4. remote' \in [rev: 0..MaxRev, value: Values]
      BY <1>14, <2>2, <2>3 DEF WriteApplied, Rev
    <2>5. applied' \subseteq Revisions
      BY <1>14, <2>2 DEF WriteApplied, Rev
    <2> QED BY <1>14, <2>1, <2>4, <2>5 DEF WriteApplied
  <1>15. ASSUME NEW w \in Workers, WriteRefused(w) PROVE TypeInv'
    <2>1. JobsOK' /\ Numbered'
      BY <1>15, GoToType DEF WriteRefused, Places
    <2> QED BY <1>15, <2>1 DEF WriteRefused
  <1>16. ASSUME NEW w \in Workers, ReadBack(w) PROVE TypeInv'
    <2>1. JobsOK' /\ Numbered'
      BY <1>16, GoToType DEF ReadBack, Places
    <2> QED BY <1>16, <2>1 DEF ReadBack
  <1>17. ASSUME NEW w \in Workers, Reschedule(w) PROVE TypeInv'
    <2>1. JobsOK' /\ Numbered'
      BY <1>17, GoToType DEF Reschedule, Places
    <2> QED BY <1>17, <2>1 DEF Reschedule
  <1>18. ASSUME NEW w \in Workers, Requeue(w) PROVE TypeInv'
    <2>1. jobs[w].rev \in Revisions /\ jobs[w].todo \in SUBSET Revisions
      BY <1>18 DEF Requeue, Numbered, Job
    <2>2. rows' \in [Revisions -> Row]
      <3>1. rows[Rev(w)] \in Row BY <2>1 DEF Rev
      <3> HIDE DEF Revisions
      <3> QED BY <1>18, <2>1, <3>1 DEF Requeue, Rev, Row, Statuses
    <2>3. JobsOK' /\ Numbered'
      BY <1>18, <2>1, MoveOnType DEF Requeue
    <2> QED BY <1>18, <2>2, <2>3 DEF Requeue
  <1>19. ASSUME NEW w \in Workers, Finish(w) PROVE TypeInv'
    <2>1. jobs[w].rev \in Revisions /\ jobs[w].todo \in SUBSET Revisions
      BY <1>19 DEF Finish, Numbered, Job
    <2>2. rows' \in [Revisions -> Row]
      <3>1. rows[Rev(w)] \in Row BY <2>1 DEF Rev
      <3> HIDE DEF Revisions
      <3> QED BY <1>19, <2>1, <3>1 DEF Finish, Rev, Row, Statuses
    <2>3. JobsOK' /\ Numbered'
      BY <1>19, <2>1, MoveOnType DEF Finish
    <2> QED BY <1>19, <2>2, <2>3 DEF Finish
  <1>20. ASSUME NEW w \in Workers, Crash(w) PROVE TypeInv'
    BY <1>20 DEF Crash, Idle, Job, Places, Numbered
  <1>21. CASE UNCHANGED vars
    BY <1>21 DEF vars, Numbered
  <1> QED
    BY <1>1, <1>2, <1>3, <1>4, <1>5, <1>6, <1>7, <1>8, <1>9, <1>10, <1>11, <1>12,
       <1>13, <1>14, <1>15, <1>16, <1>17, <1>18, <1>19, <1>20, <1>21
    DEF Next, Step, Attempt

\* Every variable keeps its type, whatever workers, clocks and users do.
THEOREM TypeCorrect == Spec => []TypeOK
  <1>1. TypeInv => TypeOK BY DEF TypeInv
  <1> QED BY TypeInit, TypeStep, <1>1, PTL DEF Spec

-----------------------------------------------------------------------------
(* One attempt at a time.                                                   *)

\* A claimed row is in flight, freshly claimed, and on an attempt of its own.
HeldInv == \A w \in Workers :
              jobs[w].at \in Sending =>
                 /\ rows[jobs[w].rev].status = "in_flight"
                 /\ ~rows[jobs[w].rev].ripe
                 /\ rows[jobs[w].rev].attempts >= 1

Alone == \A w, x \in Workers :
            jobs[w].at \in Sending /\ jobs[x].at \in Sending => w = x

ClaimInv == HeldInv /\ Alone

\* The rows that exist are those up to the newest revision.
Numbering == \A r \in Revisions : rows[r].status # "none" <=> r <= latest

\* A step within an attempt leaves the claims as they are.
LEMMA AttemptGoesOn ==
    ASSUME TypeInv, ClaimInv, NEW w \in Workers, NEW place \in Sending,
           jobs[w].at \in Sending, GoTo(w, place), rows' = rows
    PROVE  ClaimInv'
  BY DEF TypeInv, TypeOK, ClaimInv, HeldInv, Alone, GoTo, Job

\* So does a worker that takes or leaves a list while others hold their rows.
LEMMA ClaimsKept ==
    ASSUME TypeInv, ClaimInv,
           \A w \in Workers : jobs'[w].at \in Sending =>
              /\ jobs'[w] = jobs[w]
              /\ rows'[jobs[w].rev] = rows[jobs[w].rev]
    PROVE  ClaimInv'
  BY DEF TypeInv, TypeOK, ClaimInv, HeldInv, Alone

\* Moving on and going idle are outside of any attempt.
LEMMA MovedOn ==
    ASSUME TypeInv, NEW w \in Workers, NEW T, MoveOn(w, T)
    PROVE  /\ jobs'[w].at \notin Sending
           /\ \A x \in Workers : x # w => jobs'[x] = jobs[x]
  BY DEF TypeInv, TypeOK, MoveOn, Idle

LEMMA ClaimStep == TypeInv /\ ClaimInv /\ Numbering /\ [Next]_vars => ClaimInv'
  <1> SUFFICES ASSUME TypeInv, ClaimInv, Numbering, [Next]_vars PROVE ClaimInv'
    OBVIOUS
  <1>a. /\ jobs \in [Workers -> Job]
        /\ rows \in [Revisions -> Row]
        /\ \A w \in Workers : jobs[w].at \notin {"idle", "list"} => jobs[w].rev \in Revisions
    BY DEF TypeInv, TypeOK, Numbered
  <1>b. \A w \in Workers : jobs[w].at \in Sending =>
           jobs[w].rev \in Revisions /\ InFlight(jobs[w].rev) /\ ~Pending(jobs[w].rev)
    BY <1>a DEF ClaimInv, HeldInv, InFlight, Pending
  <1>1. ASSUME NEW v \in Values, Enqueue(v) PROVE ClaimInv'
    <2>1. latest + 1 \in Revisions /\ rows[latest + 1].status = "none"
      BY <1>1 DEF Enqueue, Numbering, TypeInv, TypeOK
    <2>2. \A w \in Workers : jobs[w].at \in Sending => jobs[w].rev # latest + 1
      BY <1>b, <2>1 DEF InFlight
    <2> QED BY <1>1, <1>b, <2>1, <2>2, ClaimsKept DEF Enqueue, RetirePending
  <1>2. CASE Stop
    BY <1>2, <1>b, ClaimsKept DEF Stop, RetirePending
  <1>3. CASE Resume
    BY <1>3, ClaimsKept DEF Resume
  <1>4. ASSUME NEW r \in Revisions, LoseKick(r) PROVE ClaimInv'
    BY <1>4, ClaimsKept DEF LoseKick
  <1>5. ASSUME NEW r \in Revisions, Ripen(r) PROVE ClaimInv'
    BY <1>5, <1>a, <1>b, ClaimsKept DEF Ripen, Holds
  <1>6. ASSUME NEW w \in Workers, NEW r \in Revisions, TakeKick(w, r)
        PROVE  ClaimInv'
    BY <1>6, MovedOn, ClaimsKept DEF TakeKick
  <1>7. ASSUME NEW w \in Workers, StartSweep(w) PROVE ClaimInv'
    BY <1>7, <1>a, <1>b, ClaimsKept DEF StartSweep, Abandoned, ClaimInv, HeldInv
  <1>8. ASSUME NEW w \in Workers, ListDue(w) PROVE ClaimInv'
    BY <1>8, MovedOn, ClaimsKept DEF ListDue
  <1>9. ASSUME NEW w \in Workers, Claim(w) PROVE ClaimInv'
    <2>1. Rev(w) \in Revisions /\ rows[Rev(w)] \in Row
      BY <1>9, <1>a DEF Claim, Rev
    <2>2. \A x \in Workers : jobs[x].at \notin Sending
      BY <1>9, <1>b DEF Claim, Claimable
    <2>3. /\ rows'[Rev(w)].status = "in_flight"
          /\ rows'[Rev(w)].ripe = FALSE
          /\ rows'[Rev(w)].attempts = rows[Rev(w)].attempts + 1
      BY <1>9, <1>a, <2>1 DEF Claim, Row
    <2>4. /\ jobs'[w].at = "load" /\ jobs'[w].rev = Rev(w)
          /\ \A x \in Workers : x # w => jobs'[x] = jobs[x]
      BY <1>9, <1>a DEF Claim, GoTo, Rev, Job
    <2>5. rows'[Rev(w)].attempts >= 1
      BY <2>1, <2>3 DEF Row
    <2> QED BY <2>2, <2>3, <2>4, <2>5 DEF ClaimInv, HeldInv, Alone
  <1>10. ASSUME NEW w \in Workers, ClaimRefused(w) PROVE ClaimInv'
    BY <1>10, MovedOn, ClaimsKept DEF ClaimRefused
  <1>11. ASSUME NEW w \in Workers, Load(w) PROVE ClaimInv'
    BY <1>11, AttemptGoesOn DEF Load, Resolve
  <1>12. ASSUME NEW w \in Workers, CheckSuperseded(w) PROVE ClaimInv'
    BY <1>12, AttemptGoesOn DEF CheckSuperseded, Resolve
  <1>13. ASSUME NEW w \in Workers, Read(w) PROVE ClaimInv'
    BY <1>13, AttemptGoesOn DEF Read
  <1>14. ASSUME NEW w \in Workers, WriteApplied(w) PROVE ClaimInv'
    BY <1>14, AttemptGoesOn DEF WriteApplied, Written
  <1>15. ASSUME NEW w \in Workers, WriteRefused(w) PROVE ClaimInv'
    BY <1>15, AttemptGoesOn DEF WriteRefused
  <1>16. ASSUME NEW w \in Workers, ReadBack(w) PROVE ClaimInv'
    BY <1>16, AttemptGoesOn DEF ReadBack
  <1>17. ASSUME NEW w \in Workers, Reschedule(w) PROVE ClaimInv'
    BY <1>17, AttemptGoesOn DEF Reschedule
  <1>18. ASSUME NEW w \in Workers, Requeue(w) PROVE ClaimInv'
    <2>1. \A x \in Workers : jobs[x].at \in Sending => x = w
      BY <1>18 DEF Requeue, ClaimInv, Alone
    <2> QED BY <1>18, <2>1, MovedOn, ClaimsKept DEF Requeue
  <1>19. ASSUME NEW w \in Workers, Finish(w) PROVE ClaimInv'
    <2>1. \A x \in Workers : jobs[x].at \in Sending => x = w
      BY <1>19 DEF Finish, ClaimInv, Alone
    <2> QED BY <1>19, <2>1, MovedOn, ClaimsKept DEF Finish
  <1>20. ASSUME NEW w \in Workers, Crash(w) PROVE ClaimInv'
    BY <1>20, <1>a, ClaimsKept DEF Crash, Idle
  <1>21. CASE UNCHANGED vars
    BY <1>21, ClaimsKept DEF vars
  <1> QED
    BY <1>1, <1>2, <1>3, <1>4, <1>5, <1>6, <1>7, <1>8, <1>9, <1>10, <1>11, <1>12,
       <1>13, <1>14, <1>15, <1>16, <1>17, <1>18, <1>19, <1>20, <1>21
    DEF Next, Step, Attempt

LEMMA NumberingStep == TypeInv /\ ClaimInv /\ Numbering /\ [Next]_vars => Numbering'
  <1> SUFFICES ASSUME TypeInv, ClaimInv, Numbering, [Next]_vars PROVE Numbering'
    OBVIOUS
  <1>a. rows \in [Revisions -> Row] /\ latest \in 0..MaxRev
    BY DEF TypeInv, TypeOK
  <1>1. ASSUME NEW v \in Values, Enqueue(v) PROVE Numbering'
    <2>1. latest + 1 \in Revisions BY <1>1, <1>a DEF Enqueue
    <2>2. rows' \in [Revisions -> Row] BY <1>1, TypeStep DEF Next, TypeInv, TypeOK
    <2>3. rows'[latest + 1].status = "pending" BY <1>1, <1>a, <2>1 DEF Enqueue, NewRow, RetirePending
    <2>4. \A r \in Revisions : r # latest + 1 =>
             (rows'[r].status # "none" <=> rows[r].status # "none")
      BY <1>1, <1>a, <2>1 DEF Enqueue, RetirePending, Pending, Row
    <2> QED BY <1>1, <1>a, <2>1, <2>3, <2>4 DEF Enqueue, Numbering
  <1>2. CASE Stop
    BY <1>2, <1>a DEF Stop, RetirePending, Pending, Row, Numbering
  <1>3. ASSUME NEW r \in Revisions, Ripen(r) PROVE Numbering'
    BY <1>3, <1>a DEF Ripen, Row, Numbering
  <1>4. ASSUME NEW w \in Workers, StartSweep(w) PROVE Numbering'
    BY <1>4, <1>a DEF StartSweep, Abandoned, InFlight, Row, Numbering
  <1>5. ASSUME NEW w \in Workers, Claim(w) PROVE Numbering'
    BY <1>5, <1>a DEF Claim, Claimable, Pending, Row, Numbering
  <1>6. ASSUME NEW w \in Workers, Requeue(w) PROVE Numbering'
    BY <1>6, <1>a DEF Requeue, Rev, Row, Numbering, ClaimInv, HeldInv
  <1>7. ASSUME NEW w \in Workers, Finish(w) PROVE Numbering'
    BY <1>7, <1>a DEF Finish, Rev, Row, Numbering, ClaimInv, HeldInv
  <1>8. CASE UNCHANGED <<rows, latest>>
    BY <1>8 DEF Numbering
  <1> QED
    BY <1>1, <1>2, <1>3, <1>4, <1>5, <1>6, <1>7, <1>8
    DEF Next, Step, Attempt, vars, Resume, LoseKick, TakeKick, ListDue,
        ClaimRefused, Load, CheckSuperseded, Read, WriteApplied, WriteRefused,
        ReadBack, Reschedule, Crash

LEMMA ClaimInit == Init => ClaimInv /\ Numbering
  BY DEF Init, ClaimInv, HeldInv, Alone, Numbering, NoRow, Idle

\* At most one worker is between its claim and its outcome, and its row is the
\* one in flight.
THEOREM AttemptsAreExclusive == Spec => []ExclusiveAttempt
  <1>1. ClaimInv => ExclusiveAttempt
    BY DEF ClaimInv, HeldInv, Alone, ExclusiveAttempt, InFlight, Rev
  <1> QED BY TypeInit, TypeStep, ClaimInit, ClaimStep, NumberingStep, <1>1, PTL
          DEF Spec

-----------------------------------------------------------------------------
(* What delivered says.                                                     *)

\* A row, once queued, keeps its value and never loses an attempt.
LEMMA RowsKept ==
    ASSUME TypeInv, [Next]_vars, NEW r \in Revisions, r <= latest
    PROVE  /\ rows'[r].value = rows[r].value
           /\ rows'[r].attempts >= rows[r].attempts
  <1> DEFINE Kept == /\ rows'[r].value = rows[r].value
                     /\ rows'[r].attempts >= rows[r].attempts
  <1>a. /\ rows \in [Revisions -> Row] /\ latest \in 0..MaxRev
        /\ rows[r] \in Row /\ rows[r].attempts \in Nat
    BY DEF TypeInv, TypeOK, Row
  <1>1. ASSUME NEW v \in Values, Enqueue(v) PROVE Kept
    <2>1. r # latest + 1 BY <1>a
    <2>2. rows'[r] = RetirePending("superseded")[r]
      BY <1>1, <1>a, <2>1 DEF Enqueue, RetirePending
    <2> QED BY <1>a, <2>2 DEF RetirePending, Row
  <1>2. ASSUME Stop PROVE Kept
    BY <1>2, <1>a DEF Stop, RetirePending, Row
  <1>3. ASSUME NEW s \in Revisions, Ripen(s) PROVE Kept
    BY <1>3, <1>a DEF Ripen, Row
  <1>4. ASSUME NEW w \in Workers, StartSweep(w) PROVE Kept
    <2> HIDE DEF Revisions
    <2> QED BY <1>4, <1>a DEF StartSweep, Row
  <1>5. ASSUME NEW w \in Workers, Claim(w) PROVE Kept
    <2>1. Rev(w) \in Revisions
      BY <1>5 DEF Claim, Rev, TypeInv, Numbered
    <2> HIDE DEF Revisions
    <2> QED BY <1>5, <1>a, <2>1 DEF Claim, Row
  <1>6. ASSUME NEW w \in Workers, Requeue(w) \/ Finish(w) PROVE Kept
    <2> HIDE DEF Revisions
    <2> QED BY <1>6, <1>a DEF Requeue, Finish, Row
  <1>7. ASSUME UNCHANGED rows PROVE Kept
    BY <1>7, <1>a
  <1> HIDE DEF Kept
  <1>8. Kept
    BY <1>1, <1>2, <1>3, <1>4, <1>5, <1>6, <1>7
    DEF Next, Step, Attempt, vars, Resume, LoseKick, TakeKick, ListDue,
        ClaimRefused, Load, CheckSuperseded, Read, WriteApplied, WriteRefused,
        ReadBack, Reschedule, Crash
  <1> QED BY <1>8 DEF Kept

\* A worker about to record "delivered" has seen or set the provider's state.
Truth == \A w \in Workers :
            jobs[w].at \in {"readback", "delivered"} =>
                remote.value = rows[jobs[w].rev].value

\* Only a write changes the provider, and only its own worker is in an attempt.
LEMMA ProviderKept ==
    ASSUME [Next]_vars, \A w \in Workers : ~WriteApplied(w)
    PROVE  UNCHANGED <<remote, applied>>
  BY DEF Next, Step, Attempt, vars, Enqueue, Stop, Resume, LoseKick, Ripen,
         TakeKick, StartSweep, ListDue, Claim, ClaimRefused, Load,
         CheckSuperseded, Read, WriteRefused, ReadBack, Reschedule, Requeue,
         Finish, Crash

\* Which steps bring a worker to a place of interest.
LEMMA Arrivals ==
    ASSUME TypeInv, [Next]_vars, NEW w \in Workers, jobs'[w] # jobs[w]
    PROVE  \/ jobs'[w].at \in {"idle", "run", "list"}
           \/ /\ jobs'[w].rev = jobs[w].rev
              /\ \/ Claim(w) \/ Load(w) \/ CheckSuperseded(w) \/ Read(w)
                 \/ WriteApplied(w) \/ WriteRefused(w) \/ ReadBack(w)
                 \/ Reschedule(w)
  <1>a. jobs \in [Workers -> Job]
    BY DEF TypeInv, TypeOK
  <1>1. ASSUME NEW x \in Workers, NEW place, GoTo(x, place)
        PROVE  x = w /\ jobs'[w].rev = jobs[w].rev
    BY <1>1, <1>a DEF GoTo, Job
  <1>2. ASSUME NEW x \in Workers, NEW T, MoveOn(x, T)
        PROVE  jobs'[w].at \in {"idle", "run"}
    BY <1>2, <1>a DEF MoveOn, Idle
  <1>3. ASSUME NEW x \in Workers, Crash(x) \/ StartSweep(x)
        PROVE  jobs'[w].at \in {"idle", "list"}
    BY <1>3, <1>a DEF Crash, StartSweep, Idle, Job
  <1>4. ASSUME NEW x \in Workers, \/ \E r \in Revisions : TakeKick(x, r)
                                  \/ ListDue(x) \/ ClaimRefused(x)
                                  \/ Requeue(x) \/ Finish(x)
        PROVE  jobs'[w].at \in {"idle", "run"}
    BY <1>4, <1>2 DEF TakeKick, ListDue, ClaimRefused, Requeue, Finish
  <1>5. ASSUME NEW x \in Workers,
               \/ Claim(x) \/ Load(x) \/ CheckSuperseded(x) \/ Read(x)
               \/ WriteApplied(x) \/ WriteRefused(x) \/ ReadBack(x)
               \/ Reschedule(x)
        PROVE  x = w /\ jobs'[w].rev = jobs[w].rev
    BY <1>5, <1>1 DEF Claim, Load, Resolve, CheckSuperseded, Read, WriteApplied,
                      WriteRefused, ReadBack, Reschedule
  <1>6. CASE UNCHANGED jobs
    BY <1>6
  <1> QED
    BY <1>3, <1>4, <1>5, <1>6
    DEF Next, Step, Attempt, vars, Enqueue, Stop, Resume, LoseKick, Ripen

Held == TypeInv /\ ClaimInv /\ Numbering

\* A row held by a worker is a queued one.
LEMMA HeldIsQueued ==
    ASSUME Held, NEW w \in Workers, jobs[w].at \in Sending
    PROVE  jobs[w].rev \in Revisions /\ jobs[w].rev <= latest
  BY DEF Held, TypeInv, Numbered, ClaimInv, HeldInv, Numbering

LEMMA TruthStep == Held /\ Truth /\ [Next]_vars => Truth'
  <1> SUFFICES ASSUME Held, Truth, [Next]_vars, NEW w \in Workers,
                      jobs'[w].at \in {"readback", "delivered"}
               PROVE  remote'.value = rows'[jobs'[w].rev].value
    BY DEF Truth
  <1>a. jobs \in [Workers -> Job] /\ TypeInv
    BY DEF Held, TypeInv, TypeOK
  <1>1. CASE jobs'[w] = jobs[w]
    <2>1. jobs[w].rev \in Revisions /\ jobs[w].rev <= latest
      BY <1>1, HeldIsQueued
    <2>2. \A x \in Workers : ~WriteApplied(x)
      BY <1>1, <1>a DEF Held, ClaimInv, Alone, WriteApplied, GoTo, Written, Job
    <2> QED BY <1>1, <1>a, <2>1, <2>2, RowsKept, ProviderKept DEF Truth
  <1>2. CASE jobs'[w] # jobs[w] /\ WriteApplied(w)
    BY <1>2, <1>a, Arrivals DEF WriteApplied, Delivery, Rev
  <1>3. CASE jobs'[w] # jobs[w] /\ ~WriteApplied(w)
    <2>1. /\ jobs'[w].rev = jobs[w].rev
          /\ \/ Claim(w) \/ Load(w) \/ CheckSuperseded(w) \/ Read(w)
             \/ WriteRefused(w) \/ ReadBack(w) \/ Reschedule(w)
      BY <1>3, <1>a, Arrivals
    <2>2. Read(w) \/ ReadBack(w)
      BY <2>1, <1>a DEF Claim, Load, Resolve, CheckSuperseded, WriteRefused,
                        Reschedule, GoTo, Job
    <2>3. remote.value = rows[jobs[w].rev].value
      BY <2>2, <1>a DEF Read, Agrees, ReadBack, Truth, GoTo, Delivery, Rev, Job
    <2>4. remote' = remote /\ rows' = rows
      BY <2>2 DEF Read, ReadBack
    <2> QED BY <2>1, <2>3, <2>4
  <1> QED BY <1>1, <1>2, <1>3

LEMMA HeldStep == Held /\ [Next]_vars => Held'
  BY TypeStep, ClaimStep, NumberingStep DEF Held

LEMMA HeldInit == Init => Held /\ Truth
  BY TypeInit, ClaimInit DEF Held, Init, Truth, Idle

\* Only the worker that holds a row makes it delivered.
LEMMA OnlyFinishSettles ==
    ASSUME rows \in [Revisions -> Row], [Next]_vars, NEW r \in Revisions,
           rows'[r].status = "delivered", rows[r].status # "delivered"
    PROVE  \E w \in Workers :
              Finish(w) /\ jobs[w].at = "delivered" /\ jobs[w].rev = r
  <1> HIDE DEF Revisions
  <1>1. ASSUME NEW v \in Values, Enqueue(v) PROVE FALSE
    BY <1>1 DEF Enqueue, RetirePending, NewRow, Row
  <1>2. ASSUME Stop PROVE FALSE
    BY <1>2 DEF Stop, RetirePending, Row
  <1>3. ASSUME NEW s \in Revisions, Ripen(s) PROVE FALSE
    BY <1>3 DEF Ripen, Row
  <1>4. ASSUME NEW w \in Workers, StartSweep(w) \/ Claim(w) \/ Requeue(w)
        PROVE  FALSE
    BY <1>4 DEF StartSweep, Claim, Requeue, Row
  <1>5. ASSUME UNCHANGED rows PROVE FALSE
    BY <1>5
  <1>6. ASSUME NEW w \in Workers, Finish(w)
        PROVE  jobs[w].at = "delivered" /\ jobs[w].rev = r
    BY <1>6 DEF Finish, Rev, Row
  <1> QED
    BY <1>1, <1>2, <1>3, <1>4, <1>5, <1>6
    DEF Next, Step, Attempt, vars, Resume, LoseKick, TakeKick, ListDue,
        ClaimRefused, Load, CheckSuperseded, Read, WriteApplied, WriteRefused,
        ReadBack, Reschedule, Crash

\* A row becomes delivered only while the provider holds its value.
THEOREM DeliveriesAreTrue == Spec => DeliveredIsTrue
  <1>1. Held /\ Truth /\ [Next]_vars =>
          \A r \in Revisions :
             rows'[r].status = "delivered" /\ rows[r].status # "delivered"
                => remote'.value = rows[r].value
    <2> SUFFICES ASSUME Held, Truth, [Next]_vars, NEW r \in Revisions,
                        rows'[r].status = "delivered", rows[r].status # "delivered"
                 PROVE  remote'.value = rows[r].value
      OBVIOUS
    <2>a. rows \in [Revisions -> Row]
      BY DEF Held, TypeInv, TypeOK
    <2>1. PICK w \in Workers : Finish(w) /\ jobs[w].at = "delivered" /\ jobs[w].rev = r
      BY <2>a, OnlyFinishSettles
    <2> QED BY <2>1 DEF Finish, Truth
  <1> QED
    BY HeldInit, HeldStep, TruthStep, <1>1, PTL DEF Spec, DeliveredIsTrue

-----------------------------------------------------------------------------
(* Ratings keep their order.                                                *)

\* The provider holds the value of a revision that exists.
Shown == /\ remote.rev <= latest
         /\ remote.rev # 0 => remote.value = rows[remote.rev].value

\* A worker past the supersession check is not behind the provider, and no
\* newer revision is delivered while it sends.
Ordered == \A w \in Workers :
              jobs[w].at \in {"read", "write"} =>
                 /\ remote.rev <= jobs[w].rev
                 /\ \A s \in Revisions :
                       s > jobs[w].rev => rows[s].status # "delivered"

OrderInv == Shown /\ Ordered /\ NewestStands

\* A worker that still sends after a step was sending before, or has just
\* passed its check.
LEMMA StillSending ==
    ASSUME Held, Operation = "rating", [Next]_vars, NEW w \in Workers,
           jobs'[w].at \in {"read", "write"}
    PROVE  /\ \A x \in Workers : ~WriteApplied(x) /\ ~Finish(x)
           /\ jobs'[w].rev = jobs[w].rev
           /\ jobs[w].at \in Sending
           /\ \/ jobs[w].at \in {"read", "write"}
              \/ CheckSuperseded(w) /\ ~Superseded(jobs[w].rev)
  <1>a. jobs \in [Workers -> Job] /\ TypeInv
    BY DEF Held, TypeInv, TypeOK
  <1>1. /\ jobs'[w].rev = jobs[w].rev
        /\ \/ jobs[w].at \in {"read", "write"}
           \/ CheckSuperseded(w) /\ ~Superseded(jobs[w].rev)
    <2>1. CASE jobs'[w] = jobs[w]
      BY <2>1
    <2>2. CASE jobs'[w] # jobs[w]
      <3>1. /\ jobs'[w].rev = jobs[w].rev
            /\ \/ Claim(w) \/ Load(w) \/ CheckSuperseded(w) \/ Read(w)
               \/ WriteApplied(w) \/ WriteRefused(w) \/ ReadBack(w)
               \/ Reschedule(w)
        BY <1>a, <2>2, Arrivals
      <3>2. CheckSuperseded(w) \/ Read(w)
        BY <1>a, <3>1 DEF Claim, Load, WriteApplied, Written, WriteRefused,
                          ReadBack, Reschedule, GoTo, Job
      <3>3. CheckSuperseded(w) => ~Superseded(jobs[w].rev)
        BY <1>a DEF CheckSuperseded, GoTo, Rev, Job
      <3> QED BY <3>1, <3>2, <3>3 DEF Read
    <2> QED BY <2>1, <2>2
  <1>2. jobs[w].at \in Sending
    BY <1>1 DEF CheckSuperseded
  <1>3. ASSUME NEW x \in Workers, WriteApplied(x) \/ Finish(x) PROVE FALSE
    <2>1. jobs[x].at \in Sending BY <1>3 DEF WriteApplied, Finish
    <2>2. x = w BY <1>2, <2>1 DEF Held, ClaimInv, Alone
    <2>3. CASE WriteApplied(w)
      BY <1>a, <2>3 DEF WriteApplied, Written, GoTo, Job
    <2>4. CASE Finish(w)
      BY <1>a, <2>4, MovedOn DEF Finish
    <2> QED BY <1>3, <2>2, <2>3, <2>4
  <1> QED BY <1>1, <1>2, <1>3

\* Only an edit makes a new revision.
LEMMA OnlyEditsNumber ==
    ASSUME [Next]_vars, latest' # latest
    PROVE  \E v \in Values : Enqueue(v)
  BY DEF Next, Step, Attempt, vars, Stop, Resume, LoseKick, Ripen,
         TakeKick, StartSweep, ListDue, Claim, ClaimRefused, Load,
         CheckSuperseded, Read, WriteApplied, WriteRefused, ReadBack,
         Reschedule, Requeue, Finish, Crash

LEMMA ShownStep == Held /\ Shown /\ [Next]_vars => Shown'
  <1> SUFFICES ASSUME Held, Shown, [Next]_vars PROVE Shown'
    OBVIOUS
  <1>a. /\ TypeInv /\ latest \in 0..MaxRev /\ remote.rev \in 0..MaxRev
        /\ jobs \in [Workers -> Job]
    BY DEF Held, TypeInv, TypeOK
  <1>b. latest' \in Nat /\ latest' >= latest
    BY <1>a, OnlyEditsNumber DEF Enqueue
  <1>1. CASE \E w \in Workers : WriteApplied(w)
    <2>1. PICK w \in Workers : WriteApplied(w) BY <1>1
    <2>2. jobs[w].rev \in Revisions /\ jobs[w].rev <= latest
      BY <2>1, HeldIsQueued DEF WriteApplied
    <2> QED BY <1>a, <2>1, <2>2 DEF WriteApplied, Shown, Delivery, Rev
  <1>2. CASE \A w \in Workers : ~WriteApplied(w)
    <2>1. remote' = remote BY <1>2, ProviderKept
    <2>2. remote.rev # 0 => rows'[remote.rev].value = rows[remote.rev].value
      BY <1>a, RowsKept DEF Shown
    <2> QED BY <1>a, <1>b, <2>1, <2>2 DEF Shown
  <1> QED BY <1>1, <1>2

LEMMA OrderedStep ==
    Operation = "rating" /\ Held /\ Shown /\ Ordered /\ [Next]_vars => Ordered'
  <1> SUFFICES ASSUME Operation = "rating", Held, Shown, Ordered, [Next]_vars,
                      NEW w \in Workers, jobs'[w].at \in {"read", "write"}
               PROVE  /\ remote'.rev <= jobs'[w].rev
                      /\ \A s \in Revisions :
                            s > jobs'[w].rev => rows'[s].status # "delivered"
    BY DEF Ordered
  <1>a. /\ TypeInv /\ latest \in 0..MaxRev /\ remote.rev \in 0..MaxRev
        /\ rows \in [Revisions -> Row]
    BY DEF Held, TypeInv, TypeOK
  <1>1. remote' = remote /\ jobs'[w].rev = jobs[w].rev
    BY StillSending, ProviderKept
  <1>2. jobs[w].rev \in Revisions
    BY StillSending, HeldIsQueued
  <1>3. /\ remote.rev <= jobs[w].rev
        /\ \A s \in Revisions : s > jobs[w].rev => rows[s].status # "delivered"
    <2>1. CASE jobs[w].at \in {"read", "write"}
      BY <2>1 DEF Ordered
    <2>2. CASE ~Superseded(jobs[w].rev)
      BY <1>a, <1>2, <2>2 DEF Superseded, Shown, Held, Numbering
    <2> QED BY <2>1, <2>2, StillSending
  <1>4. ASSUME NEW s \in Revisions, s > jobs[w].rev
        PROVE  rows'[s].status # "delivered"
    BY <1>3, <1>4, <1>a, OnlyFinishSettles, StillSending
  <1> QED BY <1>1, <1>3, <1>4

LEMMA NewestStep ==
    Operation = "rating" /\ Held /\ Truth /\ OrderInv /\ [Next]_vars => NewestStands'
  <1> SUFFICES ASSUME Operation = "rating", Held, Truth, OrderInv, [Next]_vars,
                      NEW r \in Revisions, r = latest', rows'[r].status = "delivered"
               PROVE  remote'.value = rows'[r].value
    BY DEF NewestStands
  <1>a. /\ TypeInv /\ latest \in 0..MaxRev /\ rows \in [Revisions -> Row]
    BY DEF Held, TypeInv, TypeOK
  <1>1. latest' = latest
    <2> SUFFICES ASSUME NEW v \in Values, Enqueue(v) PROVE FALSE
      BY OnlyEditsNumber
    <2> QED BY <1>a DEF Enqueue, RetirePending, NewRow
  <1>2. CASE \E w \in Workers : Finish(w) /\ jobs[w].at = "delivered" /\ jobs[w].rev = r
    BY <1>2, <1>1, <1>a, RowsKept DEF Finish, Truth
  <1>3. CASE rows[r].status = "delivered"
    <2>1. ASSUME NEW w \in Workers, WriteApplied(w) PROVE FALSE
      <3>1. /\ jobs[w].rev \in Revisions /\ jobs[w].rev <= latest
            /\ rows[jobs[w].rev].status = "in_flight"
        BY <2>1, HeldIsQueued DEF WriteApplied, Held, ClaimInv, HeldInv
      <3>2. ~(r > jobs[w].rev)
        BY <1>3, <2>1 DEF WriteApplied, OrderInv, Ordered
      <3> QED BY <1>a, <1>1, <1>3, <3>1, <3>2
    <2> QED BY <1>3, <1>1, <2>1, <1>a, ProviderKept, RowsKept DEF OrderInv, NewestStands
  <1> QED BY <1>1, <1>2, <1>3, <1>a, OnlyFinishSettles

LEMMA OrderInit == Init => OrderInv
  BY DEF Init, OrderInv, Shown, Ordered, NewestStands, NoRow, Idle

LEMMA OrderStep ==
    Operation = "rating" /\ Held /\ Truth /\ OrderInv /\ [Next]_vars => OrderInv'
  BY ShownStep, OrderedStep, NewestStep DEF OrderInv

\* A worker about to write is not behind the provider.
LEMMA WritesGoForward ==
    Operation = "rating" /\ Held /\ OrderInv /\ [Next]_vars
        => remote'.rev >= remote.rev
  <1> SUFFICES ASSUME Operation = "rating", Held, OrderInv, [Next]_vars
               PROVE  remote'.rev >= remote.rev
    OBVIOUS
  <1>a. remote.rev \in 0..MaxRev
    BY DEF Held, TypeInv, TypeOK
  <1>1. ASSUME NEW w \in Workers, WriteApplied(w) PROVE remote'.rev >= remote.rev
    <2>1. jobs[w].rev \in Revisions
      BY <1>1, HeldIsQueued DEF WriteApplied
    <2> QED BY <1>1, <1>a, <2>1 DEF WriteApplied, OrderInv, Ordered, Rev
  <1> QED BY <1>1, <1>a, ProviderKept

\* For a rating the provider never goes back to an older revision.
THEOREM RatingsKeepOrder ==
    ASSUME Operation = "rating" PROVE Spec => RevisionsOrderWrites
  <1>1. Held /\ Truth /\ OrderInv /\ [Next]_vars => OrderInv' /\ remote'.rev >= remote.rev
    BY OrderStep, WritesGoForward
  <1> QED
    BY HeldInit, HeldStep, TruthStep, OrderInit, <1>1, PTL
    DEF Spec, RevisionsOrderWrites

\* For a rating whose newest delivery is done, the provider holds its value.
THEOREM NewestRatingStands ==
    ASSUME Operation = "rating" PROVE Spec => []NewestStands
  <1>1. Held /\ Truth /\ OrderInv /\ [Next]_vars => OrderInv'
    BY OrderStep
  <1>2. OrderInv => NewestStands BY DEF OrderInv
  <1> QED
    BY HeldInit, HeldStep, TruthStep, OrderInit, <1>1, <1>2, PTL DEF Spec

-----------------------------------------------------------------------------
(* A rating is applied once.                                                *)

\* What the provider applied is behind it, and was a counted attempt; a worker
\* on an applied row is on a later attempt, which never reaches its write.
Once == /\ \A r \in applied : r <= remote.rev /\ rows[r].attempts >= 1
        /\ \A w \in Workers :
              jobs[w].rev \in applied =>
                 /\ jobs[w].at \in {"load", "check", "read"} =>
                       rows[jobs[w].rev].attempts >= 2
                 /\ jobs[w].at # "write"

LEMMA OnceInit == Init => Once
  BY DEF Init, Once

LEMMA OnceStep ==
    /\ Operation = "rating" /\ ReadsKnown
    /\ Held /\ OrderInv /\ Once /\ [Next]_vars
    => Once'
  <1> SUFFICES ASSUME Operation = "rating", ReadsKnown, Held, OrderInv, Once,
                      [Next]_vars
               PROVE  Once'
    OBVIOUS
  <1>a. /\ TypeInv /\ latest \in 0..MaxRev /\ remote.rev \in 0..MaxRev
        /\ rows \in [Revisions -> Row] /\ jobs \in [Workers -> Job]
        /\ applied \subseteq Revisions
    BY DEF Held, TypeInv, TypeOK
  <1>b. \A r \in applied : rows'[r].attempts >= rows[r].attempts /\ r <= latest
    <2> SUFFICES ASSUME NEW r \in applied
                 PROVE  rows'[r].attempts >= rows[r].attempts /\ r <= latest
      OBVIOUS
    <2>1. r \in Revisions BY <1>a
    <2> HIDE DEF Revisions
    <2>2. r <= remote.rev BY DEF Once
    <2>3. remote.rev <= latest BY DEF OrderInv, Shown
    <2>4. r <= latest BY <1>a, <2>1, <2>2, <2>3 DEF Revisions
    <2> QED BY <1>a, <2>1, <2>4, RowsKept
  <1>c. /\ \A r \in Revisions : rows[r].attempts \in Nat
        /\ \A r \in Revisions : rows'[r].attempts \in Nat
    BY HeldStep DEF Held, TypeInv, TypeOK, Row
  <1>1. CASE \E w \in Workers : WriteApplied(w)
    <2>1. PICK w \in Workers : WriteApplied(w) BY <1>1
    <2>2. /\ jobs[w].rev \in Revisions /\ remote.rev <= jobs[w].rev
          /\ rows[jobs[w].rev].attempts >= 1
      BY <2>1, HeldIsQueued DEF WriteApplied, OrderInv, Ordered, Held, ClaimInv, HeldInv
    <2>3. /\ applied' = applied \cup {jobs[w].rev} /\ remote'.rev = jobs[w].rev
          /\ rows' = rows
      BY <2>1 DEF WriteApplied, Rev
    <2>4. \A r \in applied' : r <= remote'.rev /\ rows'[r].attempts >= 1
      BY <1>a, <2>2, <2>3 DEF Once
    <2>5. \A x \in Workers : jobs'[x].at \notin {"load", "check", "read", "write"}
      BY <1>a, <2>1 DEF WriteApplied, Written, GoTo, Held, ClaimInv, Alone, Job
    <2> QED BY <2>4, <2>5 DEF Once
  <1>2. CASE \A w \in Workers : ~WriteApplied(w)
    <2>1. remote' = remote /\ applied' = applied
      BY <1>2, ProviderKept
    <2>2. \A r \in applied' : r <= remote'.rev /\ rows'[r].attempts >= 1
      BY <1>a, <1>b, <1>c, <2>1 DEF Once
    <2>3. ASSUME NEW w \in Workers, jobs'[w].rev \in applied
          PROVE  /\ jobs'[w].at \in {"load", "check", "read"} =>
                       rows'[jobs'[w].rev].attempts >= 2
                 /\ jobs'[w].at # "write"
      <3>1. CASE jobs'[w] = jobs[w]
        <4> DEFINE r == jobs[w].rev
        <4>1. r \in applied /\ r \in Revisions
          BY <1>a, <2>3, <3>1
        <4>2. /\ rows'[r].attempts >= rows[r].attempts
              /\ rows'[r].attempts \in Nat /\ rows[r].attempts \in Nat
          BY <1>b, <1>c, <4>1
        <4>3. /\ jobs[w].at \in {"load", "check", "read"} => rows[r].attempts >= 2
              /\ jobs[w].at # "write"
          BY <4>1 DEF Once
        <4> HIDE DEF r
        <4>4. jobs[w].at \in {"load", "check", "read"} => rows'[r].attempts >= 2
          BY <4>2, <4>3
        <4> QED BY <3>1, <4>3, <4>4 DEF r
      <3>2. CASE jobs'[w] # jobs[w] /\ jobs'[w].at \notin {"idle", "run", "list"}
        <4>1. /\ jobs'[w].rev = jobs[w].rev
              /\ \/ Claim(w) \/ Load(w) \/ CheckSuperseded(w) \/ Read(w)
                 \/ WriteRefused(w) \/ ReadBack(w) \/ Reschedule(w)
          BY <1>a, <1>2, <3>2, Arrivals
        <4>2. CASE Claim(w)
          <5>1. jobs'[w].at = "load" /\ jobs[w].rev \in Revisions
            BY <1>a, <4>2 DEF Claim, GoTo, Job, TypeInv, Numbered
          <5>2. rows'[jobs[w].rev].attempts = rows[jobs[w].rev].attempts + 1
            BY <1>a, <4>2, <5>1 DEF Claim, Rev, Row
          <5>3. rows[jobs[w].rev].attempts >= 1
            BY <2>3, <4>1 DEF Once
          <5> QED BY <1>c, <4>1, <5>1, <5>2, <5>3
        <4>3. CASE Load(w)
          <5>1. jobs[w].at = "load" /\ jobs'[w].at \in {"skipped", "check"} /\ rows' = rows
            BY <1>a, <4>3 DEF Load, GoTo, Job
          <5> QED BY <2>3, <4>1, <5>1 DEF Once
        <4>4. CASE CheckSuperseded(w)
          <5>1. /\ jobs[w].at = "check" /\ rows' = rows
                /\ jobs'[w].at \in {"read", "write", "superseded", "skipped",
                                    "failed", "failing"}
                /\ jobs'[w].at = "write" => ~(rows[jobs[w].rev].attempts > 1)
            BY <1>a, <4>4 DEF CheckSuperseded, Resolve, GoTo, Delivery, Rev, Job
          <5>2. rows[jobs[w].rev].attempts >= 2
            BY <2>3, <4>1, <5>1 DEF Once
          <5>3. rows[jobs[w].rev].attempts \in Nat
            BY <1>a, <1>c, <2>3, <4>1
          <5> QED BY <4>1, <5>1, <5>2, <5>3
        <4>5. CASE Read(w)
          <5>1. /\ jobs[w].at = "read" /\ rows' = rows
                /\ jobs'[w].at \in {"write", "delivered", "failed", "failing"}
                /\ jobs'[w].at = "write" => remote.value # rows[jobs[w].rev].value
            BY <1>a, <4>5 DEF Read, Agrees, GoTo, Delivery, Rev, Job
          <5>2. jobs[w].rev \in applied /\ jobs[w].rev \in Revisions
            BY <1>a, <2>3, <4>1
          <5>3. remote.rev = jobs[w].rev
            BY <1>a, <5>1, <5>2 DEF Once, OrderInv, Ordered
          <5>4. remote.value = rows[jobs[w].rev].value
            BY <5>2, <5>3 DEF OrderInv, Shown
          <5> QED BY <5>1, <5>4
        <4>6. CASE WriteRefused(w) \/ ReadBack(w) \/ Reschedule(w)
          BY <1>a, <4>6 DEF WriteRefused, ReadBack, Reschedule, GoTo, Job
        <4> QED BY <4>1, <4>2, <4>3, <4>4, <4>5, <4>6
      <3>3. CASE jobs'[w].at \in {"idle", "run", "list"}
        BY <3>3
      <3> QED BY <3>1, <3>2, <3>3
    <2> QED BY <2>1, <2>2, <2>3 DEF Once
  <1> QED BY <1>1, <1>2

\* When reads are conclusive no revision of a rating is applied twice.
THEOREM RatingsAreAppliedOnce ==
    ASSUME Operation = "rating", ReadsKnown PROVE Spec => AppliedOnce
  <1>1. Held /\ Truth /\ OrderInv /\ [Next]_vars => OrderInv'
    BY OrderStep
  <1>2. Held /\ OrderInv /\ Once /\ [Next]_vars => Once'
    BY OnceStep
  <1>3. Once => \A w \in Workers : WriteApplied(w) => Rev(w) \notin applied
    BY DEF Once, WriteApplied, Rev
  <1> QED
    BY HeldInit, HeldStep, TruthStep, OrderInit, OnceInit, <1>1, <1>2, <1>3, PTL
    DEF Spec, AppliedOnce

-----------------------------------------------------------------------------
(* Attempts are bounded.                                                    *)

\* A row nobody holds has an attempt to spare; a worker about to requeue has
\* just found one.
Budget == /\ \A r \in Revisions :
                /\ rows[r].attempts <= MaxAttempts + crashes
                /\ Open(r) /\ (\A w \in Workers : ~Holds(w, r)) =>
                      rows[r].attempts < MaxAttempts + crashes
          /\ \A w \in Workers :
                jobs[w].at = "requeue" => rows[jobs[w].rev].attempts < MaxAttempts

LEMMA BudgetInit == Init => Budget
  BY DEF Init, Budget, NoRow, Idle, Open, Pending, InFlight

\* A step that counts no attempt, opens no row and drops none.
LEMMA BudgetKept ==
    ASSUME Held, Budget, crashes' = crashes,
           \A r \in Revisions :
              /\ rows'[r].attempts = rows[r].attempts
              /\ Open(r)' => Open(r),
           \A w \in Workers, r \in Revisions :
              Holds(w, r) /\ Open(r)' => Holds(w, r)',
           \A w \in Workers : jobs'[w].at = "requeue" =>
              /\ jobs'[w].rev \in Revisions
              /\ rows[jobs'[w].rev].attempts < MaxAttempts
    PROVE  Budget'
  <1> HIDE DEF Revisions
  <1> QED BY DEF Budget

LEMMA BudgetStep == Held /\ Budget /\ [Next]_vars => Budget'
  <1> SUFFICES ASSUME Held, Budget, [Next]_vars PROVE Budget'
    OBVIOUS
  <1>a. /\ TypeInv /\ jobs \in [Workers -> Job] /\ rows \in [Revisions -> Row]
        /\ crashes \in Nat /\ latest \in 0..MaxRev
        /\ \A r \in Revisions : rows[r].attempts \in Nat
    BY DEF Held, TypeInv, TypeOK, Row
  <1>b. \A w \in Workers : jobs[w].at \in Sending => jobs[w].rev \in Revisions
    BY HeldIsQueued
  <1>c. \A w \in Workers : jobs[w].at = "requeue" =>
           jobs[w].rev \in Revisions /\ rows[jobs[w].rev].attempts < MaxAttempts
    BY <1>b DEF Budget
  <1>1. ASSUME NEW v \in Values, Enqueue(v) PROVE Budget'
    <2>1. latest + 1 \in Revisions BY <1>1, <1>a DEF Enqueue
    <2>2. /\ crashes' = crashes /\ jobs' = jobs
          /\ rows'[latest + 1] = NewRow(v)
          /\ \A r \in Revisions \ {latest + 1} : rows'[r] = RetirePending("superseded")[r]
      BY <1>1, <2>1 DEF Enqueue, RetirePending
    <2>3. rows'[latest + 1].attempts = 0 BY <2>2 DEF NewRow
    <2>4. \A r \in Revisions \ {latest + 1} :
             rows'[r].attempts = rows[r].attempts /\ (Open(r)' => Open(r))
      BY <1>a, <2>2 DEF RetirePending, Open, Pending, InFlight, Row
    <2>5. \A w \in Workers : jobs[w].at = "requeue" => jobs[w].rev # latest + 1
      BY <1>a, HeldIsQueued
    <2> HIDE DEF Revisions
    <2> QED BY <1>a, <1>c, <2>1, <2>2, <2>3, <2>4, <2>5 DEF Budget, Holds
  <1>2. CASE Stop
    <2> HIDE DEF Revisions
    <2>1. \A r \in Revisions :
             rows'[r].attempts = rows[r].attempts /\ (Open(r)' => Open(r))
      BY <1>2, <1>a DEF Stop, RetirePending, Open, Pending, InFlight, Row
    <2> QED BY <1>2, <1>c, <2>1, BudgetKept DEF Stop, Holds
  <1>3. ASSUME NEW r \in Revisions, Ripen(r) PROVE Budget'
    <2> HIDE DEF Revisions
    <2>1. \A s \in Revisions :
             rows'[s].attempts = rows[s].attempts /\ (Open(s)' => Open(s))
      BY <1>3, <1>a DEF Ripen, Open, Pending, InFlight, Row
    <2> QED BY <1>3, <1>c, <2>1, BudgetKept DEF Ripen, Holds
  <1>4. ASSUME NEW w \in Workers, StartSweep(w) PROVE Budget'
    <2> HIDE DEF Revisions
    <2>1. \A s \in Revisions :
             rows'[s].attempts = rows[s].attempts /\ (Open(s)' => Open(s))
      BY <1>4, <1>a DEF StartSweep, Abandoned, Open, Pending, InFlight, Row
    <2>2. \A x \in Workers : jobs'[x] = jobs[x] \/ (x = w /\ jobs'[x].at = "list")
      BY <1>4, <1>a DEF StartSweep, Job
    <2>3. crashes' = crashes /\ jobs[w].at = "idle"
      BY <1>4 DEF StartSweep
    <2> QED BY <1>c, <2>1, <2>2, <2>3, BudgetKept DEF Holds
  <1>5. ASSUME NEW w \in Workers, Claim(w) PROVE Budget'
    <2>0. PICK q \in Revisions : q = jobs[w].rev
      BY <1>5 DEF Claim, TypeInv, Numbered, Held
    <2>1. Pending(q) /\ (\A x \in Workers : ~Holds(x, q))
      BY <1>5, <1>a, <2>0 DEF Claim, Claimable, Rev, Pending, Holds, Held,
                              ClaimInv, HeldInv
    <2> HIDE DEF Revisions
    <2>2. /\ rows'[q].attempts = rows[q].attempts + 1 /\ crashes' = crashes
          /\ \A r \in Revisions \ {q} : rows'[r] = rows[r]
      BY <1>5, <1>a, <2>0 DEF Claim, Rev, Row
    <2>3. rows[q].attempts < MaxAttempts + crashes
      BY <2>1 DEF Budget, Open
    <2>4. Holds(w, q)' /\ (\A x \in Workers : x # w => jobs'[x] = jobs[x])
          /\ jobs'[w].at = "load" /\ jobs[w].at = "run"
      BY <1>5, <1>a, <2>0 DEF Claim, GoTo, Holds, Job
    <2>5. \A x \in Workers : jobs[x].at = "requeue" => jobs[x].rev # q
      BY <2>1 DEF Holds
    <2>6. \A r \in Revisions :
             /\ rows'[r].attempts <= MaxAttempts + crashes'
             /\ Open(r)' /\ (\A x \in Workers : ~Holds(x, r)') =>
                   rows'[r].attempts < MaxAttempts + crashes'
      <3>1. ASSUME NEW r \in Revisions, r = q
            PROVE  /\ rows'[r].attempts <= MaxAttempts + crashes'
                   /\ Holds(w, r)'
        <4>1. rows[q].attempts \in Nat BY <1>a
        <4> QED BY <3>1, <1>a, <2>2, <2>3, <2>4, <4>1
      <3>2. ASSUME NEW r \in Revisions, r # q, Open(r)',
                   \A x \in Workers : ~Holds(x, r)'
            PROVE  rows[r].attempts < MaxAttempts + crashes
        <4>1. Open(r) BY <3>2, <2>2 DEF Open, Pending, InFlight
        <4>2. \A x \in Workers : ~Holds(x, r) BY <3>2, <2>4 DEF Holds
        <4> QED BY <4>1, <4>2 DEF Budget
      <3> QED BY <3>1, <3>2, <2>2 DEF Budget
    <2>7. \A x \in Workers :
             jobs'[x].at = "requeue" => rows'[jobs'[x].rev].attempts < MaxAttempts
      BY <1>c, <2>2, <2>4, <2>5
    <2> QED BY <2>6, <2>7 DEF Budget
  <1>6. ASSUME NEW w \in Workers, Requeue(w) \/ Finish(w) PROVE Budget'
    <2>0. PICK q \in Revisions : q = jobs[w].rev
      BY <1>6, <1>b DEF Requeue, Finish
    <2>1. /\ jobs[w].at \in Sending
          /\ \A x \in Workers : x # w => jobs'[x] = jobs[x]
          /\ jobs'[w].at \notin Sending
      BY <1>6, <1>a, <1>b, MovedOn DEF Requeue, Finish
    <2> HIDE DEF Revisions
    <2>2. /\ crashes' = crashes
          /\ rows'[q].attempts = rows[q].attempts
          /\ \A r \in Revisions \ {q} : rows'[r] = rows[r]
      BY <1>6, <1>a, <2>0 DEF Requeue, Finish, Rev, Row
    <2>3. Requeue(w) => rows[q].attempts < MaxAttempts
      BY <1>c, <2>0 DEF Requeue
    <2>4. Finish(w) => ~Open(q)'
      BY <1>a, <2>0 DEF Finish, Rev, Row, Open, Pending, InFlight
    <2>5. \A r \in Revisions \ {q}, x \in Workers : Holds(x, r) => Holds(x, r)'
      BY <2>0, <2>1 DEF Holds
    <2>6. ASSUME NEW r \in Revisions
          PROVE  /\ rows'[r].attempts <= MaxAttempts + crashes'
                 /\ Open(r)' /\ (\A x \in Workers : ~Holds(x, r)') =>
                       rows'[r].attempts < MaxAttempts + crashes'
      <3>1. CASE r = q
        <4>1. rows[q].attempts <= MaxAttempts + crashes BY DEF Budget
        <4>2. rows[q].attempts \in Nat BY <1>a
        <4> QED BY <3>1, <1>6, <1>a, <2>2, <2>3, <2>4, <4>1, <4>2
      <3>2. CASE r # q
        <4>1. rows'[r] = rows[r] /\ (Open(r)' => Open(r))
          BY <3>2, <2>2 DEF Open, Pending, InFlight
        <4> QED BY <3>2, <4>1, <2>2, <2>5 DEF Budget
      <3> QED BY <3>1, <3>2
    <2>7. \A x \in Workers :
             jobs'[x].at = "requeue" => rows'[jobs'[x].rev].attempts < MaxAttempts
      BY <1>c, <2>0, <2>1, <2>2
    <2> QED BY <2>6, <2>7 DEF Budget
  <1>7. ASSUME NEW w \in Workers, Crash(w) PROVE Budget'
    <2>1. /\ crashes' = crashes + 1 /\ rows' = rows
          /\ \A x \in Workers : jobs'[x] = jobs[x] \/ jobs'[x].at = "idle"
      BY <1>7, <1>a DEF Crash, Idle
    <2> HIDE DEF Revisions
    <2> QED BY <1>a, <1>c, <2>1 DEF Budget
  <1>8. ASSUME NEW w \in Workers, Reschedule(w) PROVE Budget'
    <2>1. /\ rows' = rows /\ crashes' = crashes
          /\ jobs'[w].rev = jobs[w].rev
          /\ jobs[w].at \in Sending /\ jobs'[w].at \in Sending
          /\ \A x \in Workers : x # w => jobs'[x] = jobs[x]
          /\ jobs'[w].at = "requeue" => ~(rows[jobs[w].rev].attempts >= MaxAttempts)
      BY <1>8, <1>a DEF Reschedule, Exhausted, Delivery, Rev, GoTo, Job
    <2>2. jobs'[w].at = "requeue" =>
             jobs[w].rev \in Revisions /\ rows[jobs[w].rev].attempts < MaxAttempts
      BY <1>a, <1>b, <2>1
    <2> HIDE DEF Revisions
    <2> QED BY <1>c, <2>1, <2>2, BudgetKept DEF Holds, Open, Pending, InFlight
  <1>9. ASSUME NEW w \in Workers, \/ Load(w) \/ CheckSuperseded(w) \/ Read(w)
                                  \/ WriteApplied(w) \/ WriteRefused(w) \/ ReadBack(w)
        PROVE  Budget'
    <2>1. /\ rows' = rows /\ crashes' = crashes
          /\ jobs'[w].rev = jobs[w].rev
          /\ jobs[w].at \in Sending /\ jobs'[w].at \in Sending \ {"requeue"}
          /\ \A x \in Workers : x # w => jobs'[x] = jobs[x]
      BY <1>9, <1>a DEF Load, CheckSuperseded, Resolve, Read, WriteApplied, Written,
                        WriteRefused, ReadBack, GoTo, Job
    <2> HIDE DEF Revisions
    <2> QED BY <1>c, <2>1, BudgetKept DEF Holds, Open, Pending, InFlight
  <1>10. ASSUME NEW w \in Workers, \/ \E r \in Revisions : TakeKick(w, r)
                                   \/ ListDue(w) \/ ClaimRefused(w)
         PROVE  Budget'
    <2>1. PICK T : MoveOn(w, T)
      BY <1>10 DEF TakeKick, ListDue, ClaimRefused
    <2>2. /\ rows' = rows /\ crashes' = crashes /\ jobs[w].at \notin Sending
          /\ jobs'[w].at \notin Sending
          /\ \A x \in Workers : x # w => jobs'[x] = jobs[x]
      BY <1>10, <1>a, <2>1, MovedOn DEF TakeKick, ListDue, ClaimRefused
    <2> HIDE DEF Revisions
    <2> QED BY <1>c, <2>2, BudgetKept DEF Holds, Open, Pending, InFlight
  <1>11. CASE UNCHANGED <<rows, jobs, crashes>>
    <2> HIDE DEF Revisions
    <2> QED BY <1>11, <1>c, BudgetKept DEF Holds, Open, Pending, InFlight
  <1> QED
    BY <1>1, <1>2, <1>3, <1>4, <1>5, <1>6, <1>7, <1>8, <1>9, <1>10, <1>11
    DEF Next, Step, Attempt, vars, Resume, LoseKick

\* No row is attempted more often than the limit allows, plus once for every
\* worker that died.
THEOREM AttemptsAreBounded == Spec => []RetryBudget
  <1>1. Budget => RetryBudget BY DEF Budget, RetryBudget
  <1> QED BY HeldInit, HeldStep, BudgetInit, BudgetStep, <1>1, PTL DEF Spec

-----------------------------------------------------------------------------
(* A rating's outbox implements the contract.                               *)

\* A worker about to record "superseded" has seen a newer revision.
Replaced == \A w \in Workers : jobs[w].at = "superseded" => jobs[w].rev < latest

LEMMA ReplacedStep == Held /\ Replaced /\ [Next]_vars => Replaced'
  <1> SUFFICES ASSUME Held, Replaced, [Next]_vars, NEW w \in Workers,
                      jobs'[w].at = "superseded"
               PROVE  jobs'[w].rev < latest'
    BY DEF Replaced
  <1>a. jobs \in [Workers -> Job] /\ TypeInv /\ latest \in 0..MaxRev
    BY DEF Held, TypeInv, TypeOK
  <1>b. latest' \in Nat /\ latest' >= latest
    BY <1>a, OnlyEditsNumber DEF Enqueue
  <1>1. jobs'[w].rev = jobs[w].rev /\ jobs[w].rev \in Nat /\ jobs[w].rev < latest
    <2>1. CASE jobs'[w] = jobs[w]
      BY <1>a, <2>1 DEF Replaced, Job
    <2>2. CASE jobs'[w] # jobs[w]
      <3>1. /\ jobs'[w].rev = jobs[w].rev
            /\ \/ Claim(w) \/ Load(w) \/ CheckSuperseded(w) \/ Read(w)
               \/ WriteApplied(w) \/ WriteRefused(w) \/ ReadBack(w)
               \/ Reschedule(w)
        BY <1>a, <2>2, Arrivals
      <3>2. CheckSuperseded(w) \/ Reschedule(w)
        BY <1>a, <3>1 DEF Claim, Load, Resolve, Read, WriteApplied, Written,
                          WriteRefused, ReadBack, GoTo, Job
      <3>3. Superseded(jobs[w].rev)
        BY <1>a, <3>2 DEF CheckSuperseded, Resolve, Reschedule, GoTo, Rev, Job
      <3> QED BY <1>a, <3>1, <3>3 DEF Superseded, Job
    <2> QED BY <2>1, <2>2
  <1> QED BY <1>a, <1>b, <1>1

LEMMA ContractInit == Init => Contract!Init
  BY DEF Init, Contract!Init, Contract!Edits, NoRow, FateOf

\* What the contract sees of a step that opens, closes and revalues no row.
LEMMA Unseen ==
    ASSUME latest' = latest, remote' = remote,
           \A r \in Revisions : /\ rows'[r].value = rows[r].value
                                /\ FateOf(rows'[r].status) = FateOf(rows[r].status)
    PROVE  UNCHANGED Contract!vars
  BY DEF Contract!vars

\* Each step of the outbox is a step of the contract, or none.
LEMMA ContractStep ==
    /\ Operation = "rating"
    /\ Held /\ Truth /\ OrderInv /\ Replaced /\ [Next]_vars
    => [Contract!Next]_(Contract!vars)
  <1> SUFFICES ASSUME Operation = "rating", Held, Truth, OrderInv, Replaced,
                      [Next]_vars
               PROVE  Contract!Next \/ UNCHANGED Contract!vars
    OBVIOUS
  <1>a. /\ TypeInv /\ jobs \in [Workers -> Job] /\ rows \in [Revisions -> Row]
        /\ latest \in 0..MaxRev
    BY DEF Held, TypeInv, TypeOK
  <1>b. \A r \in Revisions : FateOf(rows[r].status) = "open" <=> Open(r)
    BY <1>a DEF FateOf, Open, Pending, InFlight, Row, Statuses
  <1>1. ASSUME NEW v \in Values, Enqueue(v) PROVE Contract!Next
    <2> DEFINE gone == {r \in Revisions : Pending(r)}
    <2>1. latest + 1 \in Revisions /\ latest < MaxRev BY <1>1, <1>a DEF Enqueue
    <2>2. gone \in SUBSET Contract!Open
      BY <1>b DEF Contract!Open, Contract!Edits, Open
    <2>3. \A r \in Revisions :
             /\ rows'[r].value = IF r = latest + 1 THEN v ELSE rows[r].value
             /\ FateOf(rows'[r].status) = IF r = latest + 1 THEN "open"
                                          ELSE IF r \in gone THEN "replaced"
                                          ELSE FateOf(rows[r].status)
      <3>1. ASSUME NEW r \in Revisions, r = latest + 1
            PROVE  rows'[r].value = v /\ FateOf(rows'[r].status) = "open"
        BY <3>1, <1>1 DEF Enqueue, RetirePending, NewRow, FateOf
      <3>2. ASSUME NEW r \in Revisions, r # latest + 1
            PROVE  /\ rows'[r].value = rows[r].value
                   /\ FateOf(rows'[r].status) =
                         IF r \in gone THEN "replaced" ELSE FateOf(rows[r].status)
        <4>1. rows'[r] = RetirePending("superseded")[r]
          BY <3>2, <1>1 DEF Enqueue, RetirePending
        <4>2. CASE Pending(r)
          BY <1>a, <4>1, <4>2 DEF RetirePending, FateOf, Row
        <4>3. CASE ~Pending(r)
          BY <4>1, <4>3 DEF RetirePending
        <4> QED BY <4>2, <4>3
      <3> QED BY <3>1, <3>2
    <2> HIDE DEF gone
    <2>4. Contract!Edit(v)
      BY <1>1, <2>1, <2>2, <2>3 DEF Enqueue, Contract!Edit, Contract!Edits
    <2> QED BY <2>4 DEF Contract!Next
  <1>2. CASE Stop
    <2> DEFINE gone == {r \in Revisions : Pending(r)}
    <2>1. gone \in SUBSET Contract!Open
      BY <1>b DEF Contract!Open, Contract!Edits, Open
    <2>2. \A r \in Revisions :
             /\ rows'[r].value = rows[r].value
             /\ FateOf(rows'[r].status) =
                   IF r \in gone THEN "dropped" ELSE FateOf(rows[r].status)
      <3> SUFFICES ASSUME NEW r \in Revisions
                   PROVE  /\ rows'[r].value = rows[r].value
                          /\ FateOf(rows'[r].status) =
                                IF r \in gone THEN "dropped" ELSE FateOf(rows[r].status)
        OBVIOUS
      <3>1. CASE Pending(r)
        BY <1>a, <1>2, <3>1 DEF Stop, RetirePending, FateOf, Row
      <3>2. CASE ~Pending(r)
        BY <1>2, <3>2 DEF Stop, RetirePending
      <3> QED BY <3>1, <3>2
    <2> HIDE DEF gone
    <2>3. Contract!Withdraw
      BY <1>2, <2>1, <2>2 DEF Stop, Contract!Withdraw, Contract!Edits
    <2> QED BY <2>3 DEF Contract!Next
  <1>3. ASSUME NEW r \in Revisions, Ripen(r) PROVE UNCHANGED Contract!vars
    <2>1. \A s \in Revisions :
             rows'[s].value = rows[s].value /\ rows'[s].status = rows[s].status
      BY <1>3, <1>a DEF Ripen, Row
    <2> QED BY <1>3, <2>1, Unseen DEF Ripen
  <1>4. ASSUME NEW w \in Workers, StartSweep(w) PROVE UNCHANGED Contract!vars
    <2>1. ASSUME NEW r \in Revisions
          PROVE  /\ rows'[r].value = rows[r].value
                 /\ FateOf(rows'[r].status) = FateOf(rows[r].status)
      <3>1. CASE Abandoned(r)
        BY <3>1, <1>4, <1>a DEF StartSweep, Abandoned, InFlight, FateOf, Row
      <3>2. CASE ~Abandoned(r)
        BY <3>2, <1>4 DEF StartSweep
      <3> QED BY <3>1, <3>2
    <2> QED BY <1>4, <2>1, Unseen DEF StartSweep
  <1>5. ASSUME NEW w \in Workers, Claim(w) PROVE UNCHANGED Contract!vars
    <2>1. PICK q \in Revisions : q = jobs[w].rev
      BY <1>5, <1>a DEF Claim, TypeInv, Numbered
    <2>2. rows[q].status = "pending" /\ rows'[q].status = "in_flight"
          /\ rows'[q].value = rows[q].value
          /\ \A r \in Revisions \ {q} : rows'[r] = rows[r]
      <3> HIDE DEF Revisions
      <3> QED BY <1>5, <1>a, <2>1 DEF Claim, Claimable, Pending, Rev, Row
    <2>3. FateOf("pending") = FateOf("in_flight") BY DEF FateOf
    <2> QED BY <1>5, <2>2, <2>3, Unseen DEF Claim
  <1>6. ASSUME NEW w \in Workers, Requeue(w) PROVE UNCHANGED Contract!vars
    <2>1. PICK q \in Revisions : q = jobs[w].rev
      BY <1>6, HeldIsQueued DEF Requeue
    <2>2. rows[q].status = "in_flight" /\ rows'[q].status = "pending"
          /\ rows'[q].value = rows[q].value
          /\ \A r \in Revisions \ {q} : rows'[r] = rows[r]
      <3> HIDE DEF Revisions
      <3> QED BY <1>6, <1>a, <2>1 DEF Requeue, Rev, Row, Held, ClaimInv, HeldInv
    <2>3. FateOf("pending") = FateOf("in_flight") BY DEF FateOf
    <2> QED BY <1>6, <2>2, <2>3, Unseen DEF Requeue
  <1>7. ASSUME NEW w \in Workers, Finish(w) PROVE Contract!Next
    <2> DEFINE f == FateOf(jobs[w].at)
    <2>1. PICK q \in Revisions : q = jobs[w].rev
      BY <1>7, HeldIsQueued DEF Finish
    <2>2. rows[q].status = "in_flight" /\ jobs[w].at \in Outcomes
      BY <1>7, <2>1 DEF Finish, Held, ClaimInv, HeldInv
    <2>3. /\ rows'[q].status = jobs[w].at /\ rows'[q].value = rows[q].value
          /\ \A r \in Revisions \ {q} : rows'[r] = rows[r]
      <3> HIDE DEF Revisions
      <3> QED BY <1>7, <1>a, <2>1 DEF Finish, Rev, Row
    <2>4. /\ f \in {"told", "replaced", "dropped"}
          /\ f = "told" => jobs[w].at = "delivered"
          /\ f = "replaced" => jobs[w].at = "superseded"
      BY <2>2 DEF FateOf
    <2>5. /\ f = "told" => remote.value = rows[q].value
          /\ f = "replaced" => q < latest
      BY <2>1, <2>4 DEF Truth, Replaced
    <2>6. FateOf(rows[q].status) = "open" BY <1>b, <2>2 DEF Open, InFlight
    <2>7. UNCHANGED <<latest, remote>> BY <1>7 DEF Finish
    <2>8. PICK g \in {"told", "replaced", "dropped"} : g = f /\ g = FateOf(rows'[q].status)
      BY <2>3, <2>4
    <2> HIDE DEF f
    <2>9. Contract!Close(q, g)
      BY <2>3, <2>5, <2>6, <2>7, <2>8 DEF Contract!Close, Contract!Edits
    <2> QED BY <2>8, <2>9 DEF Contract!Next, Contract!Edits
  <1>8. ASSUME NEW w \in Workers, WriteApplied(w) PROVE Contract!Next
    <2>1. PICK q \in Revisions : q = jobs[w].rev
      BY <1>8, HeldIsQueued DEF WriteApplied
    <2>2. FateOf(rows[q].status) = "open"
      BY <1>8, <1>b, <2>1 DEF WriteApplied, Held, ClaimInv, HeldInv, Open, InFlight
    <2>3. remote.rev <= q
      BY <1>8, <2>1 DEF WriteApplied, OrderInv, Ordered
    <2>4. /\ remote' = [rev |-> q, value |-> rows[q].value]
          /\ UNCHANGED <<latest, rows>>
      BY <1>8, <2>1 DEF WriteApplied, Delivery, Rev
    <2>5. Contract!Show(q)
      BY <2>2, <2>3, <2>4, <1>a DEF Contract!Show, Contract!Edits, Held, TypeInv, TypeOK
    <2> QED BY <2>5 DEF Contract!Next, Contract!Edits
  <1>9. CASE UNCHANGED <<latest, rows, remote>>
    BY <1>9, Unseen
  <1> QED
    BY <1>1, <1>2, <1>3, <1>4, <1>5, <1>6, <1>7, <1>8, <1>9
    DEF Next, Step, Attempt, vars, Resume, LoseKick, TakeKick, ListDue,
        ClaimRefused, Load, CheckSuperseded, Read, WriteRefused, ReadBack,
        Reschedule, Crash

\* A rating's outbox implements OutboundContract: edits are shown in order, and
\* each ends once, told, replaced or dropped, and says what happened.
THEOREM RatingsKeepTheContract ==
    ASSUME Operation = "rating" PROVE Spec => KeepsContract
  <1>1. Init => Replaced BY DEF Init, Replaced, Idle
  <1>2. Held /\ Truth /\ OrderInv /\ [Next]_vars => OrderInv' BY OrderStep
  <1>3. Held /\ Truth /\ OrderInv /\ Replaced /\ [Next]_vars
           => [Contract!Next]_(Contract!vars)
    BY ContractStep
  <1> QED
    BY HeldInit, HeldStep, TruthStep, OrderInit, ReplacedStep, ContractInit,
       <1>1, <1>2, <1>3, PTL
    DEF Spec, KeepsContract, Contract!Spec

-----------------------------------------------------------------------------
(* Outcomes are final.                                                      *)

\* A step leaves the status of a settled row alone: an edit takes a number no
\* row has, what retires or claims rows takes waiting ones, and a worker that
\* puts its row back or records an outcome still has that row in flight.
LEMMA SettledStays ==
    ASSUME Held, [Next]_vars, NEW r \in Revisions, rows[r].status \in Outcomes
    PROVE  rows'[r].status = rows[r].status
  <1>a. rows \in [Revisions -> Row] /\ latest \in Nat
    BY OutboxAssumption DEF Held, TypeInv, TypeOK
  <1>b. rows[r].status \notin {"none", "pending", "in_flight"}
    BY DEF Outcomes
  <1>1. ASSUME NEW v \in Values, Enqueue(v) PROVE rows'[r].status = rows[r].status
    <2>1. r <= latest BY <1>b DEF Held, Numbering
    <2>2. r # latest + 1 BY <2>1, <1>a DEF Revisions
    <2> HIDE DEF Revisions
    <2> QED BY <1>1, <1>a, <1>b, <2>2 DEF Enqueue, RetirePending, Pending
  <1> HIDE DEF Revisions
  <1>2. ASSUME Stop PROVE rows'[r].status = rows[r].status
    BY <1>2, <1>a, <1>b DEF Stop, RetirePending, Pending
  <1>3. ASSUME NEW s \in Revisions, Ripen(s) PROVE rows'[r].status = rows[r].status
    BY <1>3, <1>a DEF Ripen, Row
  <1>4. ASSUME NEW w \in Workers, StartSweep(w)
        PROVE  rows'[r].status = rows[r].status
    BY <1>4, <1>a, <1>b DEF StartSweep, Abandoned, InFlight
  <1>5. ASSUME NEW w \in Workers, Claim(w) PROVE rows'[r].status = rows[r].status
    <2>1. Rev(w) # r BY <1>5, <1>b DEF Claim, Claimable, Pending
    <2> QED BY <1>5, <1>a, <2>1 DEF Claim
  <1>6. ASSUME NEW w \in Workers, Requeue(w) \/ Finish(w)
        PROVE  rows'[r].status = rows[r].status
    <2>1. jobs[w].at \in Sending BY <1>6 DEF Requeue, Finish, Sending
    <2>2. Rev(w) # r BY <2>1, <1>b DEF Held, ClaimInv, HeldInv, Rev
    <2> QED BY <1>6, <1>a, <2>2 DEF Requeue, Finish
  <1>7. CASE UNCHANGED rows
    BY <1>7
  <1> QED
    BY <1>1, <1>2, <1>3, <1>4, <1>5, <1>6, <1>7
    DEF Next, Step, Attempt, vars, Resume, LoseKick, TakeKick, ListDue,
        ClaimRefused, Load, CheckSuperseded, Read, WriteApplied, WriteRefused,
        ReadBack, Reschedule, Crash

\* An outcome is final, for ratings and watched flags alike: no sweep, late
\* worker or pause reopens a settled row.
THEOREM FinalOutcomes == Spec => OutcomesAreFinal
  <1>1. Held /\ [Next]_vars =>
          \A r \in Revisions : rows[r].status \in Outcomes
                                 => rows'[r].status = rows[r].status
    BY SettledStays
  <1> QED BY HeldInit, HeldStep, <1>1, PTL DEF Spec, OutcomesAreFinal
=============================================================================

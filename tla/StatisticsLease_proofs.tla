------------------------ MODULE StatisticsLease_proofs ------------------------
(***************************************************************************)
(* Proofs about the lease of StatisticsSync: what a pass may do without it *)
(* (nothing durable), what it brings about with it, and that what ranges   *)
(* show keeps the contract of module StatisticsContract.                   *)
(***************************************************************************)
EXTENDS StatisticsSync_proofs

USE DEF srcVars, dayVars, markVars, syncedVars, actorVars, passVars,
        passFrame, finishFrame, importFrame

-----------------------------------------------------------------------------
(* What the deployments that these theorems are about provide *)

\* The range aggregate between two renewals of the lease.
Aggregate == {"plan", "ranges", "collect", "late", "lateBuilt"}

\* It finishes within the lease that the pass has just renewed.
Timely == SlowAt \cap Aggregate = {}

\* Nobody looks at a custom range, whose days are built without a lease.
NoReaders == Readers = {}

-----------------------------------------------------------------------------
(* Where a step takes a pass and its local variables, field by field *)

\* What was read with the state row, and with the days.
SameState(p, q) ==
    /\ q.only = p.only /\ q.gen = p.gen /\ q.day = p.day
    /\ q.stamp = p.stamp /\ q.sweep = p.sweep /\ q.full = p.full
    /\ q.heavyDue = p.heavyDue
SameDays(p, q)  == q.toks = p.toks /\ q.work = p.work
SameBuilt(p, q) == q.built = p.built /\ q.version = p.version

\* The range in progress and what has been read for it.
SameRange(p, q) ==
    q.cur = p.cur /\ q.window = p.window /\ q.left = p.left

Others(w) == \A u \in Workers : u # w => pc'[u] = pc[u] /\ pass'[u] = pass[u]

LEMMA GotoMoves ==
    ASSUME PassOK, NEW w \in Workers, NEW p, NEW q, Goto(w, p, q)
    PROVE  pc'[w] = p /\ pass'[w] = q /\ Others(w)
  BY DEF PassOK, Goto, Others

\* A pass that is about to start or has ended remembers nothing.
LEMMA IdleFields ==
    /\ Idle.only = NoRange /\ Idle.gen = 0 /\ Idle.day = NoDay
    /\ Idle.stamp = 0 /\ Idle.sweep = 0 /\ Idle.full = FALSE
    /\ Idle.toks = [d \in Days |-> 0] /\ Idle.work = {}
    /\ Idle.built = NoDay /\ Idle.todo = {}
  BY DEF Idle

LEMMA ClaimMoves ==
    ASSUME PassOK, NEW w \in Workers, Claim(w)
    PROVE  LET p == pass[w] q == pass'[w] IN
           /\ pc'[w] = "claimed" /\ Others(w)
           /\ q.day = today /\ q.stamp = sweeps
           /\ q.only = p.only /\ q.gen = p.gen /\ q.sweep = p.sweep
           /\ q.full = p.full /\ q.heavyDue = p.heavyDue
           /\ SameDays(p, q) /\ SameBuilt(p, q) /\ SameRange(p, q)
           /\ q.todo = p.todo /\ q.read = p.read
  <1> DEFINE q == [pass[w] EXCEPT !.day = today, !.stamp = sweeps]
  <1>1. pc'[w] = "claimed" /\ pass'[w] = q /\ Others(w)
    BY GotoMoves DEF Claim
  <1>2. pass[w] \in Pass BY DEF PassOK
  <1>3. QED
    BY <1>1, <1>2 DEF Pass, SameDays, SameBuilt, SameRange

LEMMA ReadStateMoves ==
    ASSUME PassOK, NEW w \in Workers, ReadState(w)
    PROVE  LET p == pass[w] q == pass'[w] IN
           /\ pc'[w] = IF sweep # 0 /\ epoch # sweep THEN "prepare" ELSE "tokens"
           /\ Others(w)
           /\ q.gen = generation /\ q.sweep = sweep
           /\ q.full = (sweep # 0 \/ epoch = Absent)
           /\ q.only = p.only /\ q.day = p.day /\ q.stamp = p.stamp
           /\ SameDays(p, q) /\ SameBuilt(p, q) /\ SameRange(p, q)
           /\ q.todo = p.todo /\ q.read = p.read
  <1> DEFINE full == sweep # 0 \/ epoch = Absent
             due == \/ full \/ syncedDay # pass[w].day
                    \/ heavyGen < generation /\ (settled \/ heavyGen = 0)
             q == [pass[w] EXCEPT !.gen = generation, !.sweep = sweep,
                                  !.full = full, !.heavyDue = due]
  <1>1. /\ pc'[w] = IF sweep # 0 /\ epoch # sweep THEN "prepare" ELSE "tokens"
        /\ pass'[w] = q /\ Others(w)
    BY GotoMoves DEF ReadState
  <1>2. pass[w] \in Pass BY DEF PassOK
  <1> HIDE DEF due, full
  <1>4. /\ q.gen = generation /\ q.sweep = sweep /\ q.full = full
        /\ q.only = pass[w].only /\ q.day = pass[w].day
        /\ q.stamp = pass[w].stamp
        /\ SameDays(pass[w], q) /\ SameBuilt(pass[w], q)
        /\ SameRange(pass[w], q)
        /\ q.todo = pass[w].todo /\ q.read = pass[w].read
    BY <1>2 DEF Pass, SameDays, SameBuilt, SameRange
  <1> HIDE DEF q
  <1>3. QED
    BY <1>1, <1>4 DEF full

LEMMA ReadTokensMoves ==
    ASSUME PassOK, NEW w \in Workers, ReadTokens(w)
    PROVE  LET p == pass[w] q == pass'[w] IN
           /\ pc'[w] = NextDays(p, q.work) /\ Others(w)
           /\ q.toks = dirty
           /\ q.work = DirtyDays(dirty)
                         \cup (IF p.sweep # 0 THEN MissingDays(WarmDays(p.day))
                                              ELSE WarmDays(p.day))
                         \cup (IF p.full THEN MissingDays(Days) ELSE {})
           /\ SameState(p, q) /\ SameBuilt(p, q) /\ SameRange(p, q)
           /\ q.todo = p.todo /\ q.read = p.read
  <1> DEFINE warm == IF pass[w].sweep # 0 THEN MissingDays(WarmDays(pass[w].day))
                                          ELSE WarmDays(pass[w].day)
             all  == IF pass[w].full THEN MissingDays(Days) ELSE {}
             work == DirtyDays(dirty) \cup warm \cup all
             q == [pass[w] EXCEPT !.toks = dirty, !.work = work]
  <1>1. pc'[w] = NextDays(pass[w], work) /\ pass'[w] = q /\ Others(w)
    BY GotoMoves DEF ReadTokens
  <1>2. pass[w] \in Pass BY DEF PassOK
  <1> HIDE DEF work
  <1>3. /\ q.toks = dirty /\ q.work = work
        /\ SameState(pass[w], q) /\ SameBuilt(pass[w], q)
        /\ SameRange(pass[w], q)
        /\ q.todo = pass[w].todo /\ q.read = pass[w].read
    BY <1>2 DEF Pass, SameState, SameBuilt, SameRange
  <1> HIDE DEF q
  <1>4. QED
    BY <1>1, <1>3 DEF work

\* A pass builds a day of its work list, of the range it fills, or late.
LEMMA BuildMoves ==
    ASSUME PassOK, NEW w \in Workers,
           BuildDay(w) \/ BuildMissingDay(w) \/ BuildLateDay(w)
    PROVE  LET p == pass[w] q == pass'[w] IN
           /\ BuildDay(w) => pc'[w] = "built" /\ q.built \in p.work
           /\ BuildMissingDay(w) => pc'[w] = "filled" /\ q.built \in p.left
           /\ BuildLateDay(w) => pc'[w] = "lateBuilt" /\ q.built \in p.left
           /\ q.built \in Days /\ q.version = data[q.built] /\ Others(w)
           /\ SameState(p, q) /\ SameDays(p, q) /\ SameRange(p, q)
           /\ q.todo = p.todo /\ q.read = p.read
  <1> DEFINE q(d) == [pass[w] EXCEPT !.built = d, !.version = data[d]]
  <1>1. pass[w] \in Pass BY DEF PassOK
  <1>2. pass[w].work \subseteq Days /\ pass[w].left \subseteq Days
    BY <1>1 DEF Pass
  <1>3. PICK d \in Days :
           /\ pass'[w] = q(d) /\ Others(w)
           /\ BuildDay(w) => pc'[w] = "built" /\ d \in pass[w].work
           /\ BuildMissingDay(w) => pc'[w] = "filled" /\ d \in pass[w].left
           /\ BuildLateDay(w) => pc'[w] = "lateBuilt" /\ d \in pass[w].left
    <2>1. CASE BuildDay(w)
      <3>1. PICK d \in pass[w].work : Goto(w, "built", q(d))
        BY <2>1 DEF BuildDay
      <3>2. ~BuildMissingDay(w) /\ ~BuildLateDay(w)
        BY <2>1 DEF BuildDay, BuildMissingDay, BuildLateDay
      <3> HIDE DEF q
      <3>3. QED BY <3>1, <3>2, <1>2, GotoMoves
    <2>2. CASE BuildMissingDay(w)
      <3>1. PICK d \in pass[w].left : Goto(w, "filled", q(d))
        BY <2>2 DEF BuildMissingDay
      <3>2. ~BuildDay(w) /\ ~BuildLateDay(w)
        BY <2>2 DEF BuildDay, BuildMissingDay, BuildLateDay
      <3> HIDE DEF q
      <3>3. QED BY <3>1, <3>2, <1>2, GotoMoves
    <2>3. CASE BuildLateDay(w)
      <3>1. PICK d \in pass[w].left : Goto(w, "lateBuilt", q(d))
        BY <2>3 DEF BuildLateDay
      <3>2. ~BuildMissingDay(w) /\ ~BuildDay(w)
        BY <2>3 DEF BuildDay, BuildMissingDay, BuildLateDay
      <3> HIDE DEF q
      <3>3. QED BY <3>1, <3>2, <1>2, GotoMoves
    <2>4. QED BY <2>1, <2>2, <2>3
  <1>4. /\ q(d).built = d /\ q(d).version = data[d]
        /\ SameState(pass[w], q(d)) /\ SameDays(pass[w], q(d))
        /\ SameRange(pass[w], q(d))
        /\ q(d).todo = pass[w].todo /\ q(d).read = pass[w].read
    BY <1>1 DEF Pass, SameState, SameDays, SameRange
  <1> HIDE DEF q
  <1>5. QED
    BY <1>3, <1>4

LEMMA StoreDayMoves ==
    ASSUME PassOK, NEW w \in Workers, StoreDay(w)
    PROVE  LET p == pass[w] q == pass'[w] IN
           /\ pc'[w] = NextDays(p, q.work) /\ Others(w)
           /\ q.work = p.work \ {p.built} /\ q.toks = p.toks
           /\ SameState(p, q) /\ SameRange(p, q)
           /\ q.todo = p.todo /\ q.read = p.read
  <1> DEFINE q == [pass[w] EXCEPT !.work = @ \ {pass[w].built},
                                  !.built = NoDay, !.version = 0]
  <1>1. /\ pc'[w] = NextDays(pass[w], pass[w].work \ {pass[w].built})
        /\ pass'[w] = q /\ Others(w)
    BY GotoMoves DEF StoreDay
  <1>2. pass[w] \in Pass BY DEF PassOK
  <1>3. /\ q.work = pass[w].work \ {pass[w].built}
        /\ q.toks = pass[w].toks
        /\ SameState(pass[w], q) /\ SameRange(pass[w], q)
        /\ q.todo = pass[w].todo /\ q.read = pass[w].read
    BY <1>2 DEF Pass, SameState, SameRange
  <1> HIDE DEF q
  <1>4. QED
    BY <1>1, <1>3

\* These go on to the next point as they are.
LEMMA SamePassMoves ==
    ASSUME PassOK, NEW w \in Workers
    PROVE  /\ PrepareSweep(w) => pc'[w] = "tokens"
           /\ MarkEpoch(w) => pc'[w] = "plan"
           /\ CheckAfterPublish(w) => pc'[w] = NextRanges(pass[w], pass[w].todo)
           /\ ClearSweep(w) => pc'[w] = "record"
           /\ RecordMarkers(w) => pc'[w] = "release"
           /\ \/ PrepareSweep(w) \/ MarkEpoch(w) \/ CheckAfterPublish(w)
              \/ ClearSweep(w) \/ RecordMarkers(w)
              => pass'[w] = pass[w] /\ Others(w)
  BY GotoMoves DEF PrepareSweep, MarkEpoch, CheckAfterPublish, ClearSweep,
     RecordMarkers

LEMMA PlanRangesMoves ==
    ASSUME PassOK, NEW w \in Workers, PlanRanges(w)
    PROVE  LET p == pass[w] q == pass'[w] IN
           /\ pc'[w] = NextRanges(p, q.todo) /\ Others(w)
           /\ q.todo = IF p.only # NoRange THEN {p.only}
                       ELSE {r \in DueRanges(p) : NeedsRebuild(r, p)}
           /\ SameState(p, q) /\ SameDays(p, q) /\ SameBuilt(p, q)
           /\ SameRange(p, q) /\ q.read = p.read
  <1> DEFINE todo == IF pass[w].only # NoRange THEN {pass[w].only}
                     ELSE {r \in DueRanges(pass[w]) : NeedsRebuild(r, pass[w])}
             q == [pass[w] EXCEPT !.todo = todo]
  <1>1. pc'[w] = NextRanges(pass[w], todo) /\ pass'[w] = q /\ Others(w)
    BY GotoMoves DEF PlanRanges
  <1>2. pass[w] \in Pass BY DEF PassOK
  <1> HIDE DEF todo
  <1>3. /\ q.todo = todo
        /\ SameState(pass[w], q) /\ SameDays(pass[w], q)
        /\ SameBuilt(pass[w], q) /\ SameRange(pass[w], q)
        /\ q.read = pass[w].read
    BY <1>2 DEF Pass, SameState, SameDays, SameBuilt, SameRange
  <1> HIDE DEF q
  <1>4. QED
    BY <1>1, <1>3 DEF todo

LEMMA BeginRangeMoves ==
    ASSUME PassOK, NEW w \in Workers, BeginRange(w)
    PROVE  LET p == pass[w] q == pass'[w] IN
           /\ pc'[w] = IF q.left = {} THEN "collect" ELSE "fill"
           /\ Others(w)
           /\ q.cur \in p.todo /\ q.cur \in Ranges /\ q.window = today
           /\ q.left = MissingDays(Window[q.cur][today])
           /\ SameState(p, q) /\ SameDays(p, q) /\ SameBuilt(p, q)
           /\ q.todo = p.todo /\ q.read = p.read
  <1> DEFINE missing(r) == MissingDays(Window[r][today])
             q(r) == [pass[w] EXCEPT !.cur = r, !.window = today,
                                     !.left = missing(r)]
             at(r) == IF missing(r) = {} THEN "collect" ELSE "fill"
  <1>1. pass[w] \in Pass BY DEF PassOK
  <1>2. PICK r \in pass[w].todo : Goto(w, at(r), q(r))
    BY DEF BeginRange
  <1>3. r \in Ranges
    BY <1>1, <1>2 DEF Pass
  <1> HIDE DEF missing
  <1>4. /\ q(r).cur = r /\ q(r).window = today /\ q(r).left = missing(r)
        /\ SameState(pass[w], q(r)) /\ SameDays(pass[w], q(r))
        /\ SameBuilt(pass[w], q(r))
        /\ q(r).todo = pass[w].todo /\ q(r).read = pass[w].read
    BY <1>1 DEF Pass, SameState, SameDays, SameBuilt
  <1> HIDE DEF q
  <1>5. pc'[w] = at(r) /\ pass'[w] = q(r) /\ Others(w)
    BY <1>2, GotoMoves
  <1>6. QED
    BY <1>3, <1>4, <1>5 DEF missing

LEMMA StoreMissingDayMoves ==
    ASSUME PassOK, NEW w \in Workers, StoreMissingDay(w)
    PROVE  LET p == pass[w] q == pass'[w] IN
           /\ pc'[w] = IF p.left = {p.built} THEN "collect" ELSE "fill"
           /\ Others(w) /\ q.left = p.left \ {p.built}
           /\ q.cur = p.cur /\ q.window = p.window
           /\ SameState(p, q) /\ SameDays(p, q)
           /\ q.todo = p.todo /\ q.read = p.read
  <1> DEFINE q == [pass[w] EXCEPT !.left = @ \ {pass[w].built},
                                  !.built = NoDay, !.version = 0]
  <1>1. /\ pc'[w] = IF pass[w].left = {pass[w].built} THEN "collect" ELSE "fill"
        /\ pass'[w] = q /\ Others(w)
    BY GotoMoves DEF StoreMissingDay
  <1>2. pass[w] \in Pass BY DEF PassOK
  <1>3. /\ q.left = pass[w].left \ {pass[w].built}
        /\ q.cur = pass[w].cur /\ q.window = pass[w].window
        /\ SameState(pass[w], q) /\ SameDays(pass[w], q)
        /\ q.todo = pass[w].todo /\ q.read = pass[w].read
    BY <1>2 DEF Pass, SameState, SameDays
  <1> HIDE DEF q
  <1>4. QED
    BY <1>1, <1>3

LEMMA CollectMoves ==
    ASSUME PassOK, NEW w \in Workers, CollectPayloads(w)
    PROVE  LET p == pass[w] q == pass'[w] D == Window[p.cur][p.window] IN
           /\ pc'[w] = "late" /\ Others(w)
           /\ q.left = MissingDays(D)
           /\ q.read = [s \in Sources |-> IF s \in D THEN payload[s] ELSE Missing]
           /\ q.cur = p.cur /\ q.window = p.window
           /\ SameState(p, q) /\ SameDays(p, q) /\ SameBuilt(p, q)
           /\ q.todo = p.todo
  <1> DEFINE D == Window[pass[w].cur][pass[w].window]
             f == [s \in Sources |-> IF s \in D THEN payload[s] ELSE Missing]
             q == [pass[w] EXCEPT !.left = MissingDays(D), !.read = f]
  <1>1. pc'[w] = "late" /\ pass'[w] = q /\ Others(w)
    BY GotoMoves DEF CollectPayloads
  <1>2. pass[w] \in Pass BY DEF PassOK
  <1> HIDE DEF f, D
  <1>3. /\ q.left = MissingDays(D) /\ q.read = f
        /\ q.cur = pass[w].cur /\ q.window = pass[w].window
        /\ SameState(pass[w], q) /\ SameDays(pass[w], q)
        /\ SameBuilt(pass[w], q) /\ q.todo = pass[w].todo
    BY <1>2 DEF Pass, SameState, SameDays, SameBuilt
  <1> HIDE DEF q
  <1>4. QED
    BY <1>1, <1>3 DEF f, D

LEMMA StoreLateDayMoves ==
    ASSUME PassOK, NEW w \in Workers, StoreLateDay(w)
    PROVE  LET p == pass[w] q == pass'[w] IN
           /\ pc'[w] = "late" /\ Others(w)
           /\ q.left = p.left \ {p.built}
           /\ q.read = [p.read EXCEPT ![p.built] = p.version]
           /\ q.cur = p.cur /\ q.window = p.window
           /\ SameState(p, q) /\ SameDays(p, q) /\ q.todo = p.todo
  <1> DEFINE f == [pass[w].read EXCEPT ![pass[w].built] = pass[w].version]
             q == [pass[w] EXCEPT !.left = @ \ {pass[w].built}, !.read = f,
                                  !.built = NoDay, !.version = 0]
  <1>1. pc'[w] = "late" /\ pass'[w] = q /\ Others(w)
    BY GotoMoves DEF StoreLateDay
  <1>2. pass[w] \in Pass BY DEF PassOK
  <1> HIDE DEF f
  <1>3. /\ q.left = pass[w].left \ {pass[w].built} /\ q.read = f
        /\ q.cur = pass[w].cur /\ q.window = pass[w].window
        /\ SameState(pass[w], q) /\ SameDays(pass[w], q)
        /\ q.todo = pass[w].todo
    BY <1>2 DEF Pass, SameState, SameDays
  <1> HIDE DEF q
  <1>4. QED
    BY <1>1, <1>3 DEF f

LEMMA ReadUndatedMoves ==
    ASSUME PassOK, NEW w \in Workers, ReadUndated(w)
    PROVE  LET p == pass[w] q == pass'[w] IN
           /\ pc'[w] = "publish" /\ Others(w)
           /\ q.read = [p.read EXCEPT ![Undated] = data[Undated]]
           /\ SameState(p, q) /\ SameDays(p, q) /\ SameBuilt(p, q)
           /\ SameRange(p, q) /\ q.todo = p.todo
  <1> DEFINE f == [pass[w].read EXCEPT ![Undated] = data[Undated]]
             q == [pass[w] EXCEPT !.read = f]
  <1>1. pc'[w] = "publish" /\ pass'[w] = q /\ Others(w)
    BY GotoMoves DEF ReadUndated
  <1>2. pass[w] \in Pass BY DEF PassOK
  <1> HIDE DEF f
  <1>3. /\ q.read = f
        /\ SameState(pass[w], q) /\ SameDays(pass[w], q)
        /\ SameBuilt(pass[w], q) /\ SameRange(pass[w], q)
        /\ q.todo = pass[w].todo
    BY <1>2 DEF Pass, SameState, SameDays, SameBuilt, SameRange
  <1> HIDE DEF q
  <1>4. QED
    BY <1>1, <1>3 DEF f

LEMMA PublishMoves ==
    ASSUME PassOK, NEW w \in Workers, PublishSnapshot(w)
    PROVE  LET p == pass[w] q == pass'[w] IN
           /\ pc'[w] = "published" /\ Others(w)
           /\ q.todo = p.todo \ {p.cur}
           /\ SameState(p, q) /\ SameDays(p, q) /\ SameBuilt(p, q)
  <1> DEFINE f == [s \in Sources |-> Missing]
             q == [pass[w] EXCEPT !.todo = @ \ {pass[w].cur}, !.cur = NoRange,
                                  !.window = NoDay, !.read = f]
  <1>1. pc'[w] = "published" /\ pass'[w] = q /\ Others(w)
    BY GotoMoves DEF PublishSnapshot
  <1>2. pass[w] \in Pass BY DEF PassOK
  <1> HIDE DEF f
  <1>3. /\ q.todo = pass[w].todo \ {pass[w].cur}
        /\ SameState(pass[w], q) /\ SameDays(pass[w], q)
        /\ SameBuilt(pass[w], q)
    BY <1>2 DEF Pass, SameState, SameDays, SameBuilt
  <1> HIDE DEF q
  <1>4. QED
    BY <1>1, <1>3

\* Every way a pass ends.
Ends(w) == Busy(w) \/ Release(w) \/ YieldToImport(w) \/ LoseLease(w)
           \/ Crash(w) \/ Abort(w) \/ Yield(w)

LEMMA EndMoves ==
    ASSUME PassOK, NEW w \in Workers, Ends(w)
    PROVE  pc'[w] = "idle" /\ pass'[w] = Idle /\ Others(w) /\ pc[w] # "idle"
  BY GotoMoves DEF Ends, Busy, Release, YieldToImport, LoseLease, Crash,
     Abort, Yield, Finish

\* ... and what its end leaves alone.
LEMMA EndLeaves ==
    ASSUME NEW w \in Workers, Ends(w)
    PROVE  /\ UNCHANGED <<today, changes, data, epoch, dirty, marks, hotGen,
                          heavyGen, syncedDay, snaps, writer, import, reader>>
           /\ lease' = lease \/ (Owns(w) /\ lease' = [lease EXCEPT !.state = "free"])
           /\ pass[w].only = NoRange => UNCHANGED markVars
           /\ \/ UNCHANGED payload
              \/ /\ pc[w] \in {"built", "filled"} /\ Owns(w)
                 /\ payload' = [payload EXCEPT ![pass[w].built] = pass[w].version]
  BY DEF Ends, Busy, Release, YieldToImport, LoseLease, Crash, Abort, Yield,
     Finish, Released

\* Starting a pass is no more than that.
Begins(w) == Start(w) \/ \E r \in Ranges : StartInline(w, r)

LEMMA BeginMoves ==
    ASSUME PassOK, BoundsOK, NEW w \in Workers, Begins(w)
    PROVE  LET q == pass'[w] IN
           /\ pc[w] = "idle"
           /\ \/ UNCHANGED passVars
              \/ /\ pc'[w] = "start" /\ Others(w)
                 /\ q.gen = 0 /\ q.day = NoDay /\ q.stamp = 0 /\ q.sweep = 0
                 /\ q.toks = [d \in Days |-> 0] /\ q.work = {}
                 /\ MaxInline = 0 => q.only = NoRange
           /\ UNCHANGED <<today, changes, data, dayVars, markVars, syncedVars,
                          lease, snaps, writer, import, reader>>
  <1>1. CASE Start(w)
    <2>1. \/ UNCHANGED passVars
          \/ pc'[w] = "start" /\ pass'[w] = Idle /\ Others(w)
      BY <1>1, GotoMoves DEF Start
    <2>2. /\ pc[w] = "idle"
          /\ UNCHANGED <<today, changes, data, dayVars, markVars, syncedVars,
                         lease, snaps, writer, import, reader>>
      BY <1>1 DEF Start
    <2>3. QED
      BY <2>1, <2>2, IdleFields
  <1>2. ASSUME NEW r \in Ranges, StartInline(w, r)
        PROVE  LET q == pass'[w] IN
               /\ pc[w] = "idle"
               /\ pc'[w] = "start" /\ Others(w)
               /\ q.gen = 0 /\ q.day = NoDay /\ q.stamp = 0 /\ q.sweep = 0
               /\ q.toks = [d \in Days |-> 0] /\ q.work = {}
               /\ MaxInline = 0 => q.only = NoRange
               /\ UNCHANGED <<today, changes, data, dayVars, markVars,
                          syncedVars, lease, snaps, writer, import, reader>>
    <2> DEFINE q == [Idle EXCEPT !.only = r]
    <2>1. pc'[w] = "start" /\ pass'[w] = q /\ Others(w)
      BY <1>2, GotoMoves DEF StartInline
    <2>2. /\ q.gen = 0 /\ q.day = NoDay /\ q.stamp = 0 /\ q.sweep = 0
          /\ q.toks = [d \in Days |-> 0] /\ q.work = {}
      BY DEF Idle
    <2>3. MaxInline # 0
      BY <1>2 DEF StartInline, BoundsOK
    <2> HIDE DEF q
    <2>4. QED
      BY <1>2, <2>1, <2>2, <2>3 DEF StartInline
  <1>3. QED
    BY <1>1, <1>2 DEF Begins

\* The steps that check the token renew the lease; the others leave it.
LEMMA StepLease ==
    ASSUME NEW w \in Workers
    PROVE  /\ \/ PrepareSweep(w) \/ BuildDay(w) \/ StoreDay(w) \/ MarkEpoch(w)
              \/ BuildMissingDay(w) \/ StoreMissingDay(w)
              \/ PublishSnapshot(w) \/ CheckAfterPublish(w)
              => Owns(w) /\ lease' = Renewed
           /\ \/ ReadState(w) \/ ReadTokens(w) \/ PlanRanges(w)
              \/ BeginRange(w) \/ CollectPayloads(w) \/ BuildLateDay(w)
              \/ StoreLateDay(w) \/ ReadUndated(w) \/ ClearSweep(w)
              \/ RecordMarkers(w)
              => UNCHANGED lease
           /\ Claim(w) => lease.state # "held"
                          /\ lease' = [owner |-> w, state |-> "held"]
  BY DEF PrepareSweep, BuildDay, StoreDay, MarkEpoch, BuildMissingDay,
     StoreMissingDay, PublishSnapshot, CheckAfterPublish, ReadState,
     ReadTokens, PlanRanges, BeginRange, CollectPayloads, BuildLateDay,
     StoreLateDay, ReadUndated, ClearSweep, RecordMarkers, Claim

LEMMA StepCases ==
    ASSUME NEW w \in Workers, Step(w) \/ Crash(w) \/ Abort(w) \/ Yield(w)
    PROVE  \/ Claim(w) \/ ReadState(w) \/ PrepareSweep(w) \/ ReadTokens(w)
           \/ BuildDay(w) \/ StoreDay(w) \/ MarkEpoch(w) \/ PlanRanges(w)
           \/ BeginRange(w) \/ BuildMissingDay(w) \/ StoreMissingDay(w)
           \/ CollectPayloads(w) \/ BuildLateDay(w) \/ StoreLateDay(w)
           \/ ReadUndated(w) \/ PublishSnapshot(w) \/ CheckAfterPublish(w)
           \/ ClearSweep(w) \/ RecordMarkers(w) \/ Ends(w)
  BY DEF Step, Ends

\* Only a claim moves the lease to another pass, and only a publication changes
\* what is shown.
LEMMA OwnerMoves ==
    ASSUME LeaseOK, NEW w \in Workers, Step(w) \/ Ends(w)
    PROVE  lease'.owner = IF Claim(w) THEN w ELSE lease.owner
  BY StepCases, StepLease, EndLeaves DEF LeaseOK, Renewed

LEMMA WorkerSnaps ==
    ASSUME NEW w \in Workers, Step(w) \/ Ends(w), ~PublishSnapshot(w)
    PROVE  UNCHANGED snaps
  <1>1. CASE Ends(w)
    BY <1>1, EndLeaves
  <1>2. CASE ~Ends(w)
    BY <1>2, StepCases DEF Claim, ReadState, PrepareSweep, ReadTokens,
       BuildDay, StoreDay, MarkEpoch, PlanRanges, BeginRange,
       BuildMissingDay, StoreMissingDay, CollectPayloads, BuildLateDay,
       StoreLateDay, ReadUndated, CheckAfterPublish, ClearSweep, RecordMarkers
  <1>3. QED
    BY <1>1, <1>2

\* Between reading the state and its end a pass keeps what it read.
LEMMA SameStateMoves ==
    ASSUME PassOK, NEW w \in Workers, Step(w) \/ Ends(w),
           ~Claim(w), ~ReadState(w), ~Ends(w)
    PROVE  /\ SameState(pass[w], pass'[w]) /\ Others(w)
           /\ pc[w] \notin {"idle", "start", "claimed"}
           /\ pc'[w] \notin {"idle", "start", "claimed"}
  <1>1. CASE ReadTokens(w)
    BY <1>1, ReadTokensMoves DEF ReadTokens, NextDays
  <1>2. CASE BuildDay(w) \/ BuildMissingDay(w) \/ BuildLateDay(w)
    BY <1>2, BuildMoves DEF BuildDay, BuildMissingDay, BuildLateDay
  <1>3. CASE StoreDay(w)
    BY <1>3, StoreDayMoves DEF StoreDay, NextDays
  <1>4. CASE PrepareSweep(w) \/ MarkEpoch(w) \/ CheckAfterPublish(w)
             \/ ClearSweep(w) \/ RecordMarkers(w)
    BY <1>4, SamePassMoves DEF PrepareSweep, MarkEpoch, CheckAfterPublish,
       ClearSweep, RecordMarkers, SameState, NextRanges
  <1>5. CASE PlanRanges(w)
    BY <1>5, PlanRangesMoves DEF PlanRanges, NextRanges
  <1>6. CASE BeginRange(w)
    BY <1>6, BeginRangeMoves DEF BeginRange
  <1>7. CASE StoreMissingDay(w)
    BY <1>7, StoreMissingDayMoves DEF StoreMissingDay
  <1>8. CASE CollectPayloads(w)
    BY <1>8, CollectMoves DEF CollectPayloads
  <1>9. CASE StoreLateDay(w)
    BY <1>9, StoreLateDayMoves DEF StoreLateDay
  <1>10. CASE ReadUndated(w)
    BY <1>10, ReadUndatedMoves DEF ReadUndated
  <1>11. CASE PublishSnapshot(w)
    BY <1>11, PublishMoves DEF PublishSnapshot
  <1>12. QED
    BY <1>1, <1>2, <1>3, <1>4, <1>5, <1>6, <1>7, <1>8, <1>9, <1>10, <1>11,
       StepCases

\* Every step: of nobody, of the surroundings, or of one worker.
Surroundings ==
    \/ \E x \in Writers : Writer(x)
    \/ \E r \in Ranges : RequestManualRefresh(r)
    \/ Import
    \/ \E x \in Readers : ReaderBuild(x) \/ ReaderStore(x)
    \/ \E r \in Ranges : OpenPage(r)
    \/ Reconcile \/ LeaseLapses \/ Midnight \/ Settle
    \/ LoseMessage \/ Evict

LEMMA NextCases ==
    ASSUME [Next]_vars
    PROVE  \/ UNCHANGED vars
           \/ Surroundings
           \/ \E w \in Workers : Begins(w) \/ Step(w) \/ Ends(w)
  BY DEF Next, Surroundings, Begins, Ends

-----------------------------------------------------------------------------
(* The lease.  A pass knows its day from the moment it claims the lease, and
   one that requested a sweep sweeps in full; so its list of days is never
   empty without a full sweep, and it cannot reach the aggregate without a
   step that renewed the lease. *)

StateRead(p, q) ==
    /\ p \notin {"idle", "start"} => q.day \in Days
    /\ q.sweep # 0 => q.full

Holds(w) == lease = [owner |-> w, state |-> "held"]

ReadInv  == \A w \in Workers : StateRead(pc[w], pass[w])
LeaseInv == \A w \in Workers : pc[w] \in Aggregate => Holds(w)

LEMMA InitLease == Init => ReadInv /\ LeaseInv
  BY IdleFields DEF Init, ReadInv, LeaseInv, StateRead, Aggregate

LEMMA NextReadInv == TypeInv /\ ReadInv /\ [Next]_vars => ReadInv'
  <1> SUFFICES ASSUME TypeInv, ReadInv, [Next]_vars PROVE ReadInv'
    OBVIOUS
  <1>0. TypeOK /\ PassOK /\ BoundsOK /\ today \in Days
    BY DEF TypeInv, TypeOK
  <1>1. CASE UNCHANGED passVars
    BY <1>1 DEF ReadInv
  <1>2. ASSUME NEW w \in Workers, Others(w), StateRead(pc'[w], pass'[w])
        PROVE  ReadInv'
    BY <1>2 DEF ReadInv, Others
  <1>3. ASSUME NEW w \in Workers, Begins(w)
        PROVE  ReadInv'
    BY <1>0, <1>1, <1>2, <1>3, BeginMoves DEF StateRead
  <1>4. ASSUME NEW w \in Workers, Step(w) \/ Ends(w)
        PROVE  ReadInv'
    <2>0. StateRead(pc[w], pass[w])
      BY DEF ReadInv
    <2>1. CASE Claim(w)
      BY <1>0, <1>2, <2>0, <2>1, ClaimMoves DEF StateRead
    <2>2. CASE ReadState(w)
      BY <1>0, <1>2, <2>0, <2>2, ReadStateMoves DEF StateRead, ReadState
    <2>3. CASE Ends(w)
      BY <1>0, <1>2, <2>3, EndMoves, IdleFields DEF StateRead
    <2>4. CASE ~Claim(w) /\ ~ReadState(w) /\ ~Ends(w)
      BY <1>0, <1>2, <1>4, <2>0, <2>4, SameStateMoves DEF StateRead, SameState
    <2>5. QED
      BY <2>1, <2>2, <2>3, <2>4
  <1>5. CASE Surroundings
    BY <1>1, <1>5, OthersLeavePasses DEF Surroundings
  <1>6. QED
    BY <1>1, <1>3, <1>4, <1>5, NextCases DEF vars

\* Only a renewing step, or one within the aggregate, leads into the aggregate.
LEMMA IntoAggregate ==
    ASSUME TypeInv, ReadInv, NEW w \in Workers, Step(w) \/ Ends(w),
           pc'[w] \in Aggregate
    PROVE  \/ Owns(w) /\ lease' = Renewed
           \/ pc[w] \in Aggregate /\ UNCHANGED lease
  <1>0. PassOK /\ StateRead(pc[w], pass[w])
    BY DEF TypeInv, TypeOK, ReadInv
  <1> USE DEF Aggregate
  <1>1. CASE Claim(w)
    BY <1>0, <1>1, ClaimMoves
  <1>2. CASE ReadState(w)
    BY <1>0, <1>2, ReadStateMoves
  <1>3. CASE Ends(w)
    BY <1>0, <1>3, EndMoves
  <1>4. CASE ReadTokens(w)
    <2>1. pass[w].day \in Days /\ (pass[w].sweep # 0 => pass[w].full)
      BY <1>0, <1>4 DEF ReadTokens, StateRead
    <2>2. pass[w].day \in WarmDays(pass[w].day)
      BY <2>1 DEF WarmDays
    <2>3. ~pass[w].full => pass'[w].work # {}
      BY <1>0, <1>4, <2>1, <2>2, ReadTokensMoves
    <2>4. pc'[w] # "plan"
      BY <1>0, <1>4, <2>3, ReadTokensMoves DEF NextDays
    <2>5. QED
      BY <1>0, <1>4, <2>4, ReadTokensMoves DEF NextDays
  <1>5. CASE \/ PrepareSweep(w) \/ BuildDay(w) \/ StoreDay(w) \/ MarkEpoch(w)
             \/ BuildMissingDay(w) \/ StoreMissingDay(w)
             \/ PublishSnapshot(w) \/ CheckAfterPublish(w)
    BY <1>5, StepLease
  <1>6. CASE \/ PlanRanges(w) \/ BeginRange(w) \/ CollectPayloads(w)
             \/ BuildLateDay(w) \/ StoreLateDay(w) \/ ReadUndated(w)
    BY <1>6, StepLease DEF PlanRanges, BeginRange, CollectPayloads,
       BuildLateDay, StoreLateDay, ReadUndated
  <1>7. CASE ClearSweep(w) \/ RecordMarkers(w)
    BY <1>0, <1>7, SamePassMoves
  <1>8. QED
    BY <1>1, <1>2, <1>3, <1>4, <1>5, <1>6, <1>7, StepCases

\* A pass in the aggregate keeps its lease, because nobody can claim a lease
\* that is held and it does not lapse there.
LEMMA NextLeaseInv ==
    ASSUME Timely
    PROVE  TypeInv /\ ReadInv /\ LeaseInv /\ [Next]_vars => LeaseInv'
  <1> SUFFICES ASSUME TypeInv, ReadInv, LeaseInv, [Next]_vars PROVE LeaseInv'
    OBVIOUS
  <1>0. TypeOK /\ PassOK /\ BoundsOK /\ LeaseOK
    BY DEF TypeInv, TypeOK
  <1>1. CASE UNCHANGED <<passVars, lease>>
    BY <1>1 DEF LeaseInv, Holds
  <1>2. ASSUME NEW w \in Workers, Begins(w)
        PROVE  LeaseInv'
    BY <1>0, <1>1, <1>2, BeginMoves DEF LeaseInv, Holds, Others, Aggregate
  <1>3. ASSUME NEW w \in Workers, Step(w) \/ Ends(w)
        PROVE  LeaseInv'
    <2>1. Others(w)
      BY <1>0, <1>3, ClaimMoves, ReadStateMoves, EndMoves, SameStateMoves
    <2>2. ASSUME NEW u \in Workers, u # w, pc'[u] \in Aggregate
          PROVE  lease' = [owner |-> u, state |-> "held"]
      <3>1. Holds(u)
        BY <2>1, <2>2 DEF LeaseInv, Others
      <3>2. ~Owns(w) /\ lease.state = "held"
        BY <2>2, <3>1 DEF Holds, Owns
      <3>3. UNCHANGED lease
        BY <1>3, <3>2, StepCases, StepLease, EndLeaves
      <3>4. QED
        BY <3>1, <3>3 DEF Holds
    <2>3. ASSUME pc'[w] \in Aggregate
          PROVE  lease' = [owner |-> w, state |-> "held"]
      <3>1. CASE Owns(w) /\ lease' = Renewed
        BY <1>0, <3>1 DEF Owns, Renewed, LeaseOK
      <3>2. CASE pc[w] \in Aggregate /\ UNCHANGED lease
        BY <3>2 DEF LeaseInv, Holds
      <3>3. QED
        BY <1>3, <2>3, <3>1, <3>2, IntoAggregate
    <2>4. QED
      BY <2>2, <2>3 DEF LeaseInv, Holds
  <1>4. CASE Surroundings
    <2>1. UNCHANGED passVars
      BY <1>4, OthersLeavePasses DEF Surroundings
    <2>2. CASE LeaseLapses
      <3>1. \A w \in Workers : ~Holds(w) \/ pc[w] \notin Aggregate
        BY <2>2, ConstantsOK DEF LeaseLapses, Holds, Dead, Timely, Aggregate
      <3>2. QED
        BY <2>1, <3>1 DEF LeaseInv
    <2>3. CASE ~LeaseLapses
      <3>1. UNCHANGED lease
        BY <1>4, <2>3 DEF Surroundings, Writer, SaveRow, OpenTransaction,
           MarkDirty, DropPayload, Bump, CommitTransaction, RollBack,
           RequestManualRefresh, Import, ImportCreate, ImportOpen, ImportSave,
           ImportMark, ImportDrop, ImportEnd, ImportClose, ImportPublish,
           ReaderBuild, ReaderStore, OpenPage, Reconcile, Midnight, Settle,
           LoseMessage, Evict
      <3>2. QED
        BY <1>1, <2>1, <3>1
    <2>4. QED
      BY <2>2, <2>3
  <1>5. QED
    BY <1>1, <1>2, <1>3, <1>4, NextCases DEF vars

\* What a pass does without the lease is not durable.
LEMMA LoserLeaves ==
    ASSUME TypeInv, LeaseInv, NEW w \in Workers, Step(w) \/ Ends(w),
           ~Claim(w), ~Owns(w)
    PROVE  UNCHANGED <<today, changes, data, dayVars, snaps, syncedVars, lease,
                       writer, import, reader>>
  <1>1. ~StoreLateDay(w)
    BY DEF StoreLateDay, LeaseInv, Aggregate, Holds, Owns
  <1>2. ~PrepareSweep(w) /\ ~BuildDay(w) /\ ~StoreDay(w) /\ ~MarkEpoch(w)
        /\ ~BuildMissingDay(w) /\ ~StoreMissingDay(w)
        /\ ~PublishSnapshot(w) /\ ~CheckAfterPublish(w)
    BY StepLease
  <1>3. CASE Ends(w)
    BY <1>3, EndLeaves
  <1>4. CASE ~Ends(w)
    BY <1>1, <1>2, <1>4, StepCases DEF ReadState, ReadTokens, PlanRanges,
       BeginRange, CollectPayloads, BuildLateDay, ReadUndated, ClearSweep,
       RecordMarkers
  <1>5. QED
    BY <1>3, <1>4

LEMMA LoserStep ==
    TypeInv /\ LeaseInv /\ [Next]_vars =>
        \A w \in Workers :
            /\ pc[w] \notin {"idle", "start"} /\ lease.owner # w
            /\ pc'[w] # pc[w] \/ pass'[w] # pass[w]
            => UNCHANGED <<dayVars, snaps, syncedVars, lease>>
  <1> SUFFICES ASSUME TypeInv, LeaseInv, [Next]_vars, NEW w \in Workers,
                      pc[w] \notin {"idle", "start"}, lease.owner # w,
                      pc'[w] # pc[w] \/ pass'[w] # pass[w]
               PROVE  UNCHANGED <<dayVars, snaps, syncedVars, lease>>
    OBVIOUS
  <1>0. PassOK /\ BoundsOK
    BY DEF TypeInv, TypeOK
  <1>1. ~UNCHANGED passVars
    OBVIOUS
  <1>2. ~UNCHANGED vars /\ ~Surroundings
    BY <1>1, OthersLeavePasses DEF Surroundings, vars
  <1>3. \A u \in Workers : Begins(u) \/ Step(u) \/ Ends(u) => u = w
    BY <1>0, BeginMoves, ClaimMoves, ReadStateMoves, EndMoves, SameStateMoves
       DEF Others
  <1>4. ~Begins(w)
    BY <1>0, BeginMoves
  <1>5. (Step(w) \/ Ends(w)) /\ ~Claim(w) /\ ~Owns(w)
    BY <1>2, <1>3, <1>4, NextCases DEF Claim, Owns
  <1>6. QED
    BY <1>5, LoserLeaves

\* A pass that lost its lease (_check_lease, _renew_lease, _release_lease found
\* another token) changes nothing durable any more, on however many workers,
\* provided that an aggregate ends within the lease it was given.
THEOREM LosersAreInert == ASSUME Timely PROVE Spec => LoserIsInert
  <1>1. Spec => []TypeInv
    BY InitTypeInv, NextTypeInv, PTL DEF Spec
  <1>2. Spec /\ []TypeInv => []ReadInv
    BY InitLease, NextReadInv, PTL DEF Spec
  <1>3. Spec /\ []TypeInv /\ []ReadInv => []LeaseInv
    BY InitLease, NextLeaseInv, PTL DEF Spec
  <1>4. QED
    BY <1>1, <1>2, <1>3, LoserStep, PTL DEF Spec, LoserIsInert

-----------------------------------------------------------------------------
(* What ranges show.

   A version that a range shows of a source never goes back, because it never
   exceeds the version of any payload of that source in the cache, nor one
   that the lease's owner has in hand: whatever can be published next is at
   least as recent.  Payloads only move forward because each is stored by the
   owner, who read its rows after anything that was stored before. *)

Building  == {"built", "filled", "lateBuilt"}
Collected == {"late", "lateBuilt", "publish"}

NotBehind(s, v) ==
    \A r \in Ranges : s \in DOMAIN snaps[r].shows => snaps[r].shows[s] <= v

RowsInv == \A s \in Sources : data[s] <= changes

ShowInv ==
    /\ \A s \in Sources : NotBehind(s, data[s])
    /\ \A d \in Days : payload[d] <= data[d]
    /\ \A d \in Days : payload[d] # Missing => NotBehind(d, payload[d])

BuiltInv == \A w \in Workers : pc[w] \in Building => pass[w].built \in Days

BuiltShows(p, q) ==
    p \in Building =>
        /\ payload[q.built] <= q.version /\ q.version <= data[q.built]
        /\ NotBehind(q.built, q.version)

ReadShows(p, q) ==
    p \in Collected =>
        \A s \in Sources : q.read[s] # Missing =>
            /\ q.read[s] <= data[s]
            /\ NotBehind(s, q.read[s])
            /\ s \in Days => payload[s] = Missing \/ q.read[s] <= payload[s]

OwnerShows ==
    \A w \in Workers :
        Owns(w) => BuiltShows(pc[w], pass[w]) /\ ReadShows(pc[w], pass[w])

LEMMA IntoBuilding ==
    ASSUME PassOK, NEW w \in Workers, Step(w) \/ Ends(w), pc'[w] \in Building
    PROVE  BuildDay(w) \/ BuildMissingDay(w) \/ BuildLateDay(w)
  <1> USE DEF Building
  <1>1. ~Claim(w) /\ ~ReadState(w) /\ ~Ends(w)
    BY ClaimMoves, ReadStateMoves, EndMoves
  <1>2. ~ReadTokens(w) /\ ~StoreDay(w)
    BY ReadTokensMoves, StoreDayMoves DEF NextDays
  <1>3. /\ ~PrepareSweep(w) /\ ~MarkEpoch(w) /\ ~CheckAfterPublish(w)
        /\ ~ClearSweep(w) /\ ~RecordMarkers(w)
    BY SamePassMoves DEF NextRanges
  <1>4. ~PlanRanges(w) /\ ~BeginRange(w) /\ ~StoreMissingDay(w)
    BY PlanRangesMoves, BeginRangeMoves, StoreMissingDayMoves DEF NextRanges
  <1>5. /\ ~CollectPayloads(w) /\ ~StoreLateDay(w) /\ ~ReadUndated(w)
        /\ ~PublishSnapshot(w)
    BY CollectMoves, StoreLateDayMoves, ReadUndatedMoves, PublishMoves
  <1>6. QED
    BY <1>1, <1>2, <1>3, <1>4, <1>5, StepCases

LEMMA IntoCollected ==
    ASSUME PassOK, NEW w \in Workers, Step(w) \/ Ends(w), pc'[w] \in Collected
    PROVE  CollectPayloads(w) \/ BuildLateDay(w) \/ StoreLateDay(w)
           \/ ReadUndated(w)
  <1> USE DEF Collected
  <1>1. ~Claim(w) /\ ~ReadState(w) /\ ~Ends(w)
    BY ClaimMoves, ReadStateMoves, EndMoves
  <1>2. ~ReadTokens(w) /\ ~StoreDay(w)
    BY ReadTokensMoves, StoreDayMoves DEF NextDays
  <1>3. /\ ~PrepareSweep(w) /\ ~MarkEpoch(w) /\ ~CheckAfterPublish(w)
        /\ ~ClearSweep(w) /\ ~RecordMarkers(w)
    BY SamePassMoves DEF NextRanges
  <1>4. ~PlanRanges(w) /\ ~BeginRange(w) /\ ~StoreMissingDay(w)
    BY PlanRangesMoves, BeginRangeMoves, StoreMissingDayMoves DEF NextRanges
  <1>5. ~BuildDay(w) /\ ~BuildMissingDay(w) /\ ~PublishSnapshot(w)
    BY BuildMoves, PublishMoves
  <1>6. QED
    BY <1>1, <1>2, <1>3, <1>4, <1>5, StepCases

LEMMA NextBuiltInv == TypeInv /\ BuiltInv /\ [Next]_vars => BuiltInv'
  <1> SUFFICES ASSUME TypeInv, BuiltInv, [Next]_vars PROVE BuiltInv'
    OBVIOUS
  <1>0. TypeOK /\ PassOK /\ BoundsOK
    BY DEF TypeInv, TypeOK
  <1>1. CASE UNCHANGED passVars
    BY <1>1 DEF BuiltInv
  <1>2. ASSUME NEW w \in Workers, Begins(w)
        PROVE  BuiltInv'
    BY <1>0, <1>1, <1>2, BeginMoves DEF BuiltInv, Others, Building
  <1>3. ASSUME NEW w \in Workers, Step(w) \/ Ends(w)
        PROVE  BuiltInv'
    <2>1. Others(w)
      BY <1>0, <1>3, ClaimMoves, ReadStateMoves, EndMoves, SameStateMoves
    <2>2. pc'[w] \in Building => pass'[w].built \in Days
      BY <1>0, <1>3, IntoBuilding, BuildMoves
    <2>3. QED
      BY <2>1, <2>2 DEF BuiltInv, Others
  <1>4. CASE Surroundings
    BY <1>1, <1>4, OthersLeavePasses DEF Surroundings
  <1>5. QED
    BY <1>1, <1>2, <1>3, <1>4, NextCases DEF vars

\* Versions are numbers, and so is the mark of a missing payload.
LEMMA VersionTypes ==
    ASSUME TypeOK
    PROVE  /\ changes \in Nat
           /\ \A s \in Sources : data[s] \in Nat
           /\ \A d \in Days : d \in Sources /\ payload[d] \in Int
           /\ \A d \in Days : payload[d] # Missing => payload[d] \in Nat
           /\ \A w \in Workers : pass[w].version \in Nat
           /\ \A w \in Workers, s \in Sources :
                 pass[w].read[s] \in Int
                 /\ (pass[w].read[s] # Missing => pass[w].read[s] \in Nat)
  BY ConstantsOK DEF TypeOK, RowsOK, DaysOK, PassOK, Pass, Versions, Missing,
     Sources

LEMMA ShowTypes ==
    ASSUME SnapsOK, NEW r \in Ranges, NEW s \in DOMAIN snaps[r].shows
    PROVE  snaps[r].shows[s] \in Nat /\ snaps[r] # NoSnap /\ s \in Sources
  <1>1. snaps[r] \in Snapshot
    BY DEF SnapsOK
  <1>2. snaps[r] # NoSnap
    BY DEF NoSnap
  <1>3. snaps[r].shows \in Shows
    BY <1>1, <1>2 DEF Snapshot
  <1>4. PICK D \in SUBSET Days : snaps[r].shows \in [{Undated} \cup D -> Versions]
    BY <1>3 DEF Shows
  <1>5. s \in {Undated} \cup D /\ snaps[r].shows[s] \in Versions
    BY <1>4
  <1>6. QED
    BY <1>2, <1>5, ConstantsOK DEF Versions, Sources

LEMMA NotBehindRises ==
    ASSUME SnapsOK, NEW s, NEW v \in Int, NEW u \in Int, v <= u, NotBehind(s, v)
    PROVE  NotBehind(s, u)
  <1>1. ASSUME NEW r \in Ranges, s \in DOMAIN snaps[r].shows
        PROVE  snaps[r].shows[s] <= u
    BY <1>1, ShowTypes DEF NotBehind
  <1>2. QED
    BY <1>1 DEF NotBehind

\* Outside the passes rows change one commit at a time, and payloads at most
\* disappear when no custom range is built.
LEMMA SurroundingsRows ==
    ASSUME TypeOK, Surroundings
    PROVE  /\ UNCHANGED <<changes, data>> \/ \E s \in Sources : CommitRow(s)
           /\ NoReaders => \A d \in Days : payload'[d] \in {payload[d], Missing}
           /\ UNCHANGED <<snaps, syncedVars, passVars>>
           /\ lease'.owner = lease.owner
  <1>0. LeaseOK /\ WriterOK
    BY DEF TypeOK
  <1>1. UNCHANGED <<snaps, syncedVars, passVars>>
    BY OthersLeavePasses, OthersLeaveSnapshots DEF Surroundings
  <1>2. ASSUME NEW D \in SUBSET Days, payload' = Dropped(D)
        PROVE  \A d \in Days : payload'[d] \in {payload[d], Missing}
    BY <1>2 DEF Dropped
  <1>3. CASE \E x \in Writers : Writer(x)
    <2>1. PICK x \in Writers : Writer(x)
      BY <1>3
    <2>2. writer[x].src \in Sources
      BY <1>0 DEF WriterOK
    <2>3. UNCHANGED <<changes, data>> \/ \E s \in Sources : CommitRow(s)
      BY <2>1, <2>2 DEF Writer, SaveRow, OpenTransaction, MarkDirty,
         DropPayload, Bump, CommitTransaction, RollBack
    <2>4. UNCHANGED payload \/ \E s \in Sources : payload' = Dropped({s})
      BY <2>1, <2>2 DEF Writer, SaveRow, OpenTransaction, MarkDirty,
         DropPayload, Bump, CommitTransaction, RollBack
    <2>5. \A d \in Days : payload'[d] \in {payload[d], Missing}
      BY <2>4 DEF Dropped
    <2>6. UNCHANGED lease
      BY <2>1 DEF Writer, SaveRow, OpenTransaction, MarkDirty,
         DropPayload, Bump, CommitTransaction, RollBack
    <2>7. QED
      BY <1>1, <2>3, <2>5, <2>6
  <1>4. CASE Import
    <2>1. UNCHANGED <<changes, data>> \/ \E s \in Sources : CommitRow(s)
      BY <1>4 DEF Import, ImportCreate, ImportOpen, ImportSave, ImportMark,
         ImportDrop, ImportEnd, ImportClose, ImportPublish
    <2>2. \/ UNCHANGED payload
          \/ payload' = Dropped({import.src}) \/ payload' = Dropped(Days)
      BY <1>4 DEF Import, ImportCreate, ImportOpen, ImportSave, ImportMark,
         ImportDrop, ImportEnd, ImportClose, ImportPublish
    <2>3. \A d \in Days : payload'[d] \in {payload[d], Missing}
      BY <2>2 DEF Dropped
    <2>4. UNCHANGED lease
      BY <1>4 DEF Import, ImportCreate, ImportOpen, ImportSave, ImportMark,
         ImportDrop, ImportEnd, ImportClose, ImportPublish
    <2>5. QED
      BY <1>1, <2>1, <2>3, <2>4
  <1>5. CASE \/ \E r \in Ranges : RequestManualRefresh(r)
             \/ Evict
    <2>1. UNCHANGED <<changes, data, lease>>
      BY <1>5 DEF RequestManualRefresh, Evict
    <2>2. \A d \in Days : payload'[d] \in {payload[d], Missing}
      BY <1>5 DEF RequestManualRefresh, Evict, Dropped
    <2>3. QED
      BY <1>1, <2>1, <2>2
  <1>6. CASE \E x \in Readers : ReaderBuild(x) \/ ReaderStore(x)
    BY <1>1, <1>6 DEF ReaderBuild, ReaderStore, NoReaders
  <1>7. CASE LeaseLapses
    <2>1. UNCHANGED <<changes, data, payload>>
      BY <1>7 DEF LeaseLapses
    <2>2. lease'.owner = lease.owner
      BY <1>0, <1>7 DEF LeaseOK, LeaseLapses
    <2>3. QED
      BY <1>1, <2>1, <2>2
  <1>8. CASE \/ \E r \in Ranges : OpenPage(r)
             \/ Reconcile \/ Midnight \/ Settle \/ LoseMessage
    <2>1. UNCHANGED <<changes, data, payload, lease>>
      BY <1>8 DEF OpenPage, Reconcile, Midnight, Settle, LoseMessage
    <2>2. QED
      BY <1>1, <2>1
  <1>9. QED
    BY <1>3, <1>4, <1>5, <1>6, <1>7, <1>8 DEF Surroundings

LEMMA CommitMoves ==
    ASSUME RowsOK, NEW s \in Sources, CommitRow(s)
    PROVE  /\ changes' = changes + 1
           /\ \A z \in Sources : data'[z] = IF z = s THEN changes + 1 ELSE data[z]
  BY DEF RowsOK, CommitRow

\* Passes change no row.
LEMMA WorkersLeaveRows ==
    ASSUME NEW w \in Workers, Step(w) \/ Ends(w)
    PROVE  UNCHANGED <<today, changes, data, writer, import, reader>>
  <1>1. CASE Ends(w)
    BY <1>1, EndLeaves
  <1>2. CASE ~Ends(w)
    BY <1>2, StepCases DEF Claim, ReadState, PrepareSweep, ReadTokens,
       BuildDay, StoreDay, MarkEpoch, PlanRanges, BeginRange,
       BuildMissingDay, StoreMissingDay, CollectPayloads, BuildLateDay,
       StoreLateDay, ReadUndated, PublishSnapshot, CheckAfterPublish,
       ClearSweep, RecordMarkers
  <1>3. QED
    BY <1>1, <1>2

LEMMA NextRowsInv == TypeInv /\ RowsInv /\ [Next]_vars => RowsInv'
  <1> SUFFICES ASSUME TypeInv, RowsInv, [Next]_vars PROVE RowsInv'
    OBVIOUS
  <1>0. TypeOK /\ RowsOK /\ PassOK /\ BoundsOK
    BY DEF TypeInv, TypeOK
  <1>1. CASE UNCHANGED <<changes, data>>
    BY <1>1 DEF RowsInv
  <1>2. ASSUME NEW s \in Sources, CommitRow(s)
        PROVE  RowsInv'
    BY <1>0, <1>2, CommitMoves, VersionTypes DEF RowsInv
  <1>3. QED
    BY <1>0, <1>1, <1>2, NextCases, SurroundingsRows, WorkersLeaveRows,
       BeginMoves DEF vars

\* Committed versions only go forward.
LEMMA RowsRise ==
    ASSUME TypeInv, RowsInv, [Next]_vars
    PROVE  /\ \A s \in Sources : data[s] <= data'[s]
           /\ \/ UNCHANGED data
              \/ \E s \in Sources : /\ data[s] < data'[s]
                                   /\ data' = [data EXCEPT ![s] = data'[s]]
  <1>0. TypeOK /\ RowsOK /\ PassOK /\ BoundsOK
    BY DEF TypeInv, TypeOK
  <1>1. CASE UNCHANGED <<changes, data>>
    BY <1>0, <1>1, VersionTypes
  <1>2. ASSUME NEW s \in Sources, CommitRow(s)
        PROVE  /\ \A z \in Sources : data[z] <= data'[z]
               /\ data[s] < data'[s] /\ data' = [data EXCEPT ![s] = data'[s]]
    <2>1. /\ \A z \in Sources : data[z] \in Nat /\ data[z] <= changes
          /\ changes \in Nat
      BY <1>0, VersionTypes DEF RowsInv
    <2>2. \A z \in Sources : data'[z] = IF z = s THEN changes + 1 ELSE data[z]
      BY <1>0, <1>2, CommitMoves
    <2>3. data' = [data EXCEPT ![s] = data'[s]]
      BY <1>0, <1>2 DEF CommitRow, RowsOK
    <2>4. QED
      BY <2>1, <2>2, <2>3
  <1>3. QED
    BY <1>0, <1>1, <1>2, NextCases, SurroundingsRows, WorkersLeaveRows,
       BeginMoves DEF vars

\* A worker's step leaves the payloads, drops them all for a sweep, or stores
\* the one day that its pass has built, holding the lease.
Stores(w) ==
    /\ Owns(w) /\ pc[w] \in Building
    /\ payload' = [payload EXCEPT ![pass[w].built] = pass[w].version]

LEMMA WorkerPayloads ==
    ASSUME LeaseInv, NEW w \in Workers, Step(w) \/ Ends(w)
    PROVE  \/ UNCHANGED payload \/ Stores(w)
           \/ PrepareSweep(w) /\ payload' = Dropped(Days)
  <1>1. CASE Ends(w)
    BY <1>1, EndLeaves DEF Stores, Building
  <1>2. CASE StoreDay(w) \/ StoreMissingDay(w)
    BY <1>2 DEF StoreDay, StoreMissingDay, Stores, Building
  <1>3. CASE StoreLateDay(w)
    <2>1. Owns(w)
      BY <1>3 DEF StoreLateDay, LeaseInv, Aggregate, Holds, Owns
    <2>2. QED
      BY <1>3, <2>1 DEF StoreLateDay, Stores, Building
  <1>4. CASE PrepareSweep(w)
    BY <1>4 DEF PrepareSweep, Stores, Building
  <1>6. CASE \/ Claim(w) \/ ReadState(w) \/ ReadTokens(w) \/ PublishSnapshot(w)
             \/ BuildDay(w) \/ MarkEpoch(w) \/ PlanRanges(w)
             \/ BeginRange(w) \/ BuildMissingDay(w)
             \/ CollectPayloads(w) \/ BuildLateDay(w)
             \/ ReadUndated(w) \/ CheckAfterPublish(w)
             \/ ClearSweep(w) \/ RecordMarkers(w)
    BY <1>6 DEF Claim, ReadState, ReadTokens, BuildDay, MarkEpoch, PlanRanges,
       BeginRange, BuildMissingDay, CollectPayloads, BuildLateDay,
       ReadUndated, PublishSnapshot, CheckAfterPublish, ClearSweep,
       RecordMarkers
  <1>7. QED
    BY <1>1, <1>2, <1>3, <1>4, <1>6, StepCases

\* A publication replaces one range, by what the pass read of each source of
\* the range's window, or leaves all as they are.
LEMMA PublishReplaces ==
    ASSUME TypeInv, NEW w \in Workers, PublishSnapshot(w)
    PROVE  LET p == pass[w]
               D == {Undated} \cup Window[p.cur][p.window] IN
           /\ p.cur \in Ranges /\ p.window \in Days
           /\ D \subseteq Sources /\ \A s \in D : p.read[s] # Missing
           /\ \A r \in Ranges :
                 \/ snaps'[r] = snaps[r]
                 \/ /\ r = p.cur
                    /\ snaps'[r] = [gen |-> p.gen, builtDay |-> today,
                                    window |-> p.window,
                                    shows |-> [s \in D |-> p.read[s]]]
           /\ \A r \in Ranges : r # p.cur => snaps'[r] = snaps[r]
           /\ snaps[p.cur].gen <= p.gen => snaps'[p.cur].builtDay = today
           /\ snaps' = [snaps EXCEPT ![p.cur] = snaps'[p.cur]]
  <1> DEFINE p == pass[w]
             D == {Undated} \cup Window[p.cur][p.window]
             new == [gen |-> p.gen, builtDay |-> today, window |-> p.window,
                     shows |-> [s \in D |-> p.read[s]]]
  <1>1. /\ SnapsOK /\ pc[w] = "publish" /\ Knows("publish", p)
    BY DEF TypeInv, TypeOK, PassInv, PublishSnapshot
  <1>2. p.cur \in Ranges /\ p.window \in Days
    BY <1>1 DEF Knows, RangeChosen
  <1>3. \A s \in D : p.read[s] # Missing
    BY <1>1, <1>2 DEF Knows, ReadSoFar, ReadAll
  <1>4. D \subseteq Sources
    BY <1>2, ConstantsOK DEF Sources
  <1>5. snaps' = [snaps EXCEPT ![p.cur] = IF @.gen <= p.gen THEN new ELSE @]
    BY DEF PublishSnapshot, StampOf
  <1>6. new.builtDay = today
    OBVIOUS
  <1> HIDE DEF new
  <1>7. \A r \in Ranges : snaps'[r] = IF r = p.cur /\ snaps[r].gen <= p.gen
                                      THEN new ELSE snaps[r]
    BY <1>1, <1>2, <1>5 DEF SnapsOK
  <1>8. snaps' = [snaps EXCEPT ![p.cur] = snaps'[p.cur]]
    BY <1>1, <1>2, <1>5 DEF SnapsOK
  <1>9. QED
    BY <1>2, <1>3, <1>4, <1>6, <1>7, <1>8 DEF new

\* The surroundings can only widen the gap between what is shown or in hand
\* and what is committed.
LEMMA SurroundingsShow ==
    ASSUME TypeInv, RowsInv, BuiltInv, ShowInv, OwnerShows, NoReaders,
           UNCHANGED <<snaps, passVars>>, lease'.owner = lease.owner,
           \A s \in Sources : data'[s] \in Nat /\ data[s] <= data'[s],
           \A d \in Days : payload'[d] \in {payload[d], Missing}
    PROVE  ShowInv' /\ OwnerShows'
  <1>0. TypeOK /\ SnapsOK
    BY DEF TypeInv, TypeOK
  <1>1. \A s \in Sources : data[s] \in Nat
    BY <1>0, VersionTypes
  <1>3. ASSUME NEW s \in Sources
        PROVE  NotBehind(s, data[s])'
    <2>1. NotBehind(s, data[s]) /\ data[s] \in Int /\ data'[s] \in Int
      BY <1>1 DEF ShowInv
    <2>2. NotBehind(s, data'[s])
      BY <1>0, <2>1, NotBehindRises
    <2>3. QED
      BY <2>2 DEF NotBehind
  <1>4. ASSUME NEW d \in Days
        PROVE  /\ payload'[d] <= data'[d]
               /\ payload'[d] # Missing => NotBehind(d, payload[d])'
    <2>1. d \in Sources /\ payload[d] \in Int /\ Missing \in Int /\ Missing <= 0
      BY <1>0, VersionTypes DEF Missing
    <2>2. payload[d] <= data[d] /\ (payload[d] # Missing => NotBehind(d, payload[d]))
      BY DEF ShowInv
    <2>3. payload'[d] <= data'[d]
      BY <1>1, <2>1, <2>2
    <2>4. payload'[d] # Missing => payload'[d] = payload[d]
      OBVIOUS
    <2>5. QED
      BY <2>2, <2>3, <2>4 DEF NotBehind
  <1>5. ASSUME NEW w \in Workers, Owns(w)
        PROVE  BuiltShows(pc[w], pass[w])'
    <2>1. ASSUME pc[w] \in Building
          PROVE  /\ payload'[pass[w].built] <= pass[w].version
                 /\ pass[w].version <= data'[pass[w].built]
                 /\ NotBehind(pass[w].built, pass[w].version)
      <3>1. pass[w].built \in Days /\ BuiltShows(pc[w], pass[w])
        BY <1>5, <2>1 DEF BuiltInv, OwnerShows
      <3>2. pass[w].built \in Sources /\ pass[w].version \in Nat
            /\ payload[pass[w].built] \in Int
        BY <1>0, <3>1, VersionTypes
      <3>3. QED
        BY <1>1, <2>1, <3>1, <3>2 DEF BuiltShows, Missing
    <2>2. QED
      BY <2>1 DEF BuiltShows, NotBehind
  <1>6. ASSUME NEW w \in Workers, Owns(w)
        PROVE  ReadShows(pc[w], pass[w])'
    <2>1. ASSUME pc[w] \in Collected, NEW s \in Sources,
                 pass[w].read[s] # Missing
          PROVE  /\ pass[w].read[s] <= data'[s]
                 /\ NotBehind(s, pass[w].read[s])
                 /\ s \in Days => payload'[s] = Missing
                                  \/ pass[w].read[s] <= payload'[s]
      <3>1. pass[w].read[s] \in Nat
        BY <1>0, <2>1, VersionTypes
      <3>2. ReadShows(pc[w], pass[w])
        BY <1>6 DEF OwnerShows
      <3>3. QED
        BY <1>1, <2>1, <3>1, <3>2 DEF ReadShows
    <2>2. QED
      BY <2>1 DEF ReadShows, NotBehind
  <1>7. QED
    BY <1>3, <1>4, <1>5, <1>6 DEF ShowInv, OwnerShows, Owns

\* What a pass with the lease stores or publishes is no older than what is
\* shown, and no newer than what is committed.
LEMMA OwnerStepShows ==
    ASSUME TypeInv, TypeOK', BuiltInv, LeaseInv, ShowInv, OwnerShows,
           NEW w \in Workers, Step(w) \/ Ends(w), Owns(w),
           UNCHANGED <<snaps, data>>
    PROVE  /\ ShowInv'
           /\ BuiltShows(pc[w], pass[w])' /\ ReadShows(pc[w], pass[w])'
  <1> DEFINE p == pass[w]
             b == pass[w].built
  <1>0. TypeOK /\ PassOK /\ SnapsOK /\ DaysOK
    BY DEF TypeInv, TypeOK
  <1>1. /\ BuiltShows(pc[w], p) /\ ReadShows(pc[w], p)
        /\ pc[w] \in Building => b \in Days
    BY DEF OwnerShows, BuiltInv
  <1>2. \A d \in Days :
           \/ payload'[d] \in {payload[d], Missing}
           \/ Stores(w) /\ d = b /\ payload'[d] = p.version
    BY <1>0, <1>1, WorkerPayloads DEF Stores, DaysOK, Dropped
  <1>3. ShowInv'
    <2>1. ASSUME NEW d \in Days
          PROVE  /\ payload'[d] <= data[d]
                 /\ payload'[d] # Missing => NotBehind(d, payload'[d])
      BY <1>0, <1>1, <1>2, VersionTypes
         DEF ShowInv, BuiltShows, Stores, Missing
    <2>2. QED
      BY <2>1 DEF ShowInv, NotBehind
  <1>4. BuiltShows(pc[w], p)'
    <2>1. ASSUME pc'[w] \in Building
          PROVE  LET c == p'.built IN
                 /\ payload'[c] <= p'.version /\ p'.version <= data[c]
                 /\ NotBehind(c, p'.version)
      <3>1. BuildDay(w) \/ BuildMissingDay(w) \/ BuildLateDay(w)
        BY <1>0, <2>1, IntoBuilding
      <3>2. p'.built \in Days /\ p'.version = data[p'.built]
        BY <1>0, <3>1, BuildMoves
      <3>3. p'.built \in Sources /\ data[p'.built] \in Nat
        BY <1>0, <3>2, VersionTypes
      <3>4. UNCHANGED payload
        BY <3>1 DEF BuildDay, BuildMissingDay, BuildLateDay
      <3>5. QED
        BY <3>2, <3>3, <3>4 DEF ShowInv
    <2>2. QED
      BY <2>1 DEF BuiltShows, NotBehind
  <1>5. ReadShows(pc[w], p)'
    <2>1. ASSUME pc'[w] \in Collected, NEW s \in Sources, p'.read[s] # Missing
          PROVE  /\ p'.read[s] <= data[s]
                 /\ NotBehind(s, p'.read[s])
                 /\ s \in Days => payload'[s] = Missing
                                  \/ p'.read[s] <= payload'[s]
      <3>0. /\ data[s] \in Nat /\ p.version \in Nat
            /\ p.read \in [Sources -> Versions \cup {Missing}]
            /\ \A d \in Days : payload[d] \in Int
        BY <1>0, VersionTypes DEF PassOK, Pass
      <3>1. CASE CollectPayloads(w)
        <4>1. UNCHANGED payload
          BY <3>1 DEF CollectPayloads
        <4>2. /\ p'.read[s] = payload[s]
              /\ p.cur \in Ranges /\ p.window \in Days
              /\ s \in Window[p.cur][p.window]
          BY <1>0, <2>1, <3>1, CollectMoves
             DEF CollectPayloads, TypeInv, PassInv, Knows, RangeChosen
        <4>3. s \in Days
          BY <4>2, ConstantsOK
        <4>4. QED
          BY <2>1, <3>0, <4>1, <4>2, <4>3 DEF ShowInv
      <3>2. CASE BuildLateDay(w)
        <4>1. UNCHANGED payload /\ p'.read = p.read /\ pc[w] \in Collected
          BY <1>0, <3>2, BuildMoves DEF BuildLateDay, Collected
        <4>2. QED
          BY <1>1, <2>1, <4>1 DEF ReadShows
      <3>3. CASE StoreLateDay(w)
        <4>1. /\ payload' = [payload EXCEPT ![b] = p.version]
              /\ p'.read = [p.read EXCEPT ![b] = p.version]
              /\ pc[w] \in Collected /\ pc[w] \in Building
          BY <1>0, <3>3, StoreLateDayMoves
             DEF StoreLateDay, Collected, Building
        <4>2. b \in Days
          BY <1>1, <4>1
        <4>3. CASE s = b
          BY <1>0, <1>1, <3>0, <4>1, <4>2, <4>3 DEF BuiltShows, DaysOK
        <4>4. CASE s # b
          BY <1>0, <1>1, <2>1, <3>0, <4>1, <4>2, <4>4 DEF ReadShows, DaysOK
        <4>5. QED
          BY <4>3, <4>4
      <3>4. CASE ReadUndated(w)
        <4>1. /\ p'.read = [p.read EXCEPT ![Undated] = data[Undated]]
              /\ UNCHANGED payload /\ pc[w] \in Collected
          BY <1>0, <3>4, ReadUndatedMoves DEF ReadUndated, Collected
        <4>2. Undated \notin Days /\ Undated \in Sources
          BY DEF Days, Undated, Sources
        <4>3. CASE s = Undated
          BY <3>0, <4>1, <4>2, <4>3 DEF ShowInv
        <4>4. CASE s # Undated
          BY <1>1, <2>1, <3>0, <4>1, <4>2, <4>4 DEF ReadShows
        <4>5. QED
          BY <4>3, <4>4
      <3>5. QED
        BY <1>0, <2>1, <3>1, <3>2, <3>3, <3>4, IntoCollected
    <2>2. QED
      BY <2>1 DEF ReadShows, NotBehind
  <1>6. QED
    BY <1>3, <1>4, <1>5

LEMMA PublishShowsOn ==
    ASSUME TypeInv, ShowInv, OwnerShows, NEW w \in Workers, PublishSnapshot(w)
    PROVE  ShowInv'
  <1> DEFINE p == pass[w]
             D == {Undated} \cup Window[p.cur][p.window]
  <1>0. /\ TypeOK /\ Owns(w) /\ pc[w] \in Collected
        /\ UNCHANGED <<data, payload>>
    BY DEF TypeInv, TypeOK, PublishSnapshot, Collected
  <1>1. ReadShows(pc[w], p)
    BY <1>0 DEF OwnerShows
  <1>2. /\ D \subseteq Sources /\ \A s \in D : p.read[s] # Missing
        /\ \A r \in Ranges : \/ snaps'[r].shows = snaps[r].shows
                             \/ snaps'[r].shows = [s \in D |-> p.read[s]]
    <2>1. /\ D \subseteq Sources /\ \A s \in D : p.read[s] # Missing
          /\ \A r \in Ranges :
                 \/ snaps'[r] = snaps[r]
                 \/ snaps'[r] = [gen |-> p.gen, builtDay |-> today,
                                 window |-> p.window,
                                 shows |-> [s \in D |-> p.read[s]]]
      BY PublishReplaces
    <2> DEFINE f == [s \in D |-> p.read[s]]
    <2>2. \A r \in Ranges :
              \/ snaps'[r] = snaps[r]
              \/ snaps'[r] = [gen |-> p.gen, builtDay |-> today,
                              window |-> p.window, shows |-> f]
      BY <2>1
    <2> HIDE DEF f
    <2>3. \A r \in Ranges : \/ snaps'[r].shows = snaps[r].shows
                           \/ snaps'[r].shows = f
      BY <2>2
    <2>4. QED
      BY <2>1, <2>3 DEF f
  <1>3. ASSUME NEW s \in Sources, NEW v \in Int, NotBehind(s, v),
               s \in D => p.read[s] <= v
        PROVE  \A r \in Ranges : s \in DOMAIN snaps'[r].shows =>
                   snaps'[r].shows[s] <= v
    BY <1>2, <1>3 DEF NotBehind
  <1>4. ASSUME NEW s \in Sources
        PROVE  \A r \in Ranges : s \in DOMAIN snaps'[r].shows =>
                   snaps'[r].shows[s] <= data[s]
    <2>1. NotBehind(s, data[s]) /\ data[s] \in Int
      BY <1>0, VersionTypes DEF ShowInv
    <2>2. s \in D => p.read[s] <= data[s]
      BY <1>0, <1>1, <1>2 DEF ReadShows
    <2>3. QED
      BY <1>3, <2>1, <2>2
  <1>5. ASSUME NEW d \in Days, payload[d] # Missing
        PROVE  \A r \in Ranges : d \in DOMAIN snaps'[r].shows =>
                   snaps'[r].shows[d] <= payload[d]
    <2>1. NotBehind(d, payload[d]) /\ payload[d] \in Int /\ d \in Sources
      BY <1>0, <1>5, VersionTypes DEF ShowInv
    <2>2. d \in D => p.read[d] <= payload[d]
      BY <1>0, <1>1, <1>2, <1>5, <2>1 DEF ReadShows
    <2>3. QED
      BY <1>3, <2>1, <2>2
  <1>6. QED
    BY <1>0, <1>4, <1>5 DEF ShowInv, NotBehind

LEMMA InitShow == Init => BuiltInv /\ RowsInv /\ ShowInv /\ OwnerShows
  <1> SUFFICES ASSUME Init PROVE BuiltInv /\ RowsInv /\ ShowInv /\ OwnerShows
    OBVIOUS
  <1>1. \A w \in Workers : pc[w] = "idle"
    BY DEF Init
  <1>2. \A r \in Ranges : DOMAIN snaps[r].shows = {}
    BY DEF Init, NoSnap
  <1>3. \A s, v : NotBehind(s, v)
    BY <1>2 DEF NotBehind
  <1>4. \A d \in Days : payload[d] = -1 /\ d \in Sources
    BY DEF Init, Missing, Sources
  <1>5. QED
    BY <1>1, <1>3, <1>4 DEF Init, BuiltInv, RowsInv, ShowInv, OwnerShows,
       BuiltShows, ReadShows, Building, Collected

LEMMA NextShowInv ==
    ASSUME NoReaders
    PROVE  TypeInv /\ TypeInv' /\ RowsInv /\ BuiltInv /\ LeaseInv
           /\ ShowInv /\ OwnerShows /\ [Next]_vars
           => ShowInv' /\ OwnerShows'
  <1> SUFFICES ASSUME TypeInv, TypeInv', RowsInv, BuiltInv, LeaseInv, ShowInv,
                      OwnerShows, [Next]_vars
               PROVE  ShowInv' /\ OwnerShows'
    OBVIOUS
  <1>0. TypeOK /\ TypeOK' /\ PassOK /\ BoundsOK /\ LeaseOK
    BY DEF TypeInv, TypeOK
  <1>1. CASE UNCHANGED <<data, payload, snaps, passVars, lease>>
    BY <1>1 DEF ShowInv, OwnerShows, BuiltShows, ReadShows, NotBehind, Owns
  <1>2. CASE Surroundings
    <2>1. \A s \in Sources : data'[s] \in Nat /\ data[s] <= data'[s]
      BY <1>0, RowsRise, VersionTypes DEF TypeOK, RowsOK, Versions
    <2>2. QED
      BY <1>0, <1>2, <2>1, SurroundingsRows, SurroundingsShow
  <1>3. ASSUME NEW w \in Workers, Begins(w)
        PROVE  ShowInv' /\ OwnerShows'
    <2>1. CASE UNCHANGED passVars
      BY <1>0, <1>1, <1>3, <2>1, BeginMoves
    <2>2. CASE pc'[w] = "start" /\ Others(w)
      <3>1. UNCHANGED <<data, payload, snaps, lease>>
        BY <1>0, <1>3, BeginMoves
      <3>2. BuiltShows(pc[w], pass[w])' /\ ReadShows(pc[w], pass[w])'
        BY <2>2 DEF BuiltShows, ReadShows, Building, Collected
      <3>3. QED
        BY <2>2, <3>1, <3>2 DEF ShowInv, OwnerShows, BuiltShows, ReadShows,
           NotBehind, Owns, Others
    <2>3. QED
      BY <1>0, <1>3, <2>1, <2>2, BeginMoves
  <1>4. ASSUME NEW w \in Workers, Step(w) \/ Ends(w)
        PROVE  ShowInv' /\ OwnerShows'
    <2>0. Others(w) /\ UNCHANGED data
      BY <1>0, <1>4, ClaimMoves, ReadStateMoves, EndMoves, SameStateMoves,
         WorkersLeaveRows
    <2>1. CASE Claim(w)
      <3>1. pc'[w] = "claimed" /\ UNCHANGED <<payload, snaps>>
            /\ lease'.owner = w
        BY <1>0, <2>1, ClaimMoves DEF Claim
      <3>2. BuiltShows(pc[w], pass[w])' /\ ReadShows(pc[w], pass[w])'
        BY <3>1 DEF BuiltShows, ReadShows, Building, Collected
      <3>3. QED
        BY <2>0, <3>1, <3>2 DEF ShowInv, OwnerShows, NotBehind, Owns
    <2>2. CASE ~Claim(w) /\ ~Owns(w)
      <3>1. UNCHANGED <<payload, snaps, lease>>
        BY <1>4, <2>2, LoserLeaves
      <3>2. QED
        BY <2>0, <2>2, <3>1 DEF ShowInv, OwnerShows, BuiltShows, ReadShows,
           NotBehind, Owns, Others
    <2>3. CASE ~Claim(w) /\ Owns(w)
      <3>1. lease'.owner = w
        BY <1>0, <1>4, <2>3, StepCases, StepLease, EndLeaves
           DEF Owns, Renewed, LeaseOK
      <3>2. CASE PublishSnapshot(w)
        <4>1. BuiltShows(pc[w], pass[w])' /\ ReadShows(pc[w], pass[w])'
          BY <1>0, <3>2, PublishMoves DEF BuiltShows, ReadShows, Building,
             Collected
        <4>2. QED
          BY <3>1, <3>2, <4>1, PublishShowsOn DEF OwnerShows, Owns
      <3>3. CASE ~PublishSnapshot(w)
        <4>1. UNCHANGED snaps
          BY <1>4, <3>3, WorkerSnaps
        <4>2. QED
          BY <1>0, <1>4, <2>0, <2>3, <3>1, <4>1, OwnerStepShows
             DEF OwnerShows, Owns
      <3>4. QED
        BY <3>2, <3>3
    <2>4. QED
      BY <2>1, <2>2, <2>3
  <1>5. QED
    BY <1>1, <1>2, <1>3, <1>4, NextCases DEF vars

\* A publication is a new answer of one range, and no older one.
LEMMA PublishIsPublish ==
    ASSUME TypeInv, ShowInv, OwnerShows, NEW w \in Workers, PublishSnapshot(w),
           NEW c \in Ranges, pass[w].cur = c
    PROVE  Contract!Publish(c)
  <1> DEFINE p == pass[w]
             D == {Undated} \cup Window[p.cur][p.window]
             shown == [r \in Ranges |-> snaps[r].shows]
  <1>0. /\ TypeOK /\ SnapsOK /\ Owns(w) /\ pc[w] \in Collected
        /\ UNCHANGED data
    BY DEF TypeInv, TypeOK, PublishSnapshot, Collected
  <1>1. ReadShows(pc[w], p)
    BY <1>0 DEF OwnerShows
  <1>2. /\ c \in Ranges /\ D \subseteq Sources
        /\ \A s \in D : p.read[s] # Missing
        /\ \A r \in Ranges : r # c => snaps'[r] = snaps[r]
    BY PublishReplaces
  <1>3. \/ snaps'[c].shows = snaps[c].shows
        \/ snaps'[c].shows = [s \in D |-> p.read[s]]
    <2> DEFINE f == [s \in D |-> p.read[s]]
    <2>1. \/ snaps'[c] = snaps[c]
          \/ snaps'[c] = [gen |-> p.gen, builtDay |-> today,
                          window |-> p.window, shows |-> f]
      BY <1>2, PublishReplaces
    <2> HIDE DEF f
    <2>2. snaps'[c].shows = snaps[c].shows \/ snaps'[c].shows = f
      BY <2>1
    <2>3. QED
      BY <2>2 DEF f
  <1>4. ASSUME NEW s \in DOMAIN snaps'[c].shows
        PROVE  /\ snaps'[c].shows[s] <= data[s]
               /\ s \in DOMAIN snaps[c].shows =>
                      snaps[c].shows[s] <= snaps'[c].shows[s]
    <2>1. CASE snaps'[c].shows = snaps[c].shows
      <3>1. s \in Sources /\ snaps[c].shows[s] \in Nat
        BY <1>0, <1>2, <2>1, ShowTypes
      <3>2. snaps[c].shows[s] <= data[s]
        BY <1>2, <2>1, <3>1 DEF ShowInv, NotBehind
      <3>3. QED
        BY <2>1, <3>1, <3>2
    <2>2. CASE snaps'[c].shows = [z \in D |-> p.read[z]]
      <3>1. s \in D /\ snaps'[c].shows[s] = p.read[s]
        BY <2>2
      <3>2. p.read[s] <= data[s] /\ NotBehind(s, p.read[s])
        BY <1>0, <1>1, <1>2, <3>1 DEF ReadShows
      <3>3. QED
        BY <1>2, <3>1, <3>2 DEF NotBehind
    <2>3. QED
      BY <1>3, <2>1, <2>2
  <1>5. shown' = [shown EXCEPT ![c] = shown'[c]]
    BY <1>2
  <1>6. shown[c] = snaps[c].shows /\ shown'[c] = snaps'[c].shows
    BY <1>2
  <1> HIDE DEF shown
  <1>7. \A s \in DOMAIN shown'[c] :
            /\ shown'[c][s] <= data[s]
            /\ s \in DOMAIN shown[c] => shown[c][s] <= shown'[c][s]
    BY <1>4, <1>6
  <1>8. QED
    BY <1>0, <1>5, <1>7 DEF Contract!Publish, shown

LEMMA ContractStep ==
    TypeInv /\ TypeInv' /\ RowsInv /\ LeaseInv /\ ShowInv /\ OwnerShows
    /\ [Next]_vars
    => [Contract!Next]_(Contract!vars)
  <1> SUFFICES ASSUME TypeInv, TypeInv', RowsInv, LeaseInv, ShowInv, OwnerShows,
                      [Next]_vars
               PROVE  Contract!Next \/ UNCHANGED Contract!vars
    OBVIOUS
  <1>0. TypeOK /\ PassOK /\ BoundsOK
    BY DEF TypeInv, TypeOK
  <1>1. ASSUME UNCHANGED snaps
        PROVE  Contract!Next \/ UNCHANGED Contract!vars
    <2>1. [r \in Ranges |-> snaps[r].shows]' = [r \in Ranges |-> snaps[r].shows]
      BY <1>1
    <2>2. CASE UNCHANGED data
      BY <2>1, <2>2 DEF Contract!vars
    <2>3. ASSUME NEW s \in Sources, data[s] < data'[s],
                 data' = [data EXCEPT ![s] = data'[s]]
          PROVE  Contract!Next
      <3>1. data[s] \in Nat /\ data'[s] \in Nat
        BY <1>0, VersionTypes DEF TypeInv, TypeOK, RowsOK, Versions
      <3>2. Contract!Change(s)
        BY <2>1, <2>3, <3>1 DEF Contract!Change
      <3>3. QED
        BY <3>2 DEF Contract!Next
    <2>4. QED
      BY <2>2, <2>3, RowsRise
  <1>2. ASSUME NEW w \in Workers, PublishSnapshot(w)
        PROVE  Contract!Next
    <2>1. PICK r \in Ranges : pass[w].cur = r
      BY <1>2, PublishReplaces
    <2>2. Contract!Publish(r)
      BY <1>2, <2>1, PublishIsPublish
    <2>3. QED
      BY <2>2 DEF Contract!Next
  <1>3. ASSUME NEW w \in Workers, Begins(w)
        PROVE  UNCHANGED snaps
    BY <1>0, <1>3, BeginMoves
  <1>4. ASSUME NEW w \in Workers, Step(w) \/ Ends(w), ~PublishSnapshot(w)
        PROVE  UNCHANGED snaps
    BY <1>4, WorkerSnaps
  <1>5. CASE Surroundings
    BY <1>0, <1>1, <1>5, SurroundingsRows
  <1>6. QED
    BY <1>1, <1>2, <1>3, <1>4, <1>5, NextCases DEF vars

LEMMA ContractInit == Init => Contract!Init
  <1> SUFFICES ASSUME Init PROVE Contract!Init
    OBVIOUS
  <1>1. \A r \in Ranges : snaps[r].shows = <<>>
    BY DEF Init, NoSnap
  <1>2. QED
    BY <1>1 DEF Init, Contract!Init

\* Every range shows committed versions, and never an older one than before,
\* whichever worker publishes, whoever lost its lease on the way, and whatever
\* imports, crashes and midnights do: the sync implements StatisticsContract,
\* provided that an aggregate ends within its lease and that no custom range
\* stores days behind the lease's back (build_statistics_days_task).
THEOREM SyncKeepsTheContract ==
    ASSUME Timely, NoReaders PROVE Spec => KeepsContract
  <1>1. Spec => []TypeInv
    BY InitTypeInv, NextTypeInv, PTL DEF Spec
  <1>2. Spec /\ []TypeInv => []ReadInv
    BY InitLease, NextReadInv, PTL DEF Spec
  <1>3. Spec /\ []TypeInv /\ []ReadInv => []LeaseInv
    BY InitLease, NextLeaseInv, PTL DEF Spec
  <1>4. Spec /\ []TypeInv => []BuiltInv /\ []RowsInv
    BY InitShow, NextBuiltInv, NextRowsInv, PTL DEF Spec
  <1>5. Spec /\ []TypeInv /\ []LeaseInv /\ []BuiltInv /\ []RowsInv
        => [](ShowInv /\ OwnerShows)
    <2>1. Init => ShowInv /\ OwnerShows
      BY InitShow
    <2>2. TypeInv /\ TypeInv' /\ RowsInv /\ BuiltInv /\ LeaseInv
          /\ (ShowInv /\ OwnerShows) /\ [Next]_vars
          => (ShowInv /\ OwnerShows)'
      BY NextShowInv
    <2>3. QED
      BY <2>1, <2>2, PTL DEF Spec
  <1>6. QED
    BY <1>1, <1>2, <1>3, <1>4, <1>5, ContractInit, ContractStep, PTL
       DEF Spec, KeepsContract, Contract!Spec
=============================================================================

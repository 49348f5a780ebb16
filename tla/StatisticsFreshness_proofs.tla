---------------------- MODULE StatisticsFreshness_proofs ----------------------
(***************************************************************************)
(* Proofs about StatisticsSync: the day marker is honest, every stale day  *)
(* payload is on record, what looks fresh is current, and a user with      *)
(* nothing left to do has current statistics.                              *)
(***************************************************************************)
EXTENDS StatisticsLease_proofs

USE DEF srcVars, dayVars, markVars, syncedVars, actorVars, passVars,
        passFrame, finishFrame, importFrame

-----------------------------------------------------------------------------
(* Generations and requests *)

\* No import ends by restoring the generation it bumped (a poll that finds
\* nothing new); see the remark on such imports in README.md.
NoUnchanged == "unchanged" \notin ImportKinds

\* What a step does to the generation and to the sweep request.
Bumped == generation' > generation
Requested == Bumped /\ sweeps' = sweeps + 1 /\ sweep' = sweeps + 1

LEMMA RequestSteps ==
    ASSUME TypeOK
    PROVE  /\ BumpGeneration => Bumped /\ UNCHANGED <<sweep, sweeps>>
           /\ BumpWithSweep => Requested
           /\ \A r \in Ranges : RequestManualRefresh(r) => Requested
  BY DEF TypeOK, MarksOK, BumpGeneration, BumpWithSweep, RequestManualRefresh,
     Bumped, Requested

LEMMA SurroundingsMarks ==
    ASSUME TypeOK, Surroundings
    PROVE  \/ UNCHANGED <<generation, sweep, sweeps>>
           \/ Bumped /\ UNCHANGED <<sweep, sweeps>>
           \/ Requested
           \/ ImportEnd
  <1>1. CASE \E x \in Writers : Writer(x)
    BY <1>1, RequestSteps DEF Writer, SaveRow, OpenTransaction, MarkDirty,
       DropPayload, Bump, CommitTransaction, RollBack
  <1>2. CASE \E r \in Ranges : RequestManualRefresh(r)
    BY <1>2, RequestSteps
  <1>3. CASE Import
    BY <1>3, RequestSteps DEF Import, ImportCreate, ImportOpen, ImportSave,
       ImportMark, ImportDrop, ImportClose, ImportPublish
  <1>4. CASE \/ \E x \in Readers : ReaderBuild(x) \/ ReaderStore(x)
             \/ \E r \in Ranges : OpenPage(r)
             \/ Reconcile \/ LeaseLapses \/ Midnight \/ Settle
             \/ LoseMessage \/ Evict
    BY <1>4 DEF ReaderBuild, ReaderStore, OpenPage, Reconcile, LeaseLapses,
       Midnight, Settle, LoseMessage, Evict
  <1>5. QED
    BY <1>1, <1>2, <1>3, <1>4 DEF Surroundings

LEMMA EndMarks ==
    ASSUME TypeOK, NEW w \in Workers, Ends(w)
    PROVE  \/ UNCHANGED <<generation, sweep, sweeps>>
           \/ Requested /\ pass[w].only # NoRange
  BY RequestSteps DEF Ends, Busy, Release, YieldToImport, LoseLease, Crash,
     Abort, Yield, Finish

LEMMA WorkerMarks ==
    ASSUME TypeOK, NEW w \in Workers, Step(w) \/ Ends(w)
    PROVE  \/ UNCHANGED <<generation, sweep, sweeps>>
           \/ Requested /\ pass[w].only # NoRange
           \/ /\ ClearSweep(w) /\ UNCHANGED <<generation, sweeps>>
              /\ Owns(w) /\ sweep <= pass[w].stamp /\ sweep' = 0
  <1>1. CASE Ends(w)
    BY <1>1, EndMarks
  <1>2. CASE ClearSweep(w)
    BY <1>2 DEF ClearSweep
  <1>3. CASE ~Ends(w) /\ ~ClearSweep(w)
    BY <1>3, StepCases DEF Claim, ReadState, PrepareSweep, ReadTokens,
       BuildDay, StoreDay, MarkEpoch, PlanRanges, BeginRange,
       BuildMissingDay, StoreMissingDay, CollectPayloads, BuildLateDay,
       StoreLateDay, ReadUndated, PublishSnapshot, CheckAfterPublish,
       RecordMarkers
  <1>4. QED
    BY <1>1, <1>2, <1>3

LEMMA ImportEnds ==
    ASSUME TypeOK, ImportEnd
    PROVE  /\ UNCHANGED sweeps
           /\ NoUnchanged => UNCHANGED generation
           /\ sweep' = sweep \/ (sweep = import.marker /\ sweep' = import.prevSweep)
  BY DEF TypeOK, ImportOK, ImportEnd, RestoreUnchanged, DropSweep, KeepRequest,
     NoUnchanged, NoRange

\* The generation never goes back unless an import restores it.
LEMMA GenerationRises ==
    ASSUME TypeInv, NoUnchanged, [Next]_vars
    PROVE  generation \in Nat /\ generation' \in Nat /\ generation <= generation'
  <1>0. TypeOK /\ PassOK /\ BoundsOK /\ generation \in Nat
    BY DEF TypeInv, TypeOK, MarksOK
  <1>1. TypeInv'
    BY NextTypeInv
  <1>2. generation' \in Nat
    BY <1>1 DEF TypeInv, TypeOK, MarksOK
  <1>3. generation' = generation \/ Bumped
    BY <1>0, NextCases, SurroundingsMarks, ImportEnds, WorkerMarks, BeginMoves
       DEF vars, Requested
  <1>4. QED
    BY <1>0, <1>2, <1>3 DEF Bumped

-----------------------------------------------------------------------------
(* publish_snapshot refuses no publication of the lease's owner: between
   reading the state and losing the lease, nobody publishes a later generation
   than the owner read. *)

Past(p) == p \notin {"idle", "start", "claimed"}

GensInv ==
    /\ \A r \in Ranges : snaps[r].gen <= generation
    /\ \A w \in Workers : pass[w].gen <= generation
    /\ \A w \in Workers : Owns(w) /\ Past(pc[w]) =>
           \A r \in Ranges : snaps[r].gen <= pass[w].gen

LEMMA PassGens ==
    ASSUME TypeOK
    PROVE  /\ \A r \in Ranges : snaps[r].gen \in Int
           /\ \A w \in Workers : pass[w].gen \in Nat
  BY SnapGens DEF TypeOK, PassOK, Pass

LEMMA InitGens == Init => GensInv
  <1> SUFFICES ASSUME Init PROVE GensInv
    OBVIOUS
  <1>1. /\ \A w \in Workers : pc[w] = "idle" /\ pass[w].gen = 0
        /\ \A r \in Ranges : snaps[r].gen = -1
        /\ generation = 1
    BY DEF Init, Idle, NoSnap
  <1>2. QED
    BY <1>1 DEF GensInv, Past

LEMMA NextGensInv ==
    ASSUME NoUnchanged
    PROVE  TypeInv /\ TypeInv' /\ GensInv /\ [Next]_vars => GensInv'
  <1> SUFFICES ASSUME TypeInv, TypeInv', GensInv, [Next]_vars PROVE GensInv'
    OBVIOUS
  <1>0. /\ TypeOK /\ TypeOK' /\ PassOK /\ BoundsOK /\ LeaseOK
        /\ generation \in Nat /\ generation' \in Nat
        /\ generation <= generation'
    BY GenerationRises DEF TypeInv, TypeOK
  <1>t. /\ \A r \in Ranges : snaps[r].gen \in Int /\ snaps'[r].gen \in Int
        /\ \A w \in Workers : pass[w].gen \in Nat /\ pass'[w].gen \in Nat
    <2>1. \A r \in Ranges : snaps'[r].gen \in Int
      BY <1>0 DEF TypeOK, SnapsOK, Snapshot, NoSnap
    <2>2. \A w \in Workers : pass'[w].gen \in Nat
      BY <1>0 DEF TypeOK, PassOK, Pass
    <2>3. QED
      BY <1>0, <2>1, <2>2, PassGens
  <1>1. ASSUME UNCHANGED <<snaps, passVars>>, lease'.owner = lease.owner
        PROVE  GensInv'
    BY <1>0, <1>t, <1>1 DEF GensInv, Owns
  <1>2. CASE Surroundings
    BY <1>0, <1>1, <1>2, SurroundingsRows
  <1>3. ASSUME NEW w \in Workers, Begins(w)
        PROVE  GensInv'
    <2>1. CASE UNCHANGED passVars
      BY <1>0, <1>1, <1>3, <2>1, BeginMoves
    <2>2. CASE pc'[w] = "start" /\ Others(w) /\ pass'[w].gen = 0
      <3>1. UNCHANGED <<snaps, lease>>
        BY <1>0, <1>3, BeginMoves
      <3>2. QED
        BY <1>0, <1>t, <2>2, <3>1 DEF GensInv, Owns, Others, Past
    <2>3. QED
      BY <1>0, <1>3, <2>1, <2>2, BeginMoves
  <1>4. ASSUME NEW w \in Workers, Step(w) \/ Ends(w)
        PROVE  GensInv'
    <2>0. Others(w)
      BY <1>0, <1>4, ClaimMoves, ReadStateMoves, EndMoves, SameStateMoves
    <2>1. pass'[w].gen <= generation'
      <3>1. pass'[w].gen \in {pass[w].gen, generation, 0}
        BY <1>0, <1>4, ClaimMoves, ReadStateMoves, EndMoves, SameStateMoves,
           IdleFields DEF SameState
      <3>2. QED
        BY <1>0, <1>t, <3>1 DEF GensInv
    <2>2. \A u \in Workers : pass'[u].gen <= generation'
      BY <1>0, <1>t, <2>0, <2>1 DEF GensInv, Others
    <2>3. CASE PublishSnapshot(w)
      <3>1. /\ Owns(w) /\ pc[w] = "publish" /\ lease'.owner = w
            /\ pass'[w].gen = pass[w].gen
        BY <1>0, <2>3, PublishMoves
           DEF PublishSnapshot, Renewed, Owns, LeaseOK, SameState
      <3>2. \A r \in Ranges : snaps'[r].gen \in {snaps[r].gen, pass[w].gen}
        <4>1. DEFINE f == [s \in {Undated} \cup Window[pass[w].cur][pass[w].window]
                             |-> pass[w].read[s]]
        <4>2. \A r \in Ranges :
                 \/ snaps'[r] = snaps[r]
                 \/ snaps'[r] = [gen |-> pass[w].gen, builtDay |-> today,
                                 window |-> pass[w].window, shows |-> f]
          BY <2>3, PublishReplaces
        <4> HIDE DEF f
        <4>3. QED
          BY <4>2
      <3>3. \A r \in Ranges : snaps'[r].gen <= pass[w].gen
        BY <1>t, <3>1, <3>2 DEF GensInv, Past
      <3>4. \A r \in Ranges : snaps'[r].gen <= generation'
        BY <1>0, <1>t, <3>3 DEF GensInv
      <3>5. QED
        BY <2>2, <3>1, <3>3, <3>4 DEF GensInv, Owns
    <2>4. CASE ~PublishSnapshot(w)
      <3>1. UNCHANGED snaps
        BY <1>4, <2>4, WorkerSnaps
      <3>2. \A r \in Ranges : snaps'[r].gen <= generation'
        BY <1>0, <1>t, <3>1 DEF GensInv
      <3>3. ASSUME NEW u \in Workers, lease'.owner = u, Past(pc'[u])
            PROVE  \A r \in Ranges : snaps[r].gen <= pass'[u].gen
        <4>1. CASE Claim(w)
          BY <1>0, <3>3, <4>1, ClaimMoves DEF Claim, Past
        <4>2. CASE ReadState(w)
          BY <1>0, <3>3, <4>2, <2>0, ReadStateMoves, StepLease
             DEF GensInv, Others, Owns
        <4>3. CASE Ends(w)
          <5>1. lease'.owner = lease.owner
            BY <1>0, <1>4, <4>3, OwnerMoves DEF Ends, Claim, Busy, Release,
               YieldToImport, LoseLease, Crash, Abort, Yield
          <5>2. u # w
            BY <1>0, <3>3, <4>3, EndMoves DEF Past
          <5>3. QED
            BY <2>0, <3>3, <5>1, <5>2 DEF GensInv, Others, Owns
        <4>4. CASE ~Claim(w) /\ ~ReadState(w) /\ ~Ends(w)
          <5>1. lease'.owner = lease.owner
            BY <1>0, <1>4, <4>4, OwnerMoves
          <5>2. pass'[u].gen = pass[u].gen /\ Past(pc[u])
            BY <1>0, <1>4, <2>0, <3>3, <4>4, SameStateMoves
               DEF SameState, Others, Past
          <5>3. QED
            BY <3>3, <5>1, <5>2 DEF GensInv, Owns
        <4>5. QED
          BY <4>1, <4>2, <4>3, <4>4
      <3>4. QED
        BY <2>2, <3>1, <3>2, <3>3 DEF GensInv, Owns
    <2>5. QED
      BY <2>3, <2>4
  <1>5. CASE UNCHANGED vars
    BY <1>1, <1>5 DEF vars
  <1>6. QED
    BY <1>2, <1>3, <1>4, <1>5, NextCases

-----------------------------------------------------------------------------
(* The day marker is honest.

   Like the generation markers, synced_day is raised by RecordMarkers to what
   its pass read at the start; by then each range that the pass owes was built
   on that day or later.  A range leaves the to-do list when it is published,
   and this relies on GensInv: a publication that publish_snapshot refused
   would leave a snapshot of an earlier day behind the marker. *)

DayBounds ==
    /\ \A r \in Ranges : snaps[r].builtDay <= today
    /\ \A w \in Workers : pass[w].day <= today
    /\ syncedDay <= today

DayKept(p, q) ==
    p \in RangePoints /\ q.only = NoRange =>
        \A r \in DueRanges(q) : r \in q.todo \/ snaps[r].builtDay >= q.day

DayInv ==
    /\ DayBounds
    /\ \A w \in Workers : DayKept(pc[w], pass[w])
    /\ SyncedDayIsHonest

LEMMA DayTypes ==
    ASSUME TypeOK
    PROVE  /\ today \in Nat /\ syncedDay \in Nat
           /\ \A r \in Ranges : snaps[r].builtDay \in Nat
           /\ \A w \in Workers : pass[w].day \in Nat
  <1>1. \A r \in Ranges : snaps[r].builtDay \in Nat
    <2>1. ASSUME NEW r \in Ranges
          PROVE  snaps[r].builtDay \in Nat
      <3>1. CASE snaps[r] = NoSnap
        BY <3>1 DEF NoSnap, NoDay
      <3>2. CASE snaps[r] # NoSnap
        BY <3>2, ConstantsOK DEF TypeOK, SnapsOK, Snapshot, Days
      <3>3. QED
        BY <3>1, <3>2
    <2>2. QED
      BY <2>1
  <1>2. \A w \in Workers : pass[w].day \in Nat
    BY ConstantsOK DEF TypeOK, PassOK, Pass
  <1>3. today \in Nat /\ syncedDay \in Nat
    BY ConstantsOK DEF TypeOK, SyncedOK, Days
  <1>4. QED
    BY <1>1, <1>2, <1>3

\* The ranges are planned once, and only a publication takes one off the list.
LEMMA IntoRanges ==
    ASSUME PassOK, NEW w \in Workers, Step(w) \/ Ends(w), pc'[w] \in RangePoints
    PROVE  /\ SameState(pass[w], pass'[w])
           /\ \/ PlanRanges(w)
              \/ pc[w] \in RangePoints /\ PublishSnapshot(w)
              \/ pc[w] \in RangePoints /\ pass'[w].todo = pass[w].todo
  <1> USE DEF RangePoints
  <1>1. ~Claim(w) /\ ~ReadState(w) /\ ~Ends(w)
    BY ClaimMoves, ReadStateMoves, EndMoves
  <1>2. SameState(pass[w], pass'[w])
    BY <1>1, SameStateMoves
  <1>3. ~ReadTokens(w) /\ ~StoreDay(w) /\ ~PrepareSweep(w) /\ ~MarkEpoch(w)
    BY ReadTokensMoves, StoreDayMoves, SamePassMoves DEF NextDays
  <1>4. CASE BuildDay(w) \/ BuildMissingDay(w) \/ BuildLateDay(w)
    BY <1>2, <1>4, BuildMoves DEF BuildMissingDay, BuildLateDay
  <1>5. CASE CheckAfterPublish(w) \/ ClearSweep(w) \/ RecordMarkers(w)
    BY <1>2, <1>5, SamePassMoves DEF CheckAfterPublish, ClearSweep, RecordMarkers
  <1>6. CASE BeginRange(w) \/ StoreMissingDay(w) \/ CollectPayloads(w)
    BY <1>2, <1>6, BeginRangeMoves, StoreMissingDayMoves, CollectMoves
       DEF BeginRange, StoreMissingDay, CollectPayloads
  <1>7. CASE StoreLateDay(w) \/ ReadUndated(w)
    BY <1>2, <1>7, StoreLateDayMoves, ReadUndatedMoves
       DEF StoreLateDay, ReadUndated
  <1>8. CASE PublishSnapshot(w)
    BY <1>2, <1>8 DEF PublishSnapshot
  <1>9. QED
    BY <1>1, <1>2, <1>3, <1>4, <1>5, <1>6, <1>7, <1>8, StepCases

\* Publishing brings a range to today, if the pass's generation is not behind.
LEMMA DaysRise ==
    ASSUME TypeInv, DayBounds, NEW w \in Workers, Step(w) \/ Ends(w)
    PROVE  \A r \in Ranges : snaps[r].builtDay <= snaps'[r].builtDay
                             /\ snaps'[r].builtDay <= today
  <1>0. /\ TypeOK /\ today \in Nat
        /\ \A r \in Ranges : snaps[r].builtDay \in Nat
    BY DayTypes DEF TypeInv
  <1>1. CASE PublishSnapshot(w)
    <2> DEFINE f == [s \in {Undated} \cup Window[pass[w].cur][pass[w].window]
                        |-> pass[w].read[s]]
    <2>1. \A r \in Ranges :
             \/ snaps'[r] = snaps[r]
             \/ snaps'[r] = [gen |-> pass[w].gen, builtDay |-> today,
                             window |-> pass[w].window, shows |-> f]
      BY <1>1, PublishReplaces
    <2> HIDE DEF f
    <2>2. \A r \in Ranges : snaps'[r].builtDay \in {snaps[r].builtDay, today}
      BY <2>1
    <2>3. QED
      BY <1>0, <2>2 DEF DayBounds
  <1>2. CASE ~PublishSnapshot(w)
    BY <1>0, <1>2, WorkerSnaps DEF DayBounds
  <1>3. QED
    BY <1>1, <1>2

LEMMA StepDayKept ==
    ASSUME TypeInv, TypeInv', GensInv, DayInv, NEW w \in Workers,
           Step(w) \/ Ends(w)
    PROVE  \A u \in Workers : DayKept(pc[u], pass[u])'
  <1> DEFINE p == pass[w]
  <1>0. /\ TypeOK /\ TypeOK' /\ PassOK /\ Others(w)
        /\ today \in Nat
        /\ \A r \in Ranges : snaps[r].builtDay \in Nat /\ snaps'[r].builtDay \in Nat
        /\ \A u \in Workers : pass[u].day \in Nat
    <2>1. TypeOK /\ TypeOK' /\ PassOK
      BY DEF TypeInv, TypeOK
    <2>2. \A r \in Ranges : snaps'[r].builtDay \in Nat
      BY <2>1, DaysRise, DayTypes, ConstantsOK
         DEF DayInv, TypeOK, SnapsOK, Snapshot, NoSnap, NoDay, Days
    <2>3. QED
      BY <2>1, <2>2, DayTypes, ClaimMoves, ReadStateMoves, EndMoves,
         SameStateMoves
  <1>1. \A r \in Ranges : snaps[r].builtDay <= snaps'[r].builtDay
    BY DaysRise DEF DayInv
  <1>2. \A q : DueRanges(q) \subseteq Ranges
    BY DEF DueRanges, Ranges
  <1>3. ASSUME NEW u \in Workers, u # w
        PROVE  DayKept(pc[u], pass[u])'
    <2>1. DayKept(pc[u], pass[u])
      BY DEF DayInv
    <2>2. QED
      BY <1>0, <1>1, <1>2, <1>3, <2>1 DEF DayKept, DueRanges, Others
  <1>4. DayKept(pc[w], p)'
    <2>1. ASSUME pc'[w] \in RangePoints, p'.only = NoRange,
                 NEW r \in DueRanges(p')
          PROVE  r \in p'.todo \/ snaps'[r].builtDay >= p'.day
      <3>1. SameState(p, p')
        BY <1>0, <2>1, IntoRanges
      <3>2. /\ p.only = NoRange /\ r \in DueRanges(p) /\ r \in Ranges
            /\ p'.day = p.day /\ p.day \in Nat
        BY <1>0, <1>2, <2>1, <3>1 DEF SameState, DueRanges
      <3>3. CASE PlanRanges(w)
        <4>1. p'.todo = {z \in DueRanges(p) : NeedsRebuild(z, p)}
          BY <1>0, <3>2, <3>3, PlanRangesMoves
        <4>2. UNCHANGED snaps
          BY <3>3 DEF PlanRanges
        <4>3. QED
          BY <1>0, <3>2, <4>1, <4>2 DEF NeedsRebuild
      <3>4. CASE pc[w] \in RangePoints /\ p'.todo = p.todo
        <4>1. r \in p.todo \/ snaps[r].builtDay >= p.day
          BY <3>2, <3>4 DEF DayInv, DayKept
        <4>2. QED
          BY <1>0, <1>1, <3>2, <3>4, <4>1
      <3>5. CASE pc[w] \in RangePoints /\ PublishSnapshot(w)
        <4>1. r \in p.todo \/ snaps[r].builtDay >= p.day
          BY <3>2, <3>5 DEF DayInv, DayKept
        <4>2. /\ p'.todo = p.todo \ {p.cur} /\ p.cur \in Ranges
              /\ snaps[p.cur].gen <= p.gen => snaps'[p.cur].builtDay = today
          BY <1>0, <3>5, PublishMoves, PublishReplaces
        <4>3. Owns(w) /\ Past(pc[w])
          BY <3>5 DEF PublishSnapshot, Past
        <4>4. snaps'[p.cur].builtDay = today /\ p.day <= today
          BY <4>2, <4>3 DEF GensInv, DayInv, DayBounds
        <4>5. QED
          BY <1>0, <1>1, <3>2, <4>1, <4>2, <4>4
      <3>6. QED
        BY <1>0, <2>1, <3>3, <3>4, <3>5, IntoRanges
    <2>2. QED
      BY <2>1 DEF DayKept, DueRanges
  <1>5. QED
    BY <1>3, <1>4

\* Recording vouches for the day that every range has reached.
LEMMA StepVouches ==
    ASSUME TypeInv, TypeInv', PlanInv, DayInv, NEW w \in Workers,
           Step(w) \/ Ends(w)
    PROVE  syncedDay' <= today /\ SyncedDayIsHonest'
  <1> DEFINE p == pass[w]
  <1>0. /\ TypeOK /\ today \in Nat /\ syncedDay \in Nat /\ p.day \in Nat
        /\ p.day <= today /\ syncedDay <= today
        /\ \A r \in Ranges : snaps[r].builtDay \in Nat
        /\ \A r \in Ranges : snaps[r].builtDay >= syncedDay
    BY DayTypes DEF TypeInv, DayInv, DayBounds, SyncedDayIsHonest
  <1>1. CASE RecordMarkers(w)
    <2>1. /\ pc[w] = "record" /\ UNCHANGED snaps
          /\ \/ syncedDay' = syncedDay
             \/ p.heavyDue /\ syncedDay' = p.day
      BY <1>1 DEF RecordMarkers, HeavyDone, DayOf, Greatest
    <2>2. p.only = NoRange /\ p.todo = {}
      BY <2>1 DEF PlanInv, Done
    <2>3. \A r \in DueRanges(p) : snaps[r].builtDay >= p.day
      BY <2>1, <2>2 DEF DayInv, DayKept, RangePoints
    <2>4. p.heavyDue => DueRanges(p) = Ranges
      BY DEF DueRanges, Ranges
    <2>5. QED
      BY <1>0, <2>1, <2>3, <2>4 DEF SyncedDayIsHonest
  <1>2. CASE ~RecordMarkers(w)
    <2>1. UNCHANGED syncedDay
      <3>1. CASE PublishSnapshot(w)
        BY <3>1 DEF PublishSnapshot
      <3>2. CASE ~PublishSnapshot(w)
        BY <1>2, <3>2, StepLeavesMarkers, EndLeaves DEF Ends
      <3>3. QED
        BY <3>1, <3>2
    <2>2. \A r \in Ranges : snaps[r].builtDay <= snaps'[r].builtDay
                            /\ snaps'[r].builtDay <= today
      BY DaysRise DEF DayInv
    <2>3. \A r \in Ranges : snaps'[r].builtDay \in Nat
      <3>1. ASSUME NEW r \in Ranges
            PROVE  snaps'[r].builtDay \in Nat
        <4>1. snaps'[r] = NoSnap \/ snaps'[r].builtDay \in Days
          BY DEF TypeInv, TypeOK, SnapsOK, Snapshot
        <4>2. QED
          BY <4>1, ConstantsOK DEF NoSnap, NoDay, Days
      <3>2. QED
        BY <3>1
    <2>4. QED
      BY <1>0, <2>1, <2>2, <2>3 DEF SyncedDayIsHonest
  <1>3. QED
    BY <1>1, <1>2

LEMMA InitDayInv == Init => DayInv
  <1> SUFFICES ASSUME Init PROVE DayInv
    OBVIOUS
  <1>1. /\ \A w \in Workers : pc[w] = "idle" /\ pass[w].day = 0
        /\ \A r \in Ranges : snaps[r].builtDay = 0
        /\ syncedDay = 0 /\ today \in Nat
    BY ConstantsOK DEF Init, Idle, NoSnap, NoDay, Days
  <1>2. QED
    BY <1>1 DEF DayInv, DayBounds, DayKept, SyncedDayIsHonest, RangePoints

LEMMA NextDayInv ==
    TypeInv /\ TypeInv' /\ PlanInv /\ GensInv /\ DayInv /\ [Next]_vars => DayInv'
  <1> SUFFICES ASSUME TypeInv, TypeInv', PlanInv, GensInv, DayInv, [Next]_vars
               PROVE  DayInv'
    OBVIOUS
  <1>0. TypeOK /\ PassOK /\ BoundsOK
    BY DEF TypeInv, TypeOK
  <1>t. /\ today \in Nat /\ today' \in Nat /\ syncedDay \in Nat
        /\ \A r \in Ranges : snaps[r].builtDay \in Nat
        /\ \A w \in Workers : pass[w].day \in Nat
    BY <1>0, DayTypes, ConstantsOK DEF TypeInv, TypeOK, Days
  <1>1. ASSUME UNCHANGED <<snaps, syncedVars, passVars>>, today <= today'
        PROVE  DayInv'
    <2>1. DayBounds'
      BY <1>t, <1>1 DEF DayInv, DayBounds
    <2>2. QED
      BY <1>1, <2>1 DEF DayInv, DayKept, DueRanges, SyncedDayIsHonest
  <1>2. CASE Surroundings
    <2>1. CASE Midnight
      BY <1>0, <1>1, <1>2, <1>t, <2>1, SurroundingsRows DEF Midnight
    <2>2. CASE ~Midnight
      <3>1. UNCHANGED today
        BY <1>2, <2>2 DEF Surroundings, Writer, SaveRow, OpenTransaction,
           MarkDirty, DropPayload, Bump, CommitTransaction, RollBack,
           RequestManualRefresh, Import, ImportCreate, ImportOpen, ImportSave,
           ImportMark, ImportDrop, ImportEnd, ImportClose, ImportPublish,
           ReaderBuild, ReaderStore, OpenPage, Reconcile, LeaseLapses, Settle,
           LoseMessage, Evict
      <3>2. QED
        BY <1>0, <1>1, <1>2, <1>t, <3>1, SurroundingsRows
    <2>3. QED
      BY <2>1, <2>2
  <1>3. ASSUME NEW w \in Workers, Begins(w)
        PROVE  DayInv'
    <2>0. UNCHANGED <<today, snaps, syncedVars>>
      BY <1>0, <1>3, BeginMoves
    <2>1. CASE UNCHANGED passVars
      BY <1>1, <1>t, <2>0, <2>1
    <2>2. CASE pc'[w] = "start" /\ Others(w) /\ pass'[w].day = NoDay
      <3>1. DayBounds'
        BY <1>t, <2>0, <2>2 DEF DayInv, DayBounds, Others, NoDay
      <3>2. \A u \in Workers : DayKept(pc[u], pass[u])'
        BY <2>0, <2>2 DEF DayInv, DayKept, DueRanges, Others, RangePoints
      <3>3. QED
        BY <2>0, <3>1, <3>2 DEF DayInv, SyncedDayIsHonest
    <2>3. QED
      BY <1>0, <1>3, <2>1, <2>2, BeginMoves
  <1>4. ASSUME NEW w \in Workers, Step(w) \/ Ends(w)
        PROVE  DayInv'
    <2>0. UNCHANGED today /\ Others(w)
      BY <1>0, <1>4, WorkersLeaveRows, ClaimMoves, ReadStateMoves, EndMoves,
         SameStateMoves
    <2>1. pass'[w].day \in {pass[w].day, today, 0}
      BY <1>0, <1>4, ClaimMoves, ReadStateMoves, EndMoves, SameStateMoves,
         IdleFields DEF SameState, NoDay
    <2>2. syncedDay' <= today /\ SyncedDayIsHonest'
      BY <1>4, StepVouches
    <2>3. DayBounds'
      BY <1>4, <1>t, <2>0, <2>1, <2>2, DaysRise DEF DayInv, DayBounds, Others
    <2>4. QED
      BY <1>4, <2>2, <2>3, StepDayKept DEF DayInv
  <1>5. CASE UNCHANGED vars
    BY <1>1, <1>5, <1>t DEF vars
  <1>6. QED
    BY <1>2, <1>3, <1>4, <1>5, NextCases

\* synced_day never claims a later local day than the one each snapshot was
\* built on, although midnight may fall anywhere between reading the state and
\* recording the markers, and passes may be lost, overtaken or cut short.
THEOREM SyncedDayCorrect ==
    ASSUME NoUnchanged PROVE Spec => []SyncedDayIsHonest
  <1>1. Spec => []TypeInv
    BY InitTypeInv, NextTypeInv, PTL DEF Spec
  <1>2. Spec /\ []TypeInv => []HonestInv
    BY InitHonestInv, NextHonestInv, PTL DEF Spec
  <1>3. Spec /\ []TypeInv => []GensInv
    BY InitGens, NextGensInv, PTL DEF Spec
  <1>4. HonestInv => PlanInv
    BY DEF HonestInv
  <1>5. Spec /\ []TypeInv /\ []HonestInv /\ []GensInv => []DayInv
    BY <1>4, InitDayInv, NextDayInv, PTL DEF Spec
  <1>6. DayInv => SyncedDayIsHonest
    BY DEF DayInv
  <1>7. QED
    BY <1>1, <1>2, <1>3, <1>5, <1>6, PTL

-----------------------------------------------------------------------------
(* Stale days are on record.

   A payload behind its rows is on record as a dirty row newer than a token, as
   a mark on its way, as an import that has yet to account for what it wrote, or
   as a sweep request that no day_epoch has answered.  StaleDaysAreOnRecord is
   not inductive, because the lease's owner clears dirty rows by token, answers
   requests and retracts them: what is on record has to be newer than what the
   owner has seen. *)

\* No range is refreshed inside a request (refresh_range_inline is the upgrade
\* path of payloads from before the day cache).
NoInline == MaxInline = 0

Writing     == import.at \in {"open", "saved", "marked", "closing"}
SelfMarking == import.kind \in {"scoped", "unchanged"}
Unmarked    == Writing /\ ~SelfMarking

Coming(d) == \/ \E x \in Writers : writer[x].at = "saved" /\ writer[x].src = d
             \/ import.at = "saved" /\ import.src = d

\* The request that remains should the import take its own one back.
Retractable == /\ import.at \in {"open", "saved", "marked"}
               /\ SelfMarking /\ sweep = import.marker
Request     == IF Retractable THEN import.prevSweep ELSE sweep

Rec(d, t, n) == \/ dirty[d] > t
                \/ Coming(d)
                \/ Unmarked
                \/ Request > n /\ Request > epoch

Behind(d) == payload[d] \notin {Missing, data[d]}

\* Tokens and requests are handed out in order, and nobody knows one that was
\* not handed out yet.
CountInv ==
    /\ \A d \in Days : dirty[d] <= marks[d]
    /\ \A w \in Workers : \A d \in Days : pass[w].toks[d] <= marks[d]
    /\ sweep <= sweeps /\ epoch <= sweeps
    /\ \A w \in Workers : pass[w].stamp <= sweeps /\ pass[w].sweep <= sweeps
    /\ Writing => import.marker <= sweeps /\ import.prevSweep < import.marker
    /\ import.at \in {"saved", "marked"} =>
           import.kind = "scoped" /\ import.src \in Days
    /\ \A w \in Workers : pass[w].only = NoRange

\* What each step of an import does to its run.
SameRun == /\ import'.kind = import.kind /\ import'.marker = import.marker
           /\ import'.prevGen = import.prevGen
           /\ import'.prevSweep = import.prevSweep

LEMMA ImportMoves ==
    ASSUME ImportOK
    PROVE  /\ \A k \in ImportKinds : ImportCreate(k) => import'.at = "created"
           /\ ImportOpen => /\ import'.at = "open" /\ import'.kind = import.kind
                            /\ import'.prevGen = generation
                            /\ import'.prevSweep = sweep
                            /\ import'.marker = sweeps + 1
           /\ \A s \in Sources : ImportSave(s) =>
                 /\ import.at = "open" /\ SameRun
                 /\ IF import.kind = "scoped" /\ s # Undated
                    THEN import'.at = "saved" /\ import'.src = s
                    ELSE import'.at = "open"
           /\ ImportMark => /\ import.at = "saved" /\ import'.at = "marked"
                            /\ import'.src = import.src /\ SameRun
           /\ ImportDrop => /\ import.at = "marked" /\ import'.at = "open"
                            /\ SameRun
           /\ ImportEnd => /\ import.at = "open" /\ import'.at = "closing"
                           /\ SameRun
           /\ ImportClose => /\ import.at = "closing"
                             /\ import'.at \in {"idle", "publishing"}
           /\ ImportPublish => import.at = "publishing" /\ import'.at = "idle"
  <1> USE DEF ImportOK, SameRun
  <1>1. \A k \in ImportKinds : ImportCreate(k) => import'.at = "created"
    BY DEF ImportCreate, NoImport
  <1>2. ImportOpen => /\ import'.at = "open" /\ import'.kind = import.kind
                      /\ import'.prevGen = generation
                      /\ import'.prevSweep = sweep
                      /\ import'.marker = sweeps + 1
    BY DEF ImportOpen
  <1>3. ASSUME NEW s \in Sources, ImportSave(s)
        PROVE  /\ import.at = "open" /\ SameRun
               /\ IF import.kind = "scoped" /\ s # Undated
                  THEN import'.at = "saved" /\ import'.src = s
                  ELSE import'.at = "open"
    BY <1>3 DEF ImportSave
  <1>4. ImportMark => /\ import.at = "saved" /\ import'.at = "marked"
                      /\ import'.src = import.src /\ SameRun
    BY DEF ImportMark
  <1>5. /\ ImportDrop => import.at = "marked" /\ import'.at = "open" /\ SameRun
        /\ ImportEnd => import.at = "open" /\ import'.at = "closing" /\ SameRun
    BY DEF ImportDrop, ImportEnd
  <1>6. /\ ImportClose => /\ import.at = "closing"
                          /\ import'.at \in {"idle", "publishing"}
        /\ ImportPublish => import.at = "publishing" /\ import'.at = "idle"
    BY DEF ImportClose, ImportPublish, NoImport
  <1>7. QED
    BY <1>1, <1>2, <1>3, <1>4, <1>5, <1>6

LEMMA UpsertMoves ==
    ASSUME DaysOK, NEW D, Upsert(D)
    PROVE  \A d \in Days :
              /\ marks[d] \in Nat /\ dirty[d] \in Nat
              /\ marks'[d] = marks[d] + (IF d \in D THEN 1 ELSE 0)
              /\ dirty'[d] = IF d \in D THEN marks[d] + 1 ELSE dirty[d]
  BY DEF Upsert, DaysOK

\* A mark is newer than every mark before it.
Fresh(d) == marks'[d] = marks[d] + 1 /\ dirty'[d] = marks[d] + 1

LEMMA SurroundingsDays ==
    ASSUME TypeOK, Surroundings
    PROVE  /\ \A d \in Days : \/ marks'[d] = marks[d] /\ dirty'[d] = dirty[d]
                              \/ Fresh(d)
           /\ epoch' \in {epoch, Absent}
  <1>0. DaysOK
    BY DEF TypeOK
  <1>1. \/ UNCHANGED <<marks, dirty>>
        \/ \E D : Upsert(D)
    <2>1. CASE \E x \in Writers : Writer(x)
      BY <2>1 DEF Writer, SaveRow, OpenTransaction, MarkDirty, DropPayload,
         Bump, CommitTransaction, RollBack
    <2>2. CASE \E r \in Ranges : RequestManualRefresh(r)
      BY <2>2 DEF RequestManualRefresh
    <2>3. CASE Import
      BY <2>3 DEF Import, ImportCreate, ImportOpen, ImportSave, ImportMark,
         ImportDrop, ImportEnd, ImportClose, ImportPublish
    <2>4. CASE \/ \E x \in Readers : ReaderBuild(x) \/ ReaderStore(x)
               \/ \E r \in Ranges : OpenPage(r)
               \/ Reconcile \/ LeaseLapses \/ Midnight \/ Settle
               \/ LoseMessage \/ Evict
      BY <2>4 DEF ReaderBuild, ReaderStore, OpenPage, Reconcile, LeaseLapses,
         Midnight, Settle, LoseMessage, Evict
    <2>5. QED
      BY <2>1, <2>2, <2>3, <2>4 DEF Surroundings
  <1>2. epoch' \in {epoch, Absent}
    BY DEF Surroundings, Writer, SaveRow, OpenTransaction, MarkDirty,
       DropPayload, Bump, CommitTransaction, RollBack, RequestManualRefresh,
       Import, ImportCreate, ImportOpen, ImportSave, ImportMark, ImportDrop,
       ImportEnd, ImportClose, ImportPublish, ReaderBuild, ReaderStore,
       OpenPage, Reconcile, LeaseLapses, Midnight, Settle, LoseMessage, Evict
  <1>3. QED
    BY <1>0, <1>1, <1>2, UpsertMoves DEF Fresh, DaysOK

\* Days are marked and cleared by the lease's owner only as it sweeps or stores.
LEMMA WorkerDays ==
    ASSUME TypeOK, NEW w \in Workers, Step(w) \/ Ends(w)
    PROVE  /\ \A d \in Days : \/ marks'[d] = marks[d] /\ dirty'[d] = dirty[d]
                              \/ Fresh(d)
                              \/ marks'[d] = marks[d] /\ dirty'[d] = 0
           /\ epoch' \in {epoch, pass[w].sweep, 0}
  <1>0. DaysOK
    BY DEF TypeOK
  <1>1. CASE PrepareSweep(w)
    BY <1>0, <1>1, UpsertMoves DEF PrepareSweep, Fresh
  <1>2. CASE StoreDay(w)
    BY <1>0, <1>2 DEF StoreDay, DaysOK
  <1>3. CASE MarkEpoch(w)
    BY <1>3 DEF MarkEpoch, Plain
  <1>4. CASE Ends(w)
    BY <1>4, EndLeaves
  <1>5. CASE ~PrepareSweep(w) /\ ~StoreDay(w) /\ ~MarkEpoch(w) /\ ~Ends(w)
    <2>1. UNCHANGED <<marks, dirty, epoch>>
      BY <1>5, StepCases DEF Claim, ReadState, ReadTokens, BuildDay,
         PlanRanges, BeginRange, BuildMissingDay, StoreMissingDay,
         CollectPayloads, BuildLateDay, StoreLateDay, ReadUndated,
         PublishSnapshot, CheckAfterPublish, ClearSweep, RecordMarkers
    <2>2. QED
      BY <2>1
  <1>6. QED
    BY <1>1, <1>2, <1>3, <1>4, <1>5

\* A token is read with the days, and kept until the pass ends.
LEMMA WorkerTokens ==
    ASSUME PassOK, NEW w \in Workers, Step(w) \/ Ends(w)
    PROVE  /\ \/ pass'[w].toks = pass[w].toks
              \/ pass'[w].toks = [d \in Days |-> 0]
              \/ ReadTokens(w) /\ pass'[w].toks = dirty
           /\ Others(w)
  <1> USE DEF SameDays
  <1>1. CASE Ends(w)
    BY <1>1, EndMoves, IdleFields
  <1>2. CASE Claim(w) \/ ReadState(w) \/ ReadTokens(w)
    BY <1>2, ClaimMoves, ReadStateMoves, ReadTokensMoves
  <1>3. CASE \/ PrepareSweep(w) \/ MarkEpoch(w) \/ CheckAfterPublish(w)
             \/ ClearSweep(w) \/ RecordMarkers(w)
    BY <1>3, SamePassMoves
  <1>4. CASE BuildDay(w) \/ BuildMissingDay(w) \/ BuildLateDay(w) \/ StoreDay(w)
    BY <1>4, BuildMoves, StoreDayMoves
  <1>5. CASE PlanRanges(w) \/ BeginRange(w) \/ StoreMissingDay(w)
    BY <1>5, PlanRangesMoves, BeginRangeMoves, StoreMissingDayMoves
  <1>6. CASE CollectPayloads(w) \/ StoreLateDay(w) \/ ReadUndated(w)
             \/ PublishSnapshot(w)
    BY <1>6, CollectMoves, StoreLateDayMoves, ReadUndatedMoves, PublishMoves
  <1>7. QED
    BY <1>1, <1>2, <1>3, <1>4, <1>5, <1>6, StepCases

LEMMA CountTypes ==
    ASSUME TypeOK
    PROVE  /\ \A d \in Days : dirty[d] \in Nat /\ marks[d] \in Nat
           /\ \A w \in Workers, d \in Days : pass[w].toks[d] \in Nat
           /\ sweep \in Nat /\ sweeps \in Nat /\ epoch \in Int /\ Absent = -1
           /\ \A w \in Workers : pass[w].stamp \in Nat /\ pass[w].sweep \in Nat
           /\ import.marker \in Nat /\ import.prevSweep \in Nat
           /\ import.prevGen \in Nat /\ generation \in Nat
  BY DEF TypeOK, DaysOK, MarksOK, PassOK, Pass, ImportOK, Absent

LEMMA InitCount == Init => CountInv
  <1> SUFFICES ASSUME Init PROVE CountInv
    OBVIOUS
  <1>1. /\ \A w \in Workers : pass[w] = Idle
        /\ import = NoImport /\ sweep = 1 /\ sweeps = 1 /\ epoch = -1
        /\ dirty = [d \in Days |-> 0] /\ marks = [d \in Days |-> 0]
    BY DEF Init, Absent
  <1>2. import.at = "idle"
    BY <1>1 DEF NoImport
  <1>3. QED
    BY <1>1, <1>2, IdleFields DEF CountInv, Writing

LEMMA ImportCounts ==
    ASSUME TypeOK, TypeOK', CountInv, Import
    PROVE  /\ Writing' => import'.marker <= sweeps'
                          /\ import'.prevSweep < import'.marker
           /\ import'.at \in {"saved", "marked"} =>
                 import'.kind = "scoped" /\ import'.src \in Days
  <1>1. ImportOK /\ sweep \in Nat /\ sweeps \in Nat /\ sweep <= sweeps
    BY CountTypes DEF TypeOK, CountInv
  <1>2. sweeps' \in {sweeps, sweeps + 1}
    BY <1>1 DEF Import, ImportCreate, ImportOpen, ImportSave, ImportMark,
       ImportDrop, ImportEnd, ImportClose, ImportPublish, BumpWithSweep,
       RestoreUnchanged, DropSweep, KeepRequest
  <1>3. CASE ImportOpen
    BY <1>1, <1>3, ImportMoves DEF ImportOpen, BumpWithSweep
  <1>4. CASE (\E k \in ImportKinds : ImportCreate(k)) \/ ImportClose \/ ImportPublish
    BY <1>1, <1>4, ImportMoves DEF Writing
  <1>5. CASE ImportDrop \/ ImportEnd \/ ImportMark
    <2>1. SameRun /\ Writing /\ import'.at \in {"open", "closing", "marked"}
      BY <1>1, <1>5, ImportMoves DEF Writing
    <2>2. import'.marker \in Nat /\ import.marker \in Nat
      BY CountTypes DEF TypeOK, ImportOK
    <2>3. QED
      BY <1>1, <1>2, <1>5, <2>1, <2>2, ImportMoves DEF CountInv, SameRun
  <1>6. ASSUME NEW s \in Sources, ImportSave(s)
        PROVE  /\ Writing' => import'.marker <= sweeps'
                              /\ import'.prevSweep < import'.marker
               /\ import'.at \in {"saved", "marked"} =>
                     import'.kind = "scoped" /\ import'.src \in Days
    <2>1. SameRun /\ Writing
      BY <1>1, <1>6, ImportMoves DEF Writing
    <2>2. import'.marker \in Nat /\ import.marker \in Nat
      BY CountTypes DEF TypeOK, ImportOK
    <2>3. QED
      BY <1>1, <1>2, <1>6, <2>1, <2>2, ImportMoves
         DEF CountInv, SameRun, Sources
  <1>7. QED
    BY <1>3, <1>4, <1>5, <1>6 DEF Import

LEMMA NextCount ==
    ASSUME NoInline
    PROVE  TypeInv /\ TypeInv' /\ CountInv /\ [Next]_vars => CountInv'
  <1> SUFFICES ASSUME TypeInv, TypeInv', CountInv, [Next]_vars PROVE CountInv'
    OBVIOUS
  <1>0. TypeOK /\ TypeOK' /\ PassOK /\ BoundsOK
    BY DEF TypeInv, TypeOK
  <1>t. /\ \A d \in Days : dirty[d] \in Nat /\ marks[d] \in Nat
        /\ \A w \in Workers, d \in Days : pass[w].toks[d] \in Nat
        /\ sweep \in Nat /\ sweeps \in Nat /\ epoch \in Int /\ Absent = -1
        /\ \A w \in Workers : pass[w].stamp \in Nat /\ pass[w].sweep \in Nat
        /\ import.marker \in Nat /\ import.prevSweep \in Nat
    BY <1>0, CountTypes
  <1>1. CASE Surroundings
    <2>1. \A d \in Days : dirty'[d] <= marks'[d] /\ marks[d] <= marks'[d]
                          /\ marks'[d] \in Nat
      BY <1>0, <1>t, <1>1, SurroundingsDays DEF CountInv, Fresh
    <2>2. sweeps <= sweeps' /\ sweep' <= sweeps' /\ sweeps' \in Nat
      <3>1. CASE ImportEnd
        BY <1>0, <1>t, <3>1, ImportEnds, ImportMoves
           DEF CountInv, Writing, TypeOK
      <3>2. CASE ~ImportEnd
        BY <1>0, <1>t, <1>1, <3>2, SurroundingsMarks DEF CountInv, Requested
      <3>3. QED
        BY <3>1, <3>2
    <2>3. epoch' <= sweeps'
      BY <1>0, <1>t, <1>1, <2>2, SurroundingsDays DEF CountInv
    <2>4. UNCHANGED passVars
      BY <1>0, <1>1, SurroundingsRows
    <2>5. /\ Writing' => import'.marker <= sweeps'
                         /\ import'.prevSweep < import'.marker
          /\ import'.at \in {"saved", "marked"} =>
                import'.kind = "scoped" /\ import'.src \in Days
      <3>1. CASE Import
        BY <1>0, <3>1, ImportCounts
      <3>2. CASE ~Import
        <4>1. UNCHANGED import
          BY <1>1, <3>2 DEF Surroundings, Writer, SaveRow, OpenTransaction,
             MarkDirty, DropPayload, Bump, CommitTransaction, RollBack,
             RequestManualRefresh, ReaderBuild, ReaderStore, OpenPage,
             Reconcile, LeaseLapses, Midnight, Settle, LoseMessage, Evict
        <4>2. QED
          BY <1>t, <2>2, <4>1 DEF CountInv, Writing
      <3>3. QED
        BY <3>1, <3>2
    <2>6. QED
      BY <1>t, <2>1, <2>2, <2>3, <2>4, <2>5 DEF CountInv
  <1>2. ASSUME NEW w \in Workers, Begins(w)
        PROVE  CountInv'
    <2>1. UNCHANGED <<dayVars, markVars, import>>
      BY <1>0, <1>2, BeginMoves
    <2>2. \/ UNCHANGED passVars
          \/ /\ Others(w) /\ pass'[w].only = NoRange
             /\ pass'[w].stamp = 0 /\ pass'[w].sweep = 0
             /\ \A d \in Days : pass'[w].toks[d] = 0
      BY <1>0, <1>2, BeginMoves DEF NoInline
    <2>3. QED
      BY <1>t, <2>1, <2>2 DEF CountInv, Writing, Others
  <1>3. ASSUME NEW w \in Workers, Step(w) \/ Ends(w)
        PROVE  CountInv'
    <2>0. Others(w) /\ UNCHANGED import
      BY <1>0, <1>3, WorkerTokens, WorkersLeaveRows
    <2>1. \A d \in Days : dirty'[d] <= marks'[d] /\ marks[d] <= marks'[d]
                          /\ marks'[d] \in Nat
      BY <1>0, <1>t, <1>3, WorkerDays DEF CountInv, Fresh
    <2>2. UNCHANGED sweeps /\ sweep' \in {sweep, 0}
      BY <1>0, <1>3, WorkerMarks DEF CountInv
    <2>3. epoch' <= sweeps
      BY <1>0, <1>t, <1>3, WorkerDays DEF CountInv
    <2>4. \A d \in Days : pass'[w].toks[d] <= marks'[d]
      BY <1>0, <1>t, <1>3, <2>1, WorkerTokens DEF CountInv
    <2>5. /\ pass'[w].stamp <= sweeps /\ pass'[w].sweep <= sweeps
          /\ pass'[w].only = NoRange
      BY <1>0, <1>t, <1>3, ClaimMoves, ReadStateMoves, EndMoves,
         SameStateMoves, IdleFields DEF CountInv, SameState
    <2>6. QED
      BY <1>t, <2>0, <2>1, <2>2, <2>3, <2>4, <2>5
         DEF CountInv, Writing, Others
  <1>4. CASE UNCHANGED vars
    BY <1>4 DEF vars, CountInv, Writing
  <1>5. QED
    BY <1>1, <1>2, <1>3, <1>4, NextCases

-----------------------------------------------------------------------------
(* What is on record stays on record, outside the lease's owner *)

LEMMA RequestStays ==
    ASSUME TypeOK, CountInv, Surroundings, NEW n \in Int, n <= sweeps, Request > n
    PROVE  Request' > n
  <1>0. /\ sweep \in Nat /\ sweeps \in Nat /\ sweep <= sweeps /\ ImportOK
        /\ import.marker \in Nat /\ import.prevSweep \in Nat
        /\ Writing => import.marker <= sweeps /\ import.prevSweep < import.marker
    BY CountTypes DEF CountInv, TypeOK
  <1> USE DEF Request, Retractable, SelfMarking, Writing
  <1>1. CASE Import
    <2>1. CASE ImportOpen
      BY <1>0, <2>1, ImportMoves DEF ImportOpen, BumpWithSweep
    <2>2. CASE ImportPublish
      <3>1. sweep' = sweeps + 1 /\ import'.at = "idle"
        BY <1>0, <2>2, ImportMoves DEF ImportPublish, BumpWithSweep
      <3>2. QED
        BY <1>0, <3>1
    <2>3. CASE ImportEnd
      <3>1. import.at = "open" /\ import'.at = "closing"
        BY <1>0, <2>3, ImportMoves
      <3>2. Request' = sweep'
        BY <3>1
      <3>3. CASE sweep' = sweep
        BY <1>0, <3>1, <3>2, <3>3
      <3>4. CASE RestoreUnchanged \/ DropSweep
        BY <1>0, <3>1, <3>2, <3>4
           DEF RestoreUnchanged, DropSweep, MarkedItsDays
      <3>5. QED
        BY <2>3, <3>3, <3>4 DEF ImportEnd, KeepRequest
    <2>4. CASE ImportClose \/ \E k \in ImportKinds : ImportCreate(k)
      <3>1. UNCHANGED sweep /\ import.at \notin {"open", "saved", "marked"}
            /\ import'.at \notin {"open", "saved", "marked"}
        BY <1>0, <2>4, ImportMoves DEF ImportClose, ImportCreate
      <3>2. QED
        BY <3>1
    <2>5. CASE ImportMark \/ ImportDrop \/ \E s \in Sources : ImportSave(s)
      <3>1. UNCHANGED sweep /\ import.at \in {"open", "saved", "marked"}
            /\ import'.at \in {"open", "saved", "marked"} /\ SameRun
        BY <1>0, <2>5, ImportMoves DEF ImportMark, ImportDrop, ImportSave
      <3>2. QED
        BY <3>1 DEF SameRun
    <2>6. QED
      BY <1>1, <2>1, <2>2, <2>3, <2>4, <2>5 DEF Import
  <1>2. CASE ~Import
    <2>1. /\ UNCHANGED import
          /\ \/ UNCHANGED <<sweep, sweeps>>
             \/ sweep' = sweeps + 1
      BY <1>2, SurroundingsMarks DEF Surroundings, Writer, SaveRow,
         OpenTransaction, MarkDirty, DropPayload, Bump, CommitTransaction,
         RollBack, RequestManualRefresh, ReaderBuild, ReaderStore, OpenPage,
         Reconcile, LeaseLapses, Midnight, Settle, LoseMessage, Evict,
         BumpGeneration, BumpWithSweep
    <2>2. QED
      BY <1>0, <2>1
  <1>3. QED
    BY <1>1, <1>2

\* A mark on its way arrives as a token newer than any there was.
LEMMA ComingStays ==
    ASSUME TypeOK, Surroundings, NEW d \in Days, Coming(d)
    PROVE  Coming(d)' \/ Fresh(d)
  <1>0. DaysOK /\ WriterOK /\ ImportOK
    BY DEF TypeOK
  <1>1. CASE \E x \in Writers : Writer(x)
    <2>1. UNCHANGED import
      BY <1>1 DEF Writer, SaveRow, OpenTransaction, MarkDirty, DropPayload,
         Bump, CommitTransaction, RollBack
    <2>2. PICK x \in Writers : Writer(x)
      BY <1>1
    <2>3. CASE import.at = "saved" /\ import.src = d
      BY <2>1, <2>3 DEF Coming
    <2>4. ASSUME NEW y \in Writers, writer[y].at = "saved", writer[y].src = d
          PROVE  Coming(d)' \/ Fresh(d)
      <3>1. CASE y # x
        <4>1. writer'[y] = writer[y]
          BY <1>0, <2>2, <2>4, <3>1 DEF WriterOK, Writer, SaveRow,
             OpenTransaction, MarkDirty, DropPayload, Bump, CommitTransaction,
             RollBack
        <4>2. QED
          BY <2>4, <4>1 DEF Coming
      <3>2. CASE y = x
        <4>1. MarkDirty(x)
          BY <2>2, <2>4, <3>2 DEF Writer, SaveRow, OpenTransaction, MarkDirty,
             DropPayload, Bump, CommitTransaction, RollBack
        <4>2. QED
          BY <1>0, <2>4, <3>2, <4>1, UpsertMoves DEF MarkDirty, Fresh
      <3>3. QED
        BY <3>1, <3>2
    <2>5. QED
      BY <2>3, <2>4 DEF Coming
  <1>2. CASE Import
    <2>1. UNCHANGED writer
      BY <1>2 DEF Import, ImportCreate, ImportOpen, ImportSave, ImportMark,
         ImportDrop, ImportEnd, ImportClose, ImportPublish
    <2>2. CASE import.at = "saved" /\ import.src = d
      <3>1. ImportMark
        BY <1>2, <2>2 DEF Import, ImportCreate, ImportOpen, ImportSave,
           ImportMark, ImportDrop, ImportEnd, ImportClose, ImportPublish
      <3>2. QED
        BY <1>0, <2>2, <3>1, UpsertMoves DEF ImportMark, Fresh
    <2>3. QED
      BY <2>1, <2>2 DEF Coming
  <1>3. CASE ~Import /\ ~(\E x \in Writers : Writer(x))
    <2>1. UNCHANGED <<writer, import>>
      BY <1>3 DEF Surroundings, RequestManualRefresh, ReaderBuild,
         ReaderStore, OpenPage, Reconcile, LeaseLapses, Midnight, Settle,
         LoseMessage, Evict
    <2>2. QED
      BY <2>1 DEF Coming
  <1>4. QED
    BY <1>1, <1>2, <1>3

\* An import that marks no days stays responsible until it closes.
LEMMA UnmarkedStays ==
    ASSUME TypeOK, Surroundings, Unmarked, ~ImportClose
    PROVE  Unmarked' /\ import'.marker = import.marker
           /\ import'.prevGen = import.prevGen
  <1> USE DEF Unmarked, SelfMarking, Writing
  <1>0. ImportOK
    BY DEF TypeOK
  <1>1. CASE Import
    <2>1. ~ImportOpen /\ ~ImportPublish /\ \A k \in ImportKinds : ~ImportCreate(k)
      BY DEF ImportOpen, ImportPublish, ImportCreate
    <2>2. /\ SameRun /\ import'.at \in {"open", "saved", "marked", "closing"}
      BY <1>0, <1>1, <2>1, ImportMoves DEF Import
    <2>3. QED
      BY <2>2 DEF SameRun
  <1>2. CASE ~Import
    <2>1. UNCHANGED import
      BY <1>2 DEF Surroundings, Writer, SaveRow, OpenTransaction,
         MarkDirty, DropPayload, Bump, CommitTransaction, RollBack,
         RequestManualRefresh, ReaderBuild, ReaderStore, OpenPage,
         Reconcile, LeaseLapses, Midnight, Settle, LoseMessage, Evict
    <2>2. QED
      BY <2>1
  <1>3. QED
    BY <1>1, <1>2

LEMMA RecStays ==
    ASSUME TypeOK, TypeOK', CountInv, Surroundings, Unmarked => ~ImportClose,
           NEW d \in Days, NEW t \in Nat, t <= marks[d],
           NEW n \in Nat, n <= sweeps, Rec(d, t, n)
    PROVE  Rec(d, t, n)'
  <1>0. /\ dirty[d] \in Nat /\ marks[d] \in Nat /\ epoch \in Int
        /\ sweep \in Nat /\ sweeps \in Nat /\ epoch <= sweeps
        /\ import.prevSweep \in Nat
    BY CountTypes DEF CountInv
  <1>1. CASE dirty[d] > t
    BY <1>0, <1>1, SurroundingsDays DEF Rec, Fresh
  <1>2. CASE Coming(d)
    BY <1>0, <1>2, ComingStays DEF Rec, Fresh
  <1>3. CASE Unmarked
    BY <1>3, UnmarkedStays DEF Rec
  <1>4. CASE Request > n /\ Request > epoch
    <2>1. Request' > n /\ Request' > epoch
      BY <1>0, <1>4, RequestStays
    <2>2. epoch' \in {epoch, -1}
      BY SurroundingsDays DEF Absent
    <2>3. CASE epoch' = epoch
      BY <2>1, <2>3 DEF Rec
    <2>4. CASE epoch' = -1
      <3>1. Request' \in Int
        BY DEF TypeOK, MarksOK, ImportOK, Request
      <3>2. QED
        BY <2>1, <2>4, <3>1 DEF Rec
    <2>5. QED
      BY <2>2, <2>3, <2>4
  <1>5. QED
    BY <1>1, <1>2, <1>3, <1>4 DEF Rec

\* Rows that change are on record at once, newer than all that anyone has seen.
LEMMA NewRows ==
    ASSUME TypeOK, Surroundings, NEW d \in Days, data'[d] # data[d]
    PROVE  Coming(d)' \/ Fresh(d) \/ Unmarked'
  <1>0. RowsOK /\ DaysOK /\ WriterOK /\ ImportOK /\ d \in Sources /\ d # Undated
    BY ConstantsOK DEF TypeOK, Sources, Days, Undated
  <1>1. CASE \E x \in Writers : Writer(x)
    <2>1. PICK x \in Writers : Writer(x)
      BY <1>1
    <2>2. CASE CommitTransaction(x)
      <3>1. CommitRow(writer[x].src) /\ Upsert({writer[x].src})
        BY <2>2 DEF CommitTransaction
      <3>2. writer[x].src = d
        <4>1. writer[x].src \in Sources
          BY <1>0 DEF WriterOK
        <4>2. QED
          BY <1>0, <3>1, <4>1, CommitMoves
      <3>3. QED
        BY <1>0, <3>1, <3>2, UpsertMoves DEF Fresh
    <2>3. ASSUME NEW s \in Sources, SaveRow(x, s)
          PROVE  Coming(d)'
      <3>1. s = d
        BY <1>0, <2>3, CommitMoves DEF SaveRow
      <3>2. writer'[x].at = "saved" /\ writer'[x].src = d
        BY <1>0, <2>3, <3>1 DEF SaveRow, WriterOK
      <3>3. QED
        BY <3>2 DEF Coming
    <2>4. QED
      BY <2>1, <2>2, <2>3 DEF Writer, OpenTransaction, MarkDirty, DropPayload,
         Bump, RollBack
  <1>2. CASE Import
    <2>1. PICK s \in Sources : ImportSave(s)
      BY <1>2 DEF Import, ImportCreate, ImportOpen, ImportMark, ImportDrop,
         ImportEnd, ImportClose, ImportPublish
    <2>2. s = d
      BY <1>0, <2>1, CommitMoves DEF ImportSave
    <2>3. import.kind # "unchanged"
      BY <2>1 DEF ImportSave
    <2>4. QED
      BY <1>0, <2>1, <2>2, <2>3, ImportMoves
         DEF SameRun, Coming, Unmarked, Writing, SelfMarking
  <1>3. CASE ~Import /\ ~(\E x \in Writers : Writer(x))
    BY <1>3 DEF Surroundings, RequestManualRefresh, ReaderBuild,
       ReaderStore, OpenPage, Reconcile, LeaseLapses, Midnight, Settle,
       LoseMessage, Evict
  <1>4. QED
    BY <1>1, <1>2, <1>3

LEMMA RecNew ==
    ASSUME TypeOK, Surroundings, NEW d \in Days, NEW t \in Nat, t <= marks[d],
           NEW n, data'[d] # data[d]
    PROVE  Rec(d, t, n)'
  BY NewRows, CountTypes DEF Rec, Fresh

-----------------------------------------------------------------------------
(* The record as the passes keep it *)

\* From reading the days to retracting the request.
Rebuilds == {"tokens", "days", "built", "epoch", "plan", "ranges", "fill",
             "filled", "collect", "late", "lateBuilt", "publish", "published",
             "clear"}

Lo(q) == Greatest(q.stamp, q.sweep)

\* What the owner has not seen it will not clear, answer or retract.
KeepsRecord(p, q) ==
    /\ p \in Rebuilds => \A d \in Days : Behind(d) => Rec(d, 0, Lo(q))
    /\ p \in Building => (q.version # data[q.built] =>
                             Rec(q.built, q.toks[q.built], Lo(q)))

RecordInv ==
    /\ \A d \in Days : Behind(d) => Rec(d, 0, 0)
    /\ \A w \in Workers : Owns(w) => KeepsRecord(pc[w], pass[w])

\* While an import writes without marking, the owner either has not seen its
\* request, or has and finds nothing in the cache; it then waits for the import.
NonePayload == \A d \in Days : payload[d] = Missing
SeenBefore(q) == q.stamp < import.marker /\ q.sweep < import.marker
                 /\ epoch < import.marker
SeenSince(p, q) == /\ p \in {"prepare", "tokens", "days"}
                   /\ q.sweep >= import.marker
                   /\ p # "prepare" => NonePayload

UnmarkedInv ==
    Unmarked =>
        /\ sweep >= import.marker
        /\ epoch >= import.marker => NonePayload
        /\ \A w \in Workers : Owns(w) /\ Past(pc[w]) =>
               SeenBefore(pass[w]) \/ SeenSince(pc[w], pass[w])

LEMMA LoTypes ==
    ASSUME TypeOK, CountInv, NEW w \in Workers
    PROVE  /\ Lo(pass[w]) \in Nat /\ Lo(pass[w]) <= sweeps
           /\ pass[w].stamp <= Lo(pass[w]) /\ pass[w].sweep <= Lo(pass[w])
  BY CountTypes DEF CountInv, Lo, Greatest

LEMMA RequestBounds ==
    ASSUME TypeOK, CountInv
    PROVE  Request \in Nat /\ Request <= sweep
  BY CountTypes DEF CountInv, Request, Retractable, Writing

LEMMA RecWeaker ==
    ASSUME TypeOK, CountInv, NEW d \in Days, NEW t \in Nat, NEW n \in Nat,
           Rec(d, t, n)
    PROVE  Rec(d, 0, 0)
  <1>1. dirty[d] \in Nat /\ Request \in Nat /\ epoch \in Int
    BY CountTypes, RequestBounds
  <1>2. QED
    BY <1>1 DEF Rec

LEMMA InitRecord == Init => RecordInv /\ UnmarkedInv
  <1> SUFFICES ASSUME Init PROVE RecordInv /\ UnmarkedInv
    OBVIOUS
  <1>1. /\ \A d \in Days : payload[d] = Missing
        /\ \A w \in Workers : pc[w] = "idle"
        /\ import.at = "idle"
    BY DEF Init, NoImport
  <1>2. QED
    BY <1>1 DEF RecordInv, UnmarkedInv, KeepsRecord, Behind, Rebuilds,
       Building, Unmarked, Writing

LEMMA CloseRecord ==
    ASSUME TypeInv, CountInv, RecordInv, UnmarkedInv, Unmarked, ImportClose
    PROVE  RecordInv'
  <1>0. /\ TypeOK /\ sweep \in Nat /\ sweeps \in Nat /\ epoch \in Int
        /\ import.marker \in Nat /\ import.prevSweep \in Nat
        /\ import.prevSweep < import.marker
        /\ \A w \in Workers : pass[w].stamp \in Nat /\ pass[w].sweep \in Nat
    BY CountTypes DEF TypeInv, CountInv, Unmarked
  <1>1. /\ import'.at \notin {"open", "saved", "marked"}
        /\ UNCHANGED <<sweep, epoch, payload, data, dirty, lease, passVars>>
    BY <1>0, ImportMoves DEF ImportClose, TypeOK
  <1>2. Request' = sweep /\ sweep >= import.marker
    BY <1>1 DEF Request, Retractable, UnmarkedInv
  <1>3. ASSUME NEW d, NEW t, NEW n \in Nat, n < import.marker,
               epoch < import.marker
        PROVE  Rec(d, t, n)'
    BY <1>0, <1>1, <1>2, <1>3 DEF Rec
  <1>4. \A d \in Days : Behind(d)' => ~NonePayload /\ epoch < import.marker
    BY <1>0, <1>1 DEF Behind, NonePayload, UnmarkedInv
  <1>5. \A w \in Workers : SeenBefore(pass[w]) =>
           Lo(pass[w]) \in Nat /\ Lo(pass[w]) < import.marker
           /\ epoch < import.marker
    BY <1>0 DEF SeenBefore, Lo, Greatest
  <1>6. ASSUME NEW w \in Workers, Owns(w)
        PROVE  KeepsRecord(pc[w], pass[w])'
    <2>1. ASSUME pc[w] \in Rebuilds, NEW d \in Days, Behind(d)'
          PROVE  Rec(d, 0, Lo(pass[w]))'
      <3>1. Past(pc[w]) /\ pc[w] # "prepare"
        BY <2>1 DEF Rebuilds, Past
      <3>2. SeenBefore(pass[w])
        BY <1>4, <1>6, <2>1, <3>1 DEF UnmarkedInv, SeenSince
      <3>3. QED
        BY <1>1, <1>3, <1>5, <3>2 DEF Lo
    <2>2. ASSUME pc[w] \in Building
          PROVE  Rec(pass[w].built, pass[w].toks[pass[w].built], Lo(pass[w]))'
      <3>1. SeenBefore(pass[w])
        BY <1>6, <2>2 DEF UnmarkedInv, SeenSince, Past, Building
      <3>2. QED
        BY <1>1, <1>3, <1>5, <3>1 DEF Lo
    <2>3. QED
      BY <1>1, <2>1, <2>2 DEF KeepsRecord
  <1>7. \A d \in Days : Behind(d)' => Rec(d, 0, 0)'
    BY <1>0, <1>3, <1>4
  <1>8. QED
    BY <1>1, <1>6, <1>7 DEF RecordInv, Owns

LEMMA SurroundingsRecord ==
    ASSUME NoReaders, TypeInv, TypeInv', BuiltInv, CountInv, RecordInv,
           UnmarkedInv, Surroundings
    PROVE  RecordInv'
  <1>0. TypeOK /\ TypeOK'
    BY DEF TypeInv
  <1>1. CASE Unmarked /\ ImportClose
    BY <1>1, CloseRecord
  <1>2. CASE Unmarked => ~ImportClose
    <2>1. /\ UNCHANGED passVars /\ lease'.owner = lease.owner
          /\ \A d \in Days : payload'[d] \in {payload[d], Missing}
      BY <1>0, SurroundingsRows
    <2>2. ASSUME NEW d \in Days, NEW t \in Nat, t <= marks[d],
                 NEW n \in Nat, n <= sweeps, data'[d] # data[d] \/ Rec(d, t, n)
          PROVE  Rec(d, t, n)'
      BY <1>0, <1>2, <2>2, RecStays, RecNew
    <2>3. \A d \in Days : Behind(d)' => data'[d] # data[d] \/ Behind(d)
      BY <2>1 DEF Behind
    <2>4. \A d \in Days : marks[d] \in Nat /\ sweeps \in Nat
      BY <1>0, CountTypes
    <2>5. \A d \in Days : Behind(d)' => Rec(d, 0, 0)'
      BY <2>2, <2>3, <2>4 DEF RecordInv
    <2>6. ASSUME NEW w \in Workers, Owns(w)
          PROVE  KeepsRecord(pc[w], pass[w])'
      <3>1. Lo(pass[w]) \in Nat /\ Lo(pass[w]) <= sweeps
        BY <1>0, LoTypes
      <3>2. ASSUME pc[w] \in Rebuilds, NEW d \in Days, Behind(d)'
            PROVE  Rec(d, 0, Lo(pass[w]))'
        BY <2>1, <2>2, <2>3, <2>4, <2>6, <3>1, <3>2
           DEF RecordInv, KeepsRecord, Lo
      <3>3. ASSUME pc[w] \in Building,
                   pass[w].version # data'[pass[w].built]
            PROVE  Rec(pass[w].built, pass[w].toks[pass[w].built], Lo(pass[w]))'
        <4>1. PICK d \in Days : d = pass[w].built
          BY <3>3 DEF BuiltInv
        <4>2. PICK t \in Nat : t = pass[w].toks[d] /\ t <= marks[d]
          BY <1>0, CountTypes DEF CountInv
        <4>3. data'[d] # data[d] \/ Rec(d, t, Lo(pass[w]))
          BY <2>6, <3>3, <4>1, <4>2 DEF RecordInv, KeepsRecord
        <4>4. PICK n \in Nat : n = Lo(pass[w]) /\ n <= sweeps
          BY <3>1
        <4>5. Rec(d, t, n)'
          BY <2>2, <4>2, <4>3, <4>4
        <4>6. n = Lo(pass[w])' /\ t = pass'[w].toks[d] /\ d = pass'[w].built
          BY <2>1, <4>1, <4>2, <4>4 DEF Lo
        <4>7. QED
          BY <2>1, <4>1, <4>2, <4>4, <4>5, <4>6
      <3>4. QED
        BY <2>1, <3>2, <3>3 DEF KeepsRecord
    <2>7. QED
      BY <2>1, <2>5, <2>6 DEF RecordInv, Owns
  <1>3. QED
    BY <1>1, <1>2

LEMMA IntoRebuilds ==
    ASSUME PassOK, NEW w \in Workers, Step(w) \/ Ends(w), pc'[w] \in Rebuilds
    PROVE  \/ ReadState(w) \/ PrepareSweep(w)
           \/ pc[w] \in Rebuilds /\ SameState(pass[w], pass'[w])
  <1> USE DEF Rebuilds
  <1>1. ~Claim(w) /\ ~Ends(w)
    BY ClaimMoves, EndMoves
  <1>2. CASE ~ReadState(w) /\ ~PrepareSweep(w)
    <2>1. SameState(pass[w], pass'[w])
      BY <1>1, <1>2, SameStateMoves
    <2>2. ~RecordMarkers(w)
      BY SamePassMoves
    <2>3. pc[w] \in Rebuilds
      BY <1>1, <1>2, <2>2, StepCases DEF ReadTokens,
         BuildDay, StoreDay, MarkEpoch, PlanRanges, BeginRange,
         BuildMissingDay, StoreMissingDay, CollectPayloads, BuildLateDay,
         StoreLateDay, ReadUndated, PublishSnapshot, CheckAfterPublish,
         ClearSweep
    <2>4. QED
      BY <2>1, <2>3
  <1>3. QED
    BY <1>2

\* All that the record speaks of.
RecordVars == <<payload, dirty, epoch, sweep, data, writer, import>>

LEMMA QuietRecord ==
    ASSUME UNCHANGED RecordVars
    PROVE  /\ \A d \in Days : Behind(d)' = Behind(d)
           /\ \A d \in Days, t \in Nat, n \in Nat : Rec(d, t, n)' = Rec(d, t, n)
  BY DEF RecordVars, Behind, Rec, Coming, Unmarked, Writing, SelfMarking,
     Request, Retractable

StoresDay(w) == \/ StoreDay(w) \/ StoreMissingDay(w) \/ StoreLateDay(w)
                \/ Ends(w) /\ Stores(w)

LEMMA QuietSteps ==
    ASSUME TypeInv, LeaseInv, CountInv, NEW w \in Workers, Step(w) \/ Ends(w)
    PROVE  \/ UNCHANGED RecordVars
           \/ Owns(w) /\ ~Claim(w)
              /\ (PrepareSweep(w) \/ StoresDay(w) \/ MarkEpoch(w) \/ ClearSweep(w))
  <1>0. TypeOK /\ LeaseOK /\ pass[w].only = NoRange
    BY DEF TypeInv, TypeOK, CountInv
  <1>1. UNCHANGED <<data, writer, import>>
    BY WorkersLeaveRows
  <1>2. CASE Claim(w)
    BY <1>2 DEF Claim, RecordVars
  <1>3. CASE ~Claim(w) /\ ~Owns(w)
    <2>1. UNCHANGED <<payload, dirty, epoch>>
      BY <1>3, LoserLeaves
    <2>2. UNCHANGED sweep
      BY <1>0, <1>3, WorkerMarks
    <2>3. QED
      BY <1>1, <2>1, <2>2 DEF RecordVars
  <1>4. CASE /\ ~Claim(w) /\ Owns(w)
             /\ ~(PrepareSweep(w) \/ StoresDay(w) \/ MarkEpoch(w) \/ ClearSweep(w))
    <2>1. CASE Ends(w)
      <3>1. UNCHANGED <<payload, dirty, epoch>>
        BY <1>4, <2>1, EndLeaves DEF StoresDay, Stores, Building
      <3>2. UNCHANGED sweep
        BY <1>0, <2>1, EndMarks
      <3>3. QED
        BY <1>1, <3>1, <3>2 DEF RecordVars
    <2>2. CASE ~Ends(w)
      <3>1. UNCHANGED <<payload, dirty, epoch, sweep>>
        BY <1>4, <2>2, StepCases DEF StoresDay, ReadState, ReadTokens,
           BuildDay, PlanRanges, BeginRange, BuildMissingDay, CollectPayloads,
           BuildLateDay, ReadUndated, PublishSnapshot, CheckAfterPublish,
           RecordMarkers
      <3>2. QED
        BY <1>1, <3>1 DEF RecordVars
    <2>3. QED
      BY <2>1, <2>2
  <1>5. QED
    BY <1>2, <1>3, <1>4 DEF StoresDay, Claim, Ends, PrepareSweep, StoreDay,
       StoreMissingDay, StoreLateDay, MarkEpoch, ClearSweep, Stores, Building

\* Storing a day takes its row off the record only by the token read with it.
LEMMA StoreRecord ==
    ASSUME TypeInv, LeaseInv, BuiltInv, CountInv, RecordInv, NEW w \in Workers,
           Owns(w), StoresDay(w), NEW n \in Nat, n = Lo(pass[w])
    PROVE  /\ \A d \in Days : Behind(d)' => Rec(d, 0, n)'
           /\ pc'[w] \notin Building
           /\ ~Ends(w) => SameState(pass[w], pass'[w])
  <1> DEFINE p == pass[w]
  <1>0. /\ TypeOK /\ PassOK /\ DaysOK
        /\ \A d \in Days : dirty[d] \in Nat
    BY CountTypes DEF TypeInv, TypeOK
  <1>s. Step(w) \/ Ends(w)
    BY DEF StoresDay, Step
  <1>1. pc[w] \in Building /\ pc[w] \in Rebuilds
    BY DEF StoresDay, StoreDay, StoreMissingDay, StoreLateDay, Stores,
       Building, Rebuilds
  <1>2. PICK b \in Days : b = p.built
    BY <1>1 DEF BuiltInv
  <1>3. PICK t \in Nat : t = p.toks[b]
    BY <1>0, CountTypes
  <1>4. payload' = [payload EXCEPT ![b] = p.version]
    BY <1>2 DEF StoresDay, StoreDay, StoreMissingDay, StoreLateDay, Stores
  <1>5. UNCHANGED <<epoch, data, writer, import, sweep>>
    <2>1. UNCHANGED <<data, writer, import>>
      BY <1>s, WorkersLeaveRows
    <2>2. CASE Ends(w)
      BY <1>0, <2>1, <2>2, EndLeaves, EndMarks DEF CountInv
    <2>3. CASE ~Ends(w)
      BY <2>1, <2>3 DEF StoresDay, StoreDay, StoreMissingDay, StoreLateDay
    <2>4. QED
      BY <2>2, <2>3
  <1>6. /\ \A d \in Days : d # b => dirty'[d] = dirty[d]
        /\ dirty[b] > t => dirty'[b] = dirty[b]
    <2>1. CASE StoreDay(w)
      <3>1. dirty' = [dirty EXCEPT ![b] = IF SameToken(b, t) THEN 0 ELSE @]
        BY <1>2, <1>3, <2>1 DEF StoreDay
      <3>2. dirty[b] > t => dirty[b] # t
        BY <1>0
      <3>3. QED
        BY <1>0, <3>1, <3>2 DEF DaysOK, SameToken
    <2>2. CASE ~StoreDay(w)
      BY <2>2, EndLeaves DEF StoresDay, StoreMissingDay, StoreLateDay
    <2>3. QED
      BY <2>1, <2>2
  <1>7. ASSUME NEW d \in Days, Behind(d)'
        PROVE  Rec(d, 0, n)'
    <2>1. CASE d = b
      <3>1. p.version # data[b]
        BY <1>0, <1>4, <1>5, <1>7, <2>1 DEF DaysOK, Behind
      <3>2. Rec(b, t, n)
        BY <1>1, <1>2, <1>3, <3>1 DEF RecordInv, KeepsRecord
      <3>3. dirty[b] > t => dirty'[b] > 0
        BY <1>0, <1>6
      <3>4. QED
        BY <1>0, <1>5, <2>1, <3>2, <3>3 DEF Rec, Coming, Unmarked, Writing,
           SelfMarking, Request, Retractable
    <2>2. CASE d # b
      <3>1. Behind(d)
        BY <1>0, <1>4, <1>5, <1>7, <2>2 DEF DaysOK, Behind
      <3>2. Rec(d, 0, n)
        BY <1>1, <3>1 DEF RecordInv, KeepsRecord
      <3>3. dirty'[d] = dirty[d]
        BY <1>6, <2>2
      <3>4. QED
        BY <1>5, <3>2, <3>3 DEF Rec, Coming, Unmarked, Writing,
           SelfMarking, Request, Retractable
    <2>3. QED
      BY <2>1, <2>2
  <1>8. pc'[w] \notin Building /\ (~Ends(w) => SameState(pass[w], pass'[w]))
    BY <1>0, StoreDayMoves, StoreMissingDayMoves, StoreLateDayMoves, EndMoves
       DEF StoresDay, Building, NextDays
  <1>9. QED
    BY <1>7, <1>8

\* Reading the state with no request to prepare for: either there is none, or
\* the day_epoch answers it already; so the record lies elsewhere.
LEMMA ReadRecord ==
    ASSUME TypeInv, CountInv, RecordInv, NEW w \in Workers, ReadState(w),
           pc'[w] # "prepare", NEW d \in Days, Behind(d), NEW n \in Nat
    PROVE  Rec(d, 0, n)
  <1>0. /\ TypeOK /\ PassOK /\ sweep \in Nat /\ epoch \in Int
        /\ Request \in Nat /\ Request <= sweep
    BY CountTypes, RequestBounds DEF TypeInv, TypeOK
  <1>1. sweep = 0 \/ epoch = sweep
    BY <1>0, ReadStateMoves
  <1>2. ~(Request > 0 /\ Request > epoch)
    BY <1>0, <1>1
  <1>3. Rec(d, 0, 0)
    BY DEF RecordInv
  <1>4. QED
    BY <1>2, <1>3 DEF Rec

LEMMA OwnerRecord ==
    ASSUME TypeInv, LeaseInv, BuiltInv, CountInv, RecordInv, NEW w \in Workers,
           Step(w) \/ Ends(w), Owns(w), ~Claim(w)
    PROVE  /\ \A d \in Days : Behind(d)' => Rec(d, 0, 0)'
           /\ KeepsRecord(pc[w], pass[w])'
  <1>0. /\ TypeOK /\ PassOK /\ sweep \in Nat /\ sweeps \in Nat /\ epoch \in Int
        /\ Request \in Nat /\ Request <= sweep
        /\ pass[w].stamp \in Nat /\ pass[w].sweep \in Nat
    BY CountTypes, RequestBounds DEF TypeInv, TypeOK
  <1>1. PICK n \in Nat : n = Lo(pass[w]) /\ pass[w].stamp <= n /\ pass[w].sweep <= n
    BY <1>0, LoTypes
  <1>2. SameState(pass[w], pass'[w]) => Lo(pass'[w]) = n
    BY <1>1 DEF SameState, Lo
  <1>3. CASE UNCHANGED RecordVars
    <2>1. \A d \in Days : Behind(d)' => Rec(d, 0, 0)'
      BY <1>3, QuietRecord DEF RecordInv
    <2>2. ASSUME pc'[w] \in Rebuilds, NEW d \in Days, Behind(d)
          PROVE  \A m \in Nat : m = Lo(pass'[w]) => Rec(d, 0, m)
      <3>1. CASE ReadState(w)
        BY <2>2, <3>1, ReadRecord DEF Rebuilds
      <3>2. CASE PrepareSweep(w)
        BY <1>3, <2>2, <3>2 DEF PrepareSweep, Dropped, RecordVars, Behind
      <3>3. CASE pc[w] \in Rebuilds /\ SameState(pass[w], pass'[w])
        BY <1>1, <1>2, <2>2, <3>3 DEF RecordInv, KeepsRecord
      <3>4. QED
        BY <1>0, <2>2, <3>1, <3>2, <3>3, IntoRebuilds
    <2>3. Lo(pass'[w]) \in Nat
      <3>1. pass'[w].stamp \in Nat /\ pass'[w].sweep \in Nat
        BY <1>0, ReadStateMoves, EndMoves, SameStateMoves, IdleFields
           DEF SameState
      <3>2. QED
        BY <3>1 DEF Lo, Greatest
    <2>4. ASSUME pc'[w] \in Building
          PROVE  pass'[w].version = data'[pass'[w].built]
      BY <1>0, <1>3, <2>4, IntoBuilding, BuildMoves DEF RecordVars
    <2>5. ASSUME pc'[w] \in Rebuilds, NEW d \in Days, Behind(d)'
          PROVE  Rec(d, 0, Lo(pass[w]))'
      <3>1. PICK m \in Nat : m = Lo(pass'[w])
        BY <2>3
      <3>2. Rec(d, 0, m)'
        BY <1>3, <2>2, <2>5, <3>1, QuietRecord
      <3>3. QED
        BY <3>1, <3>2 DEF Rec, Lo
    <2>6. QED
      BY <2>1, <2>4, <2>5 DEF KeepsRecord
  <1>4. CASE PrepareSweep(w)
    <2>1. \A d \in Days : ~Behind(d)'
      BY <1>4 DEF PrepareSweep, Dropped, Behind
    <2>2. pc'[w] \notin Building
      BY <1>0, <1>4, SamePassMoves DEF Building
    <2>3. QED
      BY <2>1, <2>2 DEF KeepsRecord
  <1>5. CASE StoresDay(w)
    <2>1. \A d \in Days : Behind(d)' => Rec(d, 0, n)'
      BY <1>1, <1>5, StoreRecord
    <2>2. /\ pc'[w] \notin Building
          /\ pc'[w] \in Rebuilds => SameState(pass[w], pass'[w])
      BY <1>0, <1>1, <1>5, StoreRecord, EndMoves DEF Rebuilds
    <2>3. Request' = Request
      <3>1. UNCHANGED import
        BY WorkersLeaveRows
      <3>2. UNCHANGED sweep
        BY <1>0, <1>5, EndMarks
           DEF StoresDay, StoreDay, StoreMissingDay, StoreLateDay, CountInv
      <3>3. QED
        BY <3>1, <3>2 DEF Request, Retractable, SelfMarking
    <2>4. dirty' \in [Days -> Nat] \/ UNCHANGED dirty
      BY <1>0, <1>5, EndLeaves
         DEF StoresDay, StoreDay, StoreMissingDay, StoreLateDay, TypeOK, DaysOK
    <2>5. \A d \in Days : Behind(d)' => Rec(d, 0, 0)'
      BY <1>0, <2>1, <2>3 DEF Rec
    <2>6. \A d \in Days : Behind(d)' /\ pc'[w] \in Rebuilds
                          => Rec(d, 0, Lo(pass[w]))'
      BY <1>2, <2>1, <2>2 DEF Lo
    <2>7. QED
      BY <2>2, <2>5, <2>6 DEF KeepsRecord
  <1>6. CASE MarkEpoch(w)
    <2>1. /\ pc[w] \in Rebuilds /\ pc'[w] \notin Building
          /\ pass'[w] = pass[w]
          /\ UNCHANGED <<payload, dirty, data, writer, import, sweep>>
          /\ epoch' \in {pass[w].sweep, 0}
      BY <1>0, <1>6, SamePassMoves DEF MarkEpoch, Rebuilds, Building, Plain
    <2>2. ASSUME NEW d \in Days, Behind(d)'
          PROVE  Rec(d, 0, n)'
      <3>1. Behind(d)
        BY <2>1, <2>2 DEF Behind
      <3>2. Rec(d, 0, n)
        BY <1>1, <2>1, <3>1 DEF RecordInv, KeepsRecord
      <3>3. Request > n => Request > epoch'
        BY <1>0, <1>1, <2>1
      <3>4. QED
        BY <2>1, <3>2, <3>3 DEF Rec, Coming, Unmarked, Writing, SelfMarking,
           Request, Retractable
    <2>3. Request' = Request
      BY <2>1 DEF Request, Retractable, SelfMarking
    <2>4. \A d \in Days : Behind(d)' => Rec(d, 0, 0)'
      BY <1>0, <2>2, <2>3 DEF Rec
    <2>5. \A d \in Days : Behind(d)' => Rec(d, 0, Lo(pass[w]))'
      BY <1>1, <2>1, <2>2 DEF Lo
    <2>6. QED
      BY <2>1, <2>4, <2>5 DEF KeepsRecord
  <1>7. CASE ClearSweep(w)
    <2>1. /\ pc[w] \in Rebuilds /\ pc'[w] \notin Building \cup Rebuilds
          /\ UNCHANGED <<payload, dirty, data, writer, import, epoch>>
          /\ sweep' = IF sweep <= pass[w].stamp THEN 0 ELSE sweep
      BY <1>0, <1>7, SamePassMoves DEF ClearSweep, Rebuilds, Building
    <2>2. ASSUME NEW d \in Days, Behind(d)'
          PROVE  Rec(d, 0, 0)'
      <3>1. Behind(d)
        BY <2>1, <2>2 DEF Behind
      <3>2. Rec(d, 0, n)
        BY <1>1, <2>1, <3>1 DEF RecordInv, KeepsRecord
      <3>3. CASE sweep <= pass[w].stamp
        <4>1. ~(Request > n)
          BY <1>0, <1>1, <3>3
        <4>2. QED
          BY <2>1, <3>2, <4>1 DEF Rec, Coming, Unmarked, Writing, SelfMarking
      <3>4. CASE ~(sweep <= pass[w].stamp)
        <4>1. UNCHANGED RecordVars
          BY <2>1, <3>4 DEF RecordVars
        <4>2. Rec(d, 0, 0)
          BY <3>1 DEF RecordInv
        <4>3. QED
          BY <4>1, <4>2, QuietRecord
      <3>5. QED
        BY <3>3, <3>4
    <2>3. QED
      BY <2>1, <2>2 DEF KeepsRecord
  <1>8. QED
    BY <1>3, <1>4, <1>5, <1>6, <1>7, QuietSteps

LEMMA NextRecord ==
    ASSUME NoReaders
    PROVE  TypeInv /\ TypeInv' /\ LeaseInv /\ BuiltInv /\ CountInv
           /\ UnmarkedInv /\ RecordInv /\ [Next]_vars => RecordInv'
  <1> SUFFICES ASSUME TypeInv, TypeInv', LeaseInv, BuiltInv, CountInv,
                      UnmarkedInv, RecordInv, [Next]_vars
               PROVE  RecordInv'
    OBVIOUS
  <1>0. TypeOK /\ PassOK /\ BoundsOK /\ LeaseOK
    BY DEF TypeInv, TypeOK
  <1>1. CASE Surroundings
    BY <1>1, SurroundingsRecord
  <1>2. ASSUME NEW w \in Workers, Begins(w)
        PROVE  RecordInv'
    <2>1. UNCHANGED RecordVars /\ UNCHANGED lease
      BY <1>0, <1>2, BeginMoves DEF RecordVars
    <2>2. \A u \in Workers : \/ pc'[u] = pc[u] /\ pass'[u] = pass[u]
                             \/ pc'[u] = "start"
      BY <1>0, <1>2, BeginMoves DEF Others
    <2>3. ASSUME NEW u \in Workers, Owns(u)
          PROVE  KeepsRecord(pc[u], pass[u])'
      <3>1. CASE pc'[u] = "start"
        BY <3>1 DEF KeepsRecord, Rebuilds, Building
      <3>2. CASE pc'[u] = pc[u] /\ pass'[u] = pass[u]
        <4>1. UNCHANGED <<payload, dirty, epoch, sweep, data, writer, import>>
          BY <2>1 DEF RecordVars
        <4>2. QED
          BY <2>3, <3>2, <4>1 DEF RecordInv, KeepsRecord, Rec, Behind, Lo,
             Coming, Unmarked, Writing, SelfMarking, Request, Retractable
      <3>3. QED
        BY <2>2, <3>1, <3>2
    <2>4. QED
      BY <2>1, <2>3, QuietRecord DEF RecordInv, Owns
  <1>3. ASSUME NEW w \in Workers, Step(w) \/ Ends(w)
        PROVE  RecordInv'
    <2>1. Others(w) /\ lease'.owner = IF Claim(w) THEN w ELSE lease.owner
      BY <1>0, <1>3, WorkerTokens, OwnerMoves
    <2>2. CASE Owns(w) /\ ~Claim(w)
      BY <1>3, <2>1, <2>2, OwnerRecord DEF RecordInv, Owns
    <2>3. CASE ~Owns(w) \/ Claim(w)
      <3>1. UNCHANGED <<payload, dirty, epoch, sweep, data, writer, import>>
        BY <1>3, <2>3, QuietSteps DEF RecordVars
      <3>2. UNCHANGED RecordVars
        BY <3>1 DEF RecordVars
      <3>3. CASE Claim(w)
        <4>1. pc'[w] = "claimed"
          BY <1>0, <3>3, ClaimMoves
        <4>2. KeepsRecord(pc[w], pass[w])'
          BY <4>1 DEF KeepsRecord, Rebuilds, Building
        <4>3. QED
          BY <2>1, <3>2, <3>3, <4>2, QuietRecord DEF RecordInv, Owns
      <3>4. CASE ~Claim(w)
        <4>1. ASSUME NEW u \in Workers, lease'.owner = u
              PROVE  KeepsRecord(pc[u], pass[u])'
          <5>1. u # w /\ Owns(u)
            BY <2>1, <2>3, <3>4, <4>1 DEF Owns
          <5>2. pc'[u] = pc[u] /\ pass'[u] = pass[u]
            BY <2>1, <5>1 DEF Others
          <5>3. QED
            BY <3>1, <5>1, <5>2 DEF RecordInv, KeepsRecord, Rec, Behind, Lo,
               Coming, Unmarked, Writing, SelfMarking, Request, Retractable
        <4>2. QED
          BY <3>2, <4>1, QuietRecord DEF RecordInv, Owns
      <3>5. QED
        BY <3>3, <3>4
    <2>4. QED
      BY <2>2, <2>3
  <1>4. CASE UNCHANGED vars
    <2>1. UNCHANGED <<payload, dirty, epoch, sweep, data, writer, import, lease,
                      pc, pass>>
      BY <1>4 DEF vars
    <2>2. QED
      BY <2>1 DEF RecordInv, Owns, KeepsRecord, Rec, Behind, Lo,
         Coming, Unmarked, Writing, SelfMarking, Request, Retractable
  <1>5. QED
    BY <1>1, <1>2, <1>3, <1>4, NextCases

-----------------------------------------------------------------------------
(* An import that marks nothing meets no pass that has seen its request and
   rebuilds days *)

LEMMA SurroundingsUnmarked ==
    ASSUME NoReaders, TypeInv, TypeInv', CountInv, UnmarkedInv, Surroundings
    PROVE  UnmarkedInv'
  <1> SUFFICES ASSUME Unmarked' PROVE UnmarkedInv'
    BY DEF UnmarkedInv
  <1>0. /\ TypeOK /\ TypeOK' /\ ImportOK
        /\ sweep \in Nat /\ sweeps \in Nat /\ epoch \in Int /\ epoch <= sweeps
        /\ import.marker \in Nat /\ Absent = -1
        /\ \A w \in Workers :
              /\ pass[w].stamp \in Nat /\ pass[w].sweep \in Nat
              /\ pass[w].stamp <= sweeps /\ pass[w].sweep <= sweeps
    BY CountTypes DEF TypeInv, TypeOK, CountInv
  <1>1. /\ UNCHANGED passVars /\ lease'.owner = lease.owner
        /\ \A d \in Days : payload'[d] \in {payload[d], Missing}
        /\ epoch' \in {epoch, Absent}
    BY <1>0, SurroundingsRows, SurroundingsDays
  <1>2. CASE ImportOpen
    <2>1. sweep' = sweeps + 1 /\ import'.marker = sweeps + 1
      BY <1>0, <1>2, ImportMoves DEF ImportOpen, BumpWithSweep
    <2>2. /\ epoch' < import'.marker /\ ~(epoch' >= import'.marker)
          /\ sweep' >= import'.marker
      BY <1>0, <1>1, <2>1
    <2>3. \A w \in Workers : SeenBefore(pass[w])'
      BY <1>0, <1>1, <2>1, <2>2 DEF SeenBefore
    <2>4. QED
      BY <2>2, <2>3 DEF UnmarkedInv
  <1>3. CASE ~ImportOpen
    <2>1. Unmarked /\ import'.marker = import.marker
      <3>1. CASE Unmarked
        <4>1. ~ImportClose
          <5>1. ImportClose => import'.at \in {"idle", "publishing"}
            BY <1>0, ImportMoves
          <5>2. QED
            BY <5>1 DEF Unmarked, Writing
        <4>2. QED
          BY <1>0, <3>1, <4>1, UnmarkedStays
      <3>2. CASE ~Unmarked
        <4>1. CASE Import
          <5>1. CASE (\E k \in ImportKinds : ImportCreate(k)) \/ ImportClose \/ ImportPublish
            BY <1>0, <5>1, ImportMoves DEF Unmarked, Writing
          <5>2. CASE ImportMark \/ ImportDrop \/ ImportEnd \/ \E s \in Sources : ImportSave(s)
            <6>1. SameRun /\ import.at \in {"open", "saved", "marked"}
              BY <1>0, <5>2, ImportMoves
            <6>2. QED
              BY <3>2, <6>1 DEF SameRun, Unmarked, Writing, SelfMarking
          <5>3. QED
            BY <1>3, <4>1, <5>1, <5>2 DEF Import
        <4>2. CASE ~Import
          <5>1. UNCHANGED import
            BY <4>2 DEF Surroundings, Writer, SaveRow, OpenTransaction,
               MarkDirty, DropPayload, Bump, CommitTransaction, RollBack,
               RequestManualRefresh, ReaderBuild, ReaderStore, OpenPage,
               Reconcile, LeaseLapses, Midnight, Settle, LoseMessage, Evict
          <5>2. QED
            BY <3>2, <5>1 DEF Unmarked, Writing, SelfMarking
        <4>3. QED
          BY <4>1, <4>2
      <3>3. QED
        BY <3>1, <3>2
    <2>2. sweep' >= import.marker
      <3>1. import.marker <= sweeps /\ sweep >= import.marker
        BY <2>1 DEF CountInv, UnmarkedInv, Unmarked
      <3>2. CASE ImportEnd
        BY <2>1, <3>1, <3>2 DEF ImportEnd, RestoreUnchanged, DropSweep,
           MarkedItsDays, KeepRequest, Unmarked, SelfMarking
      <3>3. CASE ~ImportEnd
        BY <1>0, <3>1, <3>3, SurroundingsMarks DEF Requested
      <3>4. QED
        BY <3>2, <3>3
    <2>3. NonePayload => NonePayload'
      BY <1>1 DEF NonePayload
    <2>4. epoch' >= import.marker => epoch >= import.marker
      BY <1>0, <1>1
    <2>5. \A w \in Workers :
             /\ SeenBefore(pass[w]) => SeenBefore(pass[w])'
             /\ SeenSince(pc[w], pass[w]) => SeenSince(pc[w], pass[w])'
      BY <1>0, <1>1, <2>1, <2>3 DEF SeenBefore, SeenSince
    <2>6. QED
      BY <1>1, <2>1, <2>2, <2>3, <2>4, <2>5 DEF UnmarkedInv, Owns
  <1>4. QED
    BY <1>2, <1>3

LEMMA OwnerUnmarked ==
    ASSUME TypeInv, TypeInv', ReadInv, LeaseInv, CountInv, UnmarkedInv, Unmarked,
           NEW w \in Workers, Step(w) \/ Ends(w), Owns(w), ~Claim(w)
    PROVE  /\ sweep' >= import.marker
           /\ epoch' >= import.marker => NonePayload'
           /\ Past(pc'[w]) => SeenBefore(pass[w])' \/ SeenSince(pc[w], pass[w])'
  <1> DEFINE p == pass[w]
  <1>0. /\ TypeOK /\ PassOK /\ LeaseOK /\ p.only = NoRange
        /\ sweep \in Nat /\ epoch \in Int /\ import.marker \in Nat
        /\ import.marker > 0 /\ sweep >= import.marker
        /\ epoch >= import.marker => NonePayload
        /\ p.stamp \in Nat /\ p.sweep \in Nat
        /\ Past(pc[w]) => SeenBefore(p) \/ SeenSince(pc[w], p)
    <2>1. import.prevSweep \in Nat /\ import.prevSweep < import.marker
          /\ import.marker \in Nat
      BY CountTypes DEF TypeInv, CountInv, Unmarked
    <2>2. QED
      BY <2>1, CountTypes DEF TypeInv, TypeOK, CountInv, UnmarkedInv
  <1>1. UNCHANGED import
    BY WorkersLeaveRows
  <1>2. CASE Ends(w)
    <2>1. UNCHANGED <<epoch, sweep>> /\ pc'[w] = "idle"
      BY <1>0, <1>2, EndMoves, EndLeaves
    <2>2. NonePayload /\ epoch >= import.marker => NonePayload'
      <3>1. CASE UNCHANGED payload
        BY <3>1 DEF NonePayload
      <3>2. CASE pc[w] \in {"built", "filled"}
        BY <1>0, <3>2 DEF SeenBefore, SeenSince, Past
      <3>3. QED
        BY <1>2, <3>1, <3>2, EndLeaves
    <2>3. QED
      BY <1>0, <2>1, <2>2 DEF Past
  <1>3. CASE ReadState(w)
    <2>1. UNCHANGED <<epoch, sweep, payload>>
      BY <1>3 DEF ReadState
    <2>2. /\ pass'[w].sweep = sweep
          /\ pc'[w] = "prepare" \/ (pc'[w] = "tokens" /\ epoch = sweep)
      BY <1>0, <1>3, ReadStateMoves
    <2>3. NonePayload => NonePayload'
      BY <2>1 DEF NonePayload
    <2>4. SeenSince(pc[w], pass[w])'
      BY <1>0, <1>1, <2>2, <2>3 DEF SeenSince
    <2>5. QED
      BY <1>0, <2>1, <2>3, <2>4
  <1>4. CASE ~Ends(w) /\ ~ReadState(w)
    <2>0. SameState(p, pass'[w]) /\ Past(pc[w])
      BY <1>0, <1>4, SameStateMoves DEF Past
    <2>1. CASE SeenBefore(p)
      <3>1. p.stamp < import.marker /\ p.sweep < import.marker /\ epoch < import.marker
        BY <2>1 DEF SeenBefore
      <3>2. epoch' < import.marker
        BY <1>0, <3>1, WorkerDays
      <3>3. sweep' = sweep
        BY <1>0, <1>4, <3>1, WorkerMarks
      <3>4. SeenBefore(pass[w])'
        BY <1>1, <2>0, <3>1, <3>2 DEF SeenBefore, SameState
      <3>5. epoch' \in Int
        BY CountTypes DEF TypeInv, TypeOK, DaysOK, Absent
      <3>6. QED
        BY <1>0, <3>2, <3>3, <3>4, <3>5
    <2>2. CASE SeenSince(pc[w], p)
      <3>1. /\ pc[w] \in {"prepare", "tokens", "days"}
            /\ p.sweep >= import.marker /\ p.sweep # 0
            /\ pc[w] # "prepare" => NonePayload
        BY <1>0, <2>2 DEF SeenSince
      <3>2. CASE pc[w] = "prepare"
        <4>1. PrepareSweep(w)
          BY <1>4, <3>2, StepCases DEF Claim, ReadTokens, BuildDay,
             StoreDay, MarkEpoch, PlanRanges, BeginRange, BuildMissingDay,
             StoreMissingDay, CollectPayloads, BuildLateDay, StoreLateDay,
             ReadUndated, PublishSnapshot, CheckAfterPublish, ClearSweep,
             RecordMarkers
        <4>2. NonePayload' /\ UNCHANGED sweep
          BY <4>1 DEF PrepareSweep, Dropped, NonePayload
        <4>3. pc'[w] = "tokens"
          BY <1>0, <4>1, SamePassMoves
        <4>4. SeenSince(pc[w], pass[w])'
          BY <1>1, <2>0, <3>1, <4>2, <4>3 DEF SeenSince, SameState
        <4>5. QED
          BY <1>0, <4>2, <4>4
      <3>3. CASE pc[w] = "tokens"
        <4>1. ReadTokens(w)
          BY <1>4, <3>3, StepCases DEF Claim, PrepareSweep, BuildDay,
             StoreDay, MarkEpoch, PlanRanges, BeginRange, BuildMissingDay,
             StoreMissingDay, CollectPayloads, BuildLateDay, StoreLateDay,
             ReadUndated, PublishSnapshot, CheckAfterPublish, ClearSweep,
             RecordMarkers
        <4>2. UNCHANGED <<sweep, epoch, payload>>
          BY <4>1 DEF ReadTokens
        <4>3. NonePayload /\ NonePayload'
          BY <3>1, <3>3, <4>2 DEF NonePayload
        <4>4. p.full
          BY <3>1 DEF ReadInv, StateRead
        <4>5. pass'[w].work # {}
          <5>1. 1 \in Days
            BY ConstantsOK DEF Days
          <5>2. MissingDays(Days) = Days
            BY <4>3 DEF NonePayload, MissingDays
          <5>3. MissingDays(Days) \subseteq pass'[w].work
            BY <1>0, <4>1, <4>4, ReadTokensMoves
          <5>4. QED
            BY <5>1, <5>2, <5>3
        <4>6. pc'[w] = "days"
          BY <1>0, <4>1, <4>5, ReadTokensMoves DEF NextDays
        <4>7. SeenSince(pc[w], pass[w])'
          BY <1>1, <2>0, <3>1, <4>3, <4>6 DEF SeenSince, SameState
        <4>8. QED
          BY <1>0, <4>2, <4>3, <4>7
      <3>4. CASE pc[w] = "days"
        <4>1. BuildDay(w)
          BY <1>4, <3>4, StepCases DEF Claim, PrepareSweep, ReadTokens,
             StoreDay, MarkEpoch, PlanRanges, BeginRange, BuildMissingDay,
             StoreMissingDay, CollectPayloads, BuildLateDay, StoreLateDay,
             ReadUndated, PublishSnapshot, CheckAfterPublish, ClearSweep,
             RecordMarkers
        <4>2. MustYield(w)
          BY <1>0 DEF MustYield, BulkImportActive, Unmarked, Writing
        <4>3. QED
          BY <4>1, <4>2 DEF BuildDay
      <3>5. QED
        BY <3>1, <3>2, <3>3, <3>4
    <2>3. QED
      BY <1>0, <2>0, <2>1, <2>2
  <1>5. QED
    BY <1>2, <1>3, <1>4

LEMMA NextUnmarked ==
    ASSUME NoReaders
    PROVE  TypeInv /\ TypeInv' /\ ReadInv /\ LeaseInv /\ CountInv
           /\ UnmarkedInv /\ [Next]_vars => UnmarkedInv'
  <1> SUFFICES ASSUME TypeInv, TypeInv', ReadInv, LeaseInv, CountInv,
                      UnmarkedInv, [Next]_vars
               PROVE  UnmarkedInv'
    OBVIOUS
  <1>0. TypeOK /\ PassOK /\ BoundsOK /\ LeaseOK
    BY DEF TypeInv, TypeOK
  <1>1. CASE Surroundings
    BY <1>1, SurroundingsUnmarked
  <1>2. ASSUME UNCHANGED <<sweep, epoch, payload, import>>,
               \A u \in Workers :
                  lease'.owner = u /\ Past(pc'[u]) =>
                     Owns(u) /\ pc'[u] = pc[u] /\ pass'[u] = pass[u]
        PROVE  UnmarkedInv'
    BY <1>2 DEF UnmarkedInv, Unmarked, Writing, SelfMarking, NonePayload,
       SeenBefore, SeenSince, Owns
  <1>3. ASSUME NEW w \in Workers, Begins(w)
        PROVE  UnmarkedInv'
    <2>1. UNCHANGED <<sweep, epoch, payload, import, lease>>
      BY <1>0, <1>3, BeginMoves
    <2>2. \A u \in Workers : \/ pc'[u] = pc[u] /\ pass'[u] = pass[u]
                             \/ pc'[u] = "start"
      BY <1>0, <1>3, BeginMoves DEF Others
    <2>3. QED
      BY <1>2, <2>1, <2>2 DEF Past, Owns
  <1>4. ASSUME NEW w \in Workers, Step(w) \/ Ends(w)
        PROVE  UnmarkedInv'
    <2>1. /\ Others(w) /\ lease'.owner = IF Claim(w) THEN w ELSE lease.owner
          /\ UNCHANGED import
      BY <1>0, <1>4, WorkerTokens, OwnerMoves, WorkersLeaveRows
    <2>2. CASE Owns(w) /\ ~Claim(w)
      <3>1. CASE Unmarked
        <4>1. /\ sweep' >= import'.marker
              /\ epoch' >= import'.marker => NonePayload'
              /\ Past(pc'[w]) => SeenBefore(pass[w])' \/ SeenSince(pc[w], pass[w])'
          BY <1>4, <2>1, <2>2, <3>1, OwnerUnmarked
        <4>2. \A u \in Workers : lease'.owner = u => u = w
          BY <2>1, <2>2 DEF Owns
        <4>3. QED
          BY <4>1, <4>2 DEF UnmarkedInv, Owns
      <3>2. CASE ~Unmarked
        BY <2>1, <3>2 DEF UnmarkedInv, Unmarked, Writing, SelfMarking
      <3>3. QED
        BY <3>1, <3>2
    <2>3. CASE ~Owns(w) \/ Claim(w)
      <3>1. UNCHANGED <<sweep, epoch, payload>>
        BY <1>4, <2>3, QuietSteps DEF RecordVars
      <3>2. Claim(w) => ~Past(pc'[w])
        BY <1>0, ClaimMoves DEF Past
      <3>3. ASSUME NEW u \in Workers, lease'.owner = u, Past(pc'[u])
            PROVE  Owns(u) /\ pc'[u] = pc[u] /\ pass'[u] = pass[u]
        BY <2>1, <2>3, <3>2, <3>3 DEF Owns, Others
      <3>4. QED
        BY <1>2, <2>1, <3>1, <3>3
    <2>4. QED
      BY <2>2, <2>3
  <1>5. CASE UNCHANGED vars
    BY <1>2, <1>5 DEF vars, Owns
  <1>6. QED
    BY <1>1, <1>3, <1>4, <1>5, NextCases

\* Whoever builds, stores, sweeps, crashes or imports on the way, a day payload
\* that no longer matches the committed rows is on record: as a dirty row, as
\* a mark on its way, as a pending sweep, or with an import still under way.
\* (_build_days stores under the lease, _clear_dirty deletes by token, run_sync
\* retracts no request raised after it began.)
THEOREM StaleDaysRecorded ==
    ASSUME Timely, NoReaders, NoInline PROVE Spec => []StaleDaysAreOnRecord
  <1>1. Spec => []TypeInv
    BY InitTypeInv, NextTypeInv, PTL DEF Spec
  <1>2. Spec /\ []TypeInv => [](ReadInv /\ LeaseInv)
    BY InitLease, NextReadInv, NextLeaseInv, PTL DEF Spec
  <1>3. Spec /\ []TypeInv => []BuiltInv
    BY InitShow, NextBuiltInv, PTL DEF Spec
  <1>4. Spec /\ []TypeInv => []CountInv
    BY InitCount, NextCount, PTL DEF Spec
  <1>5. Spec /\ [](TypeInv /\ ReadInv /\ LeaseInv /\ CountInv) => []UnmarkedInv
    BY InitRecord, NextUnmarked, PTL DEF Spec
  <1>6. Spec /\ [](TypeInv /\ LeaseInv /\ BuiltInv /\ CountInv /\ UnmarkedInv)
        => []RecordInv
    BY InitRecord, NextRecord, PTL DEF Spec
  <1>7. TypeInv /\ CountInv /\ RecordInv => StaleDaysAreOnRecord
    <2> SUFFICES ASSUME TypeInv, CountInv, RecordInv, NEW d \in Days, Behind(d)
                 PROVE  dirty[d] # 0 \/ Marking(d) \/ sweep # 0
                        \/ import.at # "idle"
      BY DEF StaleDaysAreOnRecord, Behind
    <2>1. dirty[d] \in Nat /\ sweep \in Nat /\ Request \in Nat /\ Request <= sweep
      BY CountTypes, RequestBounds DEF TypeInv
    <2>2. Rec(d, 0, 0)
      BY DEF RecordInv
    <2>3. QED
      BY <2>1, <2>2 DEF Rec, Coming, Marking, Unmarked, Writing
  <1>8. QED
    BY <1>1, <1>2, <1>3, <1>4, <1>5, <1>6, <1>7, PTL

-----------------------------------------------------------------------------
(* What looks fresh is current.

   FreshIsCurrent rests on an order: whoever changes rows marks them before it
   raises the generation, and whoever rebuilds reads the generation before the
   marks and the marks before the rows.  So a pass that read the current
   generation has on its list, or has rebuilt, every day that differs from its
   rows, except for changes whose generation is still to come (Unbumped).  An
   import raises the generation first; it is covered because a pass that read
   the import's generation waits for the import to close (_yield_if_interactive)
   before it builds or aggregates anything. *)

\* No range is being aggregated when the day turns.
NoMidnightInside ==
    MidnightAt \cap {"fill", "filled", "collect", "late", "lateBuilt", "publish"}
        = {}

AfterDays == {"epoch", "plan", "ranges", "fill", "filled", "collect", "late",
              "lateBuilt", "publish", "published", "clear", "record", "release"}

\* A pass leaves the days with none left to build.
WorkInv == \A w \in Workers : pc[w] \in AfterDays => pass[w].work = {}

LEMMA NextWork == TypeInv /\ WorkInv /\ [Next]_vars => WorkInv'
  <1> SUFFICES ASSUME TypeInv, WorkInv, [Next]_vars PROVE WorkInv'
    OBVIOUS
  <1>0. TypeOK /\ PassOK /\ BoundsOK
    BY DEF TypeInv, TypeOK
  <1> USE DEF AfterDays
  <1>1. ASSUME UNCHANGED passVars PROVE WorkInv'
    BY <1>1 DEF WorkInv
  <1>2. CASE Surroundings
    BY <1>0, <1>1, <1>2, SurroundingsRows
  <1>3. ASSUME NEW w \in Workers, Begins(w)
        PROVE  WorkInv'
    BY <1>0, <1>1, <1>3, BeginMoves DEF WorkInv, Others
  <1>4. ASSUME NEW w \in Workers, Step(w) \/ Ends(w)
        PROVE  WorkInv'
    <2> SUFFICES ASSUME pc'[w] \in AfterDays PROVE pass'[w].work = {}
      BY <1>0, <1>4, WorkerTokens DEF WorkInv, Others
    <2> USE DEF SameDays
    <2>1. ~Ends(w) /\ ~Claim(w) /\ ~ReadState(w) /\ ~PrepareSweep(w) /\ ~BuildDay(w)
      BY <1>0, <1>4, EndMoves, ClaimMoves, ReadStateMoves, SamePassMoves,
         BuildMoves
    <2>2. CASE ReadTokens(w) \/ StoreDay(w)
      BY <1>0, <2>2, ReadTokensMoves, StoreDayMoves DEF NextDays
    <2>3. CASE MarkEpoch(w) \/ CheckAfterPublish(w) \/ ClearSweep(w)
               \/ RecordMarkers(w)
      BY <1>0, <2>3, SamePassMoves DEF WorkInv, MarkEpoch,
         CheckAfterPublish, ClearSweep, RecordMarkers
    <2>4. CASE BuildMissingDay(w) \/ BuildLateDay(w)
      BY <1>0, <2>4, BuildMoves DEF WorkInv, BuildMissingDay, BuildLateDay
    <2>5. CASE PlanRanges(w) \/ BeginRange(w) \/ StoreMissingDay(w)
      BY <1>0, <2>5, PlanRangesMoves, BeginRangeMoves, StoreMissingDayMoves
         DEF WorkInv, PlanRanges, BeginRange, StoreMissingDay
    <2>6. CASE \/ CollectPayloads(w) \/ StoreLateDay(w) \/ ReadUndated(w)
               \/ PublishSnapshot(w)
      BY <1>0, <2>6, CollectMoves, StoreLateDayMoves, ReadUndatedMoves,
         PublishMoves
         DEF WorkInv, CollectPayloads, StoreLateDay, ReadUndated, PublishSnapshot
    <2>7. QED
      BY <1>4, <2>1, <2>2, <2>3, <2>4, <2>5, <2>6, StepCases
  <1>5. CASE UNCHANGED vars
    BY <1>1, <1>5 DEF vars
  <1>6. QED
    BY <1>2, <1>3, <1>4, <1>5, NextCases

\* Only an end raises what an import may retract, and a scoped one does not.
LEMMA RequestFalls ==
    ASSUME NoUnchanged, TypeInv, TypeInv', CountInv, Surroundings
    PROVE  Bumped \/ (generation' = generation /\ Request' <= Request)
  <1>0. /\ TypeOK /\ TypeOK' /\ ImportOK /\ sweep \in Nat
        /\ import.marker \in Nat /\ import.prevSweep \in Nat
        /\ Writing => import.prevSweep < import.marker
        /\ Request \in Nat
    BY CountTypes, RequestBounds DEF TypeInv, TypeOK, CountInv
  <1> USE DEF Request, Retractable, SelfMarking
  <1>1. CASE ImportEnd
    <2>1. /\ import.at = "open" /\ import'.at = "closing" /\ import.kind # "unchanged"
      BY <1>0, <1>1, ImportMoves DEF NoUnchanged, NoRange, ImportOK
    <2>2. Request' = sweep' /\ generation' = generation
      BY <1>0, <1>1, <2>1, ImportEnds
    <2>3. CASE DropSweep
      BY <1>0, <2>1, <2>2, <2>3 DEF DropSweep, MarkedItsDays
    <2>4. CASE KeepRequest
      BY <1>0, <2>1, <2>2, <2>4 DEF KeepRequest, MarkedItsDays
    <2>5. QED
      BY <1>1, <2>1, <2>3, <2>4 DEF ImportEnd, RestoreUnchanged
  <1>2. CASE ~ImportEnd /\ ~Bumped
    <2>1. UNCHANGED <<generation, sweep>>
      BY <1>0, <1>2, SurroundingsMarks DEF Requested
    <2>2. CASE Import
      <3>1. ~ImportOpen /\ ~ImportPublish
        BY <1>0, <1>2, RequestSteps DEF ImportOpen, ImportPublish, Requested
      <3>2. CASE (\E k \in ImportKinds : ImportCreate(k)) \/ ImportClose
        <4>1. /\ import.at \notin {"open", "saved", "marked"}
              /\ import'.at \notin {"open", "saved", "marked"}
          BY <1>0, <3>2, ImportMoves DEF ImportCreate, ImportClose
        <4>2. QED
          BY <1>0, <2>1, <4>1
      <3>3. CASE ImportMark \/ ImportDrop \/ \E s \in Sources : ImportSave(s)
        <4>1. /\ import.at \in {"open", "saved", "marked"}
              /\ import'.at \in {"open", "saved", "marked"} /\ SameRun
          BY <1>0, <3>3, ImportMoves
        <4>2. QED
          BY <1>0, <2>1, <4>1 DEF SameRun
      <3>4. QED
        BY <1>2, <2>2, <3>1, <3>2, <3>3 DEF Import
    <2>3. CASE ~Import
      <3>1. UNCHANGED import
        BY <2>3 DEF Surroundings, Writer, SaveRow, OpenTransaction,
           MarkDirty, DropPayload, Bump, CommitTransaction, RollBack,
           RequestManualRefresh, ReaderBuild, ReaderStore, OpenPage,
           Reconcile, LeaseLapses, Midnight, Settle, LoseMessage, Evict
      <3>2. QED
        BY <1>0, <2>1, <3>1
    <2>4. QED
      BY <2>2, <2>3
  <1>3. QED
    BY <1>1, <1>2

LEMMA WorkerRequest ==
    ASSUME TypeOK, CountInv, NEW w \in Workers, Step(w) \/ Ends(w)
    PROVE  /\ UNCHANGED <<generation, import>>
           /\ Request' <= Request
  <1>0. /\ sweep \in Nat /\ import.marker \in Nat /\ import.prevSweep \in Nat
        /\ Writing => import.prevSweep < import.marker
        /\ Request \in Nat /\ pass[w].only = NoRange
    BY CountTypes, RequestBounds DEF CountInv
  <1>1. UNCHANGED import
    BY WorkersLeaveRows
  <1>2. UNCHANGED generation /\ (UNCHANGED sweep \/ sweep' = 0)
    BY <1>0, WorkerMarks
  <1>3. CASE UNCHANGED sweep
    BY <1>0, <1>1, <1>2, <1>3 DEF Request, Retractable, SelfMarking
  <1>4. CASE sweep' = 0
    BY <1>0, <1>1, <1>2, <1>4 DEF Request, Retractable, SelfMarking, Writing
  <1>5. QED
    BY <1>2, <1>1, <1>3, <1>4

\* Only opening an import begins its run.
LEMMA RunStays ==
    ASSUME TypeOK, Surroundings, Writing', ~ImportOpen
    PROVE  Writing /\ SameRun
  <1>0. ImportOK
    BY DEF TypeOK
  <1> USE DEF Writing
  <1>1. CASE Import
    <2>1. \A k \in ImportKinds : ~ImportCreate(k)
      BY <1>0, ImportMoves
    <2>2. ~ImportClose /\ ~ImportPublish
      BY <1>0, ImportMoves
    <2>3. QED
      BY <1>0, <1>1, <2>1, <2>2, ImportMoves DEF Import
  <1>2. CASE ~Import
    <2>1. UNCHANGED import
      BY <1>2 DEF Surroundings, Writer, SaveRow, OpenTransaction,
         MarkDirty, DropPayload, Bump, CommitTransaction, RollBack,
         RequestManualRefresh, ReaderBuild, ReaderStore, OpenPage,
         Reconcile, LeaseLapses, Midnight, Settle, LoseMessage, Evict
    <2>2. QED
      BY <2>1 DEF SameRun
  <1>3. QED
    BY <1>1, <1>2

\* A pass that read the current generation read every request made with it.
AskedInv ==
    \A w \in Workers :
        Past(pc[w]) /\ pass[w].gen = generation => Request <= pass[w].sweep

\* While an import writes, whoever has rows in hand read an older generation.
InHand == {"built", "fill", "filled", "collect", "late", "lateBuilt", "publish"}

WriteInv ==
    Writing =>
        /\ import.prevGen < generation
        /\ \A r \in Ranges : snaps[r].gen <= import.prevGen
        /\ \A w \in Workers :
              Owns(w) =>
                 /\ pc[w] \in InHand => pass[w].gen <= import.prevGen
                 /\ Unmarked /\ Past(pc[w]) /\ SeenBefore(pass[w])
                       => pass[w].gen <= import.prevGen

LEMMA InitRuns == Init => WorkInv /\ AskedInv /\ WriteInv
  <1> SUFFICES ASSUME Init PROVE WorkInv /\ AskedInv /\ WriteInv
    OBVIOUS
  <1>1. import.at = "idle" /\ \A w \in Workers : pc[w] = "idle"
    BY DEF Init, NoImport
  <1>2. QED
    BY <1>1 DEF WorkInv, AskedInv, WriteInv, Past, Writing, AfterDays

LEMMA NextAsked ==
    ASSUME NoUnchanged
    PROVE  TypeInv /\ TypeInv' /\ CountInv /\ GensInv /\ AskedInv /\ [Next]_vars
           => AskedInv'
  <1> SUFFICES ASSUME TypeInv, TypeInv', CountInv, GensInv, AskedInv, [Next]_vars
               PROVE  AskedInv'
    OBVIOUS
  <1>0. /\ TypeOK /\ TypeOK' /\ PassOK /\ BoundsOK /\ generation \in Nat
        /\ Request \in Nat /\ Request <= sweep
        /\ \A w \in Workers : /\ pass[w].gen \in Nat /\ pass[w].gen <= generation
                              /\ pass[w].sweep \in Nat
    BY PassGens, CountTypes, RequestBounds DEF TypeInv, TypeOK, GensInv
  <1>r. Request' \in Nat
    BY CountTypes DEF TypeInv, TypeOK, MarksOK, ImportOK, Request
  <1>1. CASE Surroundings
    <2>1. UNCHANGED passVars
      BY <1>0, <1>1, SurroundingsRows
    <2>2. CASE Bumped
      BY <1>0, <2>1, <2>2 DEF AskedInv, Bumped
    <2>3. CASE generation' = generation /\ Request' <= Request
      BY <1>0, <1>r, <2>1, <2>3 DEF AskedInv
    <2>4. QED
      BY <1>1, <2>2, <2>3, RequestFalls
  <1>2. ASSUME NEW w \in Workers, Begins(w)
        PROVE  AskedInv'
    <2>1. UNCHANGED <<generation, sweep, import>>
      BY <1>0, <1>2, BeginMoves
    <2>2. Request' = Request
      BY <2>1 DEF Request, Retractable, SelfMarking
    <2>3. \A u \in Workers : \/ pc'[u] = pc[u] /\ pass'[u] = pass[u]
                             \/ pc'[u] = "start"
      BY <1>0, <1>2, BeginMoves DEF Others
    <2>4. QED
      BY <2>1, <2>2, <2>3 DEF AskedInv, Past
  <1>3. ASSUME NEW w \in Workers, Step(w) \/ Ends(w)
        PROVE  AskedInv'
    <2>1. UNCHANGED generation /\ Request' <= Request /\ Others(w)
      BY <1>0, <1>3, WorkerRequest, WorkerTokens
    <2>2. ASSUME NEW u \in Workers, u # w, Past(pc'[u]), pass'[u].gen = generation
          PROVE  Request' <= pass'[u].sweep
      <3>1. Request <= pass[u].sweep
        BY <2>1, <2>2 DEF AskedInv, Others
      <3>2. QED
        BY <1>0, <1>r, <2>1, <2>2, <3>1 DEF Others
    <2>3. ASSUME Past(pc'[w]), pass'[w].gen = generation
          PROVE  Request' <= pass'[w].sweep
      <3>1. CASE ReadState(w)
        <4>1. pass'[w].sweep = sweep /\ sweep \in Nat
          BY <1>0, <3>1, ReadStateMoves, CountTypes
        <4>2. QED
          BY <1>0, <1>r, <2>1, <4>1
      <3>2. CASE ~ReadState(w)
        <4>1. ~Claim(w) /\ ~Ends(w)
          BY <1>0, <2>3, ClaimMoves, EndMoves DEF Past
        <4>2. Past(pc[w]) /\ SameState(pass[w], pass'[w])
          BY <1>0, <1>3, <3>2, <4>1, SameStateMoves DEF Past
        <4>3. Request <= pass[w].sweep /\ pass'[w].sweep = pass[w].sweep
          BY <2>3, <4>2 DEF AskedInv, SameState
        <4>4. QED
          BY <1>0, <1>r, <2>1, <4>3
      <3>3. QED
        BY <3>1, <3>2
    <2>4. QED
      BY <2>1, <2>2, <2>3 DEF AskedInv
  <1>4. CASE UNCHANGED vars
    BY <1>4 DEF vars, AskedInv, Request, Retractable, SelfMarking
  <1>5. QED
    BY <1>1, <1>2, <1>3, <1>4, NextCases

\* A background pass takes up no day and no range while an import is under way.
LEMMA IntoHand ==
    ASSUME TypeInv, CountInv, Writing, NEW w \in Workers, Step(w) \/ Ends(w),
           pc'[w] \in InHand
    PROVE  pc[w] \in InHand /\ pass'[w].gen = pass[w].gen
  <1> USE DEF InHand
  <1>0. PassOK /\ pass[w].only = NoRange
    BY DEF TypeInv, TypeOK, CountInv
  <1>1. MustYield(w)
    BY <1>0 DEF MustYield, BulkImportActive, Writing
  <1>2. ~Claim(w) /\ ~Ends(w) /\ ~ReadState(w) /\ ~BuildDay(w) /\ ~BeginRange(w)
    BY <1>0, <1>1, ClaimMoves, EndMoves, ReadStateMoves
       DEF BuildDay, BeginRange
  <1>3. /\ ~PrepareSweep(w) /\ ~ReadTokens(w) /\ ~StoreDay(w) /\ ~MarkEpoch(w)
        /\ ~PlanRanges(w) /\ ~CheckAfterPublish(w) /\ ~ClearSweep(w)
        /\ ~RecordMarkers(w) /\ ~PublishSnapshot(w)
    BY <1>0, SamePassMoves, ReadTokensMoves, StoreDayMoves, PlanRangesMoves,
       PublishMoves DEF NextDays, NextRanges
  <1>4. SameState(pass[w], pass'[w])
    BY <1>0, <1>2, SameStateMoves
  <1>5. pc[w] \in InHand
    BY <1>2, <1>3, StepCases DEF BuildMissingDay, StoreMissingDay,
       CollectPayloads, BuildLateDay, StoreLateDay, ReadUndated
  <1>6. QED
    BY <1>4, <1>5 DEF SameState

LEMMA NextWrite ==
    ASSUME NoUnchanged
    PROVE  TypeInv /\ TypeInv' /\ CountInv /\ GensInv /\ UnmarkedInv /\ WriteInv
           /\ [Next]_vars => WriteInv'
  <1> SUFFICES ASSUME TypeInv, TypeInv', CountInv, GensInv, UnmarkedInv, WriteInv,
                      [Next]_vars, Writing'
               PROVE  WriteInv'
    BY DEF WriteInv
  <1>0. /\ TypeOK /\ TypeOK' /\ PassOK /\ BoundsOK /\ ImportOK /\ LeaseOK
        /\ generation \in Nat /\ generation' \in Nat /\ generation <= generation'
        /\ import.prevGen \in Nat /\ import.marker \in Nat
        /\ \A w \in Workers : /\ pass[w].gen \in Nat /\ pass[w].gen <= generation
                              /\ pass[w].sweep \in Nat
        /\ \A r \in Ranges : snaps[r].gen \in Int /\ snaps[r].gen <= generation
    BY PassGens, CountTypes, GenerationRises DEF TypeInv, TypeOK, GensInv
  <1>1. CASE Surroundings
    <2>1. UNCHANGED <<snaps, passVars>> /\ lease'.owner = lease.owner
      BY <1>0, <1>1, SurroundingsRows
    <2>2. CASE ImportOpen
      <3>1. import'.prevGen = generation /\ generation' = generation + 1
        BY <1>0, <2>2, ImportMoves DEF ImportOpen, BumpWithSweep
      <3>2. QED
        BY <1>0, <2>1, <3>1 DEF WriteInv
    <2>3. CASE ~ImportOpen
      <3>1. Writing /\ SameRun
        BY <1>0, <1>1, <2>3, RunStays
      <3>2. Unmarked' => Unmarked
        BY <3>1 DEF SameRun, Unmarked, SelfMarking
      <3>3. ASSUME NEW w \in Workers, Owns(w), Unmarked', Past(pc[w]),
                   SeenBefore(pass[w])'
            PROVE  pass[w].gen <= import.prevGen
        <4>1. pass[w].sweep < import.marker
          BY <2>1, <3>1, <3>3 DEF SeenBefore, SameRun
        <4>2. SeenBefore(pass[w])
          BY <1>0, <3>2, <3>3, <4>1 DEF UnmarkedInv, SeenSince
        <4>3. QED
          BY <3>1, <3>2, <3>3, <4>2 DEF WriteInv
      <3>4. import'.prevGen = import.prevGen /\ import.prevGen < generation'
        BY <1>0, <3>1 DEF SameRun, WriteInv
      <3>5. QED
        BY <2>1, <3>1, <3>3, <3>4 DEF WriteInv, Owns
    <2>4. QED
      BY <2>2, <2>3
  <1>2. ASSUME NEW w \in Workers, Begins(w)
        PROVE  WriteInv'
    <2>1. UNCHANGED <<generation, import, snaps, lease, epoch>>
      BY <1>0, <1>2, BeginMoves
    <2>2. \A u \in Workers : \/ pc'[u] = pc[u] /\ pass'[u] = pass[u]
                             \/ pc'[u] = "start"
      BY <1>0, <1>2, BeginMoves DEF Others
    <2>3. QED
      BY <2>1, <2>2 DEF WriteInv, Writing, Unmarked, SelfMarking, Past,
         InHand, SeenBefore, Owns
  <1>3. ASSUME NEW w \in Workers, Step(w) \/ Ends(w)
        PROVE  WriteInv'
    <2>1. /\ UNCHANGED <<generation, import>> /\ Others(w)
          /\ lease'.owner = IF Claim(w) THEN w ELSE lease.owner
      BY <1>0, <1>3, WorkerRequest, WorkerTokens, OwnerMoves
    <2>2. Writing /\ (Unmarked' = Unmarked)
      BY <2>1 DEF Writing, Unmarked, SelfMarking
    <2>3. \A r \in Ranges : snaps'[r].gen <= import.prevGen
      <3>1. CASE PublishSnapshot(w)
        <4> DEFINE f == [s \in {Undated} \cup Window[pass[w].cur][pass[w].window]
                           |-> pass[w].read[s]]
        <4>1. \A r \in Ranges :
                 \/ snaps'[r] = snaps[r]
                 \/ snaps'[r] = [gen |-> pass[w].gen, builtDay |-> today,
                                 window |-> pass[w].window, shows |-> f]
          BY <3>1, PublishReplaces
        <4> HIDE DEF f
        <4>2. \A r \in Ranges : snaps'[r].gen \in {snaps[r].gen, pass[w].gen}
          BY <4>1
        <4>3. pass[w].gen <= import.prevGen
          BY <2>2, <3>1 DEF PublishSnapshot, WriteInv, InHand
        <4>4. QED
          BY <2>2, <4>2, <4>3 DEF WriteInv
      <3>2. CASE ~PublishSnapshot(w)
        BY <1>3, <2>2, <3>2, WorkerSnaps DEF WriteInv
      <3>3. QED
        BY <3>1, <3>2
    <2>4. ASSUME NEW u \in Workers, lease'.owner = u, pc'[u] \in InHand
          PROVE  pass'[u].gen <= import.prevGen
      <3>1. ~Claim(w) \/ u # w
        BY <1>0, <2>4, ClaimMoves DEF InHand
      <3>2. Owns(u)
        BY <2>1, <2>4, <3>1 DEF Owns
      <3>3. CASE u = w
        BY <1>3, <2>2, <2>4, <3>2, <3>3, IntoHand DEF WriteInv
      <3>4. CASE u # w
        BY <2>1, <2>2, <2>4, <3>2, <3>4 DEF WriteInv, Others
      <3>5. QED
        BY <3>3, <3>4
    <2>5. ASSUME NEW u \in Workers, lease'.owner = u, Unmarked, Past(pc'[u]),
                 SeenBefore(pass[u])'
          PROVE  pass'[u].gen <= import.prevGen
      <3>1. ~Claim(w) \/ u # w
        BY <1>0, <2>5, ClaimMoves DEF Past
      <3>2. Owns(u)
        BY <2>1, <2>5, <3>1 DEF Owns
      <3>3. pass'[u].sweep < import.marker
        BY <2>1, <2>5 DEF SeenBefore
      <3>4. ~(ReadState(w) /\ u = w)
        <4>1. ReadState(w) => pass'[w].sweep = sweep /\ sweep >= import.marker
                              /\ sweep \in Nat
          BY <1>0, <2>5, ReadStateMoves, CountTypes DEF UnmarkedInv
        <4>2. QED
          BY <1>0, <3>3, <4>1
      <3>5. Past(pc[u]) /\ pass'[u].sweep = pass[u].sweep /\ pass'[u].gen = pass[u].gen
        <4>1. CASE u # w
          BY <2>1, <2>5, <4>1 DEF Others
        <4>2. CASE u = w
          <5>1. ~Ends(w)
            BY <1>0, <2>5, <4>2, EndMoves DEF Past
          <5>2. QED
            BY <1>0, <1>3, <3>1, <3>4, <4>2, <5>1, SameStateMoves
               DEF SameState, Past
        <4>3. QED
          BY <4>1, <4>2
      <3>6. SeenBefore(pass[u])
        BY <1>0, <2>5, <3>2, <3>3, <3>5 DEF UnmarkedInv, SeenSince
      <3>7. QED
        BY <2>2, <2>5, <3>2, <3>5, <3>6 DEF WriteInv
    <2>6. QED
      BY <2>1, <2>2, <2>3, <2>4, <2>5 DEF WriteInv, Owns
  <1>4. CASE UNCHANGED vars
    BY <1>4 DEF vars, WriteInv, Writing, Unmarked, SelfMarking, SeenBefore, Owns
  <1>5. QED
    BY <1>1, <1>2, <1>3, <1>4, NextCases

-----------------------------------------------------------------------------
(* The window a range is aggregated for is today's, and so is what is shown *)

Inside == {"fill", "filled", "collect", "late", "lateBuilt", "publish"}

WindowInv ==
    /\ \A w \in Workers : pc[w] \in Inside => pass[w].window = today
    /\ \A r \in Ranges : snaps[r] # NoSnap =>
          /\ snaps[r].window = snaps[r].builtDay
          /\ DOMAIN snaps[r].shows
                = {Undated} \cup Window[r][snaps[r].window]

LEMMA InitWindow == Init => WindowInv
  BY DEF Init, WindowInv, Inside

LEMMA IntoWindow ==
    ASSUME TypeInv, NEW w \in Workers, Step(w) \/ Ends(w), pc'[w] \in Inside
    PROVE  \/ pass'[w].window = today
           \/ pc[w] \in Inside /\ pass'[w].window = pass[w].window
  <1> USE DEF Inside, SameRange
  <1>0. PassOK
    BY DEF TypeInv, TypeOK
  <1>1. ~Claim(w) /\ ~Ends(w) /\ ~ReadState(w)
    BY <1>0, ClaimMoves, EndMoves, ReadStateMoves
  <1>2. /\ ~PrepareSweep(w) /\ ~ReadTokens(w) /\ ~StoreDay(w) /\ ~MarkEpoch(w)
        /\ ~PlanRanges(w) /\ ~CheckAfterPublish(w) /\ ~ClearSweep(w)
        /\ ~RecordMarkers(w) /\ ~PublishSnapshot(w) /\ ~BuildDay(w)
    BY <1>0, SamePassMoves, ReadTokensMoves, StoreDayMoves, PlanRangesMoves,
       PublishMoves, BuildMoves DEF NextDays, NextRanges
  <1>3. CASE BeginRange(w)
    BY <1>0, <1>3, BeginRangeMoves
  <1>4. CASE BuildMissingDay(w) \/ BuildLateDay(w)
    BY <1>0, <1>4, BuildMoves DEF BuildMissingDay, BuildLateDay
  <1>5. CASE StoreMissingDay(w) \/ CollectPayloads(w)
    BY <1>0, <1>5, StoreMissingDayMoves, CollectMoves
       DEF StoreMissingDay, CollectPayloads
  <1>6. CASE StoreLateDay(w) \/ ReadUndated(w)
    BY <1>0, <1>6, StoreLateDayMoves, ReadUndatedMoves
       DEF StoreLateDay, ReadUndated
  <1>7. QED
    BY <1>1, <1>2, <1>3, <1>4, <1>5, <1>6, StepCases

LEMMA NextWindow ==
    ASSUME NoMidnightInside
    PROVE  TypeInv /\ WindowInv /\ [Next]_vars => WindowInv'
  <1> SUFFICES ASSUME TypeInv, WindowInv, [Next]_vars PROVE WindowInv'
    OBVIOUS
  <1>0. TypeOK /\ PassOK /\ BoundsOK
    BY DEF TypeInv, TypeOK
  <1>1. ASSUME UNCHANGED <<today, passVars, snaps>> PROVE WindowInv'
    BY <1>1 DEF WindowInv
  <1>2. CASE Surroundings
    <2>1. UNCHANGED <<passVars, snaps>>
      BY <1>0, <1>2, SurroundingsRows
    <2>2. CASE Midnight
      <3>1. \A w \in Workers : pc[w] \notin Inside
        BY <2>2 DEF Midnight, NoMidnightInside, Inside
      <3>2. QED
        BY <2>1, <3>1 DEF WindowInv
    <2>3. CASE ~Midnight
      <3>1. UNCHANGED today
        BY <1>2, <2>3 DEF Surroundings, Writer, SaveRow, OpenTransaction,
           MarkDirty, DropPayload, Bump, CommitTransaction, RollBack,
           RequestManualRefresh, Import, ImportCreate, ImportOpen, ImportSave,
           ImportMark, ImportDrop, ImportEnd, ImportClose, ImportPublish,
           ReaderBuild, ReaderStore, OpenPage, Reconcile, LeaseLapses, Settle,
           LoseMessage, Evict
      <3>2. QED
        BY <1>1, <2>1, <3>1
    <2>4. QED
      BY <2>2, <2>3
  <1>3. ASSUME NEW w \in Workers, Begins(w)
        PROVE  WindowInv'
    <2>1. UNCHANGED <<today, snaps>>
      BY <1>0, <1>3, BeginMoves
    <2>2. \A u \in Workers : \/ pc'[u] = pc[u] /\ pass'[u] = pass[u]
                             \/ pc'[u] = "start"
      BY <1>0, <1>3, BeginMoves DEF Others
    <2>3. QED
      BY <2>1, <2>2 DEF WindowInv, Inside
  <1>4. ASSUME NEW w \in Workers, Step(w) \/ Ends(w)
        PROVE  WindowInv'
    <2>1. UNCHANGED today /\ Others(w)
      BY <1>0, <1>4, WorkersLeaveRows, WorkerTokens
    <2>2. \A u \in Workers : pc'[u] \in Inside => pass'[u].window = today
      BY <1>4, <2>1, IntoWindow DEF WindowInv, Others
    <2>3. CASE PublishSnapshot(w)
      <3> DEFINE D == {Undated} \cup Window[pass[w].cur][pass[w].window]
                 f == [s \in D |-> pass[w].read[s]]
      <3>1. \A r \in Ranges :
               \/ snaps'[r] = snaps[r]
               \/ /\ r = pass[w].cur
                  /\ snaps'[r] = [gen |-> pass[w].gen, builtDay |-> today,
                                  window |-> pass[w].window, shows |-> f]
        BY <2>3, PublishReplaces
      <3>2. pass[w].window = today /\ DOMAIN f = D
        BY <2>3 DEF WindowInv, PublishSnapshot, Inside
      <3> HIDE DEF f
      <3>3. ASSUME NEW r \in Ranges, snaps'[r] # NoSnap
            PROVE  /\ snaps'[r].window = snaps'[r].builtDay
                   /\ DOMAIN snaps'[r].shows
                         = {Undated} \cup Window[r][snaps'[r].window]
        <4>1. CASE snaps'[r] = snaps[r]
          BY <3>3, <4>1 DEF WindowInv
        <4>2. CASE snaps'[r] # snaps[r]
          <5>1. /\ r = pass[w].cur /\ snaps'[r].builtDay = today
                /\ snaps'[r].window = today /\ snaps'[r].shows = f
            BY <3>1, <3>2, <4>2
          <5>2. QED
            BY <3>2, <5>1
        <4>3. QED
          BY <4>1, <4>2
      <3>4. QED
        BY <2>1, <2>2, <3>3 DEF WindowInv
    <2>4. CASE ~PublishSnapshot(w)
      BY <1>4, <2>1, <2>2, <2>4, WorkerSnaps DEF WindowInv
    <2>5. QED
      BY <2>3, <2>4
  <1>5. CASE UNCHANGED vars
    BY <1>1, <1>5 DEF vars
  <1>6. QED
    BY <1>2, <1>3, <1>4, <1>5, NextCases

-----------------------------------------------------------------------------
(* What a pass at the current generation has in hand *)

\* A change whose generation is still to come.
Unbumped(s) ==
    \/ \E x \in Writers : /\ writer[x].at \in {"saved", "dirtied", "dropped"}
                          /\ writer[x].src = s
    \/ import.at \in {"saved", "marked"} /\ import.src = s

OnTheList == {"days", "built", "epoch", "plan", "ranges", "fill", "filled",
              "collect", "late", "lateBuilt", "publish", "published"}

Clean(p, q) ==
    /\ p \in OnTheList =>
          \A d \in Days : Behind(d) => d \in q.work \/ Unbumped(d)
    /\ p \in Building => q.version = data[q.built] \/ Unbumped(q.built)
    /\ p \in Collected =>
          \A s \in Sources : q.read[s] \in {Missing, data[s]} \/ Unbumped(s)

CleanShown ==
    \A r \in Ranges : snaps[r].gen = generation =>
        \A s \in DOMAIN snaps[r].shows :
            snaps[r].shows[s] = data[s] \/ Unbumped(s)

FreshInv ==
    /\ \A w \in Workers :
          Owns(w) /\ pass[w].gen = generation => Clean(pc[w], pass[w])
    /\ CleanShown

LEMMA InitFresh == Init => FreshInv
  <1> SUFFICES ASSUME Init PROVE FreshInv
    OBVIOUS
  <1>1. /\ \A r \in Ranges : snaps[r].gen = -1
        /\ generation = 1 /\ \A w \in Workers : pass[w].gen = 0
    BY IdleFields DEF Init, NoSnap
  <1>2. QED
    BY <1>1 DEF FreshInv, CleanShown

\* While an import writes, nothing at the current generation is in hand or shown.
LEMMA WritingShows ==
    ASSUME TypeOK, WriteInv, Writing
    PROVE  /\ \A r \in Ranges : snaps[r].gen # generation
           /\ \A w \in Workers : Owns(w) /\ pass[w].gen = generation =>
                 /\ pc[w] \notin InHand
                 /\ Unmarked /\ Past(pc[w]) => ~SeenBefore(pass[w])
  BY PassGens, CountTypes DEF WriteInv

\* A step that marks what it changes, or changes nothing, keeps passes clean.
LEMMA FreshFrame ==
    ASSUME TypeInv, BuiltInv, FreshInv, UNCHANGED <<passVars, snaps, generation>>,
           lease'.owner = lease.owner,
           \A d \in Days : payload'[d] \in {payload[d], Missing},
           \A s \in Sources : Unbumped(s) => Unbumped(s)',
           \A s \in Sources : data'[s] = data[s] \/ Unbumped(s)'
    PROVE  FreshInv'
  <1>0. /\ \A d \in Days : d \in Sources
        /\ \A r \in Ranges : \A s \in DOMAIN snaps[r].shows : s \in Sources
    BY ShowTypes DEF Sources, TypeInv, TypeOK
  <1>1. ASSUME NEW w \in Workers, Owns(w), pass[w].gen = generation
        PROVE  Clean(pc[w], pass[w])'
    <2>1. Clean(pc[w], pass[w])
      BY <1>1 DEF FreshInv
    <2>2. \A d \in Days : Behind(d)' => Behind(d) \/ Unbumped(d)'
      BY <1>0 DEF Behind
    <2>3. pc[w] \in Building => pass[w].built \in Sources
      BY <1>0 DEF BuiltInv
    <2>4. QED
      BY <1>0, <2>1, <2>2, <2>3 DEF Clean
  <1>2. CleanShown'
    BY <1>0 DEF FreshInv, CleanShown
  <1>3. QED
    BY <1>1, <1>2 DEF FreshInv, Owns

LEMMA UnbumpedStays ==
    ASSUME TypeOK, Surroundings, ~Bumped
    PROVE  /\ \A s \in Sources :
                 Unbumped(s) => Unbumped(s)' \/ (ImportDrop /\ s = import.src)
           /\ \A s \in Sources :
                 \/ data'[s] = data[s]
                 \/ Unbumped(s)'
                 \/ ImportSave(s) /\ (import.kind # "scoped" \/ s = Undated)
  <1>0. RowsOK /\ WriterOK /\ ImportOK
    BY DEF TypeOK
  <1>1. CASE \E x \in Writers : Writer(x)
    <2>1. PICK x \in Writers : Writer(x)
      BY <1>1
    <2>2. UNCHANGED import
      BY <2>1 DEF Writer, SaveRow, OpenTransaction, MarkDirty, DropPayload,
         Bump, CommitTransaction, RollBack
    <2>3. ~Bump(x) /\ ~CommitTransaction(x)
      BY RequestSteps DEF Bump, CommitTransaction
    <2>4. ASSUME NEW s \in Sources, SaveRow(x, s)
          PROVE  /\ writer[x].at = "idle" /\ Unbumped(s)'
                 /\ \A z \in Sources : z # s => data'[z] = data[z]
                 /\ \A y \in Writers : y # x => writer'[y] = writer[y]
      <3>1. writer'[x].at \in {"saved", "dropped"} /\ writer'[x].src = s
        BY <1>0, <2>4 DEF SaveRow, WriterOK
      <3>2. \A z \in Sources : z # s => data'[z] = data[z]
        BY <1>0, <2>4, CommitMoves DEF SaveRow
      <3>3. QED
        BY <1>0, <2>4, <3>1, <3>2 DEF Unbumped, SaveRow, WriterOK
    <2>5. CASE \E s \in Sources : SaveRow(x, s)
      BY <2>2, <2>4, <2>5 DEF Unbumped
    <2>6. CASE \/ MarkDirty(x) \/ DropPayload(x) \/ RollBack(x)
               \/ \E s \in Sources : OpenTransaction(x, s)
      <3>1. UNCHANGED data
        BY <2>6 DEF MarkDirty, DropPayload, RollBack, OpenTransaction
      <3>2. \A y \in Writers : y # x => writer'[y] = writer[y]
        BY <1>0, <2>6 DEF MarkDirty, DropPayload, RollBack, OpenTransaction,
           WriterOK
      <3>3. writer[x].at \in {"saved", "dirtied", "dropped"} =>
               /\ writer'[x].at \in {"saved", "dirtied", "dropped"}
               /\ writer'[x].src = writer[x].src
        BY <1>0, <2>6 DEF MarkDirty, DropPayload, RollBack, OpenTransaction,
           WriterOK
      <3>4. QED
        BY <2>2, <3>1, <3>2, <3>3 DEF Unbumped
    <2>7. QED
      BY <2>1, <2>3, <2>5, <2>6 DEF Writer
  <1>2. CASE Import
    <2>1. UNCHANGED writer
      BY <1>2 DEF Import, ImportCreate, ImportOpen, ImportSave, ImportMark,
         ImportDrop, ImportEnd, ImportClose, ImportPublish
    <2>2. ASSUME NEW s \in Sources, ImportSave(s)
          PROVE  /\ import.at = "open" /\ \A z \in Sources : z # s => data'[z] = data[z]
                 /\ import.kind = "scoped" /\ s # Undated => Unbumped(s)'
      BY <1>0, <2>2, CommitMoves, ImportMoves DEF ImportSave, Unbumped
    <2>3. CASE \E s \in Sources : ImportSave(s)
      BY <2>1, <2>2, <2>3 DEF Unbumped
    <2>4. CASE ImportMark
      <3>1. UNCHANGED data
        BY <2>4 DEF ImportMark
      <3>2. import'.at = "marked" /\ import'.src = import.src
        BY <1>0, <2>4, ImportMoves
      <3>3. QED
        BY <2>1, <3>1, <3>2 DEF Unbumped
    <2>5. CASE ImportDrop
      <3>1. UNCHANGED data
        BY <2>5 DEF ImportDrop
      <3>2. QED
        BY <2>1, <2>5, <3>1 DEF Unbumped
    <2>6. CASE \/ \E k \in ImportKinds : ImportCreate(k)
               \/ ImportOpen \/ ImportEnd \/ ImportClose \/ ImportPublish
      <3>1. UNCHANGED data /\ import.at \notin {"saved", "marked"}
        BY <2>6 DEF ImportCreate, ImportOpen, ImportEnd, ImportClose,
           ImportPublish
      <3>2. QED
        BY <2>1, <3>1 DEF Unbumped
    <2>7. QED
      BY <1>2, <2>3, <2>4, <2>5, <2>6 DEF Import
  <1>3. CASE ~Import /\ ~(\E x \in Writers : Writer(x))
    <2>1. UNCHANGED <<writer, import, data>>
      BY <1>3 DEF Surroundings, RequestManualRefresh, ReaderBuild,
         ReaderStore, OpenPage, Reconcile, LeaseLapses, Midnight, Settle,
         LoseMessage, Evict
    <2>2. QED
      BY <2>1 DEF Unbumped
  <1>4. QED
    BY <1>1, <1>2, <1>3

LEMMA SurroundingsFresh ==
    ASSUME NoReaders, NoUnchanged, TypeInv, TypeInv', BuiltInv, CountInv,
           GensInv, UnmarkedInv, WriteInv, FreshInv, Surroundings
    PROVE  FreshInv'
  <1>0. /\ TypeOK /\ TypeOK' /\ ImportOK /\ RowsOK
        /\ UNCHANGED <<snaps, passVars>> /\ lease'.owner = lease.owner
        /\ \A d \in Days : payload'[d] \in {payload[d], Missing}
        /\ \A d \in Days : d \in Sources /\ d # Undated
        /\ Building \subseteq InHand /\ Collected \subseteq InHand
    BY SurroundingsRows, ConstantsOK
       DEF TypeInv, TypeOK, Sources, Days, Undated, Building, Collected, InHand
  <1>1. CASE Bumped
    <2>1. /\ \A r \in Ranges : snaps[r].gen # generation'
          /\ \A w \in Workers : pass[w].gen # generation'
      <3>1. /\ generation \in Nat /\ generation' \in Nat /\ generation < generation'
            /\ \A r \in Ranges : snaps[r].gen \in Int /\ snaps[r].gen <= generation
            /\ \A w \in Workers : pass[w].gen \in Nat /\ pass[w].gen <= generation
        BY <1>0, <1>1, PassGens DEF GensInv, Bumped, TypeOK, MarksOK
      <3>2. QED
        BY <3>1
    <2>2. QED
      BY <1>0, <2>1 DEF FreshInv, CleanShown
  <1>2. CASE ~Bumped
    <2>0. UNCHANGED generation
      BY <1>2, RequestFalls
    <2>1. CASE ImportDrop
      <3>1. /\ Writing /\ UNCHANGED <<data, writer>>
            /\ payload' = Dropped({import.src})
        BY <2>1 DEF ImportDrop, Writing
      <3>2. ASSUME NEW w \in Workers, Owns(w), pass[w].gen = generation
            PROVE  Clean(pc[w], pass[w])'
        <4>1. pc[w] \notin Building /\ pc[w] \notin Collected
          BY <1>0, <3>1, <3>2, WritingShows
        <4>2. ASSUME pc[w] \in OnTheList, NEW d \in Days, Behind(d)'
              PROVE  d \in pass[w].work \/ Unbumped(d)'
          <5>1. d # import.src /\ Behind(d)
            BY <3>1, <4>2 DEF Dropped, Behind
          <5>2. d \in pass[w].work \/ Unbumped(d)
            BY <3>2, <4>2, <5>1 DEF FreshInv, Clean
          <5>3. QED
            BY <1>0, <1>2, <5>1, <5>2, UnbumpedStays
        <4>3. QED
          BY <1>0, <4>1, <4>2 DEF Clean
      <3>3. QED
        BY <1>0, <2>0, <3>1, <3>2, WritingShows DEF FreshInv, CleanShown, Owns
    <2>2. ASSUME NEW s \in Sources, ImportSave(s),
                 import.kind # "scoped" \/ s = Undated
          PROVE  FreshInv'
      <3>1. /\ Writing /\ UNCHANGED <<payload, writer, epoch>>
            /\ \A z \in Sources : z # s => data'[z] = data[z]
        BY <1>0, <2>2, CommitMoves DEF ImportSave, Writing
      <3>2. import' = import
        BY <2>2 DEF ImportSave
      <3>3. ASSUME NEW w \in Workers, Owns(w), pass[w].gen = generation
            PROVE  Clean(pc[w], pass[w])'
        <4>1. pc[w] \notin Building /\ pc[w] \notin Collected
          BY <1>0, <3>1, <3>3, WritingShows
        <4>2. ASSUME pc[w] \in OnTheList, NEW d \in Days, Behind(d)'
              PROVE  d \in pass[w].work \/ Unbumped(d)'
          <5>1. CASE import.kind = "scoped"
            <6>1. Behind(d)
              BY <1>0, <2>2, <3>1, <4>2, <5>1 DEF Behind
            <6>2. QED
              BY <3>1, <3>2, <3>3, <4>2, <6>1 DEF FreshInv, Clean, Unbumped
          <5>2. CASE import.kind # "scoped"
            <6>1. Unmarked
              BY <2>2, <5>2 DEF ImportSave, Unmarked, Writing, SelfMarking
            <6>2. Past(pc[w]) /\ pc[w] # "prepare"
              BY <4>2 DEF OnTheList, Past
            <6>3. ~SeenBefore(pass[w])
              BY <1>0, <3>1, <3>3, <6>1, <6>2, WritingShows
            <6>4. NonePayload
              BY <3>3, <6>1, <6>2, <6>3 DEF UnmarkedInv, SeenSince
            <6>5. QED
              BY <3>1, <4>2, <6>4 DEF NonePayload, Behind
          <5>3. QED
            BY <5>1, <5>2
        <4>3. QED
          BY <1>0, <4>1, <4>2 DEF Clean
      <3>4. QED
        BY <1>0, <2>0, <3>1, <3>3, WritingShows DEF FreshInv, CleanShown, Owns
    <2>3. CASE /\ ~ImportDrop
               /\ \A s \in Sources :
                     ImportSave(s) => ~(import.kind # "scoped" \/ s = Undated)
      <3>1. /\ \A s \in Sources : Unbumped(s) => Unbumped(s)'
            /\ \A s \in Sources : data'[s] = data[s] \/ Unbumped(s)'
        BY <1>0, <1>2, <2>3, UnbumpedStays
      <3>2. QED
        BY <1>0, <2>0, <3>1, FreshFrame
    <2>4. QED
      BY <2>1, <2>2, <2>3
  <1>3. QED
    BY <1>1, <1>2

LEMMA IntoList ==
    ASSUME TypeInv, NEW w \in Workers, Step(w) \/ Ends(w), pc'[w] \in OnTheList
    PROVE  \/ ReadTokens(w)
           \/ StoreDay(w) /\ pass'[w].work = pass[w].work \ {pass[w].built}
           \/ pc[w] \in OnTheList /\ pass'[w].work = pass[w].work /\ ~PrepareSweep(w)
  <1> USE DEF OnTheList, SameDays
  <1>0. PassOK
    BY DEF TypeInv, TypeOK
  <1>1. /\ ~Claim(w) /\ ~Ends(w) /\ ~ReadState(w) /\ ~PrepareSweep(w)
        /\ ~ClearSweep(w) /\ ~RecordMarkers(w)
    BY <1>0, ClaimMoves, EndMoves, ReadStateMoves, SamePassMoves
  <1>2. CASE BuildDay(w) \/ BuildMissingDay(w) \/ BuildLateDay(w)
    BY <1>0, <1>1, <1>2, BuildMoves DEF BuildDay, BuildMissingDay, BuildLateDay
  <1>3. CASE MarkEpoch(w) \/ CheckAfterPublish(w)
    BY <1>0, <1>1, <1>3, SamePassMoves DEF MarkEpoch, CheckAfterPublish
  <1>4. CASE PlanRanges(w) \/ BeginRange(w) \/ StoreMissingDay(w)
    BY <1>0, <1>1, <1>4, PlanRangesMoves, BeginRangeMoves, StoreMissingDayMoves
       DEF PlanRanges, BeginRange, StoreMissingDay
  <1>5. CASE CollectPayloads(w) \/ StoreLateDay(w) \/ ReadUndated(w)
             \/ PublishSnapshot(w)
    BY <1>0, <1>1, <1>5, CollectMoves, StoreLateDayMoves, ReadUndatedMoves,
       PublishMoves
       DEF CollectPayloads, StoreLateDay, ReadUndated, PublishSnapshot
  <1>6. CASE StoreDay(w)
    BY <1>0, <1>6, StoreDayMoves
  <1>7. QED
    BY <1>1, <1>2, <1>3, <1>4, <1>5, <1>6, StepCases

\* What a pass lists it read after the generation: the dirty rows account for
\* all that the generation covers.
LEMMA ReadTokensFresh ==
    ASSUME TypeInv, CountInv, UnmarkedInv, RecordInv, AskedInv, WriteInv,
           NEW w \in Workers, Owns(w), ReadTokens(w), pass[w].gen = generation,
           NEW d \in Days, Behind(d)
    PROVE  d \in pass'[w].work \/ Unbumped(d)
  <1>0. /\ TypeOK /\ PassOK /\ pc[w] = "tokens" /\ Request \in Nat
        /\ dirty[d] \in Nat
    BY CountTypes, RequestBounds DEF TypeInv, TypeOK, ReadTokens
  <1>1. PICK n \in Nat : n = Lo(pass[w]) /\ pass[w].sweep <= n
    BY <1>0, LoTypes
  <1>2. Rec(d, 0, n)
    BY <1>0, <1>1 DEF RecordInv, KeepsRecord, Rebuilds
  <1>3. CASE dirty[d] > 0
    BY <1>0, <1>3, ReadTokensMoves DEF DirtyDays
  <1>4. CASE Coming(d)
    BY <1>4 DEF Coming, Unbumped
  <1>5. CASE Unmarked
    <2>1. ~SeenBefore(pass[w])
      BY <1>0, <1>5, WritingShows DEF Unmarked, Past
    <2>2. NonePayload
      BY <1>0, <1>5, <2>1 DEF UnmarkedInv, SeenSince, Past
    <2>3. QED
      BY <2>2 DEF NonePayload, Behind
  <1>6. ~(Request > n)
    <2>1. Request <= pass[w].sweep /\ pass[w].sweep \in Nat
      BY <1>0, CountTypes DEF AskedInv, Past
    <2>2. QED
      BY <1>0, <1>1, <2>1
  <1>7. QED
    BY <1>2, <1>3, <1>4, <1>5, <1>6 DEF Rec

LEMMA OwnerFresh ==
    ASSUME TypeInv, LeaseInv, BuiltInv, CountInv, UnmarkedInv, RecordInv,
           AskedInv, WorkInv, WriteInv, FreshInv, NEW w \in Workers,
           Step(w) \/ Ends(w), Owns(w), ~Claim(w), pass'[w].gen = generation
    PROVE  Clean(pc[w], pass[w])'
  <1> DEFINE p == pass[w]
  <1>0. /\ TypeOK /\ PassOK /\ DaysOK
        /\ UNCHANGED <<data, writer, import>>
        /\ \A d \in Days : d \in Sources
    BY WorkersLeaveRows DEF TypeInv, TypeOK, Sources
  <1>u. \A s : Unbumped(s)' = Unbumped(s)
    BY <1>0 DEF Unbumped
  <1>1. CASE Ends(w) \/ ReadState(w)
    <2>1. pc'[w] \notin OnTheList /\ pc'[w] \notin Building
          /\ pc'[w] \notin Collected
      BY <1>0, <1>1, EndMoves, ReadStateMoves DEF OnTheList, Building, Collected
    <2>2. QED
      BY <2>1 DEF Clean
  <1>2. CASE ~Ends(w) /\ ~ReadState(w)
    <2>1. p.gen = generation
      BY <1>0, <1>2, SameStateMoves DEF SameState
    <2>2. Clean(pc[w], p)
      BY <2>1 DEF FreshInv
    <2>3. ASSUME pc[w] \in Building
          PROVE  p.built \in Days
                 /\ (p.version = data[p.built] \/ Unbumped(p.built))
      BY <2>2, <2>3 DEF BuiltInv, Clean
    <2>4. ASSUME pc'[w] \in OnTheList, NEW d \in Days, Behind(d)'
          PROVE  d \in pass'[w].work \/ Unbumped(d)
      <3>1. CASE ReadTokens(w)
        <4>1. Behind(d)
          BY <1>0, <2>4, <3>1 DEF ReadTokens, Behind
        <4>2. QED
          BY <2>1, <3>1, <4>1, ReadTokensFresh
      <3>2. CASE Stores(w)
        <4>1. /\ pc[w] \in Building /\ pc[w] \in OnTheList
              /\ payload' = [payload EXCEPT ![p.built] = p.version]
          BY <3>2 DEF Stores, Building, OnTheList
        <4>2. CASE d = p.built
          BY <1>0, <2>3, <2>4, <4>1, <4>2 DEF Behind, DaysOK
        <4>3. CASE d # p.built
          <5>1. Behind(d)
            BY <1>0, <2>4, <4>1, <4>3 DEF Behind, DaysOK
          <5>2. d \in p.work \/ Unbumped(d)
            BY <2>2, <4>1, <5>1 DEF Clean
          <5>3. ~ReadTokens(w)
            BY <4>1 DEF ReadTokens, Building
          <5>4. pass'[w].work = p.work \/ pass'[w].work = p.work \ {p.built}
            BY <2>4, <5>3, IntoList
          <5>5. QED
            BY <4>3, <5>2, <5>4
        <4>4. QED
          BY <4>2, <4>3
      <3>3. CASE ~ReadTokens(w) /\ ~Stores(w)
        <4>1. ~StoreDay(w)
          BY <3>3 DEF StoreDay, Stores, Building
        <4>2. /\ pc[w] \in OnTheList /\ pass'[w].work = p.work /\ ~PrepareSweep(w)
          BY <2>4, <3>3, <4>1, IntoList
        <4>3. UNCHANGED payload
          BY <3>3, <4>2, WorkerPayloads
        <4>4. QED
          BY <1>0, <2>2, <2>4, <4>2, <4>3 DEF Clean, Behind
      <3>4. QED
        BY <3>1, <3>2, <3>3
    <2>5. ASSUME pc'[w] \in Building
          PROVE  pass'[w].version = data'[pass'[w].built]
      BY <1>0, <2>5, IntoBuilding, BuildMoves
    <2>6. ASSUME pc'[w] \in Collected, NEW s \in Sources
          PROVE  pass'[w].read[s] \in {Missing, data[s]} \/ Unbumped(s)
      <3>1. CASE CollectPayloads(w)
        <4> DEFINE D == Window[p.cur][p.window]
        <4>1. pc[w] = "collect" /\ p.work = {} /\ D \subseteq Days
          BY <3>1, ConstantsOK DEF CollectPayloads, WorkInv, AfterDays, TypeInv,
             PassInv, Knows, RangeChosen
        <4>2. pass'[w].read[s] = IF s \in D THEN payload[s] ELSE Missing
          BY <1>0, <3>1, CollectMoves
        <4>3. s \in D => ~Behind(s) \/ Unbumped(s)
          BY <2>2, <4>1 DEF Clean, OnTheList
        <4>4. QED
          BY <4>2, <4>3 DEF Behind
      <3>2. CASE BuildLateDay(w)
        BY <1>0, <2>2, <3>2, BuildMoves DEF BuildLateDay, Clean, Collected
      <3>3. CASE StoreLateDay(w)
        <4>1. pc[w] \in Building /\ pc[w] \in Collected
          BY <3>3 DEF StoreLateDay, Building, Collected
        <4>2. pass'[w].read = [p.read EXCEPT ![p.built] = p.version]
          BY <1>0, <3>3, StoreLateDayMoves
        <4>3. p.read \in [Sources -> Versions \cup {Missing}]
          BY <1>0 DEF PassOK, Pass
        <4>4. p.read[s] \in {Missing, data[s]} \/ Unbumped(s)
          BY <2>2, <4>1 DEF Clean
        <4>5. QED
          BY <1>0, <2>3, <4>1, <4>2, <4>3, <4>4
      <3>4. CASE ReadUndated(w)
        <4>1. pc[w] \in Collected
          BY <3>4 DEF ReadUndated, Collected
        <4>2. pass'[w].read = [p.read EXCEPT ![Undated] = data[Undated]]
          BY <1>0, <3>4, ReadUndatedMoves
        <4>3. p.read \in [Sources -> Versions \cup {Missing}]
          BY <1>0 DEF PassOK, Pass
        <4>4. p.read[s] \in {Missing, data[s]} \/ Unbumped(s)
          BY <2>2, <4>1 DEF Clean
        <4>5. QED
          BY <4>2, <4>3, <4>4
      <3>5. QED
        BY <1>0, <2>6, <3>1, <3>2, <3>3, <3>4, IntoCollected
    <2>7. QED
      BY <1>0, <1>u, <2>4, <2>5, <2>6 DEF Clean
  <1>3. QED
    BY <1>1, <1>2

\* A publication at the current generation shows what its pass had in hand.
LEMMA PublishFresh ==
    ASSUME TypeInv, FreshInv, NEW w \in Workers, PublishSnapshot(w)
    PROVE  CleanShown'
  <1> DEFINE p == pass[w]
             D == {Undated} \cup Window[p.cur][p.window]
             f == [s \in D |-> p.read[s]]
  <1>1. UNCHANGED <<data, writer, import, generation>>
    BY DEF PublishSnapshot
  <1>2. \A s : Unbumped(s)' = Unbumped(s)
    BY <1>1 DEF Unbumped
  <1>3. /\ D \subseteq Sources /\ \A s \in D : p.read[s] # Missing
        /\ \A r \in Ranges :
              \/ snaps'[r] = snaps[r]
              \/ snaps'[r] = [gen |-> p.gen, builtDay |-> today,
                              window |-> p.window, shows |-> f]
    BY PublishReplaces
  <1>4. p.gen = generation =>
           \A s \in D : p.read[s] = data[s] \/ Unbumped(s)
    <2>1. Owns(w) /\ pc[w] \in Collected
      BY DEF PublishSnapshot, Collected
    <2>2. QED
      BY <1>3, <2>1 DEF FreshInv, Clean
  <1>5. DOMAIN f = D /\ \A s \in D : f[s] = p.read[s]
    OBVIOUS
  <1> HIDE DEF f
  <1>6. ASSUME NEW r \in Ranges, snaps'[r].gen = generation,
               NEW s \in DOMAIN snaps'[r].shows
        PROVE  snaps'[r].shows[s] = data[s] \/ Unbumped(s)
    <2>1. CASE snaps'[r] = snaps[r]
      BY <1>6, <2>1 DEF FreshInv, CleanShown
    <2>2. CASE snaps'[r] # snaps[r]
      <3>1. snaps'[r].shows = f /\ snaps'[r].gen = p.gen
        BY <1>3, <2>2
      <3>2. QED
        BY <1>4, <1>5, <1>6, <3>1
    <2>3. QED
      BY <2>1, <2>2
  <1>7. QED
    BY <1>1, <1>2, <1>6 DEF CleanShown

LEMMA NextFresh ==
    ASSUME NoReaders, NoUnchanged
    PROVE  TypeInv /\ TypeInv' /\ LeaseInv /\ BuiltInv /\ CountInv /\ GensInv
           /\ UnmarkedInv /\ RecordInv /\ AskedInv /\ WorkInv /\ WriteInv
           /\ FreshInv /\ [Next]_vars => FreshInv'
  <1> SUFFICES ASSUME TypeInv, TypeInv', LeaseInv, BuiltInv, CountInv, GensInv,
                      UnmarkedInv, RecordInv, AskedInv, WorkInv, WriteInv,
                      FreshInv, [Next]_vars
               PROVE  FreshInv'
    OBVIOUS
  <1>0. TypeOK /\ PassOK /\ BoundsOK /\ LeaseOK /\ generation \in Nat
    BY DEF TypeInv, TypeOK, MarksOK
  <1>1. CASE Surroundings
    BY <1>1, SurroundingsFresh
  <1>2. ASSUME NEW w \in Workers, Begins(w)
        PROVE  FreshInv'
    <2>1. UNCHANGED <<generation, data, payload, writer, import, lease, snaps>>
      BY <1>0, <1>2, BeginMoves
    <2>2. \A u \in Workers : \/ pc'[u] = pc[u] /\ pass'[u] = pass[u]
                             \/ pc'[u] = "start"
      BY <1>0, <1>2, BeginMoves DEF Others
    <2>3. QED
      BY <2>1, <2>2 DEF FreshInv, CleanShown, Clean, Unbumped, Behind, Owns,
         OnTheList, Building, Collected
  <1>3. ASSUME NEW w \in Workers, Step(w) \/ Ends(w)
        PROVE  FreshInv'
    <2>1. /\ UNCHANGED <<generation, import, data, writer>> /\ Others(w)
          /\ lease'.owner = IF Claim(w) THEN w ELSE lease.owner
      BY <1>0, <1>3, WorkerRequest, WorkerTokens, OwnerMoves, WorkersLeaveRows
    <2>2. CleanShown'
      <3>1. CASE PublishSnapshot(w)
        BY <3>1, PublishFresh
      <3>2. CASE ~PublishSnapshot(w)
        <4>1. UNCHANGED snaps
          BY <1>3, <3>2, WorkerSnaps
        <4>2. QED
          BY <2>1, <4>1 DEF FreshInv, CleanShown, Unbumped
      <3>3. QED
        BY <3>1, <3>2
    <2>3. ASSUME NEW u \in Workers, lease'.owner = u, pass'[u].gen = generation
          PROVE  Clean(pc[u], pass[u])'
      <3>1. CASE u = w /\ Claim(w)
        <4>1. pc'[w] = "claimed"
          BY <1>0, <3>1, ClaimMoves
        <4>2. QED
          BY <3>1, <4>1 DEF Clean, OnTheList, Building, Collected
      <3>2. CASE u = w /\ ~Claim(w)
        BY <1>3, <2>1, <2>3, <3>2, OwnerFresh DEF Owns
      <3>3. CASE u # w
        <4>1. Owns(u) /\ ~Owns(w) /\ ~Claim(w)
          BY <2>1, <2>3, <3>3 DEF Owns
        <4>2. UNCHANGED payload
          BY <1>3, <4>1, LoserLeaves
        <4>3. pc'[u] = pc[u] /\ pass'[u] = pass[u]
          BY <2>1, <3>3 DEF Others
        <4>4. QED
          BY <2>1, <2>3, <4>1, <4>2, <4>3 DEF FreshInv, Clean, Unbumped, Behind
      <3>4. QED
        BY <3>1, <3>2, <3>3
    <2>4. QED
      BY <2>1, <2>2, <2>3 DEF FreshInv, Owns
  <1>4. CASE UNCHANGED vars
    BY <1>4 DEF vars, FreshInv, CleanShown, Clean, Unbumped, Behind, Owns
  <1>5. QED
    BY <1>1, <1>2, <1>3, <1>4, NextCases

\* All of it, as one invariant.
CurrentInv ==
    /\ TypeInv /\ ReadInv /\ LeaseInv /\ BuiltInv /\ CountInv
    /\ UnmarkedInv /\ RecordInv
    /\ GensInv /\ WorkInv /\ AskedInv /\ WriteInv /\ WindowInv /\ FreshInv

LEMMA CurrentInvHolds ==
    ASSUME Timely, NoReaders, NoInline, NoUnchanged, NoMidnightInside
    PROVE  Spec => []CurrentInv
  <1>1. Init => CurrentInv
    BY InitTypeInv, InitLease, InitShow, InitCount, InitRecord, InitGens,
       InitRuns, InitWindow, InitFresh DEF CurrentInv
  <1>2. CurrentInv /\ [Next]_vars => CurrentInv'
    <2> SUFFICES ASSUME CurrentInv, [Next]_vars PROVE CurrentInv'
      OBVIOUS
    <2>1. TypeInv'
      BY NextTypeInv DEF CurrentInv
    <2>2. ReadInv' /\ LeaseInv' /\ BuiltInv' /\ CountInv'
      BY <2>1, NextReadInv, NextLeaseInv, NextBuiltInv, NextCount DEF CurrentInv
    <2>3. UnmarkedInv' /\ RecordInv'
      BY <2>1, NextUnmarked, NextRecord DEF CurrentInv
    <2>4. GensInv' /\ WorkInv' /\ AskedInv' /\ WriteInv'
      BY <2>1, NextGensInv, NextWork, NextAsked, NextWrite DEF CurrentInv
    <2>5. WindowInv' /\ FreshInv'
      BY <2>1, NextWindow, NextFresh DEF CurrentInv
    <2>6. QED
      BY <2>1, <2>2, <2>3, <2>4, <2>5 DEF CurrentInv
  <1>3. QED
    BY <1>1, <1>2, PTL DEF Spec

LEMMA CurrentIsFresh ==
    ASSUME CurrentInv
    PROVE  FreshIsCurrent
  <1> SUFFICES ASSUME ~InFlight, NEW r \in Ranges, ~Stale(r)
               PROVE  Current(r)
    BY DEF FreshIsCurrent
  <1>0. /\ snaps[r].gen \in Int /\ generation \in Nat /\ snaps[r].gen <= generation
        /\ snaps[r] # NoSnap /\ snaps[r].builtDay = today
        /\ ~(snaps[r].gen < generation)
    BY PassGens DEF CurrentInv, TypeInv, TypeOK, MarksOK, GensInv, Stale
  <1>1. snaps[r].gen = generation
    BY <1>0
  <1>2. /\ snaps[r].window = today
        /\ DOMAIN snaps[r].shows = {Undated} \cup Window[r][today]
    BY <1>0 DEF CurrentInv, WindowInv
  <1>3. \A s : ~Unbumped(s)
    BY DEF InFlight, Unbumped
  <1>4. QED
    BY <1>0, <1>1, <1>2, <1>3 DEF CurrentInv, FreshInv, CleanShown, Current

\* What a reader takes for fresh is fresh: with no change still being marked, a
\* snapshot at the user's generation and day shows every committed change of
\* today's window (entry_is_stale believes generation and built_day), whatever
\* passes were lost, overtaken, cut short or repeated, and whatever imports,
\* transactions and refreshes came between.
THEOREM FreshIsCurrentHolds ==
    ASSUME Timely, NoReaders, NoInline, NoUnchanged, NoMidnightInside
    PROVE  Spec => []FreshIsCurrent
  <1>1. Spec => []CurrentInv
    BY CurrentInvHolds
  <1>2. QED
    BY <1>1, CurrentIsFresh, PTL

\* When the reconciler (users_needing_sync) finds nothing to do and nothing is
\* under way, every range is current: no unfinished work is invisible to it.
THEOREM IdleIsCurrent ==
    ASSUME Timely, NoReaders, NoInline, NoUnchanged, NoMidnightInside
    PROVE  Spec => []IdleMeansCurrent
  <1> DEFINE Began == generation >= 1
  <1>1. Spec => []CurrentInv
    BY CurrentInvHolds
  <1>2. Spec => []TypeInv
    BY InitTypeInv, NextTypeInv, PTL DEF Spec
  <1>3. Spec /\ []TypeInv => []HonestInv
    BY InitHonestInv, NextHonestInv, PTL DEF Spec
  <1>4. HonestInv => PlanInv
    BY DEF HonestInv
  <1>5. CurrentInv => GensInv
    BY DEF CurrentInv
  <1>6. Spec /\ []TypeInv /\ []HonestInv /\ []CurrentInv => []DayInv
    BY <1>4, <1>5, InitDayInv, NextDayInv, PTL DEF Spec
  <1>7. Spec /\ []TypeInv => []Began
    <2>1. Init => Began
      BY DEF Init
    <2>2. TypeInv /\ Began /\ [Next]_vars => Began'
      <3> SUFFICES ASSUME TypeInv, Began, [Next]_vars PROVE Began'
        OBVIOUS
      <3>1. generation \in Nat /\ generation' \in Nat /\ generation <= generation'
        BY GenerationRises
      <3>2. QED
        BY <3>1
    <2>3. QED
      BY <2>1, <2>2, PTL DEF Spec
  <1>8. CurrentInv /\ HonestInv /\ DayInv /\ Began => IdleMeansCurrent
    <2> SUFFICES ASSUME CurrentInv, HonestInv, DayInv, Began,
                        ~NeedsSync, lease.state # "held", ~InFlight, settled,
                        NEW r \in Ranges
                 PROVE  Current(r)
      BY DEF IdleMeansCurrent
    <2>0. /\ TypeOK /\ generation \in Nat /\ hotGen \in Nat /\ heavyGen \in Nat
          /\ today \in Nat /\ syncedDay \in Nat
          /\ snaps[r].gen \in Int /\ snaps[r].builtDay \in Nat
      BY PassGens, DayTypes DEF CurrentInv, TypeInv, TypeOK, MarksOK, SyncedOK
    <2>1. hotGen >= generation /\ heavyGen >= generation /\ syncedDay >= today
      BY <2>0 DEF NeedsSync, HeavyBehind
    <2>2. snaps[r].gen >= generation
      BY <2>0, <2>1 DEF HonestInv, MarkersAreHonest, Ranges
    <2>3. snaps[r] # NoSnap
      BY <2>0, <2>2 DEF NoSnap
    <2>4. snaps[r].builtDay = today
      BY <2>0, <2>1 DEF DayInv, DayBounds, SyncedDayIsHonest
    <2>5. ~Stale(r)
      BY <2>0, <2>2, <2>3, <2>4 DEF Stale
    <2>6. QED
      BY <2>5, CurrentIsFresh DEF FreshIsCurrent
  <1>9. QED
    BY <1>1, <1>2, <1>3, <1>6, <1>7, <1>8, PTL
=============================================================================

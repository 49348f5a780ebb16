------------------------ MODULE StatisticsSync_proofs ------------------------
(***************************************************************************)
(* Proofs about StatisticsSync, for every number of workers, writers, days *)
(* and ranges and every bound on the events.                               *)
(***************************************************************************)
EXTENDS StatisticsSync, TLAPS

USE DEF srcVars, dayVars, markVars, syncedVars, actorVars, passVars,
        passFrame, finishFrame, importFrame

-----------------------------------------------------------------------------
(* Type correctness *)

\* What a pass knows at program point p, with local variables q: which range
\* and window it aggregates, and which payloads it has yet to read.
RangeChosen(p, q) ==
    p \in {"fill", "filled", "collect", "late", "lateBuilt", "publish"} =>
        q.cur \in Ranges /\ q.window \in Days

ReadSoFar(p, q) ==
    p \in {"late", "lateBuilt", "publish"} =>
        \A d \in Window[q.cur][q.window] : q.read[d] = Missing => d \in q.left

ReadAll(p, q) == p = "publish" => q.left = {} /\ q.read[Undated] # Missing

Knows(p, q) == RangeChosen(p, q) /\ ReadSoFar(p, q) /\ ReadAll(p, q)

PassInv == \A w \in Workers : Knows(pc[w], pass[w])

TypeInv == TypeOK /\ PassInv

\* A step that leaves every pass alone keeps what the passes know.
LEMMA PassFrame ==
    ASSUME PassInv, UNCHANGED passVars
    PROVE  PassInv'
  BY DEF PassInv

\* So does a step of one pass to a point that knows as much as is expected there.
LEMMA GotoKnows ==
    ASSUME PassOK, PassInv, NEW w \in Workers, NEW p, NEW q, Goto(w, p, q),
           Knows(p, q)
    PROVE  PassInv'
  BY DEF PassOK, PassInv, Goto

\* Outside the aggregation of a range a pass need know nothing.
LEMMA KnowsNothing ==
    ASSUME NEW p, NEW q,
           p \notin {"fill", "filled", "collect", "late", "lateBuilt", "publish"}
    PROVE  Knows(p, q)
  BY DEF Knows, RangeChosen, ReadSoFar, ReadAll

\* Marking keeps the types of the rows it writes.
LEMMA MarkTypes ==
    ASSUME DaysOK, NEW D
    PROVE  /\ Dropped(D) \in [Days -> Versions \cup {Missing}]
           /\ Upsert(D) => dirty' \in [Days -> Nat] /\ marks' \in [Days -> Nat]
  BY DEF DaysOK, Dropped, Upsert

LEMMA BumpTypes ==
    ASSUME TypeOK
    PROVE  /\ BumpGeneration \/ BumpWithSweep =>
                 MarksOK' /\ settled' \in BOOLEAN
           /\ EnsureSync => wake' \in BOOLEAN
  <1> USE DEF TypeOK
  <1>1. BumpGeneration \/ BumpWithSweep => MarksOK'
    BY DEF MarksOK, BumpGeneration, BumpWithSweep
  <1>2. BumpGeneration \/ BumpWithSweep => settled' \in BOOLEAN
    BY Zenon DEF BumpGeneration, BumpWithSweep
  <1>3. EnsureSync => wake' \in BOOLEAN
    BY Zenon DEF FlagsOK, EnsureSync
  <1>4. QED
    BY <1>1, <1>2, <1>3

LEMMA CommitType ==
    ASSUME RowsOK, NEW s, CommitRow(s)
    PROVE  RowsOK'
  <1>1. changes + 1 \in Versions
    BY ConstantsOK DEF RowsOK, CommitRow, Versions
  <1>2. QED
    BY <1>1 DEF RowsOK, CommitRow

\* Every step of a writer keeps the types.
LEMMA WriterType ==
    ASSUME TypeOK, NEW x \in Writers, Writer(x)
    PROVE  TypeOK'
  <1> USE DEF TypeOK
  <1>1. ASSUME NEW s \in Sources, SaveRow(x, s)
        PROVE  TypeOK'
    <2>1. RowsOK'
      BY <1>1, CommitType DEF SaveRow
    <2>2. WriterOK'
      BY <1>1 DEF WriterOK, SaveRow
    <2>3. QED
      BY <1>1, <2>1, <2>2 DEF SaveRow, DaysOK, MarksOK, FlagsOK,
         SyncedOK, LeaseOK, SnapsOK, ImportOK, ReaderOK, PassOK, BoundsOK
  <1>2. ASSUME NEW s \in Sources, OpenTransaction(x, s)
        PROVE  TypeOK'
    <2>1. DaysOK'
      BY <1>2, MarkTypes DEF DaysOK, OpenTransaction
    <2>2. WriterOK'
      BY <1>2 DEF WriterOK, OpenTransaction
    <2>3. QED
      BY <1>2, <2>1, <2>2 DEF OpenTransaction, RowsOK, MarksOK, FlagsOK,
         SyncedOK, LeaseOK, SnapsOK, ImportOK, ReaderOK, PassOK, BoundsOK
  <1>3. CASE MarkDirty(x)
    <2>1. DaysOK'
      BY <1>3, MarkTypes DEF DaysOK, MarkDirty
    <2>2. WriterOK'
      BY <1>3 DEF WriterOK, MarkDirty
    <2>3. QED
      BY <1>3, <2>1, <2>2 DEF MarkDirty, RowsOK, MarksOK, FlagsOK,
         SyncedOK, LeaseOK, SnapsOK, ImportOK, ReaderOK, PassOK, BoundsOK
  <1>4. CASE DropPayload(x)
    <2>1. DaysOK'
      BY <1>4, MarkTypes DEF DaysOK, DropPayload
    <2>2. WriterOK'
      BY <1>4 DEF WriterOK, DropPayload
    <2>3. QED
      BY <1>4, <2>1, <2>2 DEF DropPayload, RowsOK, MarksOK, FlagsOK,
         SyncedOK, LeaseOK, SnapsOK, ImportOK, ReaderOK, PassOK, BoundsOK
  <1>5. CASE Bump(x)
    <2>1. WriterOK'
      BY <1>5 DEF WriterOK, Bump, Sources
    <2>2. MarksOK' /\ FlagsOK'
      BY <1>5, BumpTypes DEF FlagsOK, Bump
    <2>3. QED
      BY <1>5, <2>1, <2>2 DEF Bump, RowsOK, DaysOK, SyncedOK, LeaseOK, SnapsOK,
         ImportOK, ReaderOK, PassOK, BoundsOK
  <1>6. CASE CommitTransaction(x)
    <2>1. RowsOK'
      BY <1>6, CommitType DEF CommitTransaction
    <2>2. DaysOK'
      BY <1>6, MarkTypes DEF DaysOK, CommitTransaction
    <2>3. WriterOK'
      BY <1>6 DEF WriterOK, CommitTransaction, Sources
    <2>4. MarksOK' /\ FlagsOK'
      BY <1>6, BumpTypes DEF FlagsOK, CommitTransaction
    <2>5. QED
      BY <1>6, <2>1, <2>2, <2>3, <2>4 DEF CommitTransaction, SyncedOK, LeaseOK,
         SnapsOK, ImportOK, ReaderOK, PassOK, BoundsOK
  <1>7. CASE RollBack(x)
    <2>1. WriterOK'
      BY <1>7 DEF WriterOK, RollBack, Sources
    <2>2. QED
      BY <1>7, <2>1 DEF RollBack, RowsOK, DaysOK, MarksOK, FlagsOK,
         SyncedOK, LeaseOK, SnapsOK, ImportOK, ReaderOK, PassOK, BoundsOK
  <1>8. QED
    BY <1>1, <1>2, <1>3, <1>4, <1>5, <1>6, <1>7 DEF Writer

LEMMA RefreshType ==
    ASSUME TypeOK, NEW r \in Ranges, RequestManualRefresh(r)
    PROVE  TypeOK'
  <1> USE DEF TypeOK
  <1>1. DaysOK'
    BY MarkTypes DEF DaysOK, RequestManualRefresh
  <1>2. MarksOK'
    BY DEF MarksOK, RequestManualRefresh
  <1>3. FlagsOK'
    BY Zenon DEF FlagsOK, RequestManualRefresh
  <1>4. BoundsOK'
    BY DEF BoundsOK, RequestManualRefresh
  <1>5. QED
    BY <1>1, <1>2, <1>3, <1>4 DEF RequestManualRefresh, RowsOK, SyncedOK, LeaseOK,
       SnapsOK, WriterOK, ImportOK, ReaderOK, PassOK

\* Every step of the bulk import keeps the types.
LEMMA ImportType ==
    ASSUME TypeOK, Import
    PROVE  TypeOK'
  <1> USE DEF TypeOK
  <1>1. ASSUME NEW k \in ImportKinds, ImportCreate(k)
        PROVE  TypeOK'
    <2>1. ImportOK'
      BY <1>1 DEF ImportOK, ImportCreate, NoImport, Sources, Undated
    <2>2. BoundsOK'
      BY <1>1 DEF BoundsOK, ImportCreate
    <2>3. QED
      BY <1>1, <2>1, <2>2 DEF ImportCreate, RowsOK, DaysOK, MarksOK, FlagsOK,
         SyncedOK, LeaseOK, SnapsOK, WriterOK, ReaderOK, PassOK
  <1>2. CASE ImportOpen
    <2> DEFINE request == sweeps + 1
    <2>0. request \in Nat /\ generation \in Nat /\ sweep \in Nat
      BY DEF MarksOK
    <2> HIDE DEF request
    <2>1. ImportOK'
      BY <1>2, <2>0 DEF ImportOK, ImportOpen, request
    <2>2. MarksOK' /\ FlagsOK'
      BY <1>2, BumpTypes DEF FlagsOK, ImportOpen
    <2>3. QED
      BY <1>2, <2>1, <2>2 DEF ImportOpen, RowsOK, DaysOK, SyncedOK, LeaseOK,
         SnapsOK, WriterOK, ReaderOK, PassOK, BoundsOK
  <1>3. ASSUME NEW s \in Sources, ImportSave(s)
        PROVE  TypeOK'
    <2>1. RowsOK'
      BY <1>3, CommitType DEF ImportSave
    <2>2. ImportOK'
      BY <1>3 DEF ImportOK, ImportSave
    <2>3. QED
      BY <1>3, <2>1, <2>2 DEF ImportSave, DaysOK, MarksOK, FlagsOK, SyncedOK,
         LeaseOK, SnapsOK, WriterOK, ReaderOK, PassOK, BoundsOK
  <1>4. CASE ImportMark
    <2>1. DaysOK'
      BY <1>4, MarkTypes DEF DaysOK, ImportMark
    <2>2. ImportOK'
      BY <1>4 DEF ImportOK, ImportMark
    <2>3. QED
      BY <1>4, <2>1, <2>2 DEF ImportMark, RowsOK, MarksOK, FlagsOK, SyncedOK,
         LeaseOK, SnapsOK, WriterOK, ReaderOK, PassOK, BoundsOK
  <1>5. CASE ImportDrop
    <2>1. DaysOK'
      BY <1>5, MarkTypes DEF DaysOK, ImportDrop
    <2>2. ImportOK'
      BY <1>5 DEF ImportOK, ImportDrop, Sources
    <2>3. QED
      BY <1>5, <2>1, <2>2 DEF ImportDrop, RowsOK, MarksOK, FlagsOK, SyncedOK,
         LeaseOK, SnapsOK, WriterOK, ReaderOK, PassOK, BoundsOK
  <1>6. CASE ImportEnd
    <2>1. ImportOK'
      BY <1>6 DEF ImportOK, ImportEnd
    <2>2. MarksOK'
      BY <1>6 DEF MarksOK, ImportOK, ImportEnd, RestoreUnchanged, DropSweep,
         KeepRequest
    <2>3. settled' \in BOOLEAN
      BY <1>6, Zenon DEF FlagsOK, ImportEnd, RestoreUnchanged, DropSweep,
         KeepRequest
    <2>4. QED
      BY <1>6, <2>1, <2>2, <2>3 DEF FlagsOK, ImportEnd, RowsOK, DaysOK,
         SyncedOK, LeaseOK, SnapsOK, WriterOK, ReaderOK, PassOK, BoundsOK
  <1>7. CASE ImportClose
    <2>1. ImportOK'
      BY <1>7 DEF ImportOK, ImportClose, NoImport, Sources
    <2>2. QED
      BY <1>7, <2>1 DEF ImportClose, RowsOK, DaysOK, MarksOK, FlagsOK,
         SyncedOK, LeaseOK, SnapsOK, WriterOK, ReaderOK, PassOK, BoundsOK
  <1>8. CASE ImportPublish
    <2>1. DaysOK'
      BY <1>8, MarkTypes DEF DaysOK, ImportPublish
    <2>2. ImportOK'
      BY <1>8 DEF ImportOK, ImportPublish, NoImport, Sources
    <2>3. MarksOK' /\ FlagsOK'
      BY <1>8, BumpTypes DEF FlagsOK, ImportPublish
    <2>4. QED
      BY <1>8, <2>1, <2>2, <2>3 DEF ImportPublish, RowsOK, SyncedOK, LeaseOK,
         SnapsOK, WriterOK, ReaderOK, PassOK, BoundsOK
  <1>9. QED
    BY <1>1, <1>2, <1>3, <1>4, <1>5, <1>6, <1>7, <1>8 DEF Import

-----------------------------------------------------------------------------
(* Every step of a pass keeps the types *)

\* A lease that is claimed, renewed or released is still a lease.
LEMMA LeaseTypes ==
    ASSUME LeaseOK, NEW w \in Workers
    PROVE  /\ Renewed \in [owner : Workers \cup {Nobody},
                           state : {"free", "held", "lapsed"}]
           /\ Released(w) \in [owner : Workers \cup {Nobody},
                               state : {"free", "held", "lapsed"}]
  BY DEF LeaseOK, Renewed, Released

LEMMA GotoType ==
    ASSUME PassOK, NEW w \in Workers, NEW p \in Points, NEW q \in Pass,
           Goto(w, p, q)
    PROVE  PassOK'
  BY DEF PassOK, Goto

LEMMA IdleType == Idle \in Pass
  BY ConstantsOK DEF Idle, Pass, Days, Sources, Versions, Undated, NoDay

\* Each way a step changes the local variables of a pass keeps their types.
Reads == [Sources -> Versions \cup {Missing}]

LEMMA UpdateTypes ==
    ASSUME NEW q \in Pass
    PROVE  /\ \A r \in Ranges : [Idle EXCEPT !.only = r] \in Pass
           /\ \A d \in 0..LastDay, n \in Nat :
                 [q EXCEPT !.day = d, !.stamp = n] \in Pass
           /\ \A n \in Nat, m \in Nat, full \in BOOLEAN, due \in BOOLEAN :
                 [q EXCEPT !.gen = n, !.sweep = m, !.full = full, !.heavyDue = due]
                     \in Pass
           /\ \A t \in [Days -> Nat], D \in SUBSET Days :
                 [q EXCEPT !.toks = t, !.work = D] \in Pass
           /\ \A d \in 0..LastDay, v \in Versions :
                 [q EXCEPT !.built = d, !.version = v] \in Pass
           /\ \A D \in SUBSET Days, d \in 0..LastDay, v \in Versions :
                 /\ [q EXCEPT !.work = D, !.built = d, !.version = v] \in Pass
                 /\ [q EXCEPT !.left = D, !.built = d, !.version = v] \in Pass
           /\ \A R \in SUBSET Ranges : [q EXCEPT !.todo = R] \in Pass
           /\ \A r \in Ranges, d \in 0..LastDay, D \in SUBSET Days :
                 [q EXCEPT !.cur = r, !.window = d, !.left = D] \in Pass
           /\ \A f \in Reads, D \in SUBSET Days :
                 [q EXCEPT !.left = D, !.read = f] \in Pass
           /\ \A f \in Reads : [q EXCEPT !.read = f] \in Pass
           /\ \A f \in Reads, D \in SUBSET Days, d \in 0..LastDay, v \in Versions :
                 [q EXCEPT !.left = D, !.read = f, !.built = d, !.version = v] \in Pass
           /\ \A f \in Reads, R \in SUBSET Ranges, d \in 0..LastDay :
                 [q EXCEPT !.todo = R, !.cur = NoRange, !.window = d, !.read = f]
                     \in Pass
  <1>1. \A r \in Ranges : [Idle EXCEPT !.only = r] \in Pass
    BY IdleType DEF Pass
  <1>2. \A d \in 0..LastDay, n \in Nat :
       [q EXCEPT !.day = d, !.stamp = n] \in Pass
    BY DEF Pass
  <1>3. \A n \in Nat, m \in Nat, full \in BOOLEAN, due \in BOOLEAN :
       [q EXCEPT !.gen = n, !.sweep = m, !.full = full, !.heavyDue = due]
           \in Pass
    BY DEF Pass
  <1>4. \A t \in [Days -> Nat], D \in SUBSET Days :
       [q EXCEPT !.toks = t, !.work = D] \in Pass
    BY DEF Pass
  <1>5. \A d \in 0..LastDay, v \in Versions :
       [q EXCEPT !.built = d, !.version = v] \in Pass
    BY DEF Pass
  <1>6. \A D \in SUBSET Days, d \in 0..LastDay, v \in Versions :
       /\ [q EXCEPT !.work = D, !.built = d, !.version = v] \in Pass
       /\ [q EXCEPT !.left = D, !.built = d, !.version = v] \in Pass
    BY DEF Pass
  <1>7. \A R \in SUBSET Ranges : [q EXCEPT !.todo = R] \in Pass
    BY DEF Pass
  <1>8. \A r \in Ranges, d \in 0..LastDay, D \in SUBSET Days :
       [q EXCEPT !.cur = r, !.window = d, !.left = D] \in Pass
    BY DEF Pass
  <1>9. \A f \in Reads, D \in SUBSET Days :
       [q EXCEPT !.left = D, !.read = f] \in Pass
    BY DEF Pass, Reads
  <1>10. \A f \in Reads : [q EXCEPT !.read = f] \in Pass
    BY DEF Pass, Reads
  <1>11. \A f \in Reads, D \in SUBSET Days, d \in 0..LastDay, v \in Versions :
       [q EXCEPT !.left = D, !.read = f, !.built = d, !.version = v] \in Pass
    BY DEF Pass, Reads
  <1>12. \A f \in Reads, R \in SUBSET Ranges, d \in 0..LastDay :
       [q EXCEPT !.todo = R, !.cur = NoRange, !.window = d, !.read = f]
           \in Pass
    BY DEF Pass, Reads
  <1>13. QED
    BY <1>1, <1>2, <1>3, <1>4, <1>5, <1>6, <1>7, <1>8, <1>9, <1>10, <1>11, <1>12

LEMMA FinishType ==
    ASSUME TypeOK, NEW w \in Workers, NEW status, Finish(w, status)
    PROVE  MarksOK' /\ FlagsOK' /\ LeaseOK' /\ PassOK'
  <1> USE DEF TypeOK
  <1>1. MarksOK'
    BY BumpTypes DEF Finish, MarksOK
  <1>2. FlagsOK'
    BY BumpTypes, Zenon DEF Finish, FlagsOK
  <1>3. LeaseOK'
    BY LeaseTypes DEF Finish, LeaseOK
  <1>4. PassOK'
    BY GotoType, IdleType DEF Finish, Points
  <1>5. QED
    BY <1>1, <1>2, <1>3, <1>4

LEMMA PointTypes ==
    ASSUME NEW p, NEW S
    PROVE  NextDays(p, S) \in Points /\ NextRanges(p, S) \in Points
  BY DEF NextDays, NextRanges, Points

LEMMA StepType ==
    ASSUME TypeOK, PassInv, NEW w \in Workers, Step(w)
    PROVE  TypeOK'
  <1> USE DEF TypeOK
  <1>0. PassOK /\ pass[w] \in Pass /\ pc[w] \in Points
    BY DEF PassOK
  <1>1. CASE Claim(w)
    <2>1. LeaseOK'
      BY <1>1 DEF Claim, LeaseOK
    <2>2. today \in 0..LastDay /\ sweeps \in Nat
      BY DEF MarksOK, Days
    <2>3. PassOK'
      BY <1>1, <1>0, GotoType, <2>2, UpdateTypes DEF Claim, Points
    <2>4. QED
      BY <1>1, <2>1, <2>3 DEF Claim, RowsOK, DaysOK, MarksOK, FlagsOK,
         SyncedOK, SnapsOK, WriterOK, ImportOK, ReaderOK, BoundsOK
  <1>2. CASE Busy(w)
    <2>1. MarksOK'
      BY <1>2, BumpTypes DEF Busy, MarksOK
    <2>2. FlagsOK'
      BY <1>2, BumpTypes, Zenon DEF Busy, FlagsOK
    <2>3. PassOK'
      BY <1>2, <1>0, GotoType, IdleType DEF Busy, Points
    <2>4. QED
      BY <1>2, <2>1, <2>2, <2>3 DEF Busy, RowsOK, DaysOK, SyncedOK, LeaseOK,
         SnapsOK, WriterOK, ImportOK, ReaderOK, BoundsOK
  <1>3. CASE ReadState(w)
    <2>1. generation \in Nat /\ sweep \in Nat
      BY DEF MarksOK
    <2>2. PassOK'
      BY <1>3, <1>0, GotoType, <2>1, UpdateTypes DEF ReadState, Points
    <2>3. QED
      BY <1>3, <2>2 DEF ReadState, RowsOK, DaysOK, MarksOK, FlagsOK, SyncedOK,
         LeaseOK, SnapsOK, WriterOK, ImportOK, ReaderOK, BoundsOK
  <1>4. CASE PrepareSweep(w)
    <2>1. pass[w].sweep \in Nat
      BY <1>0 DEF Pass
    <2>2. DaysOK'
      BY <1>4, <2>1, MarkTypes DEF PrepareSweep, DaysOK
    <2>3. LeaseOK'
      BY <1>4, LeaseTypes DEF PrepareSweep, LeaseOK
    <2>4. PassOK'
      BY <1>4, <1>0, GotoType DEF PrepareSweep, Points
    <2>5. QED
      BY <1>4, <2>2, <2>3, <2>4 DEF PrepareSweep, RowsOK, MarksOK, FlagsOK,
         SyncedOK, SnapsOK, WriterOK, ImportOK, ReaderOK, BoundsOK
  <1>5. CASE ReadTokens(w)
    <2> DEFINE p    == pass[w]
               warm == IF p.sweep # 0 THEN MissingDays(WarmDays(p.day))
                                      ELSE WarmDays(p.day)
               work == DirtyDays(dirty) \cup warm \cup
                           IF p.full THEN MissingDays(Days) ELSE {}
               q    == [p EXCEPT !.toks = dirty, !.work = work]
    <2>a. work \in SUBSET Days /\ dirty \in [Days -> Nat]
      BY DEF DaysOK, DirtyDays, MissingDays, WarmDays
    <2>b. Goto(w, NextDays(p, work), q)
      BY <1>5 DEF ReadTokens
    <2> HIDE DEF work
    <2>c. q \in Pass
      BY <1>0, <2>a, UpdateTypes
    <2>1. PassOK'
      BY <1>5, <1>0, GotoType, PointTypes, <2>b, <2>c
    <2>2. QED
      BY <1>5, <2>1 DEF ReadTokens, RowsOK, DaysOK, MarksOK, FlagsOK,
         SyncedOK, LeaseOK, SnapsOK, WriterOK, ImportOK, ReaderOK, BoundsOK
  <1>6. CASE BuildDay(w)
    <2>1. ASSUME NEW d \in Days
         PROVE  d \in 0..LastDay /\ data[d] \in Versions
      BY ConstantsOK DEF RowsOK, Sources, Days
    <2>2. pass[w].work \subseteq Days
      BY <1>0 DEF Pass
    <2>3. LeaseOK'
      BY <1>6, LeaseTypes DEF BuildDay, LeaseOK
    <2>4. PassOK'
      BY <1>6, <1>0, GotoType, <2>1, <2>2, UpdateTypes DEF BuildDay, Points
    <2>5. QED
      BY <1>6, <2>3, <2>4 DEF BuildDay, RowsOK, DaysOK, MarksOK, FlagsOK,
         SyncedOK, SnapsOK, WriterOK, ImportOK, ReaderOK, BoundsOK
  <1>7. CASE StoreDay(w)
    <2>1. pass[w].version \in Versions /\ pass[w].work \subseteq Days
      BY <1>0 DEF Pass
    <2>2. NoDay \in 0..LastDay /\ 0 \in Versions
      BY ConstantsOK DEF NoDay, Versions
    <2>3. DaysOK'
      BY <1>7, <2>1 DEF StoreDay, DaysOK
    <2>4. LeaseOK'
      BY <1>7, LeaseTypes DEF StoreDay, LeaseOK
    <2>5. PassOK'
      <3> DEFINE d == pass[w].built
                 W == pass[w].work \ {d}
                 q == [pass[w] EXCEPT !.work = @ \ {d}, !.built = NoDay,
                                      !.version = 0]
      <3>1. Goto(w, NextDays(pass[w], W), q)
        BY <1>7 DEF StoreDay
      <3>2. q \in Pass
        BY <1>0, <2>1, <2>2, UpdateTypes
      <3>3. NextDays(pass[w], W) \in Points
        BY PointTypes
      <3> HIDE DEF q, W
      <3> QED BY <1>0, <3>1, <3>2, <3>3, GotoType
    <2>6. QED
      BY <1>7, <2>3, <2>4, <2>5 DEF StoreDay, RowsOK, MarksOK, FlagsOK,
         SyncedOK, SnapsOK, WriterOK, ImportOK, ReaderOK, BoundsOK
  <1>8. CASE MarkEpoch(w)
    <2>1. pass[w].sweep \in Nat
      BY <1>0 DEF Pass
    <2>2. DaysOK'
      BY <1>8, <2>1 DEF MarkEpoch, DaysOK, Plain
    <2>3. LeaseOK'
      BY <1>8, LeaseTypes DEF MarkEpoch, LeaseOK
    <2>4. PassOK'
      BY <1>8, <1>0, GotoType DEF MarkEpoch, Points
    <2>5. QED
      BY <1>8, <2>2, <2>3, <2>4 DEF MarkEpoch, RowsOK, MarksOK, FlagsOK,
         SyncedOK, SnapsOK, WriterOK, ImportOK, ReaderOK, BoundsOK
  <1>9. CASE PlanRanges(w)
    <2> DEFINE p    == pass[w]
               todo == IF p.only # NoRange THEN {p.only}
                       ELSE {r \in DueRanges(p) : NeedsRebuild(r, p)}
               q    == [p EXCEPT !.todo = todo]
    <2>a. todo \in SUBSET Ranges
      BY <1>0 DEF Pass, DueRanges, Ranges
    <2>b. Goto(w, NextRanges(p, todo), q)
      BY <1>9 DEF PlanRanges
    <2> HIDE DEF todo
    <2>c. q \in Pass
      BY <1>0, <2>a, UpdateTypes
    <2>1. PassOK'
      BY <1>9, <1>0, GotoType, PointTypes, <2>b, <2>c
    <2>2. QED
      BY <1>9, <2>1 DEF PlanRanges, RowsOK, DaysOK, MarksOK, FlagsOK,
         SyncedOK, LeaseOK, SnapsOK, WriterOK, ImportOK, ReaderOK, BoundsOK
  <1>10. CASE BeginRange(w)
    <2> DEFINE p == pass[w]
               missing(r) == MissingDays(Window[r][today])
               q(r) == [p EXCEPT !.cur = r, !.window = today,
                                 !.left = missing(r)]
    <2>a. PICK r \in Ranges :
             Goto(w, IF missing(r) = {} THEN "collect" ELSE "fill", q(r))
      BY <1>0, <1>10 DEF BeginRange, Pass
    <2>b. today \in 0..LastDay /\ missing(r) \in SUBSET Days
      BY ConstantsOK DEF Days, MissingDays
    <2> HIDE DEF missing
    <2>c. q(r) \in Pass
      BY <1>0, <2>b, UpdateTypes
    <2>d. (IF missing(r) = {} THEN "collect" ELSE "fill") \in Points
      BY DEF Points
    <2>1. PassOK'
      BY <1>0, GotoType, <2>a, <2>c, <2>d
    <2>2. QED
      BY <1>10, <2>1 DEF BeginRange, RowsOK, DaysOK, MarksOK, FlagsOK,
         SyncedOK, LeaseOK, SnapsOK, WriterOK, ImportOK, ReaderOK, BoundsOK
  <1>11. CASE BuildMissingDay(w)
    <2>1. ASSUME NEW d \in Days
         PROVE  d \in 0..LastDay /\ data[d] \in Versions
      BY ConstantsOK DEF RowsOK, Sources, Days
    <2>2. pass[w].left \subseteq Days
      BY <1>0 DEF Pass
    <2>3. LeaseOK'
      BY <1>11, LeaseTypes DEF BuildMissingDay, LeaseOK
    <2>4. PassOK'
      BY <1>11, <1>0, GotoType, <2>1, <2>2, UpdateTypes DEF BuildMissingDay,
         Points
    <2>5. QED
      BY <1>11, <2>3, <2>4 DEF BuildMissingDay, RowsOK, DaysOK, MarksOK,
         FlagsOK, SyncedOK, SnapsOK, WriterOK, ImportOK, ReaderOK, BoundsOK
  <1>12. CASE StoreMissingDay(w)
    <2>1. pass[w].version \in Versions /\ pass[w].left \subseteq Days
      BY <1>0 DEF Pass
    <2>2. NoDay \in 0..LastDay /\ 0 \in Versions
      BY ConstantsOK DEF NoDay, Versions
    <2>3. DaysOK'
      BY <1>12, <2>1 DEF StoreMissingDay, DaysOK
    <2>4. LeaseOK'
      BY <1>12, LeaseTypes DEF StoreMissingDay, LeaseOK
    <2>5. PassOK'
      BY <1>12, <1>0, GotoType, <2>1, <2>2, UpdateTypes DEF StoreMissingDay,
         Points
    <2>6. QED
      BY <1>12, <2>3, <2>4, <2>5 DEF StoreMissingDay, RowsOK, MarksOK,
         FlagsOK, SyncedOK, SnapsOK, WriterOK, ImportOK, ReaderOK, BoundsOK
  <1>13. CASE CollectPayloads(w)
    <2> DEFINE D == Window[pass[w].cur][pass[w].window]
               f == [s \in Sources |-> IF s \in D THEN payload[s] ELSE Missing]
               q == [pass[w] EXCEPT !.left = MissingDays(D), !.read = f]
    <2>a. D \in SUBSET Days
      BY <1>13, ConstantsOK DEF PassInv, Knows, RangeChosen, CollectPayloads
    <2>b. Goto(w, "late", q)
      BY <1>13 DEF CollectPayloads
    <2>c. MissingDays(D) \in SUBSET Days /\ f \in Reads
      BY <2>a DEF DaysOK, MissingDays, Reads
    <2> HIDE DEF f, D
    <2>d. q \in Pass
      BY <1>0, <2>c, UpdateTypes
    <2>1. PassOK'
      BY <1>0, GotoType, <2>b, <2>d DEF Points
    <2>2. QED
      BY <1>13, <2>1 DEF CollectPayloads, RowsOK, DaysOK, MarksOK, FlagsOK,
         SyncedOK, LeaseOK, SnapsOK, WriterOK, ImportOK, ReaderOK, BoundsOK
  <1>14. CASE BuildLateDay(w)
    <2>1. ASSUME NEW d \in Days
         PROVE  d \in 0..LastDay /\ data[d] \in Versions
      BY ConstantsOK DEF RowsOK, Sources, Days
    <2>2. pass[w].left \subseteq Days
      BY <1>0 DEF Pass
    <2>3. PassOK'
      BY <1>14, <1>0, GotoType, <2>1, <2>2, UpdateTypes DEF BuildLateDay,
         Points
    <2>4. QED
      BY <1>14, <2>3 DEF BuildLateDay, RowsOK, DaysOK, MarksOK, FlagsOK,
         SyncedOK, LeaseOK, SnapsOK, WriterOK, ImportOK, ReaderOK, BoundsOK
  <1>15. CASE StoreLateDay(w)
    <2> DEFINE d == pass[w].built
               v == pass[w].version
               f == [pass[w].read EXCEPT ![d] = v]
               q == [pass[w] EXCEPT !.left = pass[w].left \ {d}, !.read = f,
                                    !.built = NoDay, !.version = 0]
    <2>a. /\ v \in Versions /\ pass[w].left \ {d} \in SUBSET Days
          /\ NoDay \in 0..LastDay /\ 0 \in Versions
      BY <1>0, ConstantsOK DEF Pass, NoDay, Versions
    <2>b. Goto(w, "late", q)
      BY <1>15 DEF StoreLateDay
    <2>c. f \in Reads
      BY <1>0, <2>a DEF Pass, Reads
    <2> HIDE DEF f
    <2>d. q \in Pass
      BY <1>0, <2>a, <2>c, UpdateTypes
    <2>1. DaysOK'
      BY <1>15, <2>a DEF StoreLateDay, DaysOK
    <2>2. PassOK'
      BY <1>15, <1>0, GotoType, <2>b, <2>d DEF Points
    <2>3. QED
      BY <1>15, <2>1, <2>2 DEF StoreLateDay, RowsOK, MarksOK, FlagsOK,
         SyncedOK, LeaseOK, SnapsOK, WriterOK, ImportOK, ReaderOK, BoundsOK
  <1>16. CASE ReadUndated(w)
    <2> DEFINE q == [pass[w] EXCEPT !.read[Undated] = data[Undated]]
    <2>b. Goto(w, "publish", q)
      BY <1>16 DEF ReadUndated
    <2>c. [pass[w].read EXCEPT ![Undated] = data[Undated]] \in Reads
      BY <1>0 DEF Pass, Reads, RowsOK, Sources
    <2>d. q \in Pass
      BY <1>0, <2>c, UpdateTypes
    <2>1. PassOK'
      BY <1>16, <1>0, GotoType, <2>b, <2>d DEF Points
    <2>2. QED
      BY <1>16, <2>1 DEF ReadUndated, RowsOK, DaysOK, MarksOK, FlagsOK,
         SyncedOK, LeaseOK, SnapsOK, WriterOK, ImportOK, ReaderOK, BoundsOK
  <1>17. CASE PublishSnapshot(w)
    <2> DEFINE p == pass[w]
               D == Window[p.cur][p.window]
               new == [gen |-> StampOf(p), builtDay |-> today,
                       window |-> p.window,
                       shows |-> [s \in {Undated} \cup D |-> p.read[s]]]
               q == [p EXCEPT !.todo = @ \ {p.cur}, !.cur = NoRange,
                              !.window = NoDay,
                              !.read = [s \in Sources |-> Missing]]
    <2>a. /\ p.cur \in Ranges /\ p.window \in Days /\ D \in SUBSET Days
          /\ \A s \in {Undated} \cup D : p.read[s] \in Versions
      <3>1. p.cur \in Ranges /\ p.window \in Days
        BY <1>17 DEF PassInv, Knows, RangeChosen, PublishSnapshot
      <3>2. D \in SUBSET Days
        BY <3>1, ConstantsOK
      <3>3. \A s \in {Undated} \cup D : p.read[s] # Missing
        BY <1>17 DEF PassInv, Knows, ReadSoFar, ReadAll,
             PublishSnapshot
      <3>4. \A s \in {Undated} \cup D : p.read[s] \in Versions
        BY <1>0, <3>2, <3>3 DEF Pass, Sources
      <3>5. QED
        BY <3>1, <3>2, <3>4
    <2>b. new \in Snapshot
      <3>1. new.shows \in Shows
        <4> DEFINE C == {Undated} \cup D
        <4>1. [s \in C |-> p.read[s]] \in [C -> Versions]
          BY <2>a
        <4>2. [C -> Versions] \in {[{Undated} \cup E -> Versions] : E \in SUBSET Days}
          BY <2>a
        <4>3. new.shows = [s \in C |-> p.read[s]]
          OBVIOUS
        <4> HIDE DEF C, new
        <4> QED BY <4>1, <4>2, <4>3 DEF Shows
      <3>2. StampOf(p) \in Nat
        BY <1>0 DEF StampOf, Pass
      <3>3. QED
        BY <2>a, <3>1, <3>2 DEF Snapshot
    <2>c. Goto(w, "published", q)
      BY <1>17 DEF PublishSnapshot
    <2>d. [s \in Sources |-> Missing] \in Reads /\ NoDay \in 0..LastDay
          /\ p.todo \ {p.cur} \in SUBSET Ranges
      BY <1>0, ConstantsOK DEF Reads, NoDay, Pass
    <2>e. q \in Pass
      BY <1>0, <2>d, UpdateTypes
    <2>1. SnapsOK'
      BY <1>17, <2>b DEF PublishSnapshot, SnapsOK, StampOf
    <2>2. LeaseOK'
      BY <1>17, LeaseTypes DEF PublishSnapshot, LeaseOK
    <2>3. PassOK'
      BY <1>17, <1>0, GotoType, <2>c, <2>e DEF Points
    <2>4. QED
      BY <1>17, <2>1, <2>2, <2>3 DEF PublishSnapshot, RowsOK, DaysOK, MarksOK,
         FlagsOK, SyncedOK, WriterOK, ImportOK, ReaderOK, BoundsOK
  <1>18. CASE CheckAfterPublish(w)
    <2>1. LeaseOK'
      BY <1>18, LeaseTypes DEF CheckAfterPublish, LeaseOK
    <2>2. PassOK'
      BY <1>18, <1>0, GotoType, PointTypes DEF CheckAfterPublish, Points
    <2>3. QED
      BY <1>18, <2>1, <2>2 DEF CheckAfterPublish, RowsOK, DaysOK, MarksOK,
         FlagsOK, SyncedOK, SnapsOK, WriterOK, ImportOK, ReaderOK, BoundsOK
  <1>19. CASE ClearSweep(w)
    <2>1. MarksOK'
      BY <1>19 DEF ClearSweep, MarksOK
    <2>2. PassOK'
      BY <1>19, <1>0, GotoType DEF ClearSweep, Points
    <2>3. QED
      BY <1>19, <2>1, <2>2 DEF ClearSweep, RowsOK, DaysOK, FlagsOK, SyncedOK,
         LeaseOK, SnapsOK, WriterOK, ImportOK, ReaderOK, BoundsOK
  <1>20. CASE RecordMarkers(w)
    <2>1. pass[w].gen \in Nat /\ pass[w].day \in 0..LastDay
      BY <1>0 DEF Pass
    <2>2. SyncedOK'
      BY <1>20, <2>1, ConstantsOK DEF RecordMarkers, SyncedOK, Greatest, DayOf
    <2>3. PassOK'
      BY <1>20, <1>0, GotoType DEF RecordMarkers, Points
    <2>4. QED
      BY <1>20, <2>2, <2>3 DEF RecordMarkers, RowsOK, DaysOK, MarksOK,
         FlagsOK, LeaseOK, SnapsOK, WriterOK, ImportOK, ReaderOK, BoundsOK
  <1>21. CASE Release(w)
    <2>1. MarksOK' /\ FlagsOK' /\ LeaseOK' /\ PassOK'
      BY <1>21, FinishType DEF Release
    <2>2. QED
      BY <1>21, <2>1 DEF Release, RowsOK, DaysOK, SyncedOK, SnapsOK,
         WriterOK, ImportOK, ReaderOK, BoundsOK
  <1>22. CASE YieldToImport(w)
    <2>1. MarksOK' /\ FlagsOK' /\ LeaseOK' /\ PassOK'
      BY <1>22, FinishType DEF YieldToImport
    <2>2. QED
      BY <1>22, <2>1 DEF YieldToImport, RowsOK, DaysOK, SyncedOK, SnapsOK,
         WriterOK, ImportOK, ReaderOK, BoundsOK
  <1>23. CASE LoseLease(w)
    <2>1. MarksOK' /\ FlagsOK' /\ LeaseOK' /\ PassOK'
      BY <1>23, FinishType DEF LoseLease
    <2>2. QED
      BY <1>23, <2>1 DEF LoseLease, RowsOK, DaysOK, SyncedOK, SnapsOK,
         WriterOK, ImportOK, ReaderOK, BoundsOK
  <1>24. QED
    BY <1>1, <1>2, <1>3, <1>4, <1>5, <1>6, <1>7, <1>8, <1>9, <1>10, <1>11,
       <1>12, <1>13, <1>14, <1>15, <1>16, <1>17, <1>18, <1>19, <1>20, <1>21,
       <1>22, <1>23 DEF Step

\* Starting, ending and killing a pass keep the types.
LEMMA PassEndsType ==
    ASSUME TypeOK, NEW w \in Workers,
           \/ Start(w) \/ \E r \in Ranges : StartInline(w, r)
           \/ Crash(w) \/ Abort(w) \/ Yield(w)
    PROVE  TypeOK'
  <1> USE DEF TypeOK
  <1>0. pass[w] \in Pass /\ pc[w] \in Points
    BY DEF PassOK
  <1>1. CASE Start(w)
    <2>1. PassOK'
      BY <1>1, GotoType, IdleType DEF Start, Points, PassOK
    <2>2. FlagsOK'
      BY <1>1, Zenon DEF Start, FlagsOK
    <2>3. QED
      BY <1>1, <2>1, <2>2 DEF Start, RowsOK, DaysOK, MarksOK, SyncedOK,
         LeaseOK, SnapsOK, WriterOK, ImportOK, ReaderOK, BoundsOK
  <1>2. ASSUME NEW r \in Ranges, StartInline(w, r)
        PROVE  TypeOK'
    <2>1. [Idle EXCEPT !.only = r] \in Pass
      BY IdleType, UpdateTypes
    <2>2. PassOK'
      BY <1>2, <2>1, GotoType DEF StartInline, Points
    <2>3. BoundsOK'
      BY <1>2 DEF StartInline, BoundsOK
    <2>4. QED
      BY <1>2, <2>2, <2>3 DEF StartInline, RowsOK, DaysOK, MarksOK, FlagsOK,
         SyncedOK, LeaseOK, SnapsOK, WriterOK, ImportOK, ReaderOK
  <1>3. CASE Crash(w)
    <2>1. PassOK'
      BY <1>3, GotoType, IdleType DEF Crash, Points
    <2>2. DaysOK'
      BY <1>3, <1>0 DEF Crash, DaysOK, Pass
    <2>3. BoundsOK'
      BY <1>3 DEF Crash, Strike, BoundsOK
    <2>4. QED
      BY <1>3, <2>1, <2>2, <2>3 DEF Crash, RowsOK, MarksOK, FlagsOK,
         SyncedOK, LeaseOK, SnapsOK, WriterOK, ImportOK, ReaderOK
  <1>4. CASE Abort(w)
    <2>1. MarksOK' /\ FlagsOK' /\ LeaseOK' /\ PassOK'
      BY <1>4, FinishType DEF Abort
    <2>2. BoundsOK'
      BY <1>4 DEF Abort, Strike, BoundsOK
    <2>3. QED
      BY <1>4, <2>1, <2>2 DEF Abort, RowsOK, DaysOK, SyncedOK, SnapsOK,
         WriterOK, ImportOK, ReaderOK
  <1>5. CASE Yield(w)
    <2>1. MarksOK' /\ FlagsOK' /\ LeaseOK' /\ PassOK'
      BY <1>5, FinishType DEF Yield
    <2>2. BoundsOK'
      BY <1>5 DEF Yield, Strike, BoundsOK
    <2>3. QED
      BY <1>5, <2>1, <2>2 DEF Yield, RowsOK, DaysOK, SyncedOK, SnapsOK,
         WriterOK, ImportOK, ReaderOK
  <1>6. QED
    BY <1>1, <1>2, <1>3, <1>4, <1>5

\* So do the page, the reconciler, time and the faults of the cache and queue.
LEMMA SurroundingsType ==
    ASSUME TypeOK,
           \/ \E x \in Readers : ReaderBuild(x) \/ ReaderStore(x)
           \/ \E r \in Ranges : OpenPage(r)
           \/ Reconcile \/ LeaseLapses \/ Midnight \/ Settle
           \/ LoseMessage \/ Evict
    PROVE  TypeOK'
  <1> USE DEF TypeOK
  <1>1. ASSUME NEW x \in Readers, ReaderBuild(x)
        PROVE  TypeOK'
    <2>1. PICK d \in MissingDays(Days) :
             reader' = [reader EXCEPT ![x] = [day |-> d, version |-> data[d]]]
      BY <1>1 DEF ReaderBuild
    <2>2. d \in 0..LastDay /\ data[d] \in Versions
      BY ConstantsOK DEF MissingDays, RowsOK, Sources, Days
    <2>3. ReaderOK'
      BY <2>1, <2>2 DEF ReaderOK
    <2>4. QED
      BY <1>1, <2>3 DEF ReaderBuild, RowsOK, DaysOK, MarksOK, FlagsOK,
         SyncedOK, LeaseOK, SnapsOK, WriterOK, ImportOK, PassOK, BoundsOK
  <1>2. ASSUME NEW x \in Readers, ReaderStore(x)
        PROVE  TypeOK'
    <2>1. NoDay \in 0..LastDay /\ 0 \in Versions
      BY ConstantsOK DEF NoDay, Versions
    <2>2. ReaderOK'
      BY <1>2, <2>1 DEF ReaderStore, ReaderOK
    <2>3. DaysOK'
      BY <1>2 DEF ReaderStore, ReaderOK, DaysOK
    <2>4. QED
      BY <1>2, <2>2, <2>3 DEF ReaderStore, RowsOK, MarksOK, FlagsOK,
         SyncedOK, LeaseOK, SnapsOK, WriterOK, ImportOK, PassOK, BoundsOK
  <1>3. ASSUME NEW r \in Ranges, OpenPage(r)
        PROVE  TypeOK'
    <2>1. FlagsOK'
      BY <1>3, BumpTypes DEF OpenPage, FlagsOK
    <2>2. QED
      BY <1>3, <2>1 DEF OpenPage, RowsOK, DaysOK, MarksOK, SyncedOK,
         LeaseOK, SnapsOK, WriterOK, ImportOK, ReaderOK, PassOK, BoundsOK
  <1>4. CASE Reconcile
    <2>1. FlagsOK'
      BY <1>4, Zenon DEF Reconcile, FlagsOK
    <2>2. QED
      BY <1>4, <2>1 DEF Reconcile, RowsOK, DaysOK, MarksOK, SyncedOK,
         LeaseOK, SnapsOK, WriterOK, ImportOK, ReaderOK, PassOK, BoundsOK
  <1>5. CASE LeaseLapses
    <2>1. LeaseOK' /\ BoundsOK'
      BY <1>5 DEF LeaseLapses, LeaseOK, BoundsOK
    <2>2. QED
      BY <1>5, <2>1 DEF LeaseLapses, RowsOK, DaysOK, MarksOK, FlagsOK,
         SyncedOK, SnapsOK, WriterOK, ImportOK, ReaderOK, PassOK
  <1>6. CASE Midnight
    <2>1. today' \in Days
      BY <1>6, ConstantsOK DEF Midnight, Days
    <2>2. QED
      BY <1>6, <2>1 DEF Midnight, RowsOK, DaysOK, MarksOK, FlagsOK, SyncedOK,
         LeaseOK, SnapsOK, WriterOK, ImportOK, ReaderOK, PassOK, BoundsOK
  <1>7. CASE Settle
    <2>1. FlagsOK'
      BY <1>7, Zenon DEF Settle, FlagsOK
    <2>2. QED
      BY <1>7, <2>1 DEF Settle, RowsOK, DaysOK, MarksOK, SyncedOK,
         LeaseOK, SnapsOK, WriterOK, ImportOK, ReaderOK, PassOK, BoundsOK
  <1>8. CASE LoseMessage
    <2>1. FlagsOK'
      BY <1>8, Zenon DEF LoseMessage, FlagsOK
    <2>2. BoundsOK'
      BY <1>8 DEF LoseMessage, Strike, BoundsOK
    <2>3. QED
      BY <1>8, <2>1, <2>2 DEF LoseMessage, RowsOK, DaysOK, MarksOK, SyncedOK,
         LeaseOK, SnapsOK, WriterOK, ImportOK, ReaderOK, PassOK
  <1>9. CASE Evict
    <2>1. DaysOK'
      <3>1. payload' \in [Days -> Versions \cup {Missing}]
        BY <1>9, MarkTypes DEF Evict
      <3>2. epoch' \in Nat \cup {Absent}
        BY <1>9 DEF Evict, DaysOK
      <3>3. QED
        BY <1>9, <3>1, <3>2 DEF Evict, DaysOK
    <2>2. BoundsOK'
      BY <1>9 DEF Evict, Strike, BoundsOK
    <2>3. QED
      BY <1>9, <2>1, <2>2 DEF Evict, RowsOK, MarksOK, FlagsOK, SyncedOK,
         LeaseOK, SnapsOK, WriterOK, ImportOK, ReaderOK, PassOK
  <1>10. QED
    BY <1>1, <1>2, <1>3, <1>4, <1>5, <1>6, <1>7, <1>8, <1>9

LEMMA NextType ==
    ASSUME TypeInv, Next
    PROVE  TypeOK'
  <1>1. TypeOK /\ PassInv
    BY DEF TypeInv
  <1>2. ASSUME NEW w \in Workers,
               \/ Start(w) \/ \E r \in Ranges : StartInline(w, r)
               \/ Step(w)
               \/ Crash(w) \/ Abort(w) \/ Yield(w)
        PROVE  TypeOK'
    BY <1>1, <1>2, StepType, PassEndsType
  <1>3. QED
    BY <1>1, <1>2, WriterType, RefreshType, ImportType, SurroundingsType
       DEF Next

-----------------------------------------------------------------------------
(* What a pass knows survives its own steps *)

LEMMA FinishKnows ==
    ASSUME PassOK, PassInv, NEW w \in Workers, Goto(w, "idle", Idle)
    PROVE  PassInv'
  BY GotoKnows, KnowsNothing

LEMMA StepKnows ==
    ASSUME TypeInv, NEW w \in Workers, Step(w)
    PROVE  PassInv'
  <1> DEFINE p == pass[w]
  <1>0. /\ TypeOK /\ PassOK /\ PassInv /\ p \in Pass /\ pc[w] \in Points
        /\ Knows(pc[w], p)
    BY DEF TypeInv, TypeOK, PassOK, PassInv
  <1>1. CASE Claim(w)
    BY <1>0, <1>1, GotoKnows, KnowsNothing DEF Claim
  <1>2. CASE Busy(w)
    BY <1>0, <1>2, FinishKnows DEF Busy
  <1>3. CASE ReadState(w)
    BY <1>0, <1>3, GotoKnows, KnowsNothing DEF ReadState
  <1>4. CASE PrepareSweep(w)
    BY <1>0, <1>4, GotoKnows, KnowsNothing DEF PrepareSweep
  <1>5. CASE ReadTokens(w)
    BY <1>0, <1>5, GotoKnows, KnowsNothing DEF ReadTokens, NextDays
  <1>6. CASE BuildDay(w)
    BY <1>0, <1>6, GotoKnows, KnowsNothing DEF BuildDay
  <1>7. CASE StoreDay(w)
    BY <1>0, <1>7, GotoKnows, KnowsNothing DEF StoreDay, NextDays
  <1>8. CASE MarkEpoch(w)
    BY <1>0, <1>8, GotoKnows, KnowsNothing DEF MarkEpoch
  <1>9. CASE PlanRanges(w)
    BY <1>0, <1>9, GotoKnows, KnowsNothing DEF PlanRanges, NextRanges
  <1>10. CASE BeginRange(w)
    <2> DEFINE missing(r) == MissingDays(Window[r][today])
               q(r) == [p EXCEPT !.cur = r, !.window = today,
                                 !.left = missing(r)]
               at(r) == IF missing(r) = {} THEN "collect" ELSE "fill"
    <2>1. PICK r \in Ranges : Goto(w, at(r), q(r))
      BY <1>0, <1>10 DEF BeginRange, Pass
    <2>2. today \in Days
      BY <1>0 DEF TypeOK
    <2> HIDE DEF missing
    <2>3. Knows(at(r), q(r))
      BY <1>0, <2>2 DEF Knows, RangeChosen, ReadSoFar, ReadAll, Pass
    <2>4. QED
      BY <1>0, <2>1, <2>3, GotoKnows
  <1>11. CASE BuildMissingDay(w)
    <2>1. PICK d \in p.left :
             Goto(w, "filled", [p EXCEPT !.built = d, !.version = data[d]])
      BY <1>11 DEF BuildMissingDay
    <2>2. Knows("filled", [p EXCEPT !.built = d, !.version = data[d]])
      BY <1>0, <1>11 DEF Knows, RangeChosen, ReadSoFar, ReadAll, Pass,
         BuildMissingDay
    <2>3. QED
      BY <1>0, <2>1, <2>2, GotoKnows
  <1>12. CASE StoreMissingDay(w)
    <2> DEFINE q == [p EXCEPT !.left = @ \ {p.built}, !.built = NoDay,
                              !.version = 0]
               at == IF p.left = {p.built} THEN "collect" ELSE "fill"
    <2>1. Goto(w, at, q)
      BY <1>12 DEF StoreMissingDay
    <2>2. Knows(at, q)
      BY <1>0, <1>12 DEF Knows, RangeChosen, ReadSoFar, ReadAll, Pass,
         StoreMissingDay
    <2>3. QED
      BY <1>0, <2>1, <2>2, GotoKnows
  <1>13. CASE CollectPayloads(w)
    <2> DEFINE D == Window[p.cur][p.window]
               f == [s \in Sources |-> IF s \in D THEN payload[s] ELSE Missing]
               q == [p EXCEPT !.left = MissingDays(D), !.read = f]
    <2>1. Goto(w, "late", q)
      BY <1>13 DEF CollectPayloads
    <2>2. p.cur \in Ranges /\ p.window \in Days
      BY <1>0, <1>13 DEF Knows, RangeChosen, CollectPayloads
    <2>3. D \subseteq Sources
      BY <2>2, ConstantsOK DEF Sources
    <2>4. \A d \in D : f[d] = Missing => d \in MissingDays(D)
      BY <2>3 DEF MissingDays
    <2> HIDE DEF f
    <2>5. /\ q.cur = p.cur /\ q.window = p.window /\ q.read = f
          /\ q.left = MissingDays(D)
      BY <1>0 DEF Pass
    <2>6. Knows("late", q)
      BY <2>2, <2>4, <2>5 DEF Knows, RangeChosen, ReadSoFar, ReadAll
    <2>7. QED
      BY <1>0, <2>1, <2>6, GotoKnows
  <1>14. CASE BuildLateDay(w)
    <2>1. PICK d \in p.left :
             Goto(w, "lateBuilt", [p EXCEPT !.built = d, !.version = data[d]])
      BY <1>14 DEF BuildLateDay
    <2>2. Knows("lateBuilt", [p EXCEPT !.built = d, !.version = data[d]])
      BY <1>0, <1>14 DEF Knows, RangeChosen, ReadSoFar, ReadAll, Pass,
         BuildLateDay
    <2>3. QED
      BY <1>0, <2>1, <2>2, GotoKnows
  <1>15. CASE StoreLateDay(w)
    <2> DEFINE d == p.built
               f == [p.read EXCEPT ![d] = p.version]
               q == [p EXCEPT !.left = p.left \ {d}, !.read = f,
                              !.built = NoDay, !.version = 0]
    <2>1. Goto(w, "late", q)
      BY <1>15 DEF StoreLateDay
    <2>2. /\ p.cur \in Ranges /\ p.window \in Days
          /\ \A e \in Window[p.cur][p.window] : p.read[e] = Missing => e \in p.left
      BY <1>0, <1>15 DEF Knows, RangeChosen, ReadSoFar, StoreLateDay
    <2>3. Window[p.cur][p.window] \subseteq Sources
      BY <2>2, ConstantsOK DEF Sources
    <2>4. p.version # Missing /\ p.read \in [Sources -> Versions \cup {Missing}]
      BY <1>0, ConstantsOK DEF Pass, Versions, Missing
    <2>5. \A e \in Window[p.cur][p.window] : f[e] = Missing => e \in p.left \ {d}
      BY <2>2, <2>3, <2>4
    <2> HIDE DEF f
    <2>6. /\ q.cur = p.cur /\ q.window = p.window /\ q.read = f
          /\ q.left = p.left \ {d}
      BY <1>0 DEF Pass
    <2>7. Knows("late", q)
      BY <2>2, <2>5, <2>6 DEF Knows, RangeChosen, ReadSoFar, ReadAll
    <2>8. QED
      BY <1>0, <2>1, <2>7, GotoKnows
  <1>16. CASE ReadUndated(w)
    <2> DEFINE f == [p.read EXCEPT ![Undated] = data[Undated]]
               q == [p EXCEPT !.read = f]
    <2>1. Goto(w, "publish", q) /\ p.left = {}
      BY <1>16 DEF ReadUndated
    <2>2. /\ p.cur \in Ranges /\ p.window \in Days
          /\ \A e \in Window[p.cur][p.window] : p.read[e] = Missing => e \in p.left
      BY <1>0, <1>16 DEF Knows, RangeChosen, ReadSoFar, ReadUndated
    <2>3. Window[p.cur][p.window] \subseteq Days /\ Undated \notin Days
      BY <2>2, ConstantsOK DEF Days, Undated
    <2>4. data[Undated] # Missing /\ p.read \in [Sources -> Versions \cup {Missing}]
      BY <1>0, ConstantsOK DEF TypeOK, RowsOK, Pass, Versions, Missing, Sources
    <2>5. /\ \A e \in Window[p.cur][p.window] : f[e] = Missing => e \in p.left
          /\ f[Undated] # Missing
      BY <2>2, <2>3, <2>4 DEF Sources
    <2> HIDE DEF f
    <2>6. /\ q.cur = p.cur /\ q.window = p.window /\ q.read = f
          /\ q.left = p.left
      BY <1>0 DEF Pass
    <2>7. Knows("publish", q)
      BY <2>1, <2>2, <2>5, <2>6 DEF Knows, RangeChosen, ReadSoFar, ReadAll
    <2>8. QED
      BY <1>0, <2>1, <2>7, GotoKnows
  <1>17. CASE PublishSnapshot(w)
    BY <1>0, <1>17, GotoKnows, KnowsNothing DEF PublishSnapshot
  <1>18. CASE CheckAfterPublish(w)
    BY <1>0, <1>18, GotoKnows, KnowsNothing DEF CheckAfterPublish, NextRanges
  <1>19. CASE ClearSweep(w)
    BY <1>0, <1>19, GotoKnows, KnowsNothing DEF ClearSweep
  <1>20. CASE RecordMarkers(w)
    BY <1>0, <1>20, GotoKnows, KnowsNothing DEF RecordMarkers
  <1>21. CASE Release(w)
    BY <1>0, <1>21, FinishKnows DEF Release, Finish
  <1>22. CASE YieldToImport(w)
    BY <1>0, <1>22, FinishKnows DEF YieldToImport, Finish
  <1>23. CASE LoseLease(w)
    BY <1>0, <1>23, FinishKnows DEF LoseLease, Finish
  <1>24. QED
    BY <1>1, <1>2, <1>3, <1>4, <1>5, <1>6, <1>7, <1>8, <1>9, <1>10, <1>11,
       <1>12, <1>13, <1>14, <1>15, <1>16, <1>17, <1>18, <1>19, <1>20, <1>21,
       <1>22, <1>23 DEF Step

LEMMA PassEndsKnows ==
    ASSUME TypeInv, NEW w \in Workers,
           \/ Start(w) \/ \E r \in Ranges : StartInline(w, r)
           \/ Crash(w) \/ Abort(w) \/ Yield(w)
    PROVE  PassInv'
  <1>0. PassOK /\ PassInv
    BY DEF TypeInv, TypeOK
  <1>1. CASE Start(w)
    BY <1>0, <1>1, GotoKnows, KnowsNothing, PassFrame DEF Start
  <1>2. ASSUME NEW r \in Ranges, StartInline(w, r)
        PROVE  PassInv'
    BY <1>0, <1>2, GotoKnows, KnowsNothing DEF StartInline
  <1>3. CASE Crash(w)
    BY <1>0, <1>3, FinishKnows DEF Crash
  <1>4. CASE Abort(w)
    BY <1>0, <1>4, FinishKnows DEF Abort, Finish
  <1>5. CASE Yield(w)
    BY <1>0, <1>5, FinishKnows DEF Yield, Finish
  <1>6. QED
    BY <1>1, <1>2, <1>3, <1>4, <1>5

\* Nobody but the workers touches what a pass has in hand.
LEMMA OthersLeavePasses ==
    ASSUME \/ \E x \in Writers : Writer(x)
           \/ \E r \in Ranges : RequestManualRefresh(r)
           \/ Import
           \/ \E x \in Readers : ReaderBuild(x) \/ ReaderStore(x)
           \/ \E r \in Ranges : OpenPage(r)
           \/ Reconcile \/ LeaseLapses \/ Midnight \/ Settle
           \/ LoseMessage \/ Evict
    PROVE  UNCHANGED passVars
  BY DEF Writer, SaveRow, OpenTransaction, MarkDirty, DropPayload, Bump,
     CommitTransaction, RollBack, RequestManualRefresh, Import, ImportCreate,
     ImportOpen, ImportSave, ImportMark, ImportDrop, ImportEnd, ImportClose,
     ImportPublish, ReaderBuild, ReaderStore, OpenPage, Reconcile, LeaseLapses,
     Midnight, Settle, LoseMessage, Evict

-----------------------------------------------------------------------------
(* The invariant holds initially and every step keeps it *)

LEMMA InitTypeInv == Init => TypeInv
  <1> SUFFICES ASSUME Init PROVE TypeInv
    OBVIOUS
  <1> USE ConstantsOK DEF Init
  <1>1. today \in Days /\ RowsOK /\ DaysOK
    BY DEF RowsOK, DaysOK, Versions, Days, Sources, Undated, Missing, Absent
  <1>2. MarksOK /\ SyncedOK /\ LeaseOK /\ BoundsOK
    BY DEF MarksOK, SyncedOK, LeaseOK, BoundsOK, NoDay
  <1>3. FlagsOK
    BY DEF FlagsOK
  <1>4. SnapsOK /\ WriterOK
    BY DEF SnapsOK, WriterOK, Snapshot, Sources
  <1>5. ImportOK /\ ReaderOK
    BY DEF ImportOK, ReaderOK, NoImport, Sources, NoDay, Versions
  <1>6. PassOK
    BY IdleType DEF PassOK, Points
  <1>7. PassInv
    <2>1. ASSUME NEW w \in Workers
          PROVE  pc[w] = "idle"
      OBVIOUS
    <2>2. QED
      BY <2>1, KnowsNothing DEF PassInv
  <1>8. QED
    BY <1>1, <1>2, <1>3, <1>4, <1>5, <1>6, <1>7 DEF TypeInv, TypeOK

LEMMA NextTypeInv == TypeInv /\ [Next]_vars => TypeInv'
  <1> SUFFICES ASSUME TypeInv, [Next]_vars PROVE TypeInv'
    OBVIOUS
  <1>1. TypeOK /\ PassInv
    BY DEF TypeInv
  <1>2. CASE UNCHANGED vars
    <2>1. TypeOK'
      BY <1>1, <1>2 DEF vars, TypeOK, RowsOK, DaysOK, MarksOK, FlagsOK,
         SyncedOK, LeaseOK, SnapsOK, WriterOK, ImportOK, ReaderOK, PassOK,
         BoundsOK
    <2>2. QED
      BY <1>1, <1>2, <2>1, PassFrame DEF TypeInv, vars
  <1>3. CASE Next
    <2>1. ASSUME NEW w \in Workers,
                 \/ Start(w) \/ \E r \in Ranges : StartInline(w, r)
                 \/ Step(w)
                 \/ Crash(w) \/ Abort(w) \/ Yield(w)
          PROVE  PassInv'
      BY <2>1, StepKnows, PassEndsKnows
    <2>2. PassInv'
      BY <1>1, <1>3, <2>1, OthersLeavePasses, PassFrame DEF Next
    <2>3. QED
      BY <1>3, <2>2, NextType DEF TypeInv
  <1>4. QED
    BY <1>2, <1>3

\* Whatever the workers, writers, readers, imports and faults do, every
\* variable keeps its type: in particular a snapshot is only ever published
\* complete, with a version for every source of its window (PublishSnapshot).
THEOREM TypeCorrect == Spec => []TypeOK
  <1>1. Spec => []TypeInv
    BY InitTypeInv, NextTypeInv, PTL DEF Spec
  <1>2. TypeInv => TypeOK
    BY DEF TypeInv
  <1>3. QED
    BY <1>1, <1>2, PTL

-----------------------------------------------------------------------------
(* The generation markers are honest.

   MarkersAreHonest is not inductive: RecordMarkers raises a marker to the
   generation of its pass, so the invariant has to say that by then the pass
   has every range it owes at that generation.  PlanInv says so from the moment
   the ranges are planned: each range due is still to do, or published at the
   pass's generation or later.  It survives other passes because
   publish_snapshot never replaces a snapshot by an older generation, and it
   survives the loss of the lease because nothing lowers a generation. *)

RangePoints == {"ranges", "fill", "filled", "collect", "late", "lateBuilt",
                "publish", "published", "clear", "record"}

Kept(p, q) ==
    p \in RangePoints /\ q.only = NoRange =>
        \A r \in DueRanges(q) : r \in q.todo \/ snaps[r].gen >= q.gen

Done(p, q) == p \in {"clear", "record"} => q.todo = {} /\ q.only = NoRange

PlanInv == \A w \in Workers : Kept(pc[w], pass[w]) /\ Done(pc[w], pass[w])

HonestInv == MarkersAreHonest /\ PlanInv

LEMMA SnapGens ==
    ASSUME SnapsOK, NEW r \in Ranges
    PROVE  snaps[r].gen \in Int
  BY DEF SnapsOK, Snapshot, NoSnap

\* Publishing replaces no snapshot by one of an older generation.
LEMMA GensRise ==
    ASSUME TypeInv, NEW w \in Workers, PublishSnapshot(w)
    PROVE  /\ \A r \in Ranges : snaps'[r].gen >= snaps[r].gen
           /\ snaps'[pass[w].cur].gen >= pass[w].gen
           /\ pass[w].cur \in Ranges
  <1> DEFINE p == pass[w]
             new == [gen |-> StampOf(p), builtDay |-> today,
                     window |-> p.window,
                     shows |-> [s \in {Undated} \cup Window[p.cur][p.window]
                                  |-> p.read[s]]]
  <1>1. SnapsOK /\ p \in Pass /\ p.cur \in Ranges
    BY DEF TypeInv, TypeOK, PassOK, PassInv, Knows, RangeChosen, PublishSnapshot
  <1>2. new.gen = p.gen /\ p.gen \in Nat
    BY <1>1 DEF StampOf, Pass
  <1> HIDE DEF new
  <1>3. snaps' = [snaps EXCEPT ![p.cur] = IF @.gen <= p.gen THEN new ELSE @]
    BY DEF PublishSnapshot, StampOf, new
  <1>4. ASSUME NEW r \in Ranges
        PROVE  snaps'[r] = IF r = p.cur /\ snaps[r].gen <= p.gen
                           THEN new ELSE snaps[r]
    BY <1>1, <1>3 DEF SnapsOK
  <1>5. \A r \in Ranges : snaps'[r].gen >= snaps[r].gen
    BY <1>1, <1>2, <1>4, SnapGens
  <1>6. snaps'[p.cur].gen >= p.gen
    BY <1>1, <1>2, <1>4, SnapGens
  <1>7. QED
    BY <1>1, <1>5, <1>6

\* Before the ranges are planned a pass promises nothing about them.
LEMMA PlansNothing ==
    ASSUME NEW p, NEW q, p \notin RangePoints
    PROVE  Kept(p, q) /\ Done(p, q)
  BY DEF Kept, Done, RangePoints

\* Working on one range changes neither what is due nor what is left to do.
LEMMA SamePlan ==
    ASSUME NEW p1, NEW q1, NEW p2, NEW q2, Kept(p1, q1), p1 \in RangePoints,
           q2.only = q1.only, q2.gen = q1.gen, q2.todo = q1.todo,
           q2.heavyDue = q1.heavyDue, p2 \notin {"clear", "record"}
    PROVE  Kept(p2, q2) /\ Done(p2, q2)
  BY DEF Kept, Done, DueRanges

LEMMA PlanFrame ==
    ASSUME PlanInv, UNCHANGED <<passVars, snaps>>
    PROVE  PlanInv'
  BY DEF PlanInv, Kept, Done, DueRanges

LEMMA GotoPlan ==
    ASSUME PassOK, PlanInv, NEW w \in Workers, NEW p, NEW q, Goto(w, p, q),
           Kept(p, q), Done(p, q), UNCHANGED snaps
    PROVE  PlanInv'
  <1>1. ASSUME NEW v \in Workers
        PROVE  \/ pc'[v] = p /\ pass'[v] = q
               \/ pc'[v] = pc[v] /\ pass'[v] = pass[v]
    BY DEF PassOK, Goto
  <1>2. QED
    BY <1>1 DEF PlanInv, Kept, Done, DueRanges

LEMMA StepPlan ==
    ASSUME TypeInv, PlanInv, NEW w \in Workers, Step(w)
    PROVE  PlanInv'
  <1> DEFINE p == pass[w]
  <1>0. /\ PassOK /\ p \in Pass /\ SnapsOK
        /\ Kept(pc[w], p) /\ Done(pc[w], p)
    BY DEF TypeInv, TypeOK, PassOK, PlanInv
  <1>1. CASE Claim(w)
    BY <1>0, <1>1, GotoPlan, PlansNothing DEF Claim, RangePoints
  <1>2. CASE Busy(w)
    BY <1>0, <1>2, GotoPlan, PlansNothing DEF Busy, RangePoints
  <1>3. CASE ReadState(w)
    BY <1>0, <1>3, GotoPlan, PlansNothing DEF ReadState, RangePoints
  <1>4. CASE PrepareSweep(w)
    BY <1>0, <1>4, GotoPlan, PlansNothing DEF PrepareSweep, RangePoints
  <1>5. CASE ReadTokens(w)
    BY <1>0, <1>5, GotoPlan, PlansNothing DEF ReadTokens, NextDays, RangePoints
  <1>6. CASE BuildDay(w)
    BY <1>0, <1>6, GotoPlan, PlansNothing DEF BuildDay, RangePoints
  <1>7. CASE StoreDay(w)
    BY <1>0, <1>7, GotoPlan, PlansNothing DEF StoreDay, NextDays, RangePoints
  <1>8. CASE MarkEpoch(w)
    BY <1>0, <1>8, GotoPlan, PlansNothing DEF MarkEpoch, RangePoints
  <1>9. CASE PlanRanges(w)
    <2> DEFINE todo == IF p.only # NoRange THEN {p.only}
                       ELSE {r \in DueRanges(p) : NeedsRebuild(r, p)}
               q    == [p EXCEPT !.todo = todo]
    <2>1. Goto(w, NextRanges(p, todo), q)
      BY <1>9 DEF PlanRanges
    <2>2. p.gen \in Nat /\ DueRanges(p) \subseteq Ranges
      BY <1>0 DEF Pass, DueRanges, Ranges
    <2>3. ASSUME p.only = NoRange, NEW r \in DueRanges(p), r \notin todo
          PROVE  snaps[r].gen >= p.gen
      BY <1>0, <2>2, <2>3, SnapGens DEF NeedsRebuild
    <2>4. NextRanges(p, todo) \in {"clear", "record"} =>
              todo = {} /\ p.only = NoRange
      BY DEF NextRanges
    <2> HIDE DEF todo
    <2>5. /\ q.todo = todo /\ q.only = p.only /\ q.gen = p.gen
          /\ DueRanges(q) = DueRanges(p)
      BY <1>0 DEF Pass, DueRanges
    <2>6. Kept(NextRanges(p, todo), q)
      BY <2>3, <2>5 DEF Kept
    <2>7. Done(NextRanges(p, todo), q)
      BY <2>4, <2>5 DEF Done
    <2>8. QED
      BY <1>0, <1>9, <2>1, <2>6, <2>7, GotoPlan DEF PlanRanges
  <1>10. CASE BeginRange(w)
    <2> DEFINE missing(r) == MissingDays(Window[r][today])
               q(r) == [p EXCEPT !.cur = r, !.window = today,
                                 !.left = missing(r)]
               at(r) == IF missing(r) = {} THEN "collect" ELSE "fill"
    <2>1. PICK r \in Ranges : Goto(w, at(r), q(r))
      BY <1>0, <1>10 DEF BeginRange, Pass
    <2> HIDE DEF missing
    <2>0. /\ q(r).only = p.only /\ q(r).gen = p.gen
             /\ q(r).todo = p.todo /\ q(r).heavyDue = p.heavyDue
      BY <1>0 DEF Pass
    <2> HIDE DEF q
    <2>2. Kept(at(r), q(r)) /\ Done(at(r), q(r))
      BY <1>0, <1>10, <2>0, SamePlan DEF BeginRange, RangePoints
    <2>3. QED
      BY <1>0, <1>10, <2>1, <2>2, GotoPlan DEF BeginRange
  <1>11. CASE BuildMissingDay(w)
    <2> DEFINE q(d) == [p EXCEPT !.built = d, !.version = data[d]]
    <2>1. PICK d \in p.left : Goto(w, "filled", q(d))
      BY <1>11 DEF BuildMissingDay
    <2>0. /\ q(d).only = p.only /\ q(d).gen = p.gen
             /\ q(d).todo = p.todo /\ q(d).heavyDue = p.heavyDue
      BY <1>0 DEF Pass
    <2> HIDE DEF q
    <2>2. Kept("filled", q(d)) /\ Done("filled", q(d))
      BY <1>0, <1>11, <2>0, SamePlan DEF BuildMissingDay, RangePoints
    <2>3. QED
      BY <1>0, <1>11, <2>1, <2>2, GotoPlan DEF BuildMissingDay
  <1>12. CASE StoreMissingDay(w)
    <2> DEFINE q == [p EXCEPT !.left = @ \ {p.built}, !.built = NoDay,
                              !.version = 0]
               at == IF p.left = {p.built} THEN "collect" ELSE "fill"
    <2>1. Goto(w, at, q)
      BY <1>12 DEF StoreMissingDay
    <2>0. /\ q.only = p.only /\ q.gen = p.gen
             /\ q.todo = p.todo /\ q.heavyDue = p.heavyDue
      BY <1>0 DEF Pass
    <2> HIDE DEF q
    <2>2. Kept(at, q) /\ Done(at, q)
      BY <1>0, <1>12, <2>0, SamePlan DEF StoreMissingDay, RangePoints
    <2>3. QED
      BY <1>0, <1>12, <2>1, <2>2, GotoPlan DEF StoreMissingDay
  <1>13. CASE CollectPayloads(w)
    <2> DEFINE D == Window[p.cur][p.window]
               f == [s \in Sources |-> IF s \in D THEN payload[s] ELSE Missing]
               q == [p EXCEPT !.left = MissingDays(D), !.read = f]
    <2>1. Goto(w, "late", q)
      BY <1>13 DEF CollectPayloads
    <2> HIDE DEF f, D
    <2>0. /\ q.only = p.only /\ q.gen = p.gen
             /\ q.todo = p.todo /\ q.heavyDue = p.heavyDue
      BY <1>0 DEF Pass
    <2> HIDE DEF q
    <2>2. Kept("late", q) /\ Done("late", q)
      BY <1>0, <1>13, <2>0, SamePlan DEF CollectPayloads, RangePoints
    <2>3. QED
      BY <1>0, <1>13, <2>1, <2>2, GotoPlan DEF CollectPayloads
  <1>14. CASE BuildLateDay(w)
    <2> DEFINE q(d) == [p EXCEPT !.built = d, !.version = data[d]]
    <2>1. PICK d \in p.left : Goto(w, "lateBuilt", q(d))
      BY <1>14 DEF BuildLateDay
    <2>0. /\ q(d).only = p.only /\ q(d).gen = p.gen
             /\ q(d).todo = p.todo /\ q(d).heavyDue = p.heavyDue
      BY <1>0 DEF Pass
    <2> HIDE DEF q
    <2>2. Kept("lateBuilt", q(d)) /\ Done("lateBuilt", q(d))
      BY <1>0, <1>14, <2>0, SamePlan DEF BuildLateDay, RangePoints
    <2>3. QED
      BY <1>0, <1>14, <2>1, <2>2, GotoPlan DEF BuildLateDay
  <1>15. CASE StoreLateDay(w)
    <2> DEFINE f == [p.read EXCEPT ![p.built] = p.version]
               q == [p EXCEPT !.left = p.left \ {p.built}, !.read = f,
                              !.built = NoDay, !.version = 0]
    <2>1. Goto(w, "late", q)
      BY <1>15 DEF StoreLateDay
    <2> HIDE DEF f
    <2>0. /\ q.only = p.only /\ q.gen = p.gen
             /\ q.todo = p.todo /\ q.heavyDue = p.heavyDue
      BY <1>0 DEF Pass
    <2> HIDE DEF q
    <2>2. Kept("late", q) /\ Done("late", q)
      BY <1>0, <1>15, <2>0, SamePlan DEF StoreLateDay, RangePoints
    <2>3. QED
      BY <1>0, <1>15, <2>1, <2>2, GotoPlan DEF StoreLateDay
  <1>16. CASE ReadUndated(w)
    <2> DEFINE f == [p.read EXCEPT ![Undated] = data[Undated]]
               q == [p EXCEPT !.read = f]
    <2>1. Goto(w, "publish", q)
      BY <1>16 DEF ReadUndated
    <2> HIDE DEF f
    <2>0. /\ q.only = p.only /\ q.gen = p.gen
             /\ q.todo = p.todo /\ q.heavyDue = p.heavyDue
      BY <1>0 DEF Pass
    <2> HIDE DEF q
    <2>2. Kept("publish", q) /\ Done("publish", q)
      BY <1>0, <1>16, <2>0, SamePlan DEF ReadUndated, RangePoints
    <2>3. QED
      BY <1>0, <1>16, <2>1, <2>2, GotoPlan DEF ReadUndated
  <1>17. CASE PublishSnapshot(w)
    <2> DEFINE f == [s \in Sources |-> Missing]
               q == [p EXCEPT !.todo = @ \ {p.cur}, !.cur = NoRange,
                              !.window = NoDay, !.read = f]
    <2>1. Goto(w, "published", q)
      BY <1>17 DEF PublishSnapshot
    <2> HIDE DEF f
    <2>2. /\ q.todo = p.todo \ {p.cur} /\ q.only = p.only /\ q.gen = p.gen
          /\ DueRanges(q) = DueRanges(p)
      BY <1>0 DEF Pass, DueRanges
    <2> HIDE DEF q
    <2>3. ASSUME NEW v \in Workers
          PROVE  \/ v = w /\ pc'[v] = "published" /\ pass'[v] = q
                 \/ pc'[v] = pc[v] /\ pass'[v] = pass[v]
      BY <1>0, <2>1 DEF PassOK, Goto
    <2>4. ASSUME NEW v \in Workers,
                 pc'[v] = pc[v] /\ pass'[v] = pass[v]
          PROVE  Kept(pc[v], pass[v])' /\ Done(pc[v], pass[v])'
      <3>1. /\ Kept(pc[v], pass[v]) /\ Done(pc[v], pass[v])
            /\ DueRanges(pass[v]) \subseteq Ranges /\ pass[v].gen \in Nat
        BY <1>0 DEF PlanInv, PassOK, Pass, DueRanges, Ranges
      <3>2. ASSUME NEW r \in Ranges, snaps[r].gen >= pass[v].gen
            PROVE  snaps'[r].gen >= pass[v].gen
        <4>1. SnapsOK' /\ snaps[r].gen \in Int /\ pass[v].gen \in Int
          BY <1>0, <1>17, <3>1, StepType, SnapGens DEF TypeInv, TypeOK, Step
        <4>2. snaps'[r].gen \in Int
          BY <4>1 DEF SnapsOK, Snapshot, NoSnap
        <4>3. snaps'[r].gen >= snaps[r].gen
          BY <1>17, GensRise
        <4>4. QED
          BY <3>2, <4>1, <4>2, <4>3
      <3>3. QED
        BY <2>4, <3>1, <3>2 DEF Kept, Done, DueRanges
    <2>5. ASSUME NEW v \in Workers,
                 v = w /\ pc'[v] = "published" /\ pass'[v] = q
          PROVE  Kept(pc[v], pass[v])' /\ Done(pc[v], pass[v])'
      <3>1. /\ DueRanges(p) \subseteq Ranges /\ p.gen \in Nat
            /\ pc[w] = "publish"
        BY <1>0, <1>17 DEF Pass, DueRanges, Ranges, PublishSnapshot
      <3>2. ASSUME NEW r \in DueRanges(p), p.only = NoRange
            PROVE  r \in q.todo \/ snaps'[r].gen >= p.gen
        <4>1. SnapsOK' /\ snaps[r].gen \in Int /\ p.gen \in Int
          BY <1>0, <1>17, <3>1, StepType, SnapGens DEF TypeInv, TypeOK, Step
        <4>2. snaps'[r].gen \in Int
          BY <3>1, <4>1 DEF SnapsOK, Snapshot, NoSnap
        <4>3. r \in p.todo \/ snaps[r].gen >= p.gen
          BY <1>0, <3>1, <3>2 DEF Kept, RangePoints
        <4>4. /\ snaps'[r].gen >= snaps[r].gen
              /\ snaps'[p.cur].gen >= p.gen
          BY <1>17, <3>1, GensRise
        <4>5. QED
          BY <2>2, <4>1, <4>2, <4>3, <4>4
      <3>3. QED
        BY <2>2, <2>5, <3>2 DEF Kept, Done, DueRanges
    <2>6. QED
      BY <2>3, <2>4, <2>5 DEF PlanInv
  <1>18. CASE CheckAfterPublish(w)
    <2>1. Goto(w, NextRanges(p, p.todo), p)
      BY <1>18 DEF CheckAfterPublish
    <2>2. /\ Kept(NextRanges(p, p.todo), p)
          /\ Done(NextRanges(p, p.todo), p)
      BY <1>0, <1>18 DEF CheckAfterPublish, NextRanges, Kept, Done, RangePoints
    <2>3. QED
      BY <1>0, <1>18, <2>1, <2>2, GotoPlan DEF CheckAfterPublish
  <1>19. CASE ClearSweep(w)
    <2>1. Kept("record", p) /\ Done("record", p)
      BY <1>0, <1>19 DEF ClearSweep, Kept, Done, RangePoints
    <2>2. QED
      BY <1>0, <1>19, <2>1, GotoPlan DEF ClearSweep
  <1>20. CASE RecordMarkers(w)
    BY <1>0, <1>20, GotoPlan, PlansNothing DEF RecordMarkers, RangePoints
  <1>21. CASE Release(w)
    BY <1>0, <1>21, GotoPlan, PlansNothing DEF Release, Finish, RangePoints
  <1>22. CASE YieldToImport(w)
    BY <1>0, <1>22, GotoPlan, PlansNothing DEF YieldToImport, Finish,
       RangePoints
  <1>23. CASE LoseLease(w)
    BY <1>0, <1>23, GotoPlan, PlansNothing DEF LoseLease, Finish, RangePoints
  <1>24. QED
    BY <1>1, <1>2, <1>3, <1>4, <1>5, <1>6, <1>7, <1>8, <1>9, <1>10, <1>11,
       <1>12, <1>13, <1>14, <1>15, <1>16, <1>17, <1>18, <1>19, <1>20, <1>21,
       <1>22, <1>23 DEF Step

LEMMA PassEndsPlan ==
    ASSUME PassOK, PlanInv, NEW w \in Workers,
           \/ Start(w) \/ \E r \in Ranges : StartInline(w, r)
           \/ Crash(w) \/ Abort(w) \/ Yield(w)
    PROVE  PlanInv'
  <1>1. CASE Start(w)
    BY <1>1, GotoPlan, PlansNothing, PlanFrame DEF Start, RangePoints
  <1>2. ASSUME NEW r \in Ranges, StartInline(w, r)
        PROVE  PlanInv'
    BY <1>2, GotoPlan, PlansNothing DEF StartInline, RangePoints
  <1>3. CASE Crash(w)
    BY <1>3, GotoPlan, PlansNothing DEF Crash, RangePoints
  <1>4. CASE Abort(w)
    BY <1>4, GotoPlan, PlansNothing DEF Abort, Finish, RangePoints
  <1>5. CASE Yield(w)
    BY <1>5, GotoPlan, PlansNothing DEF Yield, Finish, RangePoints
  <1>6. QED
    BY <1>1, <1>2, <1>3, <1>4, <1>5

LEMMA OthersLeaveSnapshots ==
    ASSUME \/ \E x \in Writers : Writer(x)
           \/ \E r \in Ranges : RequestManualRefresh(r)
           \/ Import
           \/ \E w \in Workers :
                \/ Start(w) \/ \E r \in Ranges : StartInline(w, r)
                \/ Crash(w) \/ Abort(w) \/ Yield(w)
           \/ \E x \in Readers : ReaderBuild(x) \/ ReaderStore(x)
           \/ \E r \in Ranges : OpenPage(r)
           \/ Reconcile \/ LeaseLapses \/ Midnight \/ Settle
           \/ LoseMessage \/ Evict
    PROVE  UNCHANGED <<snaps, syncedVars>>
  BY DEF Writer, SaveRow, OpenTransaction, MarkDirty, DropPayload, Bump,
     CommitTransaction, RollBack, RequestManualRefresh, Import, ImportCreate,
     ImportOpen, ImportSave, ImportMark, ImportDrop, ImportEnd, ImportClose,
     ImportPublish, Start, StartInline, Crash, Abort, Yield, ReaderBuild,
     ReaderStore, OpenPage, Reconcile, LeaseLapses, Midnight, Settle,
     LoseMessage, Evict

LEMMA StepLeavesMarkers ==
    ASSUME NEW w \in Workers, Step(w), ~PublishSnapshot(w), ~RecordMarkers(w)
    PROVE  UNCHANGED <<snaps, syncedVars>>
  BY DEF Step, Claim, Busy, ReadState, PrepareSweep, ReadTokens, BuildDay,
     StoreDay, MarkEpoch, PlanRanges, BeginRange, BuildMissingDay,
     StoreMissingDay, CollectPayloads, BuildLateDay, StoreLateDay, ReadUndated,
     CheckAfterPublish, ClearSweep, Release, YieldToImport, LoseLease

\* Publishing keeps the markers honest because generations only rise ...
LEMMA PublishHonest ==
    ASSUME TypeInv, TypeOK', MarkersAreHonest, NEW w \in Workers,
           PublishSnapshot(w)
    PROVE  MarkersAreHonest'
  <1>1. /\ SnapsOK /\ hotGen \in Nat /\ heavyGen \in Nat
        /\ UNCHANGED <<hotGen, heavyGen>>
    BY DEF TypeInv, TypeOK, SyncedOK, PublishSnapshot
  <1>2. \A r \in Ranges : snaps'[r].gen \in Int
    BY DEF TypeOK, SnapsOK, Snapshot, NoSnap
  <1>3. \A r \in Ranges : snaps[r].gen \in Int /\ snaps'[r].gen >= snaps[r].gen
    BY <1>1, SnapGens, GensRise
  <1>4. QED
    BY <1>1, <1>2, <1>3 DEF MarkersAreHonest, Ranges

\* ... and recording keeps them so because the plan is done by then.
LEMMA RecordHonest ==
    ASSUME TypeInv, PlanInv, MarkersAreHonest, NEW w \in Workers,
           RecordMarkers(w)
    PROVE  MarkersAreHonest'
  <1> DEFINE p == pass[w]
  <1>1. /\ SnapsOK /\ hotGen \in Nat /\ heavyGen \in Nat /\ p \in Pass
        /\ UNCHANGED snaps /\ pc[w] = "record"
        /\ Kept(pc[w], p) /\ Done(pc[w], p)
    BY DEF TypeInv, TypeOK, SyncedOK, PassOK, RecordMarkers, PlanInv
  <1>2. p.gen \in Nat /\ p.heavyDue \in BOOLEAN
    BY <1>1 DEF Pass
  <1>3. \A r \in DueRanges(p) : snaps[r].gen >= p.gen
    BY <1>1 DEF Kept, Done, RangePoints
  <1>4. /\ hotGen' = hotGen \/ hotGen' = p.gen
        /\ heavyGen' = heavyGen \/ (heavyGen' = p.gen /\ p.heavyDue)
    BY DEF RecordMarkers, Greatest, HeavyDone
  <1>5. ASSUME NEW r \in Hot
        PROVE  snaps'[r].gen >= hotGen' \/ hotGen' = 0
    BY <1>1, <1>3, <1>4 DEF DueRanges, MarkersAreHonest
  <1>6. ASSUME NEW r \in Heavy
        PROVE  snaps'[r].gen >= heavyGen' \/ heavyGen' = 0
    BY <1>1, <1>3, <1>4 DEF DueRanges, MarkersAreHonest
  <1>7. QED
    BY <1>5, <1>6 DEF MarkersAreHonest

LEMMA InitHonestInv == Init => HonestInv
  <1> SUFFICES ASSUME Init PROVE HonestInv
    OBVIOUS
  <1>1. MarkersAreHonest
    BY DEF Init, MarkersAreHonest
  <1>2. ASSUME NEW w \in Workers
        PROVE  pc[w] = "idle"
    BY DEF Init
  <1>3. QED
    BY <1>1, <1>2, PlansNothing DEF HonestInv, PlanInv, RangePoints

LEMMA NextHonestInv ==
    TypeInv /\ TypeInv' /\ HonestInv /\ [Next]_vars => HonestInv'
  <1> SUFFICES ASSUME TypeInv, TypeInv', HonestInv, [Next]_vars
               PROVE  HonestInv'
    OBVIOUS
  <1>1. TypeOK' /\ PassOK /\ PlanInv /\ MarkersAreHonest
    BY DEF TypeInv, TypeOK, HonestInv
  <1>2. ASSUME UNCHANGED <<snaps, syncedVars>>
        PROVE  MarkersAreHonest'
    BY <1>1, <1>2 DEF MarkersAreHonest
  <1>3. CASE UNCHANGED vars
    BY <1>1, <1>2, <1>3, PlanFrame DEF HonestInv, vars
  <1>4. ASSUME NEW w \in Workers, Step(w)
        PROVE  HonestInv'
    <2>1. PlanInv'
      BY <1>1, <1>4, StepPlan
    <2>2. MarkersAreHonest'
      BY <1>1, <1>2, <1>4, PublishHonest, RecordHonest, StepLeavesMarkers
    <2>3. QED
      BY <2>1, <2>2 DEF HonestInv
  <1>5. ASSUME NEW w \in Workers,
               \/ Start(w) \/ \E r \in Ranges : StartInline(w, r)
               \/ Crash(w) \/ Abort(w) \/ Yield(w)
        PROVE  HonestInv'
    <2>1. PlanInv'
      BY <1>1, <1>5, PassEndsPlan
    <2>2. UNCHANGED <<snaps, syncedVars>>
      BY <1>5, OthersLeaveSnapshots
    <2>3. QED
      BY <1>2, <2>1, <2>2 DEF HonestInv
  <1>6. ASSUME \/ \E x \in Writers : Writer(x)
               \/ \E r \in Ranges : RequestManualRefresh(r)
               \/ Import
               \/ \E x \in Readers : ReaderBuild(x) \/ ReaderStore(x)
               \/ \E r \in Ranges : OpenPage(r)
               \/ Reconcile \/ LeaseLapses \/ Midnight \/ Settle
               \/ LoseMessage \/ Evict
        PROVE  HonestInv'
    <2>1. UNCHANGED passVars
      BY <1>6, OthersLeavePasses
    <2>2. UNCHANGED <<snaps, syncedVars>>
      BY <1>6, OthersLeaveSnapshots
    <2>3. QED
      BY <1>1, <1>2, <2>1, <2>2, PlanFrame DEF HonestInv
  <1>7. QED
    BY <1>3, <1>4, <1>5, <1>6 DEF Next

\* hot_synced_generation and heavy_synced_generation never claim more than the
\* snapshots hold, whatever passes crashed, lost their lease, were aborted or
\* overtaken between publishing their ranges and recording the markers.
THEOREM MarkersCorrect == Spec => []MarkersAreHonest
  <1>1. Spec => []TypeInv
    BY InitTypeInv, NextTypeInv, PTL DEF Spec
  <1>2. Spec /\ []TypeInv => []HonestInv
    BY InitHonestInv, NextHonestInv, PTL DEF Spec
  <1>3. HonestInv => MarkersAreHonest
    BY DEF HonestInv
  <1>4. QED
    BY <1>1, <1>2, <1>3, PTL
=============================================================================

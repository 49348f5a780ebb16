------------------------ MODULE MetadataSweep_proofs ------------------------
(***************************************************************************)
(* Proofs about MetadataSweep: types, and that a sweep marked complete has *)
(* left no item untried, for any number of items, sweeps, drains,          *)
(* deployments and faults.                                                 *)
(*                                                                         *)
(* TypeInv says what the types alone do not: an item that waits has failed *)
(* or is pending, so the sweep's query hides no untried item behind its    *)
(* delay.  SweepInv adds that the state row is never ahead of the code,    *)
(* and that a sweep about to mark it complete has already seen every item  *)
(* tried.  An item that was tried stays so while the version stands.       *)
(***************************************************************************)
EXTENDS MetadataSweep, TLAPS

WaitingWasTried == \A i \in Items : row[i].due # "unset" => row[i].fails > 0

TakenIsTracked == \A d \in Drains : drain[d] \subseteq library

ChunksLeft == \A s \in Sweepers : sweep[s].phase = "chunk" => sweep[s].chunks > 0

TypeInv == TypeOK /\ WaitingWasTried /\ TakenIsTracked /\ ChunksLeft

AllTried == \A i \in library \ found : row[i].fails > 0 \/ Completed(i)

AboutToComplete == \A s \in Sweepers : sweep[s].phase = "complete" => AllTried

SweepInv ==
    /\ TypeInv
    /\ state.v <= version
    /\ AboutToComplete
    /\ CompleteMeansTried

-----------------------------------------------------------------------------
(* What the record operators return.                                         *)

LEMMA CountedType ==
    ASSUME NEW n \in 0..MaxAttempts
    PROVE  Counted(n) \in 0..MaxAttempts /\ Counted(n) > 0
BY SweepAssumption, SMT DEF Counted

LEMMA RecordTypes ==
    ASSUME TypeInv, NEW i \in Items
    PROVE  /\ NoRow \in Rows
           /\ Succeeded \in Rows /\ Succeeded.fails = 0 /\ Succeeded.due = "unset"
           /\ ~Succeeded.givenUp /\ Succeeded.success = version
           /\ Pending(row[i]) \in Rows /\ Pending(row[i]).fails > 0
           /\ ~Pending(row[i]).givenUp
           /\ Failed(row[i]) \in Rows /\ Failed(row[i]).fails > 0
           /\ Failed(row[i]).givenUp =>
                 Failed(row[i]).fails = MaxAttempts /\ Failed(row[i]).due = "unset"
<1>1. row[i] \in Rows /\ row[i].fails \in 0..MaxAttempts
  BY DEF TypeInv, TypeOK, Rows
<1>2. Counted(row[i].fails) \in 0..MaxAttempts /\ Counted(row[i].fails) > 0
  BY <1>1, CountedType
<1>3. NoRow \in Rows
  BY SweepAssumption DEF NoRow, Rows
<1>4. version \in 0..MaxVersion /\ 0 \in 0..MaxAttempts
  BY SweepAssumption DEF TypeInv, TypeOK, Versions
<1>5. Succeeded = [fails |-> 0, givenUp |-> FALSE, due |-> "unset", success |-> version]
  BY DEF Succeeded
<1>6. Succeeded \in Rows
  <2>1. [fails |-> 0, givenUp |-> FALSE, due |-> "unset", success |-> version] \in Rows
    BY <1>4 DEF Rows
  <2>. QED
    BY ONLY <2>1, <1>5
<1>7. Pending(row[i]) \in Rows
  BY <1>2, SweepAssumption DEF Pending, Rows
<1>8. Failed(row[i]) \in Rows /\ Failed(row[i]).fails = Counted(row[i].fails)
  BY <1>1, <1>2 DEF Failed, Rows
<1>9. Failed(row[i]).givenUp =>
         Failed(row[i]).fails = MaxAttempts /\ Failed(row[i]).due = "unset"
  BY <1>1, <1>2 DEF Failed, Rows
<1>. QED
  BY <1>2, <1>3, <1>5, <1>6, <1>7, <1>8, <1>9 DEF Pending

\* What recording one of the three outcomes does to the rows.
LEMMA RecordKeepsRows ==
    ASSUME TypeInv, NEW i \in Items,
           NEW r \in {Succeeded, Pending(row[i]), Failed(row[i])},
           Record(i, r)
    PROVE  /\ row' \in [Items -> Rows]
           /\ \A j \in Items : row'[j].givenUp =>
                 row'[j].fails = MaxAttempts /\ row'[j].due = "unset"
           /\ WaitingWasTried'
<1>1. r \in Rows /\ (r.givenUp => r.fails = MaxAttempts /\ r.due = "unset")
        /\ (r.due # "unset" => r.fails > 0)
  BY RecordTypes
<1>2. row' = [row EXCEPT ![i] = r] /\ row \in [Items -> Rows]
  BY DEF Record, TypeInv, TypeOK
<1>3. \A j \in Items : row'[j] = IF j = i THEN r ELSE row[j]
  BY <1>2
<1>. QED
  BY <1>1, <1>2, <1>3 DEF TypeInv, TypeOK, WaitingWasTried

-----------------------------------------------------------------------------
(* Types.                                                                    *)

LEMMA InitTypeInv == Init => TypeInv
<1>. SUFFICES ASSUME Init PROVE TypeInv
  OBVIOUS
<1>1. NoRow \in Rows
  BY SweepAssumption DEF NoRow, Rows
<1>2. Fresh(1) \in [v : Versions, completed : BOOLEAN, waits : BOOLEAN, cursor : 0..MaxItem]
  BY SweepAssumption DEF Fresh, Versions
<1>3. AtRest \in [phase : {"idle", "decide", "acquire", "chunk", "complete", "progress", "release"},
                  start : 0..MaxItem, cursor : 0..MaxItem, chunks : 0..MaxChunks]
  BY SweepAssumption DEF AtRest
<1>4. 1 \in Versions /\ 0 \in 0..MaxFaults
  BY SweepAssumption DEF Versions
<1>5. \A i \in Items : row[i] = NoRow
  BY DEF Init
<1>6. NoRow.givenUp = FALSE /\ NoRow.due = "unset"
  BY DEF NoRow
<1>7. WaitingWasTried /\ TakenIsTracked /\ ChunksLeft
  BY <1>5, <1>6 DEF Init, WaitingWasTried, TakenIsTracked, ChunksLeft, AtRest
<1>. QED
  BY <1>1, <1>2, <1>3, <1>4, <1>5, <1>6, <1>7 DEF Init, TypeInv, TypeOK

LEMMA NextTypeInv == TypeInv /\ [Next]_vars => TypeInv'
<1>. SUFFICES ASSUME TypeInv, [Next]_vars PROVE TypeInv'
  OBVIOUS
<1>. USE DEF TypeInv, TypeOK, TakenIsTracked, ChunksLeft
<1>0. ASSUME UNCHANGED row
      PROVE  /\ row' \in [Items -> Rows]
             /\ \A i \in Items : row'[i].givenUp =>
                   row'[i].fails = MaxAttempts /\ row'[i].due = "unset"
             /\ WaitingWasTried'
  BY <1>0 DEF WaitingWasTried
<1>1. ASSUME NEW i \in Items, Track(i) PROVE TypeInv'
  <2>1. CASE UNCHANGED row
    BY <1>0, <1>1, <2>1 DEF Track
  <2>2. CASE Record(i, Pending(row[i])) /\ UNCHANGED found
    BY <1>1, <2>2, RecordKeepsRows DEF Track
  <2>. QED
    BY <1>1, <2>1, <2>2 DEF Track
<1>2. ASSUME NEW i \in Items, DelayPasses(i) PROVE TypeInv'
  <2>1. row[i] \in Rows /\ row[i].fails > 0 /\ ~row[i].givenUp
    BY <1>2 DEF DelayPasses, WaitingWasTried
  <2>2. row' = [row EXCEPT ![i] = [row[i] EXCEPT !.due = "now"]]
    BY <1>2 DEF DelayPasses
  <2>3. row' \in [Items -> Rows]
    BY <2>1, <2>2 DEF Rows
  <2>4. \A j \in Items : row'[j] = IF j = i THEN [row[i] EXCEPT !.due = "now"] ELSE row[j]
    BY <2>2
  <2>5. [row[i] EXCEPT !.due = "now"].fails = row[i].fails
          /\ [row[i] EXCEPT !.due = "now"].givenUp = row[i].givenUp
    BY <2>1 DEF Rows
  <2>6. WaitingWasTried'
    BY <2>1, <2>4, <2>5 DEF WaitingWasTried
  <2>. QED
    BY <1>2, <2>1, <2>3, <2>4, <2>5, <2>6 DEF DelayPasses
<1>3. CASE WindowPasses
  BY <1>0, <1>3 DEF WindowPasses
<1>4. CASE LockLapses
  BY <1>0, <1>4 DEF LockLapses
<1>5. CASE Deploy
  <2>1. AtRest \in [phase : {"idle", "decide", "acquire", "chunk", "complete", "progress", "release"},
                    start : 0..MaxItem, cursor : 0..MaxItem, chunks : 0..MaxChunks]
    BY SweepAssumption DEF AtRest
  <2>2. version' \in Versions
    BY <1>5, SweepAssumption DEF Deploy, Versions
  <2>. QED
    BY <1>0, <1>5, <2>1, <2>2 DEF Deploy, AtRest
<1>6. ASSUME NEW s \in Sweepers, Beat(s) PROVE TypeInv'
  <2>1. Retries \subseteq Items
    BY DEF Retries
  <2>. QED
    BY <1>0, <1>6, <2>1 DEF Beat
<1>7. ASSUME NEW s \in Sweepers, SweepStep(s) PROVE TypeInv'
  <2>0. AtRest \in [phase : {"idle", "decide", "acquire", "chunk", "complete", "progress", "release"},
                    start : 0..MaxItem, cursor : 0..MaxItem, chunks : 0..MaxChunks]
    BY SweepAssumption DEF AtRest
  <2>f. \A v \in Versions : Fresh(v) \in [v : Versions, completed : BOOLEAN, waits : BOOLEAN,
                                         cursor : 0..MaxItem]
    BY SweepAssumption DEF Fresh
  <2>1. CASE ShouldRun(s)
    <3>1. state' \in [v : Versions, completed : BOOLEAN, waits : BOOLEAN, cursor : 0..MaxItem]
      BY <2>1, <2>f DEF ShouldRun, Current
    <3>. QED
      BY <1>0, <2>0, <2>1, <3>1 DEF ShouldRun, SweepTo, SweepEnds, AtRest
  <2>2. CASE Acquire(s)
    <3>1. MaxChunks \in 0..MaxChunks /\ MaxChunks > 0
      BY SweepAssumption
    <3>2. CASE lock
      BY <1>0, <2>0, <2>2, <3>2 DEF Acquire, SweepEnds, AtRest
    <3>3. CASE ~lock
      <4>1. sweep' \in [Sweepers ->
              [phase : {"idle", "decide", "acquire", "chunk", "complete", "progress", "release"},
               start : 0..MaxItem, cursor : 0..MaxItem, chunks : 0..MaxChunks]]
        BY <2>2, <3>1, <3>3 DEF Acquire
      <4>2. ChunksLeft'
        BY <2>2, <3>1, <3>3 DEF Acquire
      <4>3. state' \in [v : Versions, completed : BOOLEAN, waits : BOOLEAN, cursor : 0..MaxItem]
        BY <2>2, <3>3 DEF Acquire
      <4>. QED
        BY <1>0, <2>2, <3>3, <4>1, <4>2, <4>3 DEF Acquire
    <3>. QED
      BY <3>2, <3>3
  <2>3. CASE SelectChunk(s)
    <3>1. Chunk(s) \subseteq Items /\ Items = 1..MaxItem
      BY DEF Chunk, Ahead, Items
    <3>2. PICK last \in Chunk(s) :
            sweep' = [sweep EXCEPT ![s].cursor = last, ![s].chunks = @ - 1,
                ![s].phase = IF sweep[s].chunks = 1 THEN "progress" ELSE "chunk"]
      BY <2>3 DEF SelectChunk
    <3>a. last \in 0..MaxItem
      BY <3>1, SweepAssumption
    <3>b. sweep[s].chunks \in 0..MaxChunks /\ sweep[s].chunks > 0
      BY <2>3 DEF SelectChunk
    <3>c. sweep[s].chunks - 1 \in 0..MaxChunks
      BY <3>b, SweepAssumption
    <3>d. queue' \subseteq Items
      BY <2>3, <3>1 DEF SelectChunk
    <3>3. /\ last \in 0..MaxItem /\ sweep[s].chunks - 1 \in 0..MaxChunks
          /\ queue' \subseteq Items
      BY <3>a, <3>c, <3>d
    <3>. QED
      BY <1>0, <2>3, <3>2, <3>3 DEF SelectChunk
  <2>4. CASE EndOfTable(s)
    BY <1>0, <2>4, SweepAssumption DEF EndOfTable
  <2>5. CASE MarkComplete(s)
    BY <1>0, <2>5, <2>f DEF MarkComplete, SweepTo
  <2>6. CASE MarkProgress(s)
    BY <1>0, <2>6 DEF MarkProgress, SweepTo
  <2>7. CASE Release(s)
    BY <1>0, <2>0, <2>7 DEF Release, SweepEnds, AtRest
  <2>. QED
    BY <1>7, <2>1, <2>2, <2>3, <2>4, <2>5, <2>6, <2>7 DEF SweepStep
<1>8. ASSUME NEW d \in Drains, Take(d) PROVE TypeInv'
  <2>1. {i \in queue : Wanted(i)} \subseteq Items \cap library
    BY DEF Wanted
  <2>. QED
    BY <1>0, <1>8, <2>1 DEF Take
<1>9. ASSUME NEW d \in Drains, NEW i \in Items, Try(d, i) PROVE TypeInv'
  <2>1. /\ row' \in [Items -> Rows]
        /\ \A j \in Items : row'[j].givenUp =>
              row'[j].fails = MaxAttempts /\ row'[j].due = "unset"
        /\ WaitingWasTried'
    BY <1>9, RecordKeepsRows DEF Try
  <2>2. drain' \in [Drains -> SUBSET Items] /\ queue' \subseteq Items /\ TakenIsTracked'
    <3>1. CASE drain' = [drain EXCEPT ![d] = @ \ {i}] /\ UNCHANGED queue
      BY <1>9, <3>1 DEF Try
    <3>2. CASE /\ drain' = [drain EXCEPT ![d] = {}]
               /\ queue' = queue \cup {j \in drain[d] \ {i} : ~Blocked(j)}
      <4>1. {j \in drain[d] \ {i} : ~Blocked(j)} \subseteq Items
        OBVIOUS
      <4>. QED
        BY <1>9, <3>2, <4>1 DEF Try
    <3>. QED
      BY <1>9, <3>1, <3>2 DEF Try, Rest
  <2>3. found' \subseteq library
    BY <1>9 DEF Try
  <2>. QED
    BY <1>9, <2>1, <2>2, <2>3 DEF Try
<1>10. CASE Broken
  <2>0. AtRest \in [phase : {"idle", "decide", "acquire", "chunk", "complete", "progress", "release"},
                    start : 0..MaxItem, cursor : 0..MaxItem, chunks : 0..MaxChunks]
    BY SweepAssumption DEF AtRest
  <2>1. ASSUME Fault PROVE faults' \in 0..MaxFaults
    BY <2>1, SweepAssumption DEF Fault
  <2>2. ASSUME NEW s \in Sweepers, SweepFails(s) \/ SweepDies(s) PROVE TypeInv'
    BY <1>0, <2>0, <2>1, <2>2 DEF SweepFails, SweepDies, SweepEnds, SweepTo, AtRest
  <2>3. ASSUME NEW d \in Drains, DrainDies(d) PROVE TypeInv'
    BY <1>0, <2>1, <2>3 DEF DrainDies
  <2>4. CASE LoseQueued
    BY <1>0, <2>1, <2>4 DEF LoseQueued
  <2>. QED
    BY <1>10, <2>2, <2>3, <2>4 DEF Broken
<1>11. CASE UNCHANGED vars
  BY <1>0, <1>11 DEF vars
<1>. QED
  BY <1>1, <1>2, <1>3, <1>4, <1>5, <1>6, <1>7, <1>8, <1>9, <1>10, <1>11 DEF Next

\* TypeOK holds in every reachable state.
THEOREM TypeCorrect == Spec => []TypeOK
<1>1. TypeInv => TypeOK
  BY DEF TypeInv
<1>. QED
  BY <1>1, InitTypeInv, NextTypeInv, PTL DEF Spec

-----------------------------------------------------------------------------
(* A complete sweep left nothing untried.                                    *)

\* What was tried stays tried while the version stands: every outcome leaves a
\* failure, a pending answer or a success of this version.
LEMMA TriedStaysTried ==
    ASSUME TypeInv, AllTried, [Next]_vars, UNCHANGED version
    PROVE  AllTried'
<1>. USE DEF TypeInv, TypeOK, AllTried
<1>0. ASSUME UNCHANGED <<library, row>>, found \subseteq found' PROVE AllTried'
  BY <1>0 DEF Completed
<1>1. ASSUME NEW i \in Items, Track(i) PROVE AllTried'
  <2>1. CASE found' = found \cup {i} /\ UNCHANGED row
    BY <1>1, <2>1 DEF Track, Completed
  <2>2. CASE Record(i, Pending(row[i])) /\ UNCHANGED found
    <3>1. \A j \in Items : row'[j] = IF j = i THEN Pending(row[i]) ELSE row[j]
      BY <2>2 DEF Record
    <3>2. Pending(row[i]).fails > 0
      BY RecordTypes
    <3>. QED
      BY <1>1, <2>2, <3>1, <3>2 DEF Track, Completed
  <2>. QED
    BY <1>1, <2>1, <2>2 DEF Track
<1>2. ASSUME NEW i \in Items, DelayPasses(i) PROVE AllTried'
  <2>1. \A j \in Items : /\ row'[j].fails = row[j].fails
                         /\ row'[j].givenUp = row[j].givenUp
                         /\ row'[j].success = row[j].success
    BY <1>2 DEF DelayPasses, Rows
  <2>. QED
    BY <1>2, <2>1 DEF DelayPasses, Completed
<1>3. ASSUME NEW d \in Drains, NEW i \in Items, Try(d, i) PROVE AllTried'
  <2>1. PICK r \in {Succeeded, Pending(row[i]), Failed(row[i])} :
           Record(i, r) /\ found \subseteq found'
    BY <1>3 DEF Try
  <2>2. \A j \in Items : row'[j] = IF j = i THEN r ELSE row[j]
    BY <2>1 DEF Record
  <2>3. r.fails > 0 \/ (r = Succeeded /\ Succeeded.fails = 0 /\ ~Succeeded.givenUp
                          /\ Succeeded.success = version)
    BY RecordTypes
  <2>4. i \in Items /\ (row'[i].fails > 0 \/ Completed(i)')
    BY <2>2, <2>3 DEF Completed, Versions
  <2>5. \A j \in (library \ found) \ {i} : row'[j].fails > 0 \/ Completed(j)'
    BY <2>2 DEF Completed
  <2>. QED
    BY <1>3, <2>1, <2>4, <2>5 DEF Try
<1>4. ASSUME UNCHANGED <<library, row, found>> PROVE AllTried'
  BY <1>0, <1>4
<1>5. CASE WindowPasses \/ LockLapses \/ Deploy
  BY <1>4, <1>5 DEF WindowPasses, LockLapses, Deploy
<1>6. ASSUME NEW s \in Sweepers, Beat(s) \/ SweepStep(s) PROVE AllTried'
  BY <1>4, <1>6 DEF Beat, SweepStep, ShouldRun, Acquire, SelectChunk, EndOfTable,
                    MarkComplete, MarkProgress, Release
<1>7. ASSUME NEW d \in Drains, Take(d) PROVE AllTried'
  BY <1>4, <1>7 DEF Take
<1>8. CASE Broken
  BY <1>0, <1>8 DEF Broken, SweepFails, SweepDies, DrainDies, LoseQueued
<1>9. CASE UNCHANGED vars
  BY <1>4, <1>9 DEF vars
<1>. QED
  BY <1>1, <1>2, <1>3, <1>5, <1>6, <1>7, <1>8, <1>9 DEF Next

\* A query from the top that finds nothing has found every item tried: none is
\* hidden behind a delay or a verdict without a failure on record.
LEMMA NothingAheadOfTheTop ==
    ASSUME TypeInv, NEW s \in Sweepers, sweep[s].cursor = 0, Ahead(s) = {}
    PROVE  AllTried
<1>. SUFFICES ASSUME NEW i \in library \ found, row[i].fails = 0, ~Completed(i)
              PROVE  FALSE
  <2>1. \A i \in library \ found : row[i] \in Rows
    BY DEF TypeInv, TypeOK
  <2>. QED
    BY <2>1 DEF AllTried, Rows
<1>1. i \in Items /\ i > 0
  BY DEF TypeInv, TypeOK, Items
<1>2. row[i].due = "unset" /\ ~row[i].givenUp
  BY <1>1, SweepAssumption DEF TypeInv, TypeOK, WaitingWasTried
<1>3. Candidate(i)
  BY <1>2 DEF Candidate, Wanted, Blocked
<1>. QED
  BY <1>1, <1>3 DEF Ahead

LEMMA InitSweepInv == Init => SweepInv
BY InitTypeInv DEF Init, SweepInv, Fresh, AtRest, AboutToComplete, CompleteMeansTried

LEMMA NextSweepInv == SweepInv /\ [Next]_vars => SweepInv'
<1>. SUFFICES ASSUME SweepInv, [Next]_vars PROVE SweepInv'
  OBVIOUS
<1>0. TypeInv /\ TypeInv'
  BY NextTypeInv DEF SweepInv
<1>v. version \in Nat /\ state.v \in Nat
  BY <1>0 DEF TypeInv, TypeOK, Versions
<1>a. ASSUME UNCHANGED version, AllTried PROVE AllTried'
  BY <1>0, <1>a, TriedStaysTried
\* A step that brings no sweep to "complete" and no completion to the state row.
<1>k. ASSUME UNCHANGED version,
             \A s \in Sweepers : sweep'[s].phase = "complete" => sweep[s].phase = "complete",
             state'.v <= version,
             state'.completed => state.completed /\ state.v = state'.v
      PROVE  SweepInv'
  BY <1>0, <1>a, <1>k DEF SweepInv, AboutToComplete, CompleteMeansTried, AllTried
<1>1. ASSUME UNCHANGED <<version, sweep, state>> PROVE SweepInv'
  BY <1>1, <1>k DEF SweepInv
<1>2. CASE \E i \in Items : Track(i) \/ DelayPasses(i)
  BY <1>1, <1>2 DEF Track, DelayPasses
<1>3. CASE LockLapses \/ \E d \in Drains : Take(d) \/ \E i \in Items : Try(d, i)
  BY <1>1, <1>3 DEF LockLapses, Take, Try
<1>4. CASE WindowPasses
  BY <1>0, <1>4, <1>k DEF WindowPasses, SweepInv, TypeInv, TypeOK
<1>5. CASE Deploy
  BY <1>0, <1>v, <1>5 DEF Deploy, SweepInv, AboutToComplete, CompleteMeansTried, AtRest
<1>6. ASSUME NEW s \in Sweepers, Beat(s) PROVE SweepInv'
  BY <1>0, <1>6, <1>k DEF Beat, SweepInv, TypeInv, TypeOK
<1>7. ASSUME NEW s \in Sweepers, SweepStep(s) PROVE SweepInv'
  <2>1. CASE ShouldRun(s)
    <3>1. /\ state'.v <= version
          /\ state'.completed => state.completed /\ state.v = state'.v
      BY <1>v, <2>1 DEF ShouldRun, Current, Fresh, SweepInv
    <3>2. \A t \in Sweepers : sweep'[t].phase = "complete" => sweep[t].phase = "complete"
      BY <1>0, <2>1 DEF ShouldRun, SweepTo, SweepEnds, AtRest, TypeInv, TypeOK
    <3>. QED
      BY <1>k, <2>1, <3>1, <3>2 DEF ShouldRun
  <2>2. CASE Acquire(s)
    <3>1. state'.v = state.v /\ state'.completed = state.completed
      BY <1>0, <2>2 DEF Acquire, TypeInv, TypeOK
    <3>2. \A t \in Sweepers : sweep'[t].phase = "complete" => sweep[t].phase = "complete"
      BY <1>0, <2>2 DEF Acquire, SweepEnds, AtRest, TypeInv, TypeOK
    <3>. QED
      BY <1>k, <2>2, <3>1, <3>2 DEF Acquire, SweepInv
  <2>3. CASE SelectChunk(s)
    BY <1>0, <1>k, <2>3 DEF SelectChunk, SweepInv, TypeInv, TypeOK
  <2>4. CASE EndOfTable(s)
    <3>1. CASE FromTheTop(s)
      <4>1. AllTried
        BY <1>0, <2>4, <3>1, NothingAheadOfTheTop DEF EndOfTable, FromTheTop
      <4>2. AllTried'
        BY <1>a, <2>4, <4>1 DEF EndOfTable
      <4>. QED
        BY <1>0, <2>4, <4>2 DEF EndOfTable, SweepInv, AboutToComplete, CompleteMeansTried, AllTried
    <3>2. CASE ~FromTheTop(s)
      <4>1. \A t \in Sweepers : sweep'[t].phase = "complete" => sweep[t].phase = "complete"
        BY <1>0, <2>4, <3>2 DEF EndOfTable, TypeInv, TypeOK
      <4>. QED
        BY <1>k, <2>4, <4>1 DEF EndOfTable, SweepInv
    <3>. QED
      BY <3>1, <3>2
  <2>5. CASE MarkComplete(s)
    <3>1. AllTried /\ AllTried'
      BY <1>a, <2>5 DEF MarkComplete, SweepInv, AboutToComplete
    <3>2. state'.v = state.v
      BY <2>5 DEF MarkComplete, Fresh
    <3>. QED
      BY <1>0, <2>5, <3>1, <3>2
         DEF MarkComplete, SweepInv, AboutToComplete, CompleteMeansTried, AllTried
  <2>6. CASE MarkProgress(s)
    <3>1. state'.v = state.v /\ state'.completed = state.completed
      BY <1>0, <2>6 DEF MarkProgress, TypeInv, TypeOK
    <3>2. \A t \in Sweepers : sweep'[t].phase = "complete" => sweep[t].phase = "complete"
      BY <1>0, <2>6 DEF MarkProgress, SweepTo, TypeInv, TypeOK
    <3>. QED
      BY <1>k, <2>6, <3>1, <3>2 DEF MarkProgress, SweepInv
  <2>7. CASE Release(s)
    BY <1>0, <1>k, <2>7 DEF Release, SweepEnds, AtRest, SweepInv, TypeInv, TypeOK
  <2>. QED
    BY <1>7, <2>1, <2>2, <2>3, <2>4, <2>5, <2>6, <2>7 DEF SweepStep
<1>8. CASE Broken
  <2>1. ASSUME NEW s \in Sweepers, SweepFails(s) \/ SweepDies(s) PROVE SweepInv'
    <3>1. \A t \in Sweepers : sweep'[t].phase = "complete" => sweep[t].phase = "complete"
      BY <1>0, <2>1 DEF SweepFails, SweepDies, SweepTo, SweepEnds, AtRest, TypeInv, TypeOK
    <3>. QED
      BY <1>k, <2>1, <3>1 DEF SweepFails, SweepDies, SweepInv
  <2>2. CASE LoseQueued \/ \E d \in Drains : DrainDies(d)
    BY <1>1, <2>2 DEF LoseQueued, DrainDies
  <2>. QED
    BY <1>8, <2>1, <2>2 DEF Broken
<1>9. CASE UNCHANGED vars
  BY <1>1, <1>9 DEF vars
<1>. QED
  BY <1>2, <1>3, <1>4, <1>5, <1>6, <1>7, <1>8, <1>9 DEF Next

\* CompleteMeansTried holds in every reachable state: however sweeps overlap, and
\* whatever is lost on the way, a library marked reconciled holds no untried item.
THEOREM CompleteIsHonest == Spec => []CompleteMeansTried
<1>1. SweepInv => CompleteMeansTried
  BY DEF SweepInv
<1>. QED
  BY <1>1, InitSweepInv, NextSweepInv, PTL DEF Spec

=============================================================================

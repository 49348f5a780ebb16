------------------------- MODULE ChangeFeed_proofs -------------------------
(* Proofs about ChangeFeed, for every number of items, values, clients,     *)
(* walks, imports, sequences and generations.                               *)
EXTENDS ChangeFeed, TLAPS

USE FeedAssumption

-----------------------------------------------------------------------------
(* Type correctness.                                                        *)

Places == 0..MaxItem
Cursors == 0..MaxSequence + 1

WalkOf == [phase : {"idle", "look", "project", "save", "end"}, gen : Nat,
           at : Places, next : Places]
BatchOf == [phase : {"idle", "written", "derived", "insert", "project"},
            item : Places, val : Rows]
ClientOf == [phase : {"off", "snap", "replay", "live"}, res : Resources, gen : Nat,
             base : Cursors, ceil : Places, after : Places, cursor : Cursors,
             view : [Items -> Rows]]

SequenceOK ==
    /\ lastSequence \in Cursors
    /\ emitChanges \in BOOLEAN
    /\ apiFeedEnabled \in BOOLEAN
    /\ generation \in Nat
    /\ floor \in [Resources -> 0..lastSequence]
    /\ apiFeedEnabled \/ lastSequence <= MaxSequence

LibraryOK ==
    /\ made \in Places
    /\ live \subseteq 1..made
    /\ src \in [Items -> Rows]
    /\ asserted \subseteq live

StateOK == state \in [Resources -> [Items -> Rows]]

LogOK ==
    /\ log \subseteq Changes
    /\ \A c \in log : c.seq \in 1..lastSequence

RepairOK ==
    /\ repaired \in BOOLEAN
    /\ saved \in Places

WalkersOK == walker \in [Walkers -> WalkOf]
BatchesOK ==
    /\ batch \in [Imports -> BatchOf]
    /\ \A m \in Imports : batch[m].phase # "idle" => batch[m].item \in Items

ClientsOK == client \in [Clients -> ClientOf]

\* TypeOK by parts, each of which few steps disturb; stronger in two places that
\* it needs: the bootstrap that turns the feed on has a sequence left to take, and
\* a batch at work has an item.
TypeInv ==
    /\ SequenceOK /\ LibraryOK /\ StateOK /\ LogOK /\ RepairOK
    /\ WalkersOK /\ BatchesOK /\ ClientsOK

LEMMA TypeParts == TypeInv => TypeOK
  BY DEF TypeInv, TypeOK, SequenceOK, LibraryOK, StateOK, LogOK, RepairOK, WalkersOK, BatchesOK,
         ClientsOK, Places, Cursors, WalkOf, BatchOf, ClientOf

LEMMA PlacesOfItems ==
    /\ 0 \in Places
    /\ Items \subseteq Places
    /\ \A i \in Items : i \in Nat /\ i > 0
    /\ Places \subseteq Nat
    /\ None \notin Items
    /\ 0 \in Cursors
    /\ Cursors \subseteq Nat
  BY DEF Places, Items, Cursors

LEMMA DerivedIsAValue ==
    ASSUME NEW rows \in Rows
    PROVE  Derived(rows) \in Values /\ Derived(rows) \in Rows /\ Derived(rows) # None
  BY DEF Derived, Rows

\* A state, its row, or neither.
LEMMA StoreType ==
    ASSUME StateOK, NEW r \in Resources, NEW i \in Items, NEW v \in Rows, Store(r, i, v)
    PROVE  StateOK'
  <1>1. [state[r] EXCEPT ![i] = v] \in [Items -> Rows] BY DEF StateOK
  <1> QED BY <1>1 DEF Store, StateOK

LEMMA RecordType ==
    ASSUME SequenceOK, LogOK, NEW r \in Resources, NEW i \in Items, NEW v \in Rows,
           Record(r, i, v)
    PROVE  /\ LogOK'
           /\ lastSequence' \in Cursors
           /\ lastSequence' = lastSequence + 1
           /\ lastSequence' <= MaxSequence
           /\ floor \in [Resources -> 0..lastSequence']
  <1>1. lastSequence \in Nat /\ lastSequence < MaxSequence
    BY DEF SequenceOK, Record, Cursors
  <1>2. /\ lastSequence' = lastSequence + 1 /\ lastSequence' \in Cursors
        /\ lastSequence' <= MaxSequence
    BY <1>1 DEF Record, Cursors
  <1>3. [seq |-> lastSequence + 1, res |-> r, item |-> i, val |-> v] \in Changes
    BY <1>1 DEF Changes
  <1>4. LogOK' BY <1>1, <1>2, <1>3 DEF LogOK, Record
  <1>5. \A x \in Resources : floor[x] \in 0..lastSequence'
    BY <1>1, <1>2 DEF SequenceOK
  <1>6. floor \in [Resources -> 0..lastSequence'] BY <1>5 DEF SequenceOK
  <1> QED BY <1>2, <1>4, <1>6

\* A recomputed state.
LEMMA ProjectType ==
    ASSUME SequenceOK, LogOK, StateOK, NEW i \in Items, NEW rows \in Rows,
           Project(i, rows)
    PROVE  /\ LogOK' /\ StateOK'
           /\ lastSequence' \in Cursors
           /\ lastSequence' <= MaxSequence \/ lastSequence' = lastSequence
           /\ floor \in [Resources -> 0..lastSequence']
  <1>1. "watched" \in Resources /\ Derived(rows) \in Rows
    BY DerivedIsAValue DEF Resources
  <1>2. CASE UNCHANGED <<lastSequence, log, state>>
    BY <1>2 DEF SequenceOK, LogOK, StateOK
  <1>3. CASE Store("watched", i, Derived(rows)) /\ Record("watched", i, Derived(rows))
    BY <1>1, <1>3, StoreType, RecordType
  <1>4. CASE Store("watched", i, Derived(rows)) /\ UNCHANGED <<lastSequence, log>>
    BY <1>1, <1>4, StoreType DEF SequenceOK, LogOK
  <1> QED BY <1>2, <1>3, <1>4 DEF Project

LEMMA RestTypes == Away \in ClientOf /\ AtRest \in WalkOf /\ NoBatch \in BatchOf
  BY PlacesOfItems DEF Away, AtRest, NoBatch, ClientOf, WalkOf, BatchOf, Empty, Rows,
     Resources

LEMMA TypeInit == Init => TypeInv
  <1> SUFFICES ASSUME Init PROVE TypeInv
    OBVIOUS
  <1>1. SequenceOK
    <2>1. 0 \in 0..lastSequence BY DEF Init
    <2>2. floor \in [Resources -> 0..lastSequence] BY <2>1 DEF Init
    <2>3. 0 <= MaxSequence OBVIOUS
    <2> QED BY <2>2, <2>3, PlacesOfItems DEF Init, SequenceOK
  <1>2. LibraryOK BY DEF Init, LibraryOK, Places
  <1>3. StateOK
    <2>1. PICK old \in [Items -> {None, Unwatched}] :
              state = [r \in Resources |-> IF r = "watched" THEN old ELSE Empty]
      BY DEF Init
    <2>2. old \in [Items -> Rows] /\ Empty \in [Items -> Rows]
      BY DEF Rows, Empty
    <2> QED BY <2>1, <2>2 DEF StateOK
  <1>4. LogOK BY DEF Init, LogOK
  <1>5. RepairOK BY PlacesOfItems DEF Init, RepairOK
  <1>6. WalkersOK /\ ClientsOK
    BY RestTypes DEF Init, WalkersOK, ClientsOK
  <1>7. BatchesOK
    BY RestTypes DEF Init, BatchesOK, NoBatch
  <1> QED BY <1>1, <1>2, <1>3, <1>4, <1>5, <1>6, <1>7 DEF TypeInv

\* A bulk write, whichever way it goes.
LEMMA BulkType ==
    ASSUME TypeInv, NEW i \in Items, NEW v \in Rows, BulkWrite(i, v)
    PROVE  SequenceOK' /\ LibraryOK' /\ StateOK' /\ LogOK' /\ RepairOK'
  <1> USE DEF TypeInv
  <1>1. src' \in [Items -> Rows]
    BY DEF BulkWrite, BulkQuietly, BulkProjected, LibraryOK
  <1>2. asserted' \subseteq asserted
    BY DEF BulkWrite, BulkQuietly, BulkProjected
  <1>3. LibraryOK' BY <1>1, <1>2 DEF BulkWrite, LibraryOK
  <1>4. CASE BulkQuietly(i, v)
    <2>1. generation' \in Nat BY <1>4 DEF BulkQuietly, SequenceOK
    <2> QED
      BY <1>3, <1>4, <2>1, PlacesOfItems
      DEF BulkWrite, BulkQuietly, SequenceOK, StateOK, LogOK, RepairOK
  <1>5. CASE BulkProjected(i, v)
    <2>1. /\ LogOK' /\ StateOK'
          /\ lastSequence' \in Cursors
          /\ lastSequence' <= MaxSequence \/ lastSequence' = lastSequence
          /\ floor \in [Resources -> 0..lastSequence']
      BY <1>5, ProjectType DEF BulkProjected
    <2> QED
      BY <1>3, <1>5, <2>1 DEF BulkWrite, BulkProjected, SequenceOK, RepairOK, repairVars
  <1> QED BY <1>4, <1>5 DEF BulkWrite

\* What is left of the log keeps its place in it.
LEMMA DeleteType ==
    ASSUME TypeInv, NEW i \in Items, DeleteItem(i)
    PROVE  TypeInv'
  <1> USE DEF TypeInv
  <1>1. LibraryOK'
    <2>1. src' \in [Items -> Rows] BY DEF DeleteItem, LibraryOK, Rows
    <2> QED BY <2>1 DEF DeleteItem, LibraryOK
  <1>2. StateOK'
    <2>1. \A r \in Resources : [state[r] EXCEPT ![i] = None] \in [Items -> Rows]
      BY DEF StateOK, Rows
    <2> QED BY <2>1 DEF DeleteItem, StateOK
  <1>3. LogOK'
    <2>1. \A c \in log : LET d == [c EXCEPT !.item = IF c.item = i THEN None ELSE c.item]
                         IN  d \in Changes /\ d.seq = c.seq
      BY DEF LogOK, Changes
    <2>2. \A d \in log' : \E c \in log :
             d = [c EXCEPT !.item = IF c.item = i THEN None ELSE c.item]
      BY DEF DeleteItem
    <2>3. lastSequence' = lastSequence BY DEF DeleteItem
    <2>4. ASSUME NEW d \in log' PROVE d \in Changes /\ d.seq \in 1..lastSequence
      <3>1. PICK c \in log : d = [c EXCEPT !.item = IF c.item = i THEN None ELSE c.item]
        BY <2>2
      <3>2. c.seq \in 1..lastSequence BY DEF LogOK
      <3> QED BY <2>1, <3>1, <3>2
    <2> QED BY <2>3, <2>4 DEF LogOK
  <1>4. generation' \in Nat BY DEF DeleteItem, FenceDeletion, SequenceOK
  <1>5. floor' \in [Resources -> 0..lastSequence]
    <2>1. CASE UNCHANGED floor BY <2>1 DEF SequenceOK
    <2>2. ASSUME NEW top \in ProgressOf(i), floor' = [floor EXCEPT !["progress"] = top.seq]
          PROVE  floor' \in [Resources -> 0..lastSequence]
      <3>1. top.seq \in 0..lastSequence BY DEF ProgressOf, LogOK
      <3> HIDE DEF SequenceOK
      <3>2. floor \in [Resources -> 0..lastSequence] BY DEF SequenceOK
      <3> QED BY <2>2, <3>1, <3>2
    <2> QED BY <2>1, <2>2 DEF DeleteItem
  <1>6. SequenceOK' BY <1>4, <1>5 DEF DeleteItem, SequenceOK
  <1> QED
    BY <1>1, <1>2, <1>3, <1>6
    DEF DeleteItem, repairVars, RepairOK, WalkersOK, BatchesOK, ClientsOK

\* Steps of the library's owner.
LEMMA EditType ==
    ASSUME TypeInv, Edits
    PROVE  TypeInv'
  <1> USE DEF TypeInv
  <1>0. Values \subseteq Rows BY DEF Rows
  <1>1. CASE CreateItem
    <2>1. made' \in Places /\ live' \subseteq 1..made' /\ asserted' \subseteq live'
      BY <1>1 DEF CreateItem, LibraryOK, Places
    <2>2. LibraryOK' BY <1>1, <2>1 DEF CreateItem, LibraryOK
    <2> QED
      BY <1>1, <2>2
      DEF CreateItem, sequenceVars, repairVars, SequenceOK, StateOK, LogOK, RepairOK,
          WalkersOK, BatchesOK, ClientsOK
  <1>2. ASSUME NEW i \in Items, NEW v \in Rows, LocalEdit(i, v) PROVE TypeInv'
    <2>1. /\ LogOK' /\ StateOK'
          /\ lastSequence' \in Cursors
          /\ lastSequence' <= MaxSequence \/ lastSequence' = lastSequence
          /\ floor \in [Resources -> 0..lastSequence']
      BY <1>2, ProjectType DEF LocalEdit
    <2>2. LibraryOK' BY <1>2 DEF LocalEdit, LibraryOK
    <2>3. SequenceOK' BY <1>2, <2>1 DEF LocalEdit, SequenceOK
    <2> QED
      BY <1>2, <2>1, <2>2, <2>3
      DEF LocalEdit, repairVars, RepairOK, WalkersOK, BatchesOK, ClientsOK
  <1>3. ASSUME NEW i \in Items, NEW v \in Values, BulkUpdate(i, v) PROVE TypeInv'
    BY <1>3, BulkType, <1>0
    DEF BulkUpdate, BulkWrite, BatchesOK, WalkersOK, ClientsOK
  <1>4. ASSUME NEW i \in Items, NEW v \in Values, PutState(i, v) PROVE TypeInv'
    <2>1. "watched" \in Resources /\ v \in Rows BY <1>0 DEF Resources
    <2>2. /\ LogOK' /\ StateOK'
          /\ lastSequence' \in Cursors
          /\ lastSequence' <= MaxSequence \/ lastSequence' = lastSequence
          /\ floor \in [Resources -> 0..lastSequence']
      BY <1>4, <2>1, StoreType, RecordType DEF PutState
    <2>3. LibraryOK' BY <1>4 DEF PutState, LibraryOK, libraryVars
    <2>4. SequenceOK' BY <1>4, <2>2 DEF PutState, SequenceOK
    <2> QED
      BY <1>4, <2>2, <2>3, <2>4
      DEF PutState, repairVars, RepairOK, WalkersOK, BatchesOK, ClientsOK
  <1>5. ASSUME NEW i \in Resumable, NEW v \in Rows, ProgressEdit(i, v) PROVE TypeInv'
    <2>1. "progress" \in Resources /\ i \in Items BY DEF Resources, Items
    <2>2. /\ LogOK' /\ StateOK'
          /\ lastSequence' \in Cursors
          /\ lastSequence' <= MaxSequence \/ lastSequence' = lastSequence
          /\ floor \in [Resources -> 0..lastSequence']
      <3>1. CASE Record("progress", i, v)
        BY <1>5, <2>1, <3>1, StoreType, RecordType DEF ProgressEdit
      <3>2. CASE UNCHANGED <<lastSequence, log>>
        BY <1>5, <2>1, <3>2, StoreType DEF ProgressEdit, LogOK, SequenceOK
      <3> QED BY <1>5, <3>1, <3>2 DEF ProgressEdit
    <2>3. SequenceOK' BY <1>5, <2>2 DEF ProgressEdit, SequenceOK
    <2> QED
      BY <1>5, <2>2, <2>3
      DEF ProgressEdit, libraryVars, repairVars, LibraryOK, RepairOK, WalkersOK,
          BatchesOK, ClientsOK
  <1>6. ASSUME NEW i \in Items, DeleteItem(i) PROVE TypeInv'
    BY <1>6, DeleteType
  <1> QED BY <1>1, <1>2, <1>3, <1>4, <1>5, <1>6 DEF Edits

\* Upkeep.
LEMMA UpkeepType ==
    ASSUME TypeInv, Upkeep
    PROVE  TypeInv'
  <1> USE DEF TypeInv
  <1>1. CASE InvalidateContexts
    <2>1. generation' \in Nat BY <1>1 DEF InvalidateContexts, SequenceOK
    <2> QED
      BY <1>1, <2>1
      DEF InvalidateContexts, libraryVars, repairVars, SequenceOK, LibraryOK, StateOK,
          LogOK, RepairOK, WalkersOK, BatchesOK, ClientsOK
  <1>2. ASSUME NEW r \in Resources, NEW n \in 1..MaxSequence, Compact(r, n)
        PROVE  TypeInv'
    <2>1. log' \subseteq log BY <1>2 DEF Compact
    <2>2. n \in 0..lastSequence BY <1>2 DEF Compact, LogOK
    <2>3. Raised(r, n) \in 0..lastSequence BY <2>2 DEF Raised, SequenceOK
    <2>4. floor' \in [Resources -> 0..lastSequence]
      <3>1. floor \in [Resources -> 0..lastSequence] BY DEF SequenceOK
      <3> HIDE DEF TypeInv
      <3> QED BY <1>2, <2>3, <3>1 DEF Compact
    <2>5. SequenceOK' BY <1>2, <2>4 DEF Compact, SequenceOK
    <2>6. LogOK' BY <1>2, <2>1 DEF Compact, LogOK
    <2> QED
      BY <1>2, <2>5, <2>6
      DEF Compact, libraryVars, repairVars, LibraryOK, StateOK, RepairOK, WalkersOK,
          BatchesOK, ClientsOK
  <1>3. ASSUME NEW b \in BOOLEAN, SetEmitChanges(b) PROVE TypeInv'
    BY <1>3
    DEF SetEmitChanges, libraryVars, repairVars, SequenceOK, LibraryOK, StateOK, LogOK,
        RepairOK, WalkersOK, BatchesOK, ClientsOK
  <1> QED BY <1>1, <1>2, <1>3 DEF Upkeep

\* A walk that takes another step.
LEMMA StepType ==
    ASSUME WalkersOK, NEW w \in Walkers, NEW rec \in WalkOf, Step(w, rec)
    PROVE  WalkersOK'
  BY DEF WalkersOK, Step

LEMMA WalkType ==
    ASSUME TypeInv, NEW w \in Walkers, Walk(w) \/ WalkDies(w)
    PROVE  TypeInv'
  <1> USE DEF TypeInv
  <1>0. walker[w] \in WalkOf /\ AtRest \in WalkOf BY RestTypes DEF WalkersOK
  <1>1. CASE WalkStart(w)
    <2>1. [phase |-> "look", gen |-> generation, next |-> 0,
           at |-> IF w \in Repairs THEN saved ELSE 0] \in WalkOf
      BY PlacesOfItems DEF WalkOf, SequenceOK, RepairOK
    <2>2. WalkersOK' BY <1>1, <2>1, StepType DEF WalkStart
    <2> QED
      BY <1>1, <2>2
      DEF WalkStart, sequenceVars, libraryVars, repairVars, SequenceOK, LibraryOK,
          StateOK, LogOK, RepairOK, BatchesOK, ClientsOK
  <1>2. CASE WalkLook(w)
    <2>1. WalkersOK'
      <3>1. [walker[w] EXCEPT !.phase = "end"] \in WalkOf BY <1>0 DEF WalkOf
      <3>2. ASSUME NEW i \in Tracked(walker[w].at)
            PROVE  [walker[w] EXCEPT !.phase = "project", !.next = i] \in WalkOf
        <4>1. i \in Places BY DEF Tracked, LibraryOK, Places
        <4> QED BY <1>0, <4>1 DEF WalkOf
      <3> QED BY <1>2, <3>1, <3>2, StepType DEF WalkLook
    <2> QED
      BY <1>2, <2>1
      DEF WalkLook, sequenceVars, libraryVars, repairVars, SequenceOK, LibraryOK,
          StateOK, LogOK, RepairOK, BatchesOK, ClientsOK
  <1>3. CASE WalkItem(w)
    <2> DEFINE i == walker[w].next
    <2>1. i \in Places /\ i \in Items
      BY <1>0, <1>3 DEF WalkItem, WalkOf, LibraryOK, Items, Places
    <2>2. WalkersOK'
      <3>1. [walker[w] EXCEPT !.phase = IF w \in Repairs THEN "save" ELSE "look",
                              !.at = i, !.next = 0] \in WalkOf
        BY <1>0, <2>1, PlacesOfItems DEF WalkOf
      <3> QED BY <1>3, <3>1, StepType DEF WalkItem
    <2>3. StateOK' /\ generation' \in Nat
      <3>1. "watched" \in Resources /\ Derived(src[i]) \in Rows
        BY <2>1, DerivedIsAValue DEF Resources, LibraryOK
      <3> QED BY <1>3, <2>1, <3>1, StoreType DEF WalkItem, SequenceOK, StateOK
    <2>4. SequenceOK' BY <1>3, <2>3 DEF WalkItem, SequenceOK
    <2>5. LibraryOK' BY <1>3 DEF WalkItem, LibraryOK, libraryVars
    <2> QED
      BY <1>3, <2>2, <2>3, <2>4, <2>5
      DEF WalkItem, repairVars, LogOK, RepairOK, BatchesOK, ClientsOK
  <1>4. CASE WalkSave(w)
    <2>1. [walker[w] EXCEPT !.phase = "look"] \in WalkOf BY <1>0 DEF WalkOf
    <2>2. WalkersOK' BY <1>4, <1>0, <2>1, StepType DEF WalkSave
    <2>3. RepairOK' BY <1>4, <1>0 DEF WalkSave, RepairOK, WalkOf
    <2> QED
      BY <1>4, <2>2, <2>3
      DEF WalkSave, sequenceVars, libraryVars, SequenceOK, LibraryOK, StateOK, LogOK,
          BatchesOK, ClientsOK
  <1>5. CASE WalkEnd(w)
    <2>1. WalkersOK' BY <1>5, <1>0, StepType DEF WalkEnd
    <2>2. RepairOK' BY <1>5, PlacesOfItems DEF WalkEnd, RepairOK, repairVars
    <2> QED
      BY <1>5, <2>1, <2>2
      DEF WalkEnd, sequenceVars, libraryVars, SequenceOK, LibraryOK, StateOK, LogOK,
          BatchesOK, ClientsOK
  <1>6. CASE WalkFails(w) \/ WalkDies(w)
    <2>1. WalkersOK' BY <1>6, <1>0, StepType DEF WalkFails, WalkDies
    <2> QED
      BY <1>6, <2>1
      DEF WalkFails, WalkDies, sequenceVars, libraryVars, repairVars, SequenceOK,
          LibraryOK, StateOK, LogOK, RepairOK, BatchesOK, ClientsOK
  <1> QED BY <1>1, <1>2, <1>3, <1>4, <1>5, <1>6 DEF Walk

\* Imports.
LEMMA ImportType ==
    ASSUME TypeInv, NEW m \in Imports, Import(m)
    PROVE  TypeInv'
  <1> USE DEF TypeInv
  <1>0. batch[m] \in BatchOf /\ NoBatch \in BatchOf BY RestTypes DEF BatchesOK
  <1>1. ASSUME Done(m) PROVE BatchesOK'
    <2>1. batch' \in [Imports -> BatchOf] BY <1>0, <1>1 DEF Done, BatchesOK
    <2>2. ASSUME NEW n \in Imports, batch'[n].phase # "idle" PROVE batch'[n].item \in Items
      <3>1. n # m BY <1>1, <2>2 DEF Done, BatchesOK, NoBatch
      <3> QED BY <1>1, <2>2, <3>1 DEF Done, BatchesOK
    <2> QED BY <2>1, <2>2 DEF BatchesOK
  <1>2. ASSUME NEW phase \in {"project", "derived", "insert"}, NEW v \in Rows,
               batch[m].phase # "idle", To(m, phase, v)
        PROVE  BatchesOK'
    <2>1. [[batch[m] EXCEPT !.phase = phase] EXCEPT !.val = v] \in BatchOf
      BY <1>0 DEF BatchOf
    <2>2. batch' = [batch EXCEPT ![m] = [[batch[m] EXCEPT !.phase = phase] EXCEPT !.val = v]]
      BY <1>2 DEF To, BatchesOK
    <2>3. batch' \in [Imports -> BatchOf] BY <2>1, <2>2 DEF BatchesOK
    <2>4. ASSUME NEW n \in Imports, batch'[n].phase # "idle" PROVE batch'[n].item \in Items
      <3>1. CASE n = m
        <4>1. batch'[n].item = batch[m].item BY <1>0, <2>2, <3>1 DEF BatchesOK, BatchOf
        <4> QED BY <1>2, <4>1 DEF BatchesOK
      <3>2. CASE n # m
        <4>1. batch'[n] = batch[n] BY <2>2, <3>2 DEF BatchesOK
        <4> QED BY <2>4, <4>1 DEF BatchesOK
      <3> QED BY <3>1, <3>2
    <2> QED BY <2>3, <2>4 DEF BatchesOK
  <1>3. ASSUME ReadOnly, BatchesOK' PROVE TypeInv'
    BY <1>3
    DEF ReadOnly, sequenceVars, libraryVars, repairVars, SequenceOK, LibraryOK, StateOK,
        LogOK, RepairOK, WalkersOK, ClientsOK
  <1>4. None \in Rows /\ "watched" \in Resources BY DEF Rows, Resources
  <1>5. batch[m].val \in Rows BY <1>0 DEF BatchOf
  <1>6. \A i \in live : i \in Items BY DEF LibraryOK, Items, Places
  <1>7. ASSUME NEW i \in Items, NEW v \in Values, ImportWrite(m, i, v) PROVE TypeInv'
    <2>1. v \in Rows BY DEF Rows
    <2>2. [phase |-> "written", item |-> i, val |-> None] \in BatchOf
      BY <1>4, PlacesOfItems DEF BatchOf
    <2>3. BatchesOK' BY <1>7, <2>2 DEF ImportWrite, BatchesOK
    <2>4. SequenceOK' /\ LibraryOK' /\ StateOK' /\ LogOK' /\ RepairOK'
      BY <1>7, <2>1, BulkType DEF ImportWrite
    <2> QED BY <1>7, <2>3, <2>4 DEF ImportWrite, BulkWrite, WalkersOK, ClientsOK
  <1>8. CASE ImportDerive(m)
    <2>1. CASE To(m, "project", None)
      BY <1>8, <1>2, <1>3, <1>4, <2>1 DEF ImportDerive
    <2>2. CASE To(m, "derived", Derived(src[batch[m].item]))
      <3>1. batch[m].item \in Items BY <1>8 DEF ImportDerive, BatchesOK
      <3>2. Derived(src[batch[m].item]) \in Rows
        BY <3>1, DerivedIsAValue DEF LibraryOK
      <3> QED BY <1>8, <1>2, <1>3, <2>2, <3>2 DEF ImportDerive
    <2> QED BY <1>8, <2>1, <2>2 DEF ImportDerive
  <1>9. CASE ImportCheck(m)
    BY <1>9, <1>1, <1>2, <1>3, <1>4, <1>5 DEF ImportCheck
  <1>10. CASE ImportInsert(m)
    <2>1. batch[m].item \in Items BY <1>10, <1>6 DEF ImportInsert
    <2>2. StateOK' BY <1>10, <1>4, <1>5, <2>1, StoreType DEF ImportInsert, StateOK
    <2>3. BatchesOK' BY <1>10, <1>1 DEF ImportInsert
    <2> QED
      BY <1>10, <2>2, <2>3
      DEF ImportInsert, sequenceVars, libraryVars, repairVars, SequenceOK, LibraryOK,
          LogOK, RepairOK, WalkersOK, ClientsOK
  <1>11. CASE ImportProject(m)
    <2>1. batch[m].item \in Items /\ src[batch[m].item] \in Rows
      BY <1>11, <1>6 DEF ImportProject, LibraryOK
    <2>2. /\ LogOK' /\ StateOK'
          /\ lastSequence' \in Cursors
          /\ lastSequence' <= MaxSequence \/ lastSequence' = lastSequence
          /\ floor \in [Resources -> 0..lastSequence']
      BY <1>11, <2>1, ProjectType DEF ImportProject
    <2>3. BatchesOK' BY <1>11, <1>1 DEF ImportProject
    <2>4. SequenceOK' BY <1>11, <2>2 DEF ImportProject, SequenceOK
    <2>5. LibraryOK' BY <1>11 DEF ImportProject, LibraryOK, libraryVars
    <2> QED
      BY <1>11, <2>2, <2>3, <2>4, <2>5
      DEF ImportProject, repairVars, RepairOK, WalkersOK, ClientsOK
  <1>12. CASE ImportDies(m)
    BY <1>12, <1>1, <1>3 DEF ImportDies
  <1> QED BY <1>7, <1>8, <1>9, <1>10, <1>11, <1>12 DEF Import

\* A client that takes another step.
LEMMA NowType ==
    ASSUME ClientsOK, NEW k \in Clients, NEW rec \in ClientOf, Now(k, rec)
    PROVE  ClientsOK'
  BY DEF ClientsOK, Now

LEMMA ClientType ==
    ASSUME TypeInv, NEW k \in Clients, Pull(k) \/ FeedPageForgotten(k)
    PROVE  TypeInv'
  <1> USE DEF TypeInv
  <1>0. client[k] \in ClientOf BY DEF ClientsOK
  <1>1. ASSUME ServerUnchanged, ClientsOK' PROVE TypeInv'
    BY <1>1
    DEF ServerUnchanged, sequenceVars, libraryVars, repairVars, SequenceOK, LibraryOK,
        StateOK, LogOK, RepairOK, WalkersOK, BatchesOK
  <1>2. client[k].res \in Resources BY <1>0 DEF ClientOf
  <1>3. ASSUME NEW r \in Resources, Bootstrap(k, r) PROVE TypeInv'
    <2>1. /\ lastSequence' \in Cursors
          /\ apiFeedEnabled' = TRUE
          /\ lastSequence' >= lastSequence
      BY <1>3 DEF Bootstrap, SequenceOK, Cursors
    <2>2. floor' \in [Resources -> 0..lastSequence']
      <3>1. CASE floor' = [x \in Resources |-> lastSequence + 1]
                 /\ lastSequence' = lastSequence + 1
        <4>1. lastSequence + 1 \in 0..lastSequence' BY <3>1, <2>1 DEF SequenceOK, Cursors
        <4> QED BY <3>1, <4>1
      <3>2. CASE UNCHANGED <<lastSequence, floor>> BY <3>2 DEF SequenceOK
      <3> QED BY <1>3, <3>1, <3>2 DEF Bootstrap
    <2>3. SequenceOK' BY <1>3, <2>1, <2>2 DEF Bootstrap, SequenceOK
    <2>4. LogOK' BY <1>3, <2>1 DEF Bootstrap, LogOK, SequenceOK, Cursors
    <2>5. ClientsOK'
      <3>1. PICK top \in 0..MaxItem :
               Now(k, [phase |-> "snap", res |-> r, gen |-> generation,
                       base |-> lastSequence', ceil |-> top, after |-> 0,
                       cursor |-> lastSequence', view |-> Empty])
        BY <1>3 DEF Bootstrap
      <3>2. [phase |-> "snap", res |-> r, gen |-> generation,
             base |-> lastSequence', ceil |-> top, after |-> 0,
             cursor |-> lastSequence', view |-> Empty] \in ClientOf
        BY <2>1, PlacesOfItems DEF ClientOf, Empty, Rows, Places, SequenceOK
      <3> QED BY <3>1, <3>2, NowType
    <2> QED
      BY <1>3, <2>3, <2>4, <2>5
      DEF Bootstrap, libraryVars, repairVars, LibraryOK, StateOK, RepairOK, WalkersOK,
          BatchesOK
  <1>4. CASE SnapshotPage(k)
    <2>1. [client[k] EXCEPT !.phase = "replay"] \in ClientOf BY <1>0 DEF ClientOf
    <2>2. ASSUME NEW i \in Items, NEW v \in Rows, NEW p \in {"replay", "snap"}
          PROVE  [client[k] EXCEPT !.view[i] = v, !.after = i, !.phase = p] \in ClientOf
      BY <1>0, PlacesOfItems DEF ClientOf
    <2>3. \A i \in ToRead(k) : i \in Items /\ state[client[k].res][i] \in Rows
      BY <1>2 DEF ToRead, StateOK
    <2>4. ClientsOK' BY <1>4, <2>1, <2>2, <2>3, NowType DEF SnapshotPage
    <2> QED BY <1>1, <1>4, <2>4 DEF SnapshotPage
  <1>5. \A c \in Unread(k) : Applied(k, c) \in [Items -> Rows] /\ c.seq \in Cursors
    <2>1. ASSUME NEW c \in Unread(k)
          PROVE  Applied(k, c) \in [Items -> Rows] /\ c.seq \in Cursors
      <3>1. c.val \in Rows /\ client[k].view \in [Items -> Rows]
        BY <1>0 DEF Unread, LogOK, Changes, ClientOf
      <3>2. c.seq \in Cursors BY DEF Unread, LogOK, SequenceOK, Cursors
      <3> QED BY <3>1, <3>2 DEF Applied
    <2> QED BY <2>1
  <1>6. lastSequence \in Cursors BY DEF SequenceOK
  <1>7. CASE FeedPage(k)
    <2>1. [client[k] EXCEPT !.phase = "live", !.cursor = lastSequence] \in ClientOf
      BY <1>0, <1>6 DEF ClientOf
    <2>2. ASSUME NEW c \in Unread(k)
          PROVE  [client[k] EXCEPT
                    !.view = Applied(k, c),
                    !.cursor = IF HasMore(k, c) THEN c.seq ELSE lastSequence,
                    !.phase = IF HasMore(k, c) THEN "replay" ELSE "live"] \in ClientOf
      BY <1>0, <1>5, <1>6 DEF ClientOf
    <2>3. ClientsOK' BY <1>7, <2>1, <2>2, NowType DEF FeedPage
    <2> QED BY <1>1, <1>7, <2>3 DEF FeedPage
  <1>8. CASE FeedPageForgotten(k)
    <2>1. ASSUME NEW c \in Unread(k)
          PROVE  [client[k] EXCEPT !.view = Applied(k, c), !.phase = "replay"] \in ClientOf
      BY <1>0, <1>5 DEF ClientOf
    <2>2. ClientsOK' BY <1>8, <2>1, NowType DEF FeedPageForgotten
    <2> QED BY <1>1, <1>8, <2>2 DEF FeedPageForgotten
  <1>9. CASE TurnedAway(k)
    <2>1. ClientsOK' BY <1>9, RestTypes, NowType DEF TurnedAway
    <2> QED BY <1>1, <1>9, <2>1 DEF TurnedAway
  <1> QED BY <1>3, <1>4, <1>7, <1>8, <1>9 DEF Pull

LEMMA TypeStep == TypeInv /\ [Next]_vars => TypeInv'
  <1> SUFFICES ASSUME TypeInv, [Next]_vars PROVE TypeInv'
    OBVIOUS
  <1>1. CASE UNCHANGED vars
    BY <1>1
    DEF TypeInv, vars, sequenceVars, libraryVars, repairVars, SequenceOK, LibraryOK,
        StateOK, LogOK, RepairOK, WalkersOK, BatchesOK, ClientsOK
  <1> QED BY <1>1, EditType, UpkeepType, ImportType, WalkType, ClientType DEF Next

LEMMA TypeAlways == Spec => []TypeInv
  BY TypeInit, TypeStep, PTL DEF Spec

\* Every variable keeps its type, and nothing is kept for an item that is gone.
THEOREM TypeCorrect == Spec => []TypeOK
  BY TypeAlways, TypeParts, PTL

-----------------------------------------------------------------------------
(* The repaired baseline.                                                    *)

Watched(i) == state["watched"][i]

\* Nothing is kept for an item that is gone, an item without rows is settled, what a
\* client asserted is a state, and an import that still has to insert a missing
\* state finds rows to derive it from.
BatchSound(m) ==
    batch[m].phase # "idle" =>
        /\ batch[m].item <= made
        /\ (batch[m].item \in live /\ Watched(batch[m].item) = None)
               => src[batch[m].item] # None

LibrarySound ==
    /\ \A i \in Items \ live : src[i] = None /\ Watched(i) = None
    /\ \A i \in Items : src[i] = None => Settled(i)
    /\ \A i \in asserted : Watched(i) # None
    /\ \A m \in Imports : BatchSound(m)

\* A walk whose contexts have not moved has settled all that lies behind it.
WalkSound(w) ==
    walker[w].phase # "idle" =>
        /\ walker[w].gen <= generation
        /\ Unmoved(w) =>
              \A i \in Items :
                 (\/ i <= walker[w].at
                  \/ walker[w].phase = "project" /\ i < walker[w].next
                  \/ walker[w].phase = "end") => Settled(i)

WalksSound == \A w \in Walkers : WalkSound(w)

SavedSound == \A i \in Items : i <= saved => Settled(i)

RepairInv ==
    /\ TypeInv
    /\ LibrarySound
    /\ WalksSound
    /\ SavedSound
    /\ BaselineIsRepaired
    /\ FeedKeepsBaseline

KeepsSettled == \A i \in Items : Settled(i) => Settled(i)'

LEMMA RepairInit == Init => RepairInv
  <1> SUFFICES ASSUME Init PROVE RepairInv
    OBVIOUS
  <1>1. TypeInv BY TypeInit
  <1>2. PICK old \in [Items -> {None, Unwatched}] :
            /\ \A i \in Items \ live : old[i] = None
            /\ state = [r \in Resources |-> IF r = "watched" THEN old ELSE Empty]
    BY DEF Init
  <1>3. \A i \in Items : Watched(i) = old[i] BY <1>2 DEF Watched, Resources
  <1>4. LibrarySound
    <2>1. \A i \in Items \ live : src[i] = None /\ Watched(i) = None
      BY <1>2, <1>3 DEF Init
    <2>2. ASSUME NEW i \in Items, src[i] = None PROVE Settled(i)
      <3>1. Watched(i) \in {None, Unwatched} BY <1>3
      <3> QED BY <2>2, <3>1 DEF Settled, Derived, Watched
    <2>3. asserted = {} BY DEF Init
    <2>4. \A m \in Imports : BatchSound(m) BY DEF Init, BatchSound, NoBatch
    <2> QED BY <2>1, <2>2, <2>3, <2>4 DEF LibrarySound
  <1>5. WalksSound BY DEF Init, WalksSound, WalkSound, AtRest
  <1>6. SavedSound BY PlacesOfItems DEF Init, SavedSound
  <1>7. ~repaired /\ ~apiFeedEnabled BY DEF Init
  <1> QED
    BY <1>1, <1>4, <1>5, <1>6, <1>7
    DEF RepairInv, BaselineIsRepaired, FeedKeepsBaseline

\* What was settled behind a walk stays so while the walk stands still.
LEMMA WalkKept ==
    ASSUME RepairInv, TypeInv', KeepsSettled, generation' >= generation,
           NEW w \in Walkers, walker'[w] = walker[w]
    PROVE  WalkSound(w)'
  <1> SUFFICES ASSUME walker[w].phase # "idle" PROVE WalkSound(w)'
    BY DEF WalkSound
  <1>1. WalkSound(w) BY DEF RepairInv, WalksSound
  <1>2. walker[w].gen \in Nat /\ generation \in Nat /\ generation' \in Nat
    BY DEF RepairInv, TypeInv, WalkersOK, WalkOf, SequenceOK
  <1>3. walker[w].gen <= generation' BY <1>1, <1>2 DEF WalkSound
  <1>4. CASE Unmoved(w)'
    <2>1. Unmoved(w) BY <1>1, <1>2, <1>4 DEF Unmoved, WalkSound
    <2> QED BY <1>1, <1>3, <2>1 DEF WalkSound, KeepsSettled
  <1>5. CASE ~Unmoved(w)'
    BY <1>3, <1>5 DEF WalkSound
  <1> QED BY <1>4, <1>5

\* A step that settles and unsettles nothing behind a walk.
LEMMA CarriedOn ==
    ASSUME RepairInv, TypeInv', LibrarySound', KeepsSettled, generation' >= generation,
           UNCHANGED <<walker, repairVars>>,
           apiFeedEnabled' = apiFeedEnabled \/ repaired
    PROVE  RepairInv'
  <1>1. WalksSound' BY WalkKept DEF WalksSound
  <1>2. SavedSound' BY DEF RepairInv, SavedSound, KeepsSettled, repairVars
  <1>3. BaselineIsRepaired'
    BY DEF RepairInv, BaselineIsRepaired, KeepsSettled, repairVars
  <1>4. FeedKeepsBaseline' BY DEF RepairInv, FeedKeepsBaseline, repairVars
  <1> QED BY <1>1, <1>2, <1>3, <1>4 DEF RepairInv

\* The batches come from the ones before, or have just written item j.
BatchFrom(j) ==
    \A n \in Imports : batch'[n].phase # "idle" =>
        \/ batch'[n].item = j
        \/ batch[n].phase # "idle" /\ batch'[n].item = batch[n].item

\* The state of one item follows its rows.
LEMMA Rewritten ==
    ASSUME RepairInv, TypeInv', NEW j \in Items, j \in live, NEW v \in Rows,
           src' = [src EXCEPT ![j] = v],
           state'["watched"] = [state["watched"] EXCEPT ![j] = Derived(v)],
           asserted' = asserted \ {j},
           UNCHANGED <<live, made>>,
           BatchFrom(j)
    PROVE  LibrarySound' /\ KeepsSettled
  <1>0. /\ state["watched"] \in [Items -> Rows] /\ src \in [Items -> Rows]
        /\ j <= made /\ live \subseteq Items
    <2>1. state["watched"] \in [Items -> Rows] /\ src \in [Items -> Rows]
      BY DEF RepairInv, TypeInv, StateOK, LibraryOK, Resources
    <2>2. made \in 0..MaxItem /\ live \subseteq 1..made
      BY DEF RepairInv, TypeInv, LibraryOK, Places
    <2>3. j <= made BY <2>2
    <2>4. live \subseteq Items BY <2>2 DEF Items
    <2> QED BY <2>1, <2>3, <2>4
  <1>1. src'[j] = v /\ Watched(j)' = Derived(v) /\ Derived(v) # None
    BY <1>0, DerivedIsAValue DEF Watched
  <1>2. \A i \in Items \ {j} : src'[i] = src[i] /\ Watched(i)' = Watched(i)
    BY <1>0 DEF Watched
  <1>3. Settled(j)' BY <1>1 DEF Settled, Watched
  <1>4. \A i \in Items \ {j} : Settled(i)' <=> Settled(i)
    BY <1>2 DEF Settled, Watched
  <1>5. KeepsSettled BY <1>3, <1>4 DEF KeepsSettled
  <1>6. LibrarySound'
    <2>1. \A i \in Items \ live' : src'[i] = None /\ Watched(i)' = None
      BY <1>2 DEF RepairInv, LibrarySound
    <2>2. \A i \in Items : src'[i] = None => Settled(i)'
      BY <1>2, <1>3, <1>4 DEF RepairInv, LibrarySound
    <2>3. \A i \in asserted' : Watched(i)' # None
      BY <1>0, <1>2 DEF RepairInv, LibrarySound, TypeInv, LibraryOK
    <2>4. ASSUME NEW n \in Imports, batch'[n].phase # "idle" PROVE BatchSound(n)'
      <3>1. CASE batch'[n].item = j
        BY <1>0, <1>1, <3>1 DEF BatchSound
      <3>2. CASE batch[n].phase # "idle" /\ batch'[n].item = batch[n].item
                 /\ batch'[n].item # j
        BY <1>0, <1>2, <3>2 DEF BatchSound, RepairInv, LibrarySound
      <3> QED BY <2>4, <3>1, <3>2 DEF BatchFrom
    <2>5. \A n \in Imports : BatchSound(n)' BY <2>4 DEF BatchSound
    <2> QED BY <2>1, <2>2, <2>3, <2>5 DEF LibrarySound
  <1> QED BY <1>5, <1>6

\* Project, seen from the watched state.
LEMMA ProjectWatched ==
    ASSUME StateOK, NEW j \in Items, NEW v \in Rows, Project(j, v)
    PROVE  state'["watched"] = [state["watched"] EXCEPT ![j] = Derived(v)]
  <1>1. state["watched"] \in [Items -> Rows] /\ "watched" \in Resources
    BY DEF StateOK, Resources
  <1>2. CASE state["watched"][j] = Derived(v) /\ UNCHANGED state
    BY <1>1, <1>2
  <1>3. CASE Store("watched", j, Derived(v))
    BY <1>1, <1>3 DEF Store, StateOK
  <1> QED BY <1>2, <1>3 DEF Project

\* A step that leaves the library and its watched states alone.
LEMMA Elsewhere ==
    ASSUME RepairInv, UNCHANGED <<libraryVars, batch, asserted>>,
           state'["watched"] = state["watched"]
    PROVE  LibrarySound' /\ KeepsSettled
  <1>1. \A i \in Items : (Settled(i)' <=> Settled(i)) /\ Watched(i)' = Watched(i)
    BY DEF Settled, Watched, libraryVars
  <1>2. \A m \in Imports : BatchSound(m)' <=> BatchSound(m)
    BY DEF BatchSound, Watched, libraryVars
  <1>3. KeepsSettled BY <1>1 DEF KeepsSettled
  <1>4. LibrarySound'
    BY <1>1, <1>2 DEF RepairInv, LibrarySound, libraryVars, Watched
  <1> QED BY <1>3, <1>4

\* A bulk write that projects nothing: all contexts move, and the repair starts over.
LEMMA QuietRepair ==
    ASSUME RepairInv, TypeInv', NEW j \in Items, j \in live, NEW v \in Values,
           BulkQuietly(j, v), UNCHANGED <<live, made, apiFeedEnabled, walker>>,
           BatchFrom(j)
    PROVE  RepairInv'
  <1>0. src \in [Items -> Rows] /\ j <= made /\ live \subseteq Items
    <2>1. made \in 0..MaxItem /\ live \subseteq 1..made /\ src \in [Items -> Rows]
      BY DEF RepairInv, TypeInv, LibraryOK, Places
    <2>2. j <= made BY <2>1
    <2>3. live \subseteq Items BY <2>1 DEF Items
    <2> QED BY <2>1, <2>2, <2>3
  <1>1. src'[j] # None BY <1>0 DEF BulkQuietly
  <1>2. \A i \in Items \ {j} : src'[i] = src[i] BY <1>0 DEF BulkQuietly
  <1>3. UNCHANGED <<state, asserted>> BY DEF BulkQuietly
  <1>4. \A i \in Items \ {j} : Settled(i)' <=> Settled(i) BY <1>2, <1>3 DEF Settled
  <1>5. LibrarySound'
    <2>1. \A i \in Items \ live' : src'[i] = None /\ Watched(i)' = None
      BY <1>2, <1>3 DEF RepairInv, LibrarySound, Watched
    <2>2. \A i \in Items : src'[i] = None => Settled(i)'
      BY <1>1, <1>2, <1>4 DEF RepairInv, LibrarySound
    <2>3. \A i \in asserted' : Watched(i)' # None
      BY <1>3 DEF RepairInv, LibrarySound, Watched
    <2>4. ASSUME NEW n \in Imports, batch'[n].phase # "idle" PROVE BatchSound(n)'
      <3>1. CASE batch'[n].item = j
        BY <1>0, <1>1, <3>1 DEF BatchSound
      <3>2. CASE batch[n].phase # "idle" /\ batch'[n].item = batch[n].item
                 /\ batch'[n].item # j
        BY <1>0, <1>2, <1>3, <3>2 DEF BatchSound, RepairInv, LibrarySound, Watched
      <3> QED BY <2>4, <3>1, <3>2 DEF BatchFrom
    <2>5. \A n \in Imports : BatchSound(n)' BY <2>4 DEF BatchSound
    <2> QED BY <2>1, <2>2, <2>3, <2>5 DEF LibrarySound
  <1>6. WalksSound'
    <2>1. ASSUME NEW w \in Walkers, walker[w].phase # "idle"
          PROVE  walker[w].gen <= generation' /\ walker[w].gen # generation'
      <3>1. walker[w].gen \in Nat /\ generation \in Nat /\ generation' = generation + 1
        BY DEF RepairInv, TypeInv, WalkersOK, WalkOf, SequenceOK, BulkQuietly
      <3>2. walker[w].gen <= generation
        BY <2>1 DEF RepairInv, WalksSound, WalkSound
      <3> QED BY <3>1, <3>2
    <2> QED BY <2>1 DEF WalksSound, WalkSound, Unmoved
  <1>7. SavedSound' BY PlacesOfItems DEF BulkQuietly, SavedSound
  <1>8. BaselineIsRepaired' BY DEF BulkQuietly, BaselineIsRepaired
  <1>9. FeedKeepsBaseline' BY DEF BulkQuietly, Recording, FeedKeepsBaseline
  <1> QED BY <1>5, <1>6, <1>7, <1>8, <1>9 DEF RepairInv

LEMMA BulkRepair ==
    ASSUME RepairInv, TypeInv', NEW j \in Items, NEW v \in Values, BulkWrite(j, v),
           BatchFrom(j)
    PROVE  RepairInv'
  <1>1. CASE BulkQuietly(j, v)
    BY <1>1, QuietRepair DEF BulkWrite
  <1>2. CASE BulkProjected(j, v)
    <2>0. v \in Rows /\ generation \in Nat
      BY DEF Rows, RepairInv, TypeInv, SequenceOK
    <2>1. state'["watched"] = [state["watched"] EXCEPT ![j] = Derived(v)]
      BY <1>2, <2>0, ProjectWatched DEF BulkProjected, RepairInv, TypeInv
    <2>2. LibrarySound' /\ KeepsSettled
      BY <1>2, <2>0, <2>1, Rewritten DEF BulkWrite, BulkProjected
    <2>3. generation' >= generation /\ apiFeedEnabled' = apiFeedEnabled
      BY <1>2, <2>0 DEF BulkWrite, BulkProjected
    <2> QED
      BY <1>2, <2>2, <2>3, CarriedOn DEF BulkWrite, BulkProjected
  <1> QED BY <1>1, <1>2 DEF BulkWrite

LEMMA EditRepair ==
    ASSUME RepairInv, TypeInv', Edits
    PROVE  RepairInv'
  <1>0. /\ generation \in Nat /\ generation >= generation
        /\ StateOK /\ SequenceOK /\ LogOK
    BY DEF RepairInv, TypeInv, SequenceOK
  <1>1. CASE CreateItem
    <2>1. made \in 0..MaxItem /\ live \subseteq 1..made /\ made < MaxItem
      BY <1>1 DEF CreateItem, RepairInv, TypeInv, LibraryOK, Places
    <2>2. made + 1 \notin live /\ made + 1 \in Items BY <2>1 DEF Items
    <2>3. UNCHANGED <<src, state, asserted, batch, walker, repairVars, generation,
                      apiFeedEnabled>>
      BY <1>1 DEF CreateItem, sequenceVars
    <2>4. \A i \in Items : Settled(i)' <=> Settled(i) BY <2>3 DEF Settled
    <2>5. LibrarySound'
      <3>1. \A i \in Items \ live' : src'[i] = None /\ Watched(i)' = None
        BY <1>1, <2>3 DEF CreateItem, RepairInv, LibrarySound, Watched
      <3>2. \A i \in Items : src'[i] = None => Settled(i)'
        BY <2>3, <2>4 DEF RepairInv, LibrarySound
      <3>3. \A i \in asserted' : Watched(i)' # None
        BY <2>3 DEF RepairInv, LibrarySound, Watched
      <3>4. ASSUME NEW m \in Imports, batch[m].phase # "idle" PROVE BatchSound(m)'
        <4>1. BatchSound(m) BY DEF RepairInv, LibrarySound
        <4>2. batch[m].item \in Nat
          BY PlacesOfItems DEF RepairInv, TypeInv, BatchesOK, BatchOf
        <4>3. batch[m].item <= made' /\ batch[m].item # made + 1
          BY <1>1, <2>1, <3>4, <4>1, <4>2 DEF CreateItem, BatchSound
        <4> QED BY <1>1, <2>3, <3>4, <4>1, <4>3 DEF CreateItem, BatchSound, Watched
      <3>5. \A m \in Imports : BatchSound(m)' BY <2>3, <3>4 DEF BatchSound
      <3> QED BY <3>1, <3>2, <3>3, <3>5 DEF LibrarySound
    <2> QED BY <1>0, <2>3, <2>4, <2>5, CarriedOn DEF KeepsSettled
  <1>2. ASSUME NEW i \in Items, NEW v \in Rows, LocalEdit(i, v) PROVE RepairInv'
    <2>1. state'["watched"] = [state["watched"] EXCEPT ![i] = Derived(v)]
      BY <1>0, <1>2, ProjectWatched DEF LocalEdit
    <2>2. BatchFrom(i) BY <1>2 DEF LocalEdit, BatchFrom
    <2>3. LibrarySound' /\ KeepsSettled BY <1>2, <2>1, <2>2, Rewritten DEF LocalEdit
    <2> QED BY <1>0, <1>2, <2>3, CarriedOn DEF LocalEdit
  <1>3. ASSUME NEW i \in Items, NEW v \in Values, BulkUpdate(i, v) PROVE RepairInv'
    <2>1. BatchFrom(i) BY <1>3 DEF BulkUpdate, BatchFrom
    <2> QED BY <1>3, <2>1, BulkRepair DEF BulkUpdate
  <1>4. ASSUME NEW i \in Items, NEW v \in Values, PutState(i, v) PROVE RepairInv'
    <2>1. state["watched"] \in [Items -> Rows] /\ "watched" \in Resources
      BY <1>0 DEF StateOK, Resources
    <2>2. state'["watched"] = [state["watched"] EXCEPT ![i] = v]
      BY <1>0, <1>4, <2>1 DEF PutState, Store, StateOK
    <2>3. v # None OBVIOUS
    <2>4. Watched(i)' = v /\ \A j \in Items \ {i} : Watched(j)' = Watched(j)
      BY <2>1, <2>2 DEF Watched
    <2>5. KeepsSettled
      <3>1. Settled(i)' BY <1>4 DEF PutState, Settled
      <3>2. \A j \in Items \ {i} : Settled(j) => Settled(j)'
        BY <1>4, <2>4 DEF PutState, Settled, Watched, libraryVars
      <3> QED BY <3>1, <3>2 DEF KeepsSettled
    <2>6. LibrarySound'
      <3>1. UNCHANGED <<live, made, src, batch>> BY <1>4 DEF PutState, libraryVars
      <3>2. \A j \in Items \ live' : src'[j] = None /\ Watched(j)' = None
        BY <1>4, <2>4, <3>1 DEF PutState, RepairInv, LibrarySound
      <3>3. \A j \in Items : src'[j] = None => Settled(j)'
        BY <2>5, <3>1 DEF KeepsSettled, RepairInv, LibrarySound
      <3>4. \A j \in asserted' : Watched(j)' # None
        <4>1. asserted' \subseteq Items
          BY DEF TypeInv, LibraryOK, Places, Items
        <4> QED BY <1>4, <2>3, <2>4, <4>1 DEF PutState, RepairInv, LibrarySound
      <3>5. ASSUME NEW m \in Imports, batch[m].phase # "idle" PROVE BatchSound(m)'
        <4>1. BatchSound(m) /\ batch[m].item \in Items
          BY <3>5 DEF RepairInv, LibrarySound, TypeInv, BatchesOK
        <4> QED BY <2>3, <2>4, <3>1, <3>5, <4>1 DEF BatchSound
      <3>6. \A m \in Imports : BatchSound(m)' BY <3>1, <3>5 DEF BatchSound
      <3> QED BY <3>2, <3>3, <3>4, <3>6 DEF LibrarySound
    <2> QED BY <1>0, <1>4, <2>5, <2>6, CarriedOn DEF PutState
  <1>5. ASSUME NEW i \in Resumable, NEW v \in Rows, ProgressEdit(i, v) PROVE RepairInv'
    <2>1. state'["watched"] = state["watched"]
      BY <1>0, <1>5 DEF ProgressEdit, Store, StateOK, Resources
    <2>2. LibrarySound' /\ KeepsSettled BY <1>5, <2>1, Elsewhere DEF ProgressEdit
    <2> QED BY <1>0, <1>5, <2>2, CarriedOn DEF ProgressEdit
  <1>6. ASSUME NEW i \in Items, DeleteItem(i) PROVE RepairInv'
    <2>1. /\ state["watched"] \in [Items -> Rows] /\ "watched" \in Resources
          /\ src \in [Items -> Rows]
      BY <1>0 DEF StateOK, Resources, RepairInv, TypeInv, LibraryOK
    <2>2. Watched(i)' = None /\ src'[i] = None BY <1>6, <2>1 DEF DeleteItem, Watched
    <2>3. \A j \in Items \ {i} : src'[j] = src[j] /\ Watched(j)' = Watched(j)
      BY <1>6, <2>1 DEF DeleteItem, Watched
    <2>4. KeepsSettled
      <3>1. Settled(i)' BY <2>2 DEF Settled, Watched
      <3>2. \A j \in Items \ {i} : Settled(j) => Settled(j)'
        BY <1>6, <2>3 DEF DeleteItem, Settled, Watched
      <3> QED BY <3>1, <3>2 DEF KeepsSettled
    <2>5. LibrarySound'
      <3>1. UNCHANGED <<made, batch>> /\ live' = live \ {i} /\ asserted' = asserted \ {i}
        BY <1>6 DEF DeleteItem
      <3>2. \A j \in Items \ live' : src'[j] = None /\ Watched(j)' = None
        BY <2>2, <2>3, <3>1 DEF RepairInv, LibrarySound
      <3>3. \A j \in Items : src'[j] = None => Settled(j)'
        <4>1. Settled(i)' BY <2>2 DEF Settled, Watched
        <4> QED BY <2>3, <2>4, <4>1 DEF KeepsSettled, RepairInv, LibrarySound
      <3>4. \A j \in asserted' : Watched(j)' # None
        <4>1. asserted \subseteq Items
          BY DEF RepairInv, TypeInv, LibraryOK, Places, Items
        <4> QED BY <2>3, <3>1, <4>1 DEF RepairInv, LibrarySound
      <3>5. ASSUME NEW m \in Imports, batch[m].phase # "idle" PROVE BatchSound(m)'
        <4>1. BatchSound(m) /\ batch[m].item \in Items
          BY <3>5 DEF RepairInv, LibrarySound, TypeInv, BatchesOK
        <4> QED BY <2>3, <3>1, <3>5, <4>1 DEF BatchSound
      <3>6. \A m \in Imports : BatchSound(m)' BY <3>1, <3>5 DEF BatchSound
      <3> QED BY <3>2, <3>3, <3>4, <3>6 DEF LibrarySound
    <2>6. generation' >= generation BY <1>0, <1>6 DEF DeleteItem, FenceDeletion
    <2> QED BY <1>6, <2>4, <2>5, <2>6, CarriedOn DEF DeleteItem
  <1> QED BY <1>1, <1>2, <1>3, <1>4, <1>5, <1>6 DEF Edits

LEMMA UpkeepRepair ==
    ASSUME RepairInv, TypeInv', Upkeep
    PROVE  RepairInv'
  <1>0. generation \in Nat /\ generation >= generation
    BY DEF RepairInv, TypeInv, SequenceOK
  <1>1. UNCHANGED <<libraryVars, batch, asserted, state, walker, repairVars, apiFeedEnabled>>
    BY DEF Upkeep, InvalidateContexts, Compact, SetEmitChanges
  <1>2. generation' >= generation
    BY <1>0 DEF Upkeep, InvalidateContexts, Compact, SetEmitChanges
  <1>3. LibrarySound' /\ KeepsSettled BY <1>1, Elsewhere
  <1> QED BY <1>1, <1>2, <1>3, CarriedOn

LEMMA ImportRepair ==
    ASSUME RepairInv, TypeInv', NEW m \in Imports, Import(m)
    PROVE  RepairInv'
  <1>0. /\ generation \in Nat /\ generation >= generation
        /\ StateOK /\ batch \in [Imports -> BatchOf] /\ batch[m] \in BatchOf
        /\ src \in [Items -> Rows]
        /\ live \subseteq Items
    <2>1. live \subseteq Items
      BY DEF RepairInv, TypeInv, LibraryOK, Places, Items
    <2> QED BY <2>1 DEF RepairInv, TypeInv, SequenceOK, BatchesOK, LibraryOK
  <1>1. ASSUME NEW i \in Items, NEW v \in Values, ImportWrite(m, i, v) PROVE RepairInv'
    <2>1. BatchFrom(i) BY <1>0, <1>1 DEF ImportWrite, BatchFrom
    <2> QED BY <1>1, <2>1, BulkRepair DEF ImportWrite
  \* Steps that only read.
  <1>2. ASSUME ReadOnly,
               \A n \in Imports : batch'[n].phase # "idle" =>
                   batch[n].phase # "idle" /\ batch'[n].item = batch[n].item
        PROVE  RepairInv'
    <2>1. UNCHANGED <<sequenceVars, live, made, src, state, asserted, walker, repairVars>>
      BY <1>2 DEF ReadOnly, libraryVars
    <2>2. \A i \in Items : (Settled(i)' <=> Settled(i)) /\ Watched(i)' = Watched(i)
      BY <2>1 DEF Settled, Watched
    <2>3. LibrarySound'
      <3>1. ASSUME NEW n \in Imports, batch'[n].phase # "idle" PROVE BatchSound(n)'
        <4>1. BatchSound(n) BY DEF RepairInv, LibrarySound
        <4> QED BY <1>2, <2>1, <3>1, <4>1 DEF BatchSound, Watched
      <3>2. \A n \in Imports : BatchSound(n)' BY <3>1 DEF BatchSound
      <3> QED BY <2>1, <2>2, <3>2 DEF RepairInv, LibrarySound, Watched
    <2>4. UNCHANGED <<generation, apiFeedEnabled>> BY <2>1 DEF sequenceVars
    <2>5. KeepsSettled BY <2>2 DEF KeepsSettled
    <2> QED BY <1>0, <2>1, <2>3, <2>4, <2>5, CarriedOn
  <1>3. ASSUME Done(m)
        PROVE  \A n \in Imports : batch'[n].phase # "idle" =>
                   batch[n].phase # "idle" /\ batch'[n].item = batch[n].item
    BY <1>0, <1>3 DEF Done, NoBatch
  <1>4. ASSUME NEW phase, NEW v, To(m, phase, v), batch[m].phase # "idle"
        PROVE  \A n \in Imports : batch'[n].phase # "idle" =>
                   batch[n].phase # "idle" /\ batch'[n].item = batch[n].item
    <2>1. batch' = [batch EXCEPT ![m] = [[batch[m] EXCEPT !.phase = phase] EXCEPT !.val = v]]
      BY <1>0, <1>4 DEF To
    <2>2. batch'[m].item = batch[m].item BY <1>0, <2>1 DEF BatchOf
    <2>3. \A n \in Imports \ {m} : batch'[n] = batch[n] BY <1>0, <2>1
    <2> QED BY <1>4, <2>2, <2>3
  <1>5. CASE ImportDerive(m) BY <1>2, <1>4, <1>5 DEF ImportDerive
  <1>6. CASE ImportCheck(m) BY <1>2, <1>3, <1>4, <1>6 DEF ImportCheck
  <1>7. CASE ImportDies(m) BY <1>2, <1>3, <1>7 DEF ImportDies
  <1>8. CASE ImportInsert(m)
    <2>1. PICK i \in Items : i = batch[m].item /\ i \in live BY <1>0, <1>8 DEF ImportInsert
    <2>2. CASE UNCHANGED state
      <3>1. ReadOnly BY <1>8, <2>2 DEF ImportInsert, ReadOnly
      <3> QED BY <1>2, <1>3, <1>8, <3>1 DEF ImportInsert
    <2>3. CASE Watched(i) = None /\ Store("watched", i, batch[m].val)
      <3>1. state["watched"] \in [Items -> Rows] /\ "watched" \in Resources
        BY <1>0 DEF StateOK, Resources
      <3>2. state'["watched"] = [state["watched"] EXCEPT ![i] = batch[m].val]
        BY <1>0, <2>3, <3>1 DEF Store, StateOK
      <3>3. \A j \in Items \ {i} : Watched(j)' = Watched(j) BY <3>1, <3>2 DEF Watched
      <3>4. UNCHANGED <<sequenceVars, live, made, src, asserted, walker, repairVars>>
        BY <1>8 DEF ImportInsert, libraryVars
      <3>5. src[i] # None
        <4>1. BatchSound(m) BY DEF RepairInv, LibrarySound
        <4> QED BY <1>8, <2>1, <2>3, <4>1 DEF BatchSound, ImportInsert
      <3>6. i \notin asserted BY <2>3 DEF RepairInv, LibrarySound
      <3>7. ~Settled(i)
        <4>1. Derived(src[i]) # None BY <1>0, DerivedIsAValue
        <4> QED BY <2>3, <3>5, <3>6, <4>1 DEF Settled, Watched
      <3>8. \A j \in Items \ {i} : Settled(j)' <=> Settled(j)
        BY <3>3, <3>4 DEF Settled, Watched
      <3>9. KeepsSettled BY <3>7, <3>8 DEF KeepsSettled
      <3>10. LibrarySound'
        <4>1. \A j \in Items \ live' : src'[j] = None /\ Watched(j)' = None
          BY <2>1, <3>3, <3>4 DEF RepairInv, LibrarySound
        <4>2. \A j \in Items : src'[j] = None => Settled(j)'
          BY <3>4, <3>5, <3>8 DEF RepairInv, LibrarySound
        <4>3. \A j \in asserted' : Watched(j)' # None
          <5>1. asserted \subseteq Items
            BY <1>0 DEF RepairInv, TypeInv, LibraryOK
          <5> QED BY <3>3, <3>4, <3>6, <5>1 DEF RepairInv, LibrarySound
        <4>4. ASSUME NEW n \in Imports, batch'[n].phase # "idle" PROVE BatchSound(n)'
          <5>1. batch[n].phase # "idle" /\ batch'[n].item = batch[n].item
            BY <1>3, <1>8, <4>4 DEF ImportInsert
          <5>2. BatchSound(n) /\ batch[n].item \in Items
            BY <5>1 DEF RepairInv, LibrarySound, TypeInv, BatchesOK
          <5> QED BY <3>3, <3>4, <3>5, <4>4, <5>1, <5>2 DEF BatchSound
        <4>5. \A n \in Imports : BatchSound(n)' BY <4>4 DEF BatchSound
        <4> QED BY <4>1, <4>2, <4>3, <4>5 DEF LibrarySound
      <3>11. UNCHANGED <<generation, apiFeedEnabled>> BY <3>4 DEF sequenceVars
      <3> QED BY <1>0, <3>4, <3>9, <3>10, <3>11, CarriedOn
    <2> QED BY <1>8, <2>1, <2>2, <2>3 DEF ImportInsert, Watched
  <1>9. CASE ImportProject(m)
    <2>1. PICK i \in Items : i = batch[m].item /\ i \in live BY <1>0, <1>9 DEF ImportProject
    <2>2. src[i] \in Rows BY <1>0
    <2>3. Project(i, src[i]) /\ asserted' = asserted \ {i}
      BY <1>9, <2>1 DEF ImportProject
    <2>4. state'["watched"] = [state["watched"] EXCEPT ![i] = Derived(src[i])]
      BY <1>0, <2>2, <2>3, ProjectWatched
    <2>5. BatchFrom(i) BY <1>3, <1>9 DEF ImportProject, BatchFrom
    <2>6. UNCHANGED <<live, made, src>> /\ src' = [src EXCEPT ![i] = src[i]]
      BY <1>0, <1>9 DEF ImportProject, libraryVars
    <2>7. LibrarySound' /\ KeepsSettled
      BY <2>1, <2>2, <2>3, <2>4, <2>5, <2>6, Rewritten
    <2> QED BY <1>0, <1>9, <2>7, CarriedOn DEF ImportProject
  <1> QED BY <1>1, <1>5, <1>6, <1>7, <1>8, <1>9 DEF Import

\* A walk's own step: the others stand still.
LEMMA WalkStep ==
    ASSUME RepairInv, TypeInv', LibrarySound', KeepsSettled, generation' >= generation,
           NEW w \in Walkers, NEW rec, Step(w, rec), WalkSound(w)',
           SavedSound', BaselineIsRepaired',
           apiFeedEnabled' = apiFeedEnabled, repaired => repaired'
    PROVE  RepairInv'
  <1>1. \A u \in Walkers \ {w} : walker'[u] = walker[u]
    BY DEF Step, RepairInv, TypeInv, WalkersOK
  <1>2. WalksSound' BY <1>1, WalkKept DEF WalksSound
  <1>3. FeedKeepsBaseline' BY DEF RepairInv, FeedKeepsBaseline
  <1> QED BY <1>2, <1>3 DEF RepairInv

LEMMA WalkRepair ==
    ASSUME RepairInv, TypeInv', NEW w \in Walkers, Walk(w) \/ WalkDies(w)
    PROVE  RepairInv'
  <1>0. /\ generation \in Nat /\ generation >= generation
        /\ walker \in [Walkers -> WalkOf] /\ walker[w] \in WalkOf
        /\ walker[w].gen \in Nat
        /\ state["watched"] \in [Items -> Rows] /\ src \in [Items -> Rows]
        /\ StateOK /\ live \subseteq Items
        /\ WalkSound(w) /\ LibrarySound /\ SavedSound /\ BaselineIsRepaired
    <2>1. live \subseteq Items
      BY DEF RepairInv, TypeInv, LibraryOK, Places, Items
    <2> QED
      BY <2>1
      DEF RepairInv, TypeInv, SequenceOK, WalkersOK, WalkOf, LibraryOK, StateOK,
          Resources, WalksSound
  \* Steps that only read.
  <1>1. ASSUME UNCHANGED <<sequenceVars, libraryVars, state, batch, asserted>>
        PROVE  /\ LibrarySound' /\ KeepsSettled
               /\ \A i \in Items : Settled(i)' <=> Settled(i)
               /\ UNCHANGED <<generation, apiFeedEnabled>>
    <2>1. LibrarySound' /\ KeepsSettled BY <1>1, Elsewhere
    <2>2. \A i \in Items : Settled(i)' <=> Settled(i)
      BY <1>1 DEF Settled, libraryVars
    <2> QED BY <1>1, <2>1, <2>2 DEF sequenceVars
  <1>2. ASSUME UNCHANGED <<sequenceVars, libraryVars, state, batch, asserted, repairVars>>,
               NEW rec, Step(w, rec), WalkSound(w)'
        PROVE  RepairInv'
    <2>1. /\ LibrarySound' /\ KeepsSettled
          /\ UNCHANGED <<generation, apiFeedEnabled>>
      BY <1>1, <1>2
    <2>2. SavedSound' /\ BaselineIsRepaired' /\ repaired' = repaired
      BY <1>0, <1>2, <2>1 DEF SavedSound, BaselineIsRepaired, KeepsSettled, repairVars
    <2> QED BY <1>0, <1>2, <2>1, <2>2, WalkStep
  <1>3. ASSUME Step(w, AtRest) PROVE WalkSound(w)'
    BY <1>0, <1>3 DEF Step, AtRest, WalkSound
  <1>4. CASE WalkFails(w) \/ WalkDies(w)
    BY <1>2, <1>3, <1>4 DEF WalkFails, WalkDies
  <1>5. CASE WalkStart(w)
    <2>1. /\ walker'[w].phase = "look" /\ walker'[w].gen = generation
          /\ walker'[w].at \in {0, saved}
      BY <1>0, <1>5 DEF WalkStart, Step
    <2>2. UNCHANGED <<sequenceVars, libraryVars, state, batch, asserted>>
      BY <1>5 DEF WalkStart
    <2>3. \A i \in Items : Settled(i)' <=> Settled(i) BY <1>1, <2>2
    <2>4. ASSUME NEW i \in Items, i <= walker'[w].at PROVE Settled(i)
      BY <1>0, <2>1, <2>4, PlacesOfItems DEF SavedSound
    <2>5. WalkSound(w)'
      BY <1>0, <2>1, <2>2, <2>3, <2>4 DEF WalkSound, sequenceVars
    <2> QED BY <1>2, <1>5, <2>5 DEF WalkStart
  <1>6. CASE WalkLook(w)
    <2>1. UNCHANGED <<sequenceVars, libraryVars, state, batch, asserted>>
      BY <1>6 DEF WalkLook
    <2>2. \A i \in Items : Settled(i)' <=> Settled(i) BY <1>1, <2>1
    <2>3. UNCHANGED generation BY <2>1 DEF sequenceVars
    <2>4. \A i \in Items : i \notin Tracked(walker[w].at) /\ ~(i <= walker[w].at) => Settled(i)
      <3>1. ASSUME NEW i \in Items, i \notin Tracked(walker[w].at), ~(i <= walker[w].at)
            PROVE  Settled(i)
        <4>1. i > walker[w].at
          <5>1. walker[w].at \in Places BY <1>0 DEF WalkOf
          <5>2. i \in Nat /\ walker[w].at \in Nat BY <5>1, PlacesOfItems
          <5> QED BY <3>1, <5>2
        <4>2. i \notin live \/ src[i] = None BY <3>1, <4>1 DEF Tracked
        <4>3. src[i] = None BY <1>0, <4>2 DEF LibrarySound
        <4> QED BY <1>0, <4>3 DEF LibrarySound
      <3> QED BY <3>1
    <2>5. CASE Tracked(walker[w].at) = {}
               /\ Step(w, [walker[w] EXCEPT !.phase = "end"])
      <3>1. /\ walker'[w].gen = walker[w].gen /\ walker[w].phase # "idle"
        BY <1>0, <1>6, <2>5 DEF WalkLook, Step, WalkOf
      <3>2. ASSUME Unmoved(w)' PROVE \A i \in Items : Settled(i)
        <4>1. Unmoved(w) BY <2>3, <3>1, <3>2 DEF Unmoved
        <4> QED BY <1>0, <2>4, <2>5, <3>1, <4>1 DEF WalkSound
      <3>3. walker'[w].gen <= generation' BY <1>0, <2>3, <3>1 DEF WalkSound
      <3>4. WalkSound(w)' BY <2>2, <3>2, <3>3 DEF WalkSound
      <3> QED BY <1>2, <1>6, <2>5, <3>4 DEF WalkLook
    <2>6. ASSUME NEW n \in Tracked(walker[w].at),
                 \A j \in Tracked(walker[w].at) : n <= j,
                 Step(w, [walker[w] EXCEPT !.phase = "project", !.next = n])
          PROVE  RepairInv'
      <3>1. /\ walker'[w].gen = walker[w].gen /\ walker[w].phase # "idle"
            /\ walker'[w].at = walker[w].at /\ walker'[w].next = n
            /\ walker'[w].phase = "project"
        BY <1>0, <1>6, <2>6 DEF WalkLook, Step, WalkOf
      <3>2. n \in Items /\ n \in Nat /\ n > walker[w].at
        BY <1>0, <2>6, PlacesOfItems DEF Tracked
      <3>3. ASSUME Unmoved(w)', NEW i \in Items, i <= walker[w].at \/ i < n
            PROVE  Settled(i)
        <4>1. Unmoved(w) BY <2>3, <3>1, <3>3 DEF Unmoved
        <4>2. CASE i <= walker[w].at BY <1>0, <3>1, <4>1, <4>2 DEF WalkSound
        <4>3. CASE i < n /\ ~(i <= walker[w].at)
          <5>1. i \notin Tracked(walker[w].at)
            BY <2>6, <3>2, <4>3, PlacesOfItems
          <5> QED BY <2>4, <4>3, <5>1
        <4> QED BY <3>3, <4>2, <4>3
      <3>4. walker'[w].gen <= generation' BY <1>0, <2>3, <3>1 DEF WalkSound
      <3>5. WalkSound(w)' BY <2>2, <3>1, <3>3, <3>4 DEF WalkSound
      <3> QED BY <1>2, <1>6, <2>6, <3>5 DEF WalkLook
    <2> QED BY <1>6, <2>5, <2>6 DEF WalkLook
  <1>7. CASE WalkItem(w)
    <2>1. PICK i \in Items : i = walker[w].next /\ i \in live BY <1>0, <1>7 DEF WalkItem
    <2>2. src[i] \in Rows /\ UNCHANGED <<live, made, src, batch, repairVars, apiFeedEnabled>>
          /\ asserted' = asserted \ {i}
      BY <1>0, <1>7, <2>1 DEF WalkItem, libraryVars
    <2>3. state'["watched"] = [state["watched"] EXCEPT ![i] = Derived(src[i])]
      <3>1. CASE state["watched"][i] = Derived(src[i]) /\ UNCHANGED state
        BY <1>0, <3>1
      <3>2. CASE Store("watched", i, Derived(src[i]))
        BY <1>0, <3>2 DEF Store, StateOK, Resources
      <3> QED BY <1>7, <2>1, <3>1, <3>2 DEF WalkItem
    <2>4. src' = [src EXCEPT ![i] = src[i]] BY <1>0, <2>2
    <2>5. BatchFrom(i) BY <2>2 DEF BatchFrom
    <2>6. LibrarySound' /\ KeepsSettled
      BY <2>1, <2>2, <2>3, <2>4, <2>5, Rewritten
    <2>7. generation' \in {generation, generation + 1} BY <1>7 DEF WalkItem
    <2>8. generation' >= generation BY <1>0, <2>7
    <2>9. PICK rec : /\ rec.phase \in {"save", "look"} /\ rec.at = i
                     /\ rec.gen = walker[w].gen
                     /\ Step(w, rec)
      <3>1. /\ [walker[w] EXCEPT !.phase = IF w \in Repairs THEN "save" ELSE "look",
                              !.at = i, !.next = 0].phase \in {"save", "look"}
            /\ [walker[w] EXCEPT !.phase = IF w \in Repairs THEN "save" ELSE "look",
                              !.at = i, !.next = 0].at = i
            /\ [walker[w] EXCEPT !.phase = IF w \in Repairs THEN "save" ELSE "look",
                              !.at = i, !.next = 0].gen = walker[w].gen
        BY <1>0 DEF WalkOf
      <3> QED BY <1>7, <2>1, <3>1 DEF WalkItem
    <2>10. walker'[w] = rec BY <1>0, <2>9 DEF Step
    <2>11. walker[w].phase = "project" /\ walker[w].gen <= generation
      BY <1>0, <1>7 DEF WalkItem, WalkSound
    <2>12. WalkSound(w)'
      <3>1. walker'[w].gen <= generation'
        BY <1>0, <2>7, <2>9, <2>10, <2>11
      <3>2. ASSUME Unmoved(w)', NEW j \in Items, j <= i PROVE Settled(j)'
        <4>1. Unmoved(w) BY <1>0, <2>7, <2>9, <2>10, <2>11, <3>2 DEF Unmoved
        <4>2. CASE j = i
          <5>1. state'["watched"][i] = Derived(src'[i]) BY <1>0, <2>2, <2>3
          <5> QED BY <4>2, <5>1 DEF Settled
        <4>3. CASE j # i
          <5>1. j < i BY <3>2, <4>3, PlacesOfItems
          <5>2. Settled(j) BY <1>0, <2>1, <2>11, <4>1, <5>1 DEF WalkSound
          <5> QED BY <2>6, <5>2 DEF KeepsSettled
        <4> QED BY <4>2, <4>3
      <3> QED BY <2>9, <2>10, <3>1, <3>2 DEF WalkSound
    <2>13. SavedSound' /\ BaselineIsRepaired' /\ repaired' = repaired
      BY <1>0, <2>2, <2>6 DEF SavedSound, BaselineIsRepaired, KeepsSettled, repairVars
    <2> QED BY <2>2, <2>6, <2>8, <2>9, <2>12, <2>13, WalkStep
  <1>8. CASE WalkSave(w)
    <2>1. UNCHANGED <<sequenceVars, libraryVars, state, batch, asserted, repaired>>
      BY <1>8 DEF WalkSave
    <2>2. /\ LibrarySound' /\ KeepsSettled /\ UNCHANGED <<generation, apiFeedEnabled>>
          /\ \A i \in Items : Settled(i)' <=> Settled(i)
      BY <1>1, <2>1
    <2>3. CASE ~Unmoved(w)
      BY <1>2, <1>3, <1>8, <2>3 DEF WalkSave, repairVars
    <2>4. CASE Unmoved(w)
      <3>1. saved' = walker[w].at /\ Step(w, [walker[w] EXCEPT !.phase = "look"])
        BY <1>8, <2>4 DEF WalkSave
      <3>2. \A i \in Items : i <= walker[w].at => Settled(i)
        BY <1>0, <1>8, <2>4 DEF WalkSound, WalkSave
      <3>3. SavedSound' BY <2>2, <3>1, <3>2 DEF SavedSound
      <3>4. BaselineIsRepaired' BY <1>0, <2>1, <2>2 DEF BaselineIsRepaired
      <3>5. /\ walker'[w].phase = "look" /\ walker'[w].gen = walker[w].gen
            /\ walker'[w].at = walker[w].at
        BY <1>0, <3>1 DEF Step, WalkOf
      <3>6. walker[w].gen <= generation BY <1>0, <1>8 DEF WalkSound, WalkSave
      <3>7. WalkSound(w)' BY <2>2, <3>2, <3>5, <3>6 DEF WalkSound
      <3>8. generation' >= generation BY <1>0, <2>2
      <3> QED BY <2>1, <2>2, <3>1, <3>3, <3>4, <3>7, <3>8, WalkStep
    <2> QED BY <2>3, <2>4
  <1>9. CASE WalkEnd(w)
    <2>1. UNCHANGED <<sequenceVars, libraryVars, state, batch, asserted>> /\ Step(w, AtRest)
      BY <1>9 DEF WalkEnd
    <2>2. /\ LibrarySound' /\ KeepsSettled /\ UNCHANGED <<generation, apiFeedEnabled>>
          /\ \A i \in Items : Settled(i)' <=> Settled(i)
      BY <1>1, <2>1
    <2>3. CASE ~Unmoved(w)
      BY <1>2, <1>3, <1>9, <2>1, <2>3 DEF WalkEnd
    <2>4. CASE Unmoved(w)
      <3>1. repaired' = TRUE /\ saved' = 0 BY <1>9, <2>4 DEF WalkEnd
      <3>2. \A i \in Items : Settled(i)
        BY <1>0, <1>9, <2>4 DEF WalkSound, WalkEnd
      <3>3. SavedSound' BY <2>2, <3>2 DEF SavedSound
      <3>4. BaselineIsRepaired' BY <2>2, <3>2 DEF BaselineIsRepaired
      <3>5. WalkSound(w)' BY <1>3, <2>1
      <3>6. generation' >= generation BY <1>0, <2>2
      <3> QED BY <2>1, <2>2, <3>1, <3>3, <3>4, <3>5, <3>6, WalkStep
    <2> QED BY <2>3, <2>4
  <1> QED BY <1>4, <1>5, <1>6, <1>7, <1>8, <1>9 DEF Walk

LEMMA ClientRepair ==
    ASSUME RepairInv, TypeInv', NEW k \in Clients, Pull(k) \/ FeedPageForgotten(k)
    PROVE  RepairInv'
  <1>0. generation \in Nat /\ generation >= generation
    BY DEF RepairInv, TypeInv, SequenceOK
  <1>1. UNCHANGED <<generation, libraryVars, batch, asserted, state, walker, repairVars>>
    BY DEF Pull, Bootstrap, SnapshotPage, FeedPage, TurnedAway, FeedPageForgotten,
           ServerUnchanged, sequenceVars
  <1>2. apiFeedEnabled' = apiFeedEnabled \/ repaired
    BY DEF Pull, Bootstrap, Ready, SnapshotPage, FeedPage, TurnedAway, FeedPageForgotten,
           ServerUnchanged, sequenceVars
  <1>3. LibrarySound' /\ KeepsSettled BY <1>1, Elsewhere
  <1> QED BY <1>0, <1>1, <1>2, <1>3, CarriedOn

LEMMA RepairStep == RepairInv /\ [Next]_vars => RepairInv'
  <1> SUFFICES ASSUME RepairInv, [Next]_vars PROVE RepairInv'
    OBVIOUS
  <1>1. TypeInv' BY TypeStep DEF RepairInv
  <1>2. CASE UNCHANGED vars
    <2>0. generation \in Nat /\ generation >= generation
      BY DEF RepairInv, TypeInv, SequenceOK
    <2>1. UNCHANGED <<generation, apiFeedEnabled, libraryVars, batch, asserted, state,
                      walker, repairVars>>
      BY <1>2 DEF vars, sequenceVars
    <2>2. LibrarySound' /\ KeepsSettled BY <2>1, Elsewhere
    <2> QED BY <1>1, <2>0, <2>1, <2>2, CarriedOn
  <1> QED
    BY <1>1, <1>2, EditRepair, UpkeepRepair, ImportRepair, WalkRepair, ClientRepair
    DEF Next

LEMMA RepairAlways == Spec => []RepairInv
  BY RepairInit, RepairStep, PTL DEF Spec

\* A repair marked complete has left no stale or missing state behind.
THEOREM BaselineHolds == Spec => []BaselineIsRepaired
  <1>1. RepairInv => BaselineIsRepaired BY DEF RepairInv
  <1> QED BY <1>1, RepairAlways, PTL

\* Once a strict feed is on, the baseline stays repaired.
THEOREM BaselineStays == Spec => []FeedKeepsBaseline
  <1>1. RepairInv => FeedKeepsBaseline BY DEF RepairInv
  <1> QED BY <1>1, RepairAlways, PTL

-----------------------------------------------------------------------------
(* Replay.                                                                   *)

\* What the log above n says of item i, and that its last word is the state.
LogOf(r, i, n) == {c \in log : c.res = r /\ c.item = i /\ c.seq > n}

Told(r, i, n) ==
    \E c \in LogOf(r, i, n) :
        /\ \A d \in LogOf(r, i, n) : d.seq <= c.seq
        /\ c.val = state[r][i]

\* What ReplayReachesState says of one item.
Level(k, i) ==
    \/ Told(client[k].res, i, client[k].cursor)
    \/ /\ LogOf(client[k].res, i, client[k].cursor) = {}
       /\ ~NotYetRead(k, i) => client[k].view[i] = state[client[k].res][i]

LogUnique == \A c, d \in log : c.seq = d.seq => c = d

GoneHasNoState == \A i \in Items \ live : \A r \in Resources : state[r][i] = None

\* A client at work has a feed, contexts the server gave out, a cursor between its
\* baseline and the sequence, and nothing in its mirror that it has not read.
ClientSound(k) ==
    client[k].phase # "off" =>
        /\ apiFeedEnabled
        /\ client[k].gen <= generation
        /\ client[k].base <= client[k].cursor
        /\ client[k].cursor <= lastSequence
        /\ \A i \in Items : NotYetRead(k, i) => client[k].view[i] = None

ReplayInv ==
    /\ RepairInv
    /\ LogUnique
    /\ GoneHasNoState
    /\ \A k \in Clients : ClientSound(k)
    /\ ReplayReachesState

AllLevel == \A k \in Clients : Valid(k) => \A i \in Items : Level(k, i)

LEMMA LevelMeans == ReplayReachesState <=> AllLevel
  <1>1. \A k \in Clients, i \in Items :
           Owed(k, i) = LogOf(client[k].res, i, client[k].cursor)
    BY DEF Owed, Unread, LogOf
  <1> QED BY <1>1 DEF ReplayReachesState, AllLevel, Level, Told

LEMMA LevelMeansNext == ReplayReachesState' <=> AllLevel'
  BY LevelMeans, PTL

LEMMA ReplayInit == Init => ReplayInv
  <1> SUFFICES ASSUME Init PROVE ReplayInv
    OBVIOUS
  <1>1. RepairInv BY RepairInit
  <1>2. LogUnique BY DEF Init, LogUnique
  <1>3. \A k \in Clients : client[k].phase = "off" BY DEF Init, Away
  <1>4. GoneHasNoState
    <2>1. PICK old \in [Items -> {None, Unwatched}] :
              /\ \A i \in Items \ live : old[i] = None
              /\ state = [r \in Resources |-> IF r = "watched" THEN old ELSE Empty]
      BY DEF Init
    <2> QED BY <2>1 DEF GoneHasNoState, Empty
  <1> QED BY <1>1, <1>2, <1>3, <1>4 DEF ReplayInv, ClientSound, ReplayReachesState, Valid

\* A step of the server, as a client that holds no lock sees it: while the contexts
\* stand, what lies above the floor either says the same as before or ends with
\* the state.
Faithful ==
    \A r \in Resources, i \in Items, n \in 0..lastSequence :
        n >= floor'[r] =>
            \/ state'[r][i] = state[r][i] /\ LogOf(r, i, n)' = LogOf(r, i, n)
            \/ Told(r, i, n)'

Onward ==
    /\ lastSequence' >= lastSequence
    /\ generation' >= generation
    /\ \A r \in Resources : floor'[r] >= floor[r]
    /\ UNCHANGED <<apiFeedEnabled, client>>
    /\ LogUnique'
    /\ GoneHasNoState'
    /\ apiFeedEnabled /\ generation' = generation => Faithful

LEMMA ServerStep ==
    ASSUME ReplayInv, RepairInv', Onward
    PROVE  ReplayInv'
  <1>1. ASSUME NEW k \in Clients PROVE ClientSound(k)'
    <2>1. ClientSound(k) BY DEF ReplayInv
    <2>2. /\ client[k].cursor \in Nat /\ client[k].gen \in Nat
          /\ lastSequence \in Nat /\ lastSequence' \in Nat
          /\ generation \in Nat /\ generation' \in Nat
      BY PlacesOfItems
      DEF ReplayInv, RepairInv, TypeInv, ClientsOK, ClientOf, SequenceOK
    <2>3. client'[k] = client[k] /\ apiFeedEnabled' = apiFeedEnabled BY DEF Onward
    <2>4. \A i \in Items : NotYetRead(k, i)' <=> NotYetRead(k, i)
      BY <2>3 DEF NotYetRead
    <2>5. client[k].gen <= generation => client[k].gen <= generation'
      BY <2>2 DEF Onward
    <2>6. client[k].cursor <= lastSequence => client[k].cursor <= lastSequence'
      BY <2>2 DEF Onward
    <2> QED BY <2>1, <2>3, <2>4, <2>5, <2>6 DEF ClientSound
  <1>2. ASSUME NEW k \in Clients, Valid(k)', NEW i \in Items PROVE Level(k, i)'
    <2>1. /\ client'[k] = client[k] /\ apiFeedEnabled' = apiFeedEnabled
          /\ client[k].phase # "off" /\ client[k].res \in Resources
          /\ client[k].cursor \in Cursors /\ client[k].gen = generation'
          /\ client[k].cursor >= floor'[client[k].res] /\ apiFeedEnabled
          /\ client[k].cursor >= client[k].base
      BY <1>2
      DEF Onward, Valid, ReplayInv, RepairInv, TypeInv, ClientsOK, ClientOf
    <2>2. ClientSound(k) BY DEF ReplayInv
    <2>3. /\ generation \in Nat /\ generation' \in Nat
          /\ client[k].cursor \in Nat
          /\ floor[client[k].res] \in Int /\ floor'[client[k].res] \in Int
      <3>1. floor \in [Resources -> Nat] /\ floor' \in [Resources -> Nat]
        BY DEF ReplayInv, RepairInv, TypeInv, SequenceOK
      <3>2. generation \in Nat /\ generation' \in Nat
        BY DEF ReplayInv, RepairInv, TypeInv, SequenceOK
      <3>3. floor[client[k].res] \in Nat /\ floor'[client[k].res] \in Nat
        BY <2>1, <3>1
      <3>4. client[k].cursor \in Nat BY <2>1, PlacesOfItems
      <3> QED BY <3>2, <3>3, <3>4
    <2>4. generation' = generation BY <2>1, <2>2, <2>3 DEF ClientSound, Onward
    <2>5. client[k].cursor >= floor[client[k].res] BY <2>1, <2>3 DEF Onward
    <2>6. Valid(k) BY <2>1, <2>2, <2>4, <2>5 DEF Valid, ClientSound
    <2>7. Level(k, i) BY <2>6, LevelMeans DEF ReplayInv, AllLevel
    <2>8. NotYetRead(k, i)' <=> NotYetRead(k, i) BY <2>1 DEF NotYetRead
    <2>. PICK r \in Resources, n \in 0..lastSequence :
             r = client[k].res /\ n = client[k].cursor
      <3>1. lastSequence \in Nat /\ client[k].cursor <= lastSequence
        BY <2>1, <2>2, PlacesOfItems
        DEF ReplayInv, RepairInv, TypeInv, SequenceOK, ClientSound
      <3> QED BY <2>1, <2>3, <3>1
    <2>9. CASE Told(r, i, n)'
      BY <2>1, <2>9 DEF Level, Told, LogOf
    <2>10. CASE state'[r][i] = state[r][i] /\ LogOf(r, i, n)' = LogOf(r, i, n)
      <3>1. Told(r, i, n)' <=> Told(r, i, n) BY <2>10 DEF Told
      <3> QED BY <2>1, <2>7, <2>8, <2>10, <3>1 DEF Level, Told, LogOf
    <2>11. Faithful BY <2>1, <2>4 DEF Onward
    <2> QED BY <2>1, <2>9, <2>10, <2>11 DEF Faithful
  <1>3. ReplayReachesState' BY <1>2, LevelMeansNext DEF AllLevel
  <1> QED BY <1>1, <1>3 DEF ReplayInv, Onward

\* A movement with its row.
LEMMA RecordFaithful ==
    ASSUME ReplayInv, NEW r \in Resources, NEW i \in Items, NEW v \in Rows,
           Store(r, i, v), Record(r, i, v)
    PROVE  /\ LogUnique' /\ Faithful
           /\ lastSequence' >= lastSequence
           /\ \A x \in Resources, j \in Items :
                 (x # r \/ j # i) => state'[x][j] = state[x][j]
  <1> DEFINE row == [seq |-> lastSequence + 1, res |-> r, item |-> i, val |-> v]
  <1>1. /\ lastSequence \in Nat /\ state \in [Resources -> [Items -> Rows]]
        /\ \A c \in log : c.seq \in 1..lastSequence
        /\ LogUnique
    BY PlacesOfItems DEF ReplayInv, RepairInv, TypeInv, SequenceOK, StateOK, LogOK
  <1>2. log' = log \cup {row} /\ lastSequence' = lastSequence + 1 BY DEF Record
  <1>3. LogUnique' BY <1>1, <1>2 DEF LogUnique
  <1>4. /\ state'[r][i] = v
        /\ \A x \in Resources, j \in Items :
              (x # r \/ j # i) => state'[x][j] = state[x][j]
    BY <1>1 DEF Store
  <1>5. ASSUME NEW x \in Resources, NEW j \in Items, NEW n \in 0..lastSequence
        PROVE  \/ state'[x][j] = state[x][j] /\ LogOf(x, j, n)' = LogOf(x, j, n)
               \/ Told(x, j, n)'
    <2>1. CASE x = r /\ j = i
      <3>1. row \in log' /\ row.seq > n BY <1>1, <1>2
      <3>2. row \in LogOf(x, j, n)' BY <2>1, <3>1 DEF LogOf
      <3>3. \A d \in LogOf(x, j, n)' : d.seq <= row.seq BY <1>1, <1>2 DEF LogOf
      <3>4. row.val = state'[x][j] BY <1>4, <2>1
      <3> QED BY <3>2, <3>3, <3>4 DEF Told
    <2>2. CASE x # r \/ j # i
      <3>1. LogOf(x, j, n)' = LogOf(x, j, n) BY <1>2, <2>2 DEF LogOf
      <3> QED BY <1>4, <2>2, <3>1
    <2> QED BY <2>1, <2>2
  <1>6. Faithful BY <1>5 DEF Faithful
  <1> QED BY <1>1, <1>2, <1>3, <1>4, <1>6

LEMMA NothingSaid ==
    ASSUME UNCHANGED <<log, state>>
    PROVE  Faithful
  BY DEF Faithful, LogOf

LEMMA ProjectFaithful ==
    ASSUME ReplayInv, NEW i \in Items, i \in live, live' = live, NEW rows \in Rows,
           Project(i, rows)
    PROVE  /\ LogUnique' /\ GoneHasNoState'
           /\ Recording => Faithful
           /\ lastSequence' >= lastSequence
  <1>1. "watched" \in Resources /\ Derived(rows) \in Rows
    BY DerivedIsAValue DEF Resources
  <1>2. lastSequence \in Nat /\ state \in [Resources -> [Items -> Rows]]
    BY PlacesOfItems DEF ReplayInv, RepairInv, TypeInv, SequenceOK, StateOK
  <1>3. CASE UNCHANGED <<lastSequence, log, state>>
    BY <1>2, <1>3, NothingSaid DEF ReplayInv, LogUnique, GoneHasNoState
  <1>4. ASSUME Store("watched", i, Derived(rows)) PROVE GoneHasNoState'
    <2>1. \A x \in Resources, j \in Items :
             (x # "watched" \/ j # i) => state'[x][j] = state[x][j]
      BY <1>1, <1>2, <1>4 DEF Store
    <2> QED BY <2>1 DEF ReplayInv, GoneHasNoState
  <1>5. CASE Store("watched", i, Derived(rows)) /\ Record("watched", i, Derived(rows))
    BY <1>1, <1>4, <1>5, RecordFaithful
  <1>6. CASE Store("watched", i, Derived(rows)) /\ ~Recording
             /\ UNCHANGED <<lastSequence, log>>
    BY <1>2, <1>4, <1>6 DEF ReplayInv, LogUnique
  <1> QED BY <1>3, <1>5, <1>6 DEF Project

\* What no step need prove again.
LEMMA ReplayFacts ==
    ASSUME ReplayInv
    PROVE  /\ TypeInv /\ RepairInv /\ LogUnique /\ GoneHasNoState
           /\ lastSequence \in Nat /\ lastSequence >= lastSequence
           /\ generation \in Nat /\ generation >= generation
           /\ \A r \in Resources : floor[r] \in Nat /\ floor[r] >= floor[r]
           /\ state \in [Resources -> [Items -> Rows]]
           /\ src \in [Items -> Rows]
           /\ live \subseteq Items
  <1>1. \A r \in Resources : floor[r] \in Nat
    BY DEF ReplayInv, RepairInv, TypeInv, SequenceOK
  <1>2. live \subseteq Items
    BY DEF ReplayInv, RepairInv, TypeInv, LibraryOK, Places, Items
  <1> QED
    BY <1>1, <1>2, PlacesOfItems
    DEF ReplayInv, RepairInv, TypeInv, SequenceOK, StateOK, LibraryOK

\* A step that says nothing and moves no state.
LEMMA SilentOnward ==
    ASSUME ReplayInv, UNCHANGED <<lastSequence, floor, apiFeedEnabled, client, log, state>>,
           generation' >= generation, live \subseteq live'
    PROVE  Onward
  <1>1. LogUnique' /\ GoneHasNoState' BY DEF ReplayInv, LogUnique, GoneHasNoState
  <1> QED BY <1>1, ReplayFacts, NothingSaid DEF Onward

\* A step that projects one item.
LEMMA ProjectOnward ==
    ASSUME ReplayInv, NEW i \in Items, i \in live, NEW rows \in Rows, Project(i, rows),
           UNCHANGED <<generation, floor, apiFeedEnabled, client, live>>
    PROVE  Onward
  BY ReplayFacts, ProjectFaithful DEF Onward, Recording

LEMMA BulkOnward ==
    ASSUME ReplayInv, NEW i \in Items, NEW v \in Values, BulkWrite(i, v)
    PROVE  Onward
  <1>1. v \in Rows BY DEF Rows
  <1>2. CASE BulkQuietly(i, v)
    <2>1. generation' >= generation BY <1>2, ReplayFacts DEF BulkQuietly
    <2> QED BY <1>2, <2>1, SilentOnward DEF BulkWrite, BulkQuietly
  <1>3. CASE BulkProjected(i, v)
    BY <1>1, <1>3, ProjectOnward DEF BulkWrite, BulkProjected
  <1> QED BY <1>2, <1>3 DEF BulkWrite

LEMMA EditOnward ==
    ASSUME ReplayInv, Edits
    PROVE  Onward
  <1>0. Values \subseteq Rows BY DEF Rows
  <1>1. CASE CreateItem
    <2>1. live \subseteq live' /\ generation' = generation
      BY <1>1 DEF CreateItem, sequenceVars
    <2> QED
      BY <1>1, <2>1, ReplayFacts, SilentOnward DEF CreateItem, sequenceVars
  <1>2. ASSUME NEW i \in Items, NEW v \in Rows, LocalEdit(i, v) PROVE Onward
    BY <1>2, ProjectOnward DEF LocalEdit
  <1>3. ASSUME NEW i \in Items, NEW v \in Values, BulkUpdate(i, v) PROVE Onward
    BY <1>3, BulkOnward DEF BulkUpdate
  <1>4. ASSUME NEW i \in live, NEW r \in Resources, NEW v \in Rows,
               Store(r, i, v), Record(r, i, v) \/ UNCHANGED <<lastSequence, log>>,
               Record(r, i, v) \/ ~apiFeedEnabled,
               UNCHANGED <<generation, floor, apiFeedEnabled, client, live>>
        PROVE  Onward
    <2>0. i \in Items BY ReplayFacts
    <2>1. \A x \in Resources, j \in Items :
             (x # r \/ j # i) => state'[x][j] = state[x][j]
      BY <1>4, <2>0, ReplayFacts DEF Store
    <2>2. GoneHasNoState' BY <1>4, <2>1, ReplayFacts DEF GoneHasNoState
    <2>3. CASE Record(r, i, v)
      BY <1>4, <2>0, <2>2, <2>3, ReplayFacts, RecordFaithful DEF Onward
    <2>4. CASE UNCHANGED <<lastSequence, log>> /\ ~apiFeedEnabled
      BY <1>4, <2>2, <2>4, ReplayFacts DEF Onward, LogUnique
    <2> QED BY <1>4, <2>3, <2>4
  <1>5. ASSUME NEW i \in Items, NEW v \in Values, PutState(i, v) PROVE Onward
    <2>1. "watched" \in Resources /\ v \in Rows BY <1>0 DEF Resources
    <2> QED BY <1>4, <1>5, <2>1 DEF PutState, libraryVars
  <1>6. ASSUME NEW i \in Resumable, NEW v \in Rows, ProgressEdit(i, v) PROVE Onward
    <2>1. "progress" \in Resources BY DEF Resources
    <2> QED BY <1>4, <1>6, <2>1 DEF ProgressEdit, libraryVars, Recording
  <1>7. ASSUME NEW i \in Items, DeleteItem(i) PROVE Onward
    <2> DEFINE Kept(c) == [c EXCEPT !.item = IF c.item = i THEN None ELSE c.item]
    <2>1. \A c \in log : c \in Changes /\ Kept(c).seq = c.seq /\ (c.item # i => Kept(c) = c)
      BY ReplayFacts DEF TypeInv, LogOK, Changes
    <2>2. log' = {Kept(c) : c \in log \ ProgressOf(i)} BY <1>7 DEF DeleteItem
    <2>3. LogUnique'
      <3>1. ASSUME NEW d \in log', NEW e \in log', d.seq = e.seq PROVE d = e
        <4>1. PICK c \in log : d = Kept(c) BY <2>2
        <4>2. PICK f \in log : e = Kept(f) BY <2>2
        <4>3. c.seq = f.seq BY <2>1, <3>1, <4>1, <4>2
        <4>4. c = f BY <4>3, ReplayFacts DEF LogUnique
        <4> QED BY <4>1, <4>2, <4>4
      <3> QED BY <3>1 DEF LogUnique
    <2>4. GoneHasNoState'
      BY <1>7, ReplayFacts DEF DeleteItem, GoneHasNoState
    <2>5. \A r \in Resources : floor'[r] >= floor[r]
      <3>1. CASE UNCHANGED floor BY <3>1, ReplayFacts
      <3>2. ASSUME NEW top \in ProgressOf(i), top.seq > floor["progress"],
                   floor' = [floor EXCEPT !["progress"] = top.seq]
            PROVE  \A r \in Resources : floor'[r] >= floor[r]
        <4>1. top.seq \in Nat BY <2>1 DEF ProgressOf, Changes
        <4>2. floor \in [Resources -> 0..lastSequence]
          BY ReplayFacts DEF TypeInv, SequenceOK
        <4>3. floor'["progress"] = top.seq /\ \A r \in Resources \ {"progress"} : floor'[r] = floor[r]
          BY <3>2, <4>2 DEF Resources
        <4> QED BY <3>2, <4>1, <4>3, ReplayFacts
      <3> QED BY <1>7, <3>1, <3>2 DEF DeleteItem
    <2>6. generation' >= generation BY <1>7, ReplayFacts DEF DeleteItem, FenceDeletion
    <2>7. ASSUME generation' = generation PROVE Faithful
      <3>1. ~Mentioned(i) BY <1>7, <2>7, ReplayFacts DEF DeleteItem, FenceDeletion
      <3>2. \A c \in log : c.item # i BY <3>1 DEF Mentioned
      <3>3. log' = log BY <2>1, <2>2, <3>2 DEF ProgressOf
      <3>4. \A r \in Resources, j \in Items : state'[r][j] = state[r][j]
        BY <1>7, <3>1, ReplayFacts DEF DeleteItem, Mentioned
      <3> QED BY <3>3, <3>4 DEF Faithful, LogOf
    <2> QED BY <1>7, <2>3, <2>4, <2>5, <2>6, <2>7, ReplayFacts DEF DeleteItem, Onward
  <1> QED BY <1>1, <1>2, <1>3, <1>5, <1>6, <1>7 DEF Edits

LEMMA UpkeepOnward ==
    ASSUME ReplayInv, Upkeep
    PROVE  Onward
  <1>1. CASE InvalidateContexts
    <2>1. generation' >= generation BY <1>1, ReplayFacts DEF InvalidateContexts
    <2> QED BY <1>1, <2>1, SilentOnward DEF InvalidateContexts, libraryVars
  <1>2. ASSUME NEW r \in Resources, NEW n \in 1..MaxSequence, Compact(r, n)
        PROVE  Onward
    <2>1. floor \in [Resources -> 0..lastSequence] BY ReplayFacts DEF TypeInv, SequenceOK
    <2>2. /\ floor'[r] >= floor[r] /\ floor'[r] >= n
          /\ \A x \in Resources \ {r} : floor'[x] = floor[x]
      BY <1>2, <2>1 DEF Compact, Raised
    <2>3. PICK gone \in SUBSET {c \in log : c.res = r /\ c.seq <= n} : log' = log \ gone
      BY <1>2 DEF Compact
    <2>4. LogUnique' BY <2>3, ReplayFacts DEF LogUnique
    <2>5. GoneHasNoState' BY <1>2, ReplayFacts DEF Compact, GoneHasNoState, libraryVars
    <2>6. ASSUME NEW x \in Resources, NEW j \in Items, NEW m \in 0..lastSequence,
                 m >= floor'[x]
          PROVE  LogOf(x, j, m)' = LogOf(x, j, m)
      <3>1. \A c \in gone : ~(c.res = x /\ c.seq > m)
        <4>1. ASSUME NEW c \in gone, c.res = x, c.seq > m PROVE FALSE
          <5>1. c.res = r /\ c.seq <= n /\ c.seq \in Nat
            BY ReplayFacts DEF TypeInv, LogOK, Changes
          <5>2. floor'[r] \in Nat
            BY <1>2, <2>1, <2>2 DEF Compact, Raised
          <5> QED BY <2>2, <2>6, <4>1, <5>1, <5>2, ReplayFacts
        <4> QED BY <4>1
      <3> QED BY <2>3, <3>1 DEF LogOf
    <2>7. Faithful BY <1>2, <2>6 DEF Compact, Faithful
    <2>8. \A x \in Resources : floor'[x] >= floor[x] BY <2>2, ReplayFacts
    <2> QED BY <1>2, <2>4, <2>5, <2>7, <2>8, ReplayFacts DEF Compact, Onward
  <1>3. ASSUME NEW b \in BOOLEAN, SetEmitChanges(b) PROVE Onward
    <2>1. UNCHANGED <<generation, live>> BY <1>3 DEF SetEmitChanges, libraryVars
    <2> QED BY <1>3, <2>1, ReplayFacts, SilentOnward DEF SetEmitChanges
  <1> QED BY <1>1, <1>2, <1>3 DEF Upkeep

\* An import inserts a missing state, and says nothing, only while no feed is on: under
\* a feed the baseline is repaired, so that no state is missing.
LEMMA ImportOnward ==
    ASSUME ReplayInv, NEW m \in Imports, Import(m)
    PROVE  Onward
  <1>1. ASSUME NEW i \in Items, NEW v \in Values, ImportWrite(m, i, v) PROVE Onward
    BY <1>1, BulkOnward DEF ImportWrite
  <1>2. ASSUME ReadOnly PROVE Onward
    <2>1. UNCHANGED <<generation, live>> BY <1>2 DEF ReadOnly, sequenceVars, libraryVars
    <2> QED BY <1>2, <2>1, ReplayFacts, SilentOnward DEF ReadOnly, sequenceVars
  <1>3. CASE ImportDerive(m) \/ ImportCheck(m) \/ ImportDies(m)
    BY <1>2, <1>3 DEF ImportDerive, ImportCheck, ImportDies
  <1>4. CASE ImportInsert(m)
    <2>1. PICK i \in Items : i = batch[m].item /\ i \in live
      BY <1>4, ReplayFacts DEF ImportInsert
    <2>2. CASE UNCHANGED state
      BY <1>2, <1>4, <2>2 DEF ImportInsert, ReadOnly
    <2>3. CASE Watched(i) = None /\ Store("watched", i, batch[m].val)
      <3>1. src[i] # None
        <4>1. BatchSound(m) BY ReplayFacts DEF RepairInv, LibrarySound
        <4> QED BY <1>4, <2>1, <2>3, <4>1 DEF BatchSound, ImportInsert
      <3>2. i \notin asserted
        BY <2>3, ReplayFacts DEF RepairInv, LibrarySound
      <3>3. ~Settled(i)
        <4>1. Derived(src[i]) # None BY ReplayFacts, DerivedIsAValue
        <4> QED BY <2>3, <3>1, <3>2, <4>1 DEF Settled, Watched
      <3>4. ~apiFeedEnabled
        BY <3>3, ReplayFacts DEF RepairInv, BaselineIsRepaired, FeedKeepsBaseline
      <3>5. GoneHasNoState'
        <4>1. \A x \in Resources, j \in Items : j # i => state'[x][j] = state[x][j]
          BY <2>3, ReplayFacts DEF Store, Resources
        <4> QED BY <1>4, <2>1, <4>1, ReplayFacts DEF GoneHasNoState, ImportInsert, libraryVars
      <3>6. UNCHANGED <<lastSequence, generation, floor, apiFeedEnabled, client, log>>
        BY <1>4 DEF ImportInsert, sequenceVars
      <3> QED BY <3>4, <3>5, <3>6, ReplayFacts DEF Onward, LogUnique
    <2> QED BY <1>4, <2>1, <2>2, <2>3 DEF ImportInsert, Watched
  <1>5. CASE ImportProject(m)
    <2>1. batch[m].item \in Items /\ batch[m].item \in live /\ src[batch[m].item] \in Rows
      BY <1>5, ReplayFacts DEF ImportProject
    <2> QED BY <1>5, <2>1, ProjectOnward DEF ImportProject, libraryVars
  <1> QED BY <1>1, <1>3, <1>4, <1>5 DEF Import

LEMMA WalkOnward ==
    ASSUME ReplayInv, NEW w \in Walkers, Walk(w) \/ WalkDies(w)
    PROVE  Onward
  <1>1. CASE WalkItem(w)
    <2>1. PICK i \in Items : i = walker[w].next /\ i \in live
      BY <1>1, ReplayFacts DEF WalkItem
    <2>2. CASE UNCHANGED <<state, generation>>
      BY <1>1, <2>2, ReplayFacts, SilentOnward DEF WalkItem, libraryVars
    <2>3. CASE Store("watched", i, Derived(src[i]))
               /\ generation' = IF apiFeedEnabled THEN generation + 1 ELSE generation
      <3>1. GoneHasNoState'
        <4>1. \A x \in Resources, j \in Items : j # i => state'[x][j] = state[x][j]
          BY <2>3, ReplayFacts DEF Store, Resources
        <4> QED BY <1>1, <2>1, <4>1, ReplayFacts DEF GoneHasNoState, WalkItem, libraryVars
      <3>2. UNCHANGED <<lastSequence, floor, apiFeedEnabled, client, log>>
        BY <1>1 DEF WalkItem
      <3>3. generation' >= generation /\ (apiFeedEnabled => generation' # generation)
        BY <2>3, ReplayFacts
      <3> QED BY <3>1, <3>2, <3>3, ReplayFacts DEF Onward, LogUnique
    <2> QED BY <1>1, <2>1, <2>2, <2>3 DEF WalkItem
  <1>2. CASE UNCHANGED <<sequenceVars, libraryVars, state, log, client>>
    <2>1. UNCHANGED <<generation, live>> BY <1>2 DEF sequenceVars, libraryVars
    <2> QED BY <1>2, <2>1, ReplayFacts, SilentOnward DEF sequenceVars
  <1> QED
    BY <1>1, <1>2 DEF Walk, WalkStart, WalkLook, WalkSave, WalkEnd, WalkFails, WalkDies

\* The first bootstrap turns the feed on, when no client is at work; a later one
\* leaves the server as it is.
LEMMA BootstrapReplay ==
    ASSUME ReplayInv, RepairInv', NEW k \in Clients, NEW r \in Resources,
           Bootstrap(k, r)
    PROVE  ReplayInv'
  <1>1. /\ UNCHANGED <<live, state, log, generation>>
        /\ apiFeedEnabled' = TRUE
        /\ lastSequence' \in Nat /\ lastSequence' >= lastSequence
    BY ReplayFacts DEF Bootstrap, libraryVars
  <1>2. LogUnique' /\ GoneHasNoState'
    BY <1>1, ReplayFacts DEF LogUnique, GoneHasNoState
  <1>3. client \in [Clients -> ClientOf] BY ReplayFacts DEF TypeInv, ClientsOK
  <1>4. PICK top \in 0..MaxItem :
          /\ \A i \in live : i <= top
          /\ Now(k, [phase |-> "snap", res |-> r, gen |-> generation,
                     base |-> lastSequence', ceil |-> top, after |-> 0,
                     cursor |-> lastSequence', view |-> Empty])
    BY DEF Bootstrap
  <1>5. /\ client'[k].res = r /\ client'[k].gen = generation /\ client'[k].phase = "snap"
        /\ client'[k].base = lastSequence' /\ client'[k].cursor = lastSequence'
        /\ client'[k].ceil = top /\ client'[k].after = 0 /\ client'[k].view = Empty
        /\ \A h \in Clients \ {k} : client'[h] = client[h]
    BY <1>3, <1>4 DEF Now
  <1>6. ASSUME NEW h \in Clients PROVE ClientSound(h)'
    <2>1. CASE h = k
      <3>1. \A i \in Items : client'[k].view[i] = None BY <1>5 DEF Empty
      <3> QED BY <1>1, <1>5, <2>1, <3>1, ReplayFacts DEF ClientSound
    <2>2. CASE h # k
      <3>1. ClientSound(h) /\ client'[h] = client[h] BY <1>5, <2>2 DEF ReplayInv
      <3>2. client[h].cursor <= lastSequence => client[h].cursor <= lastSequence'
        <4>1. client[h].cursor \in Nat BY <1>3, PlacesOfItems DEF ClientOf
        <4> QED BY <1>1, <4>1, ReplayFacts
      <3> QED BY <1>1, <3>1, <3>2 DEF ClientSound, NotYetRead
    <2> QED BY <2>1, <2>2
  <1>7. ASSUME NEW h \in Clients, Valid(h)', NEW i \in Items PROVE Level(h, i)'
    <2>1. CASE h = k
      <3>1. LogOf(client[k].res, i, client[k].cursor)' = {}
        BY <1>1, <1>5, ReplayFacts DEF LogOf, TypeInv, LogOK
      <3>2. ASSUME ~NotYetRead(k, i)' PROVE Empty[i] = state'[r][i]
        <4>1. i > 0 /\ i \in Nat BY PlacesOfItems
        <4>2. ~(i <= top) BY <1>5, <3>2, <4>1 DEF NotYetRead
        <4>3. i \notin live BY <1>4, <4>2
        <4> QED BY <1>1, <4>3, ReplayFacts DEF GoneHasNoState, Empty
      <3> QED BY <1>5, <2>1, <3>1, <3>2 DEF Level
    <2>2. CASE h # k
      <3>1. client'[h] = client[h] BY <1>5, <2>2
      <3>2. apiFeedEnabled BY <1>7, <3>1 DEF ReplayInv, ClientSound, Valid
      <3>3. UNCHANGED <<apiFeedEnabled, lastSequence, floor>> BY <3>2 DEF Bootstrap
      <3>4. Valid(h) BY <1>1, <1>7, <3>1, <3>3 DEF Valid
      <3>5. Level(h, i) BY <3>4, LevelMeans DEF ReplayInv, AllLevel
      <3> QED BY <1>1, <3>1, <3>5 DEF Level, Told, LogOf, NotYetRead
    <2> QED BY <2>1, <2>2
  <1>8. ReplayReachesState' BY <1>7, LevelMeansNext DEF AllLevel
  <1> QED BY <1>2, <1>6, <1>8 DEF ReplayInv

\* A client's step on its own copy.
LEMMA ClientStep ==
    ASSUME ReplayInv, RepairInv', ServerUnchanged, NEW k \in Clients, NEW rec,
           Now(k, rec), ClientSound(k)',
           Valid(k)' => \A i \in Items : Level(k, i)'
    PROVE  ReplayInv'
  <1>1. UNCHANGED <<live, state, log, generation, apiFeedEnabled, lastSequence, floor>>
    BY DEF ServerUnchanged, sequenceVars, libraryVars
  <1>2. LogUnique' /\ GoneHasNoState'
    BY <1>1, ReplayFacts DEF LogUnique, GoneHasNoState
  <1>3. \A h \in Clients \ {k} : client'[h] = client[h]
    BY ReplayFacts DEF Now, TypeInv, ClientsOK
  <1>4. \A h \in Clients \ {k} : ClientSound(h)'
    BY <1>1, <1>3 DEF ReplayInv, ClientSound, NotYetRead
  <1>5. ASSUME NEW h \in Clients \ {k}, Valid(h)', NEW i \in Items PROVE Level(h, i)'
    <2>1. Valid(h) BY <1>1, <1>3, <1>5 DEF Valid
    <2>2. Level(h, i) BY <2>1, LevelMeans DEF ReplayInv, AllLevel
    <2>3. client'[h] = client[h] BY <1>3
    <2> QED BY <1>1, <2>2, <2>3 DEF Level, Told, LogOf, NotYetRead
  <1>6. ReplayReachesState' BY <1>5, LevelMeansNext DEF AllLevel
  <1> QED BY <1>2, <1>4, <1>6 DEF ReplayInv

LEMMA SnapshotReplay ==
    ASSUME ReplayInv, RepairInv', NEW k \in Clients, SnapshotPage(k)
    PROVE  ReplayInv'
  <1>1. /\ client[k] \in ClientOf /\ ClientSound(k) /\ client \in [Clients -> ClientOf]
        /\ client[k].phase = "snap" /\ Valid(k) /\ ServerUnchanged
        /\ \A i \in Items : Level(k, i)
    <2>1. client \in [Clients -> ClientOf] BY ReplayFacts DEF TypeInv, ClientsOK
    <2>2. \A i \in Items : Level(k, i) BY LevelMeans DEF SnapshotPage, ReplayInv, AllLevel
    <2> QED BY <2>1, <2>2 DEF SnapshotPage, ReplayInv
  <1>2. UNCHANGED <<state, log, generation, apiFeedEnabled, lastSequence, floor>>
    BY <1>1 DEF ServerUnchanged, sequenceVars
  <1>3. PICK r \in Resources, n \in Cursors : r = client[k].res /\ n = client[k].cursor
    BY <1>1 DEF ClientOf
  \* An item the baseline has passed by has no state.
  <1>4. ASSUME NEW i \in Items, NotYetRead(k, i), i \notin ToRead(k)
        PROVE  client[k].view[i] = state[r][i]
    <2>1. state[r][i] = None BY <1>3, <1>4 DEF NotYetRead, ToRead
    <2>2. client[k].view[i] = None BY <1>1, <1>4 DEF ClientSound
    <2> QED BY <2>1, <2>2
  <1>5. CASE ToRead(k) = {} /\ Now(k, [client[k] EXCEPT !.phase = "replay"])
    <2>1. client'[k] = [client[k] EXCEPT !.phase = "replay"] BY <1>1, <1>5 DEF Now
    <2>2. ClientSound(k)' BY <1>1, <1>2, <2>1 DEF ClientSound, NotYetRead, ClientOf
    <2>3. ASSUME NEW i \in Items PROVE Level(k, i)'
      <3>1. Level(k, i) BY <1>1
      <3>2. client[k].view[i] = state[r][i] \/ ~(LogOf(r, i, n) = {}) \/ Told(r, i, n)
        BY <1>3, <1>4, <1>5, <3>1 DEF Level
      <3> QED BY <1>1, <1>2, <1>3, <2>1, <3>1, <3>2 DEF Level, Told, LogOf, ClientOf
    <2> QED BY <1>1, <1>5, <2>2, <2>3, ClientStep
  <1>6. ASSUME NEW j \in ToRead(k), \A i \in ToRead(k) : j <= i,
               NEW p \in {"replay", "snap"}, p = "replay" <=> ToRead(k) = {j},
               Now(k, [client[k] EXCEPT !.view[j] = state[client[k].res][j],
                                        !.after = j, !.phase = p])
        PROVE  ReplayInv'
    <2>0. j \in Items /\ j \in Nat /\ client[k].after \in Nat /\ client[k].after < j
          /\ j <= client[k].ceil
      <3>1. j \in Items /\ client[k].after \in Nat BY <1>1, PlacesOfItems DEF ToRead, ClientOf
      <3>2. j \in Nat BY <3>1, PlacesOfItems
      <3> QED BY <3>1, <3>2 DEF ToRead
    <2>1. /\ client'[k].phase = p /\ client'[k].res = r /\ client'[k].after = j
          /\ client'[k].cursor = n /\ client'[k].gen = client[k].gen
          /\ client'[k].base = client[k].base /\ client'[k].ceil = client[k].ceil
      BY <1>1, <1>3, <1>6 DEF Now, ClientOf
    <2>2. /\ client'[k].view[j] = state[r][j]
          /\ \A i \in Items \ {j} : client'[k].view[i] = client[k].view[i]
      BY <1>1, <1>3, <1>6, <2>0 DEF Now, ClientOf
    <2>3. ASSUME NEW i \in Items, NotYetRead(k, i)'
          PROVE  NotYetRead(k, i) /\ i # j
      <3>1. i \in Nat BY PlacesOfItems
      <3> QED BY <1>1, <2>0, <2>1, <2>3, <3>1 DEF NotYetRead
    <2>4. ClientSound(k)' BY <1>1, <1>2, <1>3, <2>1, <2>2, <2>3 DEF ClientSound
    <2>5. ASSUME NEW i \in Items, NotYetRead(k, i), ~NotYetRead(k, i)'
          PROVE  i = j \/ i \notin ToRead(k)
      <3>1. i \in Nat BY PlacesOfItems
      <3>2. CASE p = "snap"
        <4>1. i <= j BY <1>1, <2>0, <2>1, <2>5, <3>1, <3>2 DEF NotYetRead
        <4> QED BY <1>6, <2>0, <3>1, <4>1
      <3>3. CASE p = "replay" BY <1>6, <3>3
      <3> QED BY <3>2, <3>3
    <2>6. ASSUME NEW i \in Items PROVE Level(k, i)'
      <3>1. Level(k, i) BY <1>1
      <3>2. Told(r, i, n)' <=> Told(r, i, n) BY <1>2 DEF Told, LogOf
      <3>3. LogOf(r, i, n)' = LogOf(r, i, n) BY <1>2 DEF LogOf
      <3>4. ASSUME ~NotYetRead(k, i)', LogOf(r, i, n) = {}, ~Told(r, i, n)
            PROVE  client'[k].view[i] = state[r][i]
        <4>1. CASE i = j BY <2>2, <4>1
        <4>2. CASE i # j /\ NotYetRead(k, i)
          BY <1>4, <2>2, <2>5, <3>4, <4>2
        <4>3. CASE i # j /\ ~NotYetRead(k, i)
          BY <1>3, <2>2, <3>1, <3>4, <4>3 DEF Level
        <4> QED BY <4>1, <4>2, <4>3
      <3>5. Told(r, i, n) \/ LogOf(r, i, n) = {} BY <1>3, <3>1 DEF Level
      <3>6. client'[k].res = r /\ client'[k].cursor = n BY <2>1
      <3> QED BY <1>2, <3>2, <3>3, <3>4, <3>5, <3>6 DEF Level, Told, LogOf
    <2> QED BY <1>1, <1>6, <2>4, <2>6, ClientStep
  <1> QED BY <1>1, <1>5, <1>6 DEF SnapshotPage

\* The page that carries row c.
LEMMA FeedReplay ==
    ASSUME ReplayInv, RepairInv', NEW k \in Clients, FeedPage(k)
    PROVE  ReplayInv' /\ (client'[k].phase = "live" => client'[k].view = state[client[k].res])
  <1>1. /\ client[k] \in ClientOf /\ ClientSound(k) /\ client \in [Clients -> ClientOf]
        /\ client[k].phase \in {"replay", "live"} /\ Valid(k) /\ ServerUnchanged
        /\ \A i \in Items : Level(k, i) /\ ~NotYetRead(k, i)
    <2>1. client \in [Clients -> ClientOf] BY ReplayFacts DEF TypeInv, ClientsOK
    <2>2. \A i \in Items : Level(k, i) BY LevelMeans DEF FeedPage, ReplayInv, AllLevel
    <2>3. \A i \in Items : ~NotYetRead(k, i) BY DEF FeedPage, NotYetRead
    <2> QED BY <2>1, <2>2, <2>3 DEF FeedPage, ReplayInv
  <1>2. UNCHANGED <<state, log, generation, apiFeedEnabled, lastSequence, floor>>
    BY <1>1 DEF ServerUnchanged, sequenceVars
  <1>3. PICK r \in Resources, n \in Cursors : r = client[k].res /\ n = client[k].cursor
    BY <1>1 DEF ClientOf
  <1>4. \A c \in log : c.seq \in Nat /\ c.seq <= lastSequence
    BY ReplayFacts DEF TypeInv, LogOK
  <1>5. state[r] \in [Items -> Rows] /\ client[k].view \in [Items -> Rows] /\ n \in Nat
        /\ lastSequence \in Nat /\ n <= lastSequence /\ client[k].base \in Nat
        /\ client[k].base <= n
    BY <1>1, <1>3, ReplayFacts, PlacesOfItems DEF ClientOf, ClientSound
  <1>6. CASE Unread(k) = {}
             /\ Now(k, [client[k] EXCEPT !.phase = "live", !.cursor = lastSequence])
    <2>1. /\ client'[k].phase = "live" /\ client'[k].res = r /\ client'[k].gen = client[k].gen
          /\ client'[k].cursor = lastSequence /\ client'[k].base = client[k].base
          /\ client'[k].view = client[k].view
      BY <1>1, <1>3, <1>6 DEF Now, ClientOf
    <2>2. \A i \in Items : LogOf(r, i, n) = {} BY <1>3, <1>6 DEF LogOf, Unread
    <2>3. \A i \in Items : client[k].view[i] = state[r][i]
      BY <1>1, <1>3, <2>2 DEF Level, Told
    <2>4. client'[k].view = state[r] BY <1>5, <2>1, <2>3
    <2>5. ClientSound(k)' BY <1>1, <1>2, <1>5, <2>1 DEF ClientSound, NotYetRead
    <2>6. \A i \in Items : LogOf(r, i, lastSequence)' = {} BY <1>2, <1>4, <1>5 DEF LogOf
    <2>7. \A i \in Items : Level(k, i)'
      BY <1>2, <2>1, <2>3, <2>6 DEF Level, LogOf
    <2> QED BY <1>1, <1>3, <1>6, <2>4, <2>5, <2>7, ClientStep
  <1>7. ASSUME NEW c \in Unread(k), \A d \in Unread(k) : c.seq <= d.seq,
               Now(k, [client[k] EXCEPT
                         !.view = Applied(k, c),
                         !.cursor = IF HasMore(k, c) THEN c.seq ELSE lastSequence,
                         !.phase = IF HasMore(k, c) THEN "replay" ELSE "live"])
        PROVE  ReplayInv' /\ (client'[k].phase = "live" => client'[k].view = state[r])
    <2>1. /\ client'[k].res = r /\ client'[k].gen = client[k].gen
          /\ client'[k].base = client[k].base
          /\ client'[k].view = Applied(k, c)
          /\ client'[k].cursor = IF HasMore(k, c) THEN c.seq ELSE lastSequence
          /\ client'[k].phase = IF HasMore(k, c) THEN "replay" ELSE "live"
      BY <1>1, <1>3, <1>7 DEF Now, ClientOf
    <2>2. /\ c \in log /\ c.res = r /\ c.seq > n
          /\ \A d \in log : d.res = r /\ d.seq > n => d \in Unread(k)
          /\ \A d \in Unread(k) : d \in log /\ d.res = r /\ d.seq > n
      BY <1>3 DEF Unread
    <2>3. PICK m : m = client'[k].cursor OBVIOUS
    <2>4. /\ m \in Nat /\ m > n /\ m <= lastSequence /\ m >= c.seq
      BY <1>4, <1>5, <2>1, <2>2, <2>3
    \* What is left to read is all but this row.
    <2>5. \A d \in log : d.res = r => (d.seq > m <=> d.seq > n /\ d # c)
      <3>1. ASSUME NEW d \in log, d.res = r, d.seq > m PROVE d.seq > n /\ d # c
        BY <1>4, <1>5, <2>2, <2>4, <3>1
      <3>2. ASSUME NEW d \in log, d.res = r, d.seq > n, d # c PROVE d.seq > m
        <4>1. d \in Unread(k) /\ HasMore(k, c) BY <2>2, <3>2 DEF HasMore
        <4>2. d.seq # c.seq BY <2>2, <3>2, ReplayFacts DEF LogUnique
        <4>3. c.seq <= d.seq BY <1>7, <4>1
        <4>4. m = c.seq BY <2>1, <2>3, <4>1
        <4> QED BY <1>4, <2>2, <4>2, <4>3, <4>4
      <3> QED BY <3>1, <3>2
    <2>6. \A i \in Items : LogOf(r, i, m) = LogOf(r, i, n) \ {c}
      BY <2>5 DEF LogOf
    <2>7. \A i \in Items :
             client'[k].view[i] = IF i = c.item THEN c.val ELSE client[k].view[i]
      BY <2>1 DEF Applied
    <2>8. ASSUME NEW i \in Items
          PROVE  \/ Told(r, i, m)
                 \/ LogOf(r, i, m) = {} /\ client'[k].view[i] = state[r][i]
      <3>1. CASE i # c.item
        <4>1. LogOf(r, i, m) = LogOf(r, i, n) BY <2>6, <3>1 DEF LogOf
        <4>2. Told(r, i, n) \/ (LogOf(r, i, n) = {} /\ client[k].view[i] = state[r][i])
          BY <1>1, <1>3 DEF Level
        <4>3. Told(r, i, n) => Told(r, i, m) BY <4>1 DEF Told
        <4> QED BY <2>7, <3>1, <4>1, <4>2, <4>3
      <3>2. CASE i = c.item
        <4>1. c \in LogOf(r, i, n) BY <2>2, <3>2 DEF LogOf
        <4>2. Told(r, i, n) BY <1>1, <1>3, <4>1 DEF Level
        <4>3. PICK e \in LogOf(r, i, n) : /\ \A d \in LogOf(r, i, n) : d.seq <= e.seq
                                          /\ e.val = state[r][i]
          BY <4>2 DEF Told
        <4>4. CASE e = c
          <5>1. ASSUME NEW d \in LogOf(r, i, n) PROVE d = c
            <6>1. d \in Unread(k) /\ d \in log BY <2>2 DEF LogOf
            <6>2. d.seq <= c.seq /\ c.seq <= d.seq BY <1>7, <4>3, <4>4, <6>1
            <6>3. d.seq = c.seq BY <1>4, <2>2, <6>1, <6>2
            <6> QED BY <2>2, <6>1, <6>3, ReplayFacts DEF LogUnique
          <5>2. LogOf(r, i, m) = {} BY <2>6, <5>1
          <5> QED BY <2>7, <3>2, <4>3, <4>4, <5>2
        <4>5. CASE e # c
          <5>1. e \in LogOf(r, i, m) BY <2>6, <4>5
          <5>2. \A d \in LogOf(r, i, m) : d.seq <= e.seq BY <2>6, <4>3
          <5> QED BY <4>3, <5>1, <5>2 DEF Told
        <4> QED BY <4>4, <4>5
      <3> QED BY <3>1, <3>2
    <2>9. \A i \in Items : Level(k, i)'
      <3>1. \A i \in Items : /\ Told(r, i, m)' <=> Told(r, i, m)
                             /\ LogOf(r, i, m)' = LogOf(r, i, m)
        BY <1>2 DEF Told, LogOf
      <3> QED BY <1>2, <2>1, <2>3, <2>8, <3>1 DEF Level, Told, LogOf
    <2>10. ClientSound(k)'
      <3>1. client[k].base <= m BY <1>5, <2>4
      <3>2. \A i \in Items : ~NotYetRead(k, i)' BY <2>1 DEF NotYetRead
      <3> QED BY <1>1, <1>2, <2>1, <2>3, <2>4, <3>1, <3>2 DEF ClientSound
    <2>11. ASSUME client'[k].phase = "live" PROVE client'[k].view = state[r]
      <3>1. ~HasMore(k, c) BY <2>1, <2>11
      <3>2. \A i \in Items : LogOf(r, i, m) = {}
        BY <2>2, <2>6, <3>1 DEF HasMore, LogOf
      <3>3. \A i \in Items : client'[k].view[i] = state[r][i]
        BY <2>8, <3>2 DEF Told
      <3> QED BY <1>5, <2>1, <3>3 DEF Applied
    <2> QED BY <1>1, <1>7, <2>9, <2>10, <2>11, ClientStep
  <1> QED BY <1>3, <1>6, <1>7 DEF FeedPage

LEMMA ForgottenReplay ==
    ASSUME ReplayInv, RepairInv', NEW k \in Clients, FeedPageForgotten(k)
    PROVE  ReplayInv'
  <1>1. /\ client[k] \in ClientOf /\ ClientSound(k) /\ client \in [Clients -> ClientOf]
        /\ client[k].phase \in {"replay", "live"} /\ Valid(k) /\ ServerUnchanged
        /\ \A i \in Items : Level(k, i) /\ ~NotYetRead(k, i)
    <2>1. client \in [Clients -> ClientOf] BY ReplayFacts DEF TypeInv, ClientsOK
    <2>2. \A i \in Items : Level(k, i)
      BY LevelMeans DEF FeedPageForgotten, ReplayInv, AllLevel
    <2>3. \A i \in Items : ~NotYetRead(k, i) BY DEF FeedPageForgotten, NotYetRead
    <2> QED BY <2>1, <2>2, <2>3 DEF FeedPageForgotten, ReplayInv
  <1>2. UNCHANGED <<state, log, generation, apiFeedEnabled, lastSequence, floor>>
    BY <1>1 DEF ServerUnchanged, sequenceVars
  <1>3. PICK r \in Resources, n \in Cursors : r = client[k].res /\ n = client[k].cursor
    BY <1>1 DEF ClientOf
  <1>4. PICK c \in Unread(k) :
            Now(k, [client[k] EXCEPT !.view = Applied(k, c), !.phase = "replay"])
    BY DEF FeedPageForgotten
  <1>5. /\ client'[k].phase = "replay" /\ client'[k].res = r
        /\ client'[k].gen = client[k].gen /\ client'[k].base = client[k].base
        /\ client'[k].cursor = n /\ client'[k].view = Applied(k, c)
    BY <1>1, <1>3, <1>4 DEF Now, ClientOf
  <1>6. ClientSound(k)'
    <2>1. \A i \in Items : ~NotYetRead(k, i)' BY <1>5 DEF NotYetRead
    <2> QED BY <1>1, <1>2, <1>3, <1>5, <2>1 DEF ClientSound
  <1>7. ASSUME NEW i \in Items
        PROVE  Told(r, i, n) \/ (LogOf(r, i, n) = {} /\ client'[k].view[i] = state[r][i])
    <2>1. Told(r, i, n) \/ (LogOf(r, i, n) = {} /\ client[k].view[i] = state[r][i])
      BY <1>1, <1>3 DEF Level
    <2>2. CASE i = c.item
      <3>1. c \in LogOf(r, i, n) BY <1>3, <2>2 DEF LogOf, Unread
      <3> QED BY <2>1, <3>1
    <2>3. CASE i # c.item
      <3>1. client'[k].view[i] = client[k].view[i] BY <1>5, <2>3 DEF Applied
      <3> QED BY <2>1, <3>1
    <2> QED BY <2>2, <2>3
  <1>8. \A i \in Items : Level(k, i)'
    <2>1. \A i \in Items : /\ Told(r, i, n)' <=> Told(r, i, n)
                           /\ LogOf(r, i, n)' = LogOf(r, i, n)
      BY <1>2 DEF Told, LogOf
    <2> QED BY <1>2, <1>5, <1>7, <2>1 DEF Level, Told, LogOf
  <1> QED BY <1>1, <1>4, <1>6, <1>8, ClientStep

LEMMA ClientReplay ==
    ASSUME ReplayInv, RepairInv', NEW k \in Clients, Pull(k) \/ FeedPageForgotten(k)
    PROVE  ReplayInv'
  <1>1. CASE TurnedAway(k)
    <2>1. client \in [Clients -> ClientOf] BY ReplayFacts DEF TypeInv, ClientsOK
    <2>2. client'[k].phase = "off" BY <1>1, <2>1 DEF TurnedAway, Now, Away
    <2>3. ClientSound(k)' /\ ~Valid(k)' BY <2>2 DEF ClientSound, Valid
    <2> QED BY <1>1, <2>3, ClientStep DEF TurnedAway
  <1> QED
    BY <1>1, BootstrapReplay, SnapshotReplay, FeedReplay, ForgottenReplay DEF Pull

LEMMA ReplayStep == ReplayInv /\ [Next]_vars => ReplayInv'
  <1> SUFFICES ASSUME ReplayInv, [Next]_vars PROVE ReplayInv'
    OBVIOUS
  <1>1. RepairInv' BY RepairStep DEF ReplayInv
  <1>2. CASE UNCHANGED vars
    <2>1. UNCHANGED <<lastSequence, floor, apiFeedEnabled, client, log, state, generation, live>>
      BY <1>2 DEF vars, sequenceVars, libraryVars
    <2>2. Onward BY <2>1, SilentOnward, ReplayFacts
    <2> QED BY <1>1, <2>2, ServerStep
  <1>3. CASE Edits \/ Upkeep
    BY <1>1, <1>3, EditOnward, UpkeepOnward, ServerStep
  <1>4. ASSUME NEW m \in Imports, Import(m) PROVE ReplayInv'
    BY <1>1, <1>4, ImportOnward, ServerStep
  <1>5. ASSUME NEW w \in Walkers, Walk(w) \/ WalkDies(w) PROVE ReplayInv'
    BY <1>1, <1>5, WalkOnward, ServerStep
  <1>6. ASSUME NEW k \in Clients, Pull(k) \/ FeedPageForgotten(k) PROVE ReplayInv'
    BY <1>1, <1>6, ClientReplay
  <1> QED BY <1>2, <1>3, <1>4, <1>5, <1>6 DEF Next

LEMMA ReplayAlways == Spec => []ReplayInv
  BY ReplayInit, ReplayStep, PTL DEF Spec

\* Replaying the retained log from a cursor the server still accepts ends at the
\* state, whatever the interleaving of edits, walks, imports, retention and pages.
THEOREM ReplayReaches == Spec => []ReplayReachesState
  <1>1. ReplayInv => ReplayReachesState BY DEF ReplayInv
  <1> QED BY <1>1, ReplayAlways, PTL

-----------------------------------------------------------------------------
(* The page that says a client is level.                                     *)

LEMMA LevelStep ==
    ASSUME ReplayInv, RepairInv', [Next]_vars, NEW k \in Clients,
           client'[k].phase = "live", client'[k] # client[k]
    PROVE  /\ client'[k].view = state[client[k].res]
           /\ client[k].res = "watched" =>
                  \A i \in Items \ asserted :
                      Derived(client'[k].view[i]) = Derived(src[i])
  <1>1. client \in [Clients -> ClientOf] BY ReplayFacts DEF TypeInv, ClientsOK
  <1>2. FeedPage(k)
    <2>1. ASSUME Onward PROVE FALSE BY <2>1 DEF Onward
    <2>2. CASE UNCHANGED vars BY <2>2 DEF vars
    <2>3. CASE Edits \/ Upkeep BY <2>1, <2>3, EditOnward, UpkeepOnward
    <2>4. ASSUME NEW m \in Imports, Import(m) PROVE FALSE BY <2>1, <2>4, ImportOnward
    <2>5. ASSUME NEW w \in Walkers, Walk(w) \/ WalkDies(w) PROVE FALSE
      BY <2>1, <2>5, WalkOnward
    <2>6. ASSUME NEW h \in Clients, Pull(h) \/ FeedPageForgotten(h) PROVE FeedPage(k)
      <3>1. h = k
        <4>1. \E rec : Now(h, rec)
          BY <2>6
          DEF Pull, Bootstrap, SnapshotPage, FeedPage, TurnedAway, FeedPageForgotten
        <4> QED BY <1>1, <4>1 DEF Now
      <3>2. ASSUME NEW r \in Resources, Bootstrap(k, r) PROVE FALSE
        BY <1>1, <3>2 DEF Bootstrap, Now
      <3>3. ASSUME SnapshotPage(k) PROVE FALSE
        BY <1>1, <3>3 DEF SnapshotPage, Now, ClientOf
      <3>4. ASSUME TurnedAway(k) PROVE FALSE
        BY <1>1, <3>4 DEF TurnedAway, Now, Away
      <3>5. ASSUME FeedPageForgotten(k) PROVE FALSE
        BY <1>1, <3>5 DEF FeedPageForgotten, Now, ClientOf
      <3> QED BY <2>6, <3>1, <3>2, <3>3, <3>4, <3>5 DEF Pull
    <2> QED BY <2>2, <2>3, <2>4, <2>5, <2>6 DEF Next
  <1>3. client'[k].view = state[client[k].res] BY <1>2, FeedReplay
  <1>4. ASSUME client[k].res = "watched", NEW i \in Items \ asserted
        PROVE  Derived(client'[k].view[i]) = Derived(src[i])
    <2>1. Settled(i)
      BY <1>2, ReplayFacts DEF FeedPage, Valid, RepairInv, BaselineIsRepaired, FeedKeepsBaseline
    <2>2. client'[k].view[i] = state["watched"][i] BY <1>3, <1>4
    <2>3. src[i] \in Rows BY ReplayFacts
    <2>4. Derived(Derived(src[i])) = Derived(src[i]) BY <2>3, DerivedIsAValue DEF Derived
    <2> QED BY <2>1, <2>2, <2>4 DEF Settled
  <1> QED BY <1>3, <1>4

\* The page that tells a client it is level leaves its mirror equal to the state, and
\* a watched mirror equal to what the tracking rows say.
THEOREM CaughtUpHolds == Spec => CaughtUpIsTrue
  <1> DEFINE A == \A k \in Clients :
                    (client'[k].phase = "live" /\ client'[k] # client[k]) =>
                        /\ client'[k].view = state[client[k].res]
                        /\ client[k].res = "watched" =>
                               \A i \in Items \ asserted :
                                   Derived(client'[k].view[i]) = Derived(src[i])
  <1>1. ReplayInv /\ [Next]_vars => [A]_vars
    <2> SUFFICES ASSUME ReplayInv, [Next]_vars PROVE A
      OBVIOUS
    <2>1. RepairInv' BY RepairStep DEF ReplayInv
    <2> QED BY <2>1, LevelStep
  <1>2. Spec => [][A]_vars BY <1>1, ReplayAlways, PTL DEF Spec
  <1> QED BY <1>2 DEF CaughtUpIsTrue

=============================================================================

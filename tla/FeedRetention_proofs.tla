------------------------ MODULE FeedRetention_proofs ------------------------
(* Proofs about FeedRetention, for every number of connections, requests and *)
(* log rows.                                                                 *)
EXTENDS FeedRetention, TLAPS

USE RetentionAssumption

-----------------------------------------------------------------------------
(* Type correctness.                                                         *)

Phases == {"idle", "check", "ack", "save", "serve"}
Requests == [phase : Phases, binding : Bindings \cup {NoBinding},
             cursor : Sequences, read : Sequences]
Positions == [pos : Sequences, fresh : BOOLEAN]

\* A client has saved nothing that was not logged yet.
SavedWasLogged == \A b \in Bindings : device[b] <= lastSequence

\* A request under way belongs to a connection and says no more than its client has
\* saved by now.
RequestsAreBehind ==
    \A q \in Pulls : pull[q].phase # "idle" =>
        /\ pull[q].binding \in Bindings
        /\ pull[q].cursor <= device[pull[q].binding]

\* CheckpointsAreProven is not inductive without the last two.
Inductive == TypeOK /\ CheckpointsAreProven /\ SavedWasLogged /\ RequestsAreBehind

LEMMA InductiveInit == Init => Inductive
  BY DEF Init, Inductive, TypeOK, CheckpointsAreProven, SavedWasLogged,
         RequestsAreBehind, NoCheckpoint, NoPull, Sequences

\* Steps of the log, the clock and the connections.
LEMMA ServerStep ==
    ASSUME Inductive,
           RecordChange \/ WindowPasses \/ (\E b \in Bindings : Manage(b)) \/ Compact
    PROVE  Inductive'
  <1> USE DEF Inductive, TypeOK, Sequences
  <1>1. CASE RecordChange
    BY <1>1 DEF RecordChange, Allocated, CheckpointsAreProven, SavedWasLogged,
                RequestsAreBehind
  <1>2. CASE WindowPasses
    <2>1. checkpoint' \in [Bindings -> [pos : Sequences, fresh : BOOLEAN]]
      BY <1>2 DEF WindowPasses
    <2>2. \A b \in Bindings : checkpoint'[b].pos = checkpoint[b].pos
      BY <1>2 DEF WindowPasses
    <2>3. TypeOK' BY <1>2, <2>1 DEF WindowPasses
    <2> QED
      BY <1>2, <2>2, <2>3
      DEF WindowPasses, CheckpointsAreProven, SavedWasLogged, RequestsAreBehind
  <1>3. ASSUME NEW b \in Bindings, Manage(b) PROVE Inductive'
    <2> HIDE DEF Sequences
    <2>1. PICK s \in {"none", "pending", "active", "reapproval", "disabled"} :
              SetStatus(b, s)
      BY <1>3 DEF Manage, Connect, Activate, NeedsReapproval, Deactivate, Narrow
    <2>2. TypeOK' BY <2>1 DEF SetStatus
    <2>3. /\ CheckpointsAreProven' /\ SavedWasLogged'
          /\ RequestsAreBehind'
      BY <2>1 DEF SetStatus, CheckpointsAreProven, SavedWasLogged, RequestsAreBehind
    <2> QED BY <2>2, <2>3
  <1>4. CASE Compact
    <2>1. PICK c \in Removable : /\ log' = log \ {d \in Removable : d <= c}
                                /\ pruned' = IF c > pruned THEN c ELSE pruned
      BY <1>4 DEF Compact
    <2>2. c \in log BY DEF Removable
    <2>3. c \in 0..MaxSequence BY <2>2
    <2>4. pruned' \in 0..MaxSequence BY <2>1, <2>3
    <2>5. log' \subseteq log BY <2>1
    <2>6. TypeOK' BY <1>4, <2>4, <2>5 DEF Compact
    <2>7. /\ CheckpointsAreProven' /\ SavedWasLogged'
          /\ RequestsAreBehind'
      BY <1>4 DEF Compact, CheckpointsAreProven, SavedWasLogged, RequestsAreBehind
    <2> QED BY <2>6, <2>7
  <1> QED BY <1>1, <1>2, <1>3, <1>4

LEMMA ZeroIsASequence == 0 \in Sequences
  BY DEF Sequences

\* Steps of one request.
LEMMA PullStep ==
    ASSUME Inductive, NEW q \in Pulls, Pull(q)
    PROVE  Inductive'
  <1> USE ZeroIsASequence DEF Inductive, TypeOK
  <1>t. /\ pull \in [Pulls -> Requests]
        /\ pull[q] \in Requests
        /\ NoPull \in Requests
    BY DEF Requests, Phases, NoPull
  <1>p. checkpoint \in [Bindings -> Positions]
    BY DEF Positions
  <1>v. [pos |-> pull[q].cursor, fresh |-> TRUE] \in Positions
    BY <1>t DEF Requests, Positions
  <1>w. ASSUME NEW place \in Phases, NEW read \in Sequences
        PROVE  /\ [pull EXCEPT ![q].phase = place] \in [Pulls -> Requests]
               /\ [pull EXCEPT ![q].phase = place, ![q].read = read]
                    \in [Pulls -> Requests]
    <2>1. /\ [pull[q] EXCEPT !.phase = place] \in Requests
          /\ [pull[q] EXCEPT !.phase = place, !.read = read] \in Requests
      BY <1>t DEF Requests
    <2> QED BY <1>t, <2>1
  <1>n. /\ lastSequence \in Nat
        /\ \A b \in Bindings : device[b] \in Nat /\ checkpoint[b].pos \in Nat
        /\ \A p \in Pulls : pull[p].cursor \in Nat
    BY DEF Sequences
  <1>1. ASSUME NEW b \in Bindings, StartPull(q, b) PROVE Inductive'
    <2>1. pull' \in [Pulls -> Requests] BY <1>1, <1>t DEF StartPull, Requests, Phases
    <2>2. TypeOK' BY <1>1, <2>1 DEF StartPull, Requests, Phases
    <2>3. RequestsAreBehind' BY <1>1, <1>n DEF StartPull, RequestsAreBehind
    <2> QED
      BY <1>1, <2>2, <2>3 DEF StartPull, CheckpointsAreProven, SavedWasLogged
  <1>2. CASE CheckPull(q)
    <2>1. pull' \in [Pulls -> Requests]
      <3>1. \/ pull' = [pull EXCEPT ![q] = NoPull]
            \/ \E place \in {"ack", "serve"} : pull' = [pull EXCEPT ![q].phase = place]
        BY <1>2 DEF CheckPull, Advance
      <3>2. CASE pull' = [pull EXCEPT ![q] = NoPull]
        BY <3>2, <1>t
      <3>3. ASSUME NEW place \in {"ack", "serve"},
                   pull' = [pull EXCEPT ![q].phase = place]
            PROVE  pull' \in [Pulls -> Requests]
        <4>1. place \in Phases BY DEF Phases
        <4> QED BY <3>3, <4>1, <1>w
      <3> QED BY <3>1, <3>2, <3>3
    <2>2. TypeOK' BY <1>2, <2>1 DEF CheckPull, Requests, Phases
    <2>3. \A b \in Bindings : device[b] <= device'[b]
      BY <1>2, <1>n DEF CheckPull, SavedWasLogged
    <2>4. \A b \in Bindings : device'[b] \in Nat BY <2>2 DEF Sequences
    <2>5. CheckpointsAreProven'
      BY <1>2, <1>n, <2>3, <2>4 DEF CheckPull, CheckpointsAreProven
    <2>6. SavedWasLogged' BY <1>2, <1>n DEF CheckPull, SavedWasLogged
    <2>7. RequestsAreBehind'
      <3> SUFFICES ASSUME NEW p \in Pulls, pull'[p].phase # "idle"
                   PROVE  /\ pull'[p].binding \in Bindings
                          /\ pull'[p].cursor <= device'[pull'[p].binding]
        BY DEF RequestsAreBehind
      <3>1. /\ pull[p].phase # "idle"
            /\ pull'[p].binding = pull[p].binding
            /\ pull'[p].cursor = pull[p].cursor
        BY <1>2, <1>t DEF CheckPull, Advance, NoPull, Requests, Phases
      <3> QED BY <1>n, <2>3, <2>4, <3>1 DEF RequestsAreBehind
    <2> QED BY <2>2, <2>5, <2>6, <2>7
  <1>3. CASE ReadCheckpoint(q)
    <2>1. pull' \in [Pulls -> Requests]
      <3>1. \A b \in Bindings : checkpoint[b].pos \in Sequences
        BY <1>p DEF Positions
      <3>2. CASE pull' = [pull EXCEPT ![q].phase = "serve"]
        BY <3>2, <1>w DEF Phases
      <3>3. CASE pull' = [pull EXCEPT ![q].read = checkpoint[pull[q].binding].pos,
                                      ![q].phase = "save"]
        <4>1. pull[q].binding \in Bindings
          BY <1>3 DEF ReadCheckpoint, RequestsAreBehind
        <4>2. pull' = [pull EXCEPT ![q].phase = "save",
                                   ![q].read = checkpoint[pull[q].binding].pos]
          BY <3>3
        <4> QED BY <3>1, <4>1, <4>2, <1>w DEF Phases
      <3> QED BY <1>3, <3>2, <3>3 DEF ReadCheckpoint, Advance
    <2>2. checkpoint' \in [Bindings -> Positions]
      BY <1>3, <1>p, <1>v DEF ReadCheckpoint, Proof
    <2>3. TypeOK' BY <1>3, <2>1, <2>2 DEF ReadCheckpoint, Requests, Phases, Positions
    <2>4. CheckpointsAreProven'
      BY <1>3, <1>n DEF ReadCheckpoint, Proof, CheckpointsAreProven, RequestsAreBehind
    <2>5. RequestsAreBehind'
      <3> SUFFICES ASSUME NEW r \in Pulls, pull'[r].phase # "idle"
                   PROVE  /\ pull'[r].binding \in Bindings
                          /\ pull'[r].cursor <= device'[pull'[r].binding]
        BY DEF RequestsAreBehind
      <3>1. /\ pull[r].phase # "idle"
            /\ pull'[r].binding = pull[r].binding
            /\ pull'[r].cursor = pull[r].cursor
        <4>1. \/ pull' = [pull EXCEPT ![q].phase = "serve"]
              \/ pull' = [pull EXCEPT ![q].read = checkpoint[pull[q].binding].pos,
                                      ![q].phase = "save"]
          BY <1>3 DEF ReadCheckpoint, Advance
        <4>2. pull[q].phase = "ack" BY <1>3 DEF ReadCheckpoint
        <4>3. CASE r = q
          <5>1. pull'[q].binding = pull[q].binding /\ pull'[q].cursor = pull[q].cursor
            BY <4>1, <1>t DEF Requests
          <5> QED BY <4>2, <4>3, <5>1
        <4>4. CASE r # q BY <4>1, <4>4, <1>t
        <4> QED BY <4>3, <4>4
      <3> QED BY <1>3, <3>1 DEF ReadCheckpoint, RequestsAreBehind
    <2> QED BY <1>3, <2>3, <2>4, <2>5 DEF ReadCheckpoint, SavedWasLogged
  <1>4. CASE SaveCheckpoint(q)
    <2>1. pull' \in [Pulls -> Requests]
      BY <1>4, <1>w DEF SaveCheckpoint, Phases
    <2>2. checkpoint' \in [Bindings -> Positions]
      BY <1>4, <1>p, <1>v DEF SaveCheckpoint, Proof
    <2>3. TypeOK' BY <1>4, <2>1, <2>2 DEF SaveCheckpoint, Requests, Phases, Positions
    <2>4. CheckpointsAreProven'
      BY <1>4, <1>n DEF SaveCheckpoint, Proof, CheckpointsAreProven, RequestsAreBehind
    <2>5. RequestsAreBehind'
      BY <1>4, <1>t DEF SaveCheckpoint, Requests, RequestsAreBehind
    <2> QED BY <1>4, <2>3, <2>4, <2>5 DEF SaveCheckpoint, SavedWasLogged
  <1>5. CASE ServePull(q)
    <2>1. pull' \in [Pulls -> Requests] BY <1>5, <1>t DEF ServePull
    <2>2. \A c \in log : c \in Sequences /\ c <= lastSequence
      BY <1>n DEF Sequences
    <2>3. device' \in [Bindings -> Sequences] BY <1>5, <2>2 DEF ServePull
    <2>4. TypeOK' BY <1>5, <2>1, <2>3 DEF ServePull, Requests, Phases
    <2>5. \A b \in Bindings : device'[b] \in Nat BY <2>3 DEF Sequences
    <2>6. \A b \in Bindings : device[b] <= device'[b] /\ device'[b] <= lastSequence
      BY <1>5, <1>n, <2>2, <2>5 DEF ServePull, SavedWasLogged
    <2>7. CheckpointsAreProven'
      BY <1>5, <1>n, <2>5, <2>6 DEF ServePull, CheckpointsAreProven
    <2>8. SavedWasLogged' BY <1>5, <2>6 DEF ServePull, SavedWasLogged
    <2>9. RequestsAreBehind'
      <3> SUFFICES ASSUME NEW p \in Pulls, pull'[p].phase # "idle"
                   PROVE  /\ pull'[p].binding \in Bindings
                          /\ pull'[p].cursor <= device'[pull'[p].binding]
        BY DEF RequestsAreBehind
      <3>1. p # q /\ pull'[p] = pull[p] BY <1>5 DEF ServePull, NoPull
      <3> QED BY <1>n, <2>5, <2>6, <3>1 DEF RequestsAreBehind
    <2> QED BY <2>4, <2>7, <2>8, <2>9
  <1> QED BY <1>1, <1>2, <1>3, <1>4, <1>5 DEF Pull

LEMMA InductiveStep == Inductive /\ [Next]_vars => Inductive'
  <1> SUFFICES ASSUME Inductive, [Next]_vars PROVE Inductive'
    OBVIOUS
  <1>1. CASE UNCHANGED vars
    BY <1>1 DEF vars, Inductive, TypeOK, CheckpointsAreProven, SavedWasLogged,
                RequestsAreBehind
  <1> QED BY <1>1, ServerStep, PullStep DEF Next

\* Every variable keeps its type.
THEOREM TypeCorrect == Spec => []TypeOK
  <1>1. Inductive => TypeOK BY DEF Inductive
  <1> QED BY InductiveInit, InductiveStep, <1>1, PTL DEF Spec

\* No checkpoint runs ahead of what its client has saved, with any number of
\* requests in flight: acknowledging by asking is safe without a lock.
THEOREM CheckpointsProven == Spec => []CheckpointsAreProven
  <1>1. Inductive => CheckpointsAreProven BY DEF Inductive
  <1> QED BY InductiveInit, InductiveStep, <1>1, PTL DEF Spec

-----------------------------------------------------------------------------
(* What compaction may take.                                                 *)

\* Only compaction removes rows.
LEMMA OthersKeepRows ==
    ASSUME [Next]_vars, ~Compact
    PROVE  log \subseteq log'
  BY DEF Next, RecordChange, WindowPasses, Manage, Connect, Activate, NeedsReapproval,
         Deactivate, Narrow, SetStatus, Pull, StartPull, CheckPull, ReadCheckpoint,
         SaveCheckpoint, ServePull, vars

\* A row goes only when every connection heard from inside the window has saved it.
THEOREM TailsAreKept == Spec => HeardClientsKeepTheirTail
  <1>1. Inductive /\ [Next]_vars =>
            [\A c \in log \ log' : \A b \in Heard : c <= device[b]]_vars
    <2> SUFFICES ASSUME Inductive, [Next]_vars, NEW c \in log \ log', NEW b \in Heard
                 PROVE  c <= device[b]
      OBVIOUS
    <2>1. Compact BY OthersKeepRows
    <2>2. c \in Removable BY <2>1 DEF Compact
    <2>3. c <= checkpoint[b].pos BY <2>2 DEF Removable
    <2>4. checkpoint[b].pos <= device[b]
      BY DEF Inductive, CheckpointsAreProven, Heard
    <2>5. c \in Int /\ checkpoint[b].pos \in Int /\ device[b] \in Int
      BY DEF Inductive, TypeOK, Sequences, Heard
    <2> QED BY <2>3, <2>4, <2>5
  <1> QED BY InductiveInit, InductiveStep, <1>1, PTL DEF Spec, HeardClientsKeepTheirTail

=============================================================================

--------------------------- MODULE FeedRetention ---------------------------
(***************************************************************************)
(* How long the watched-state log of one user is kept: provider            *)
(* connections that acknowledge what they applied by asking for what comes *)
(* next, the checkpoints this leaves, and the task that deletes log rows   *)
(* that are old and that every connection still heard from has applied     *)
(* (integrations/state/checkpoints.py, integrations/tasks/_change_log.py,  *)
(* integrations/state/identity.py, api/fork_views_watched_state.py).       *)
(*                                                                         *)
(* The compaction holds the user's sequence row from first read to commit  *)
(* and is one action; a legacy pull holds nothing, so its expiry check,    *)
(* the read and the save of its checkpoint and the read of the rows are    *)
(* four.  What the rows say does not matter here (ChangeFeed has that).    *)
(***************************************************************************)
EXTENDS Integers

CONSTANTS
    Bindings,       \* the user's provider connections
    Pulls,          \* requests that can be under way at once
    NoBinding,      \* a pull that is not under way
    MaxSequence     \* bound: nothing is logged beyond this sequence

ASSUME RetentionAssumption ==
    /\ NoBinding \notin Bindings
    /\ MaxSequence \in Nat

VARIABLES
    lastSequence,   \* WatchStateSequence.last_sequence
    log,            \* the sequences of the retained rows
    horizon,        \* rows through here are older than the retention window
    pruned,         \* .watched_pruned_through
    status,         \* SyncBinding.status
    recent,         \* SyncBinding.updated_at is inside the window
    checkpoint,     \* SyncCheckpoint: [pos, fresh]; pos 0 when there is none
    device,         \* the furthest cursor each client has saved
    pull            \* the requests under way

vars == <<lastSequence, log, horizon, pruned, status, recent, checkpoint, device, pull>>

Sequences == 0..MaxSequence
NoCheckpoint == [pos |-> 0, fresh |-> FALSE]
NoPull == [phase |-> "idle", binding |-> NoBinding, cursor |-> 0, read |-> 0]

Init ==
    /\ lastSequence = 0
    /\ log = {}
    /\ horizon = 0
    /\ pruned = 0
    /\ status = [b \in Bindings |-> "none"]
    /\ recent = [b \in Bindings |-> FALSE]
    /\ checkpoint = [b \in Bindings |-> NoCheckpoint]
    /\ device = [b \in Bindings |-> 0]
    /\ pull = [q \in Pulls |-> NoPull]

-----------------------------------------------------------------------------
(* The log and the clock.                                                    *)

MutantBeforeIncrement == lastSequence
Allocated == lastSequence + 1

RecordChange ==
    /\ lastSequence < MaxSequence
    /\ lastSequence' = lastSequence + 1
    /\ log' = log \cup {Allocated}
    /\ UNCHANGED <<horizon, pruned, status, recent, checkpoint, device, pull>>

\* A whole retention window passes.
WindowPasses ==
    /\ horizon' = lastSequence
    /\ recent' = [b \in Bindings |-> FALSE]
    /\ checkpoint' = [b \in Bindings |-> [checkpoint[b] EXCEPT !.fresh = FALSE]]
    /\ UNCHANGED <<lastSequence, log, pruned, status, device, pull>>

-----------------------------------------------------------------------------
(* Connections.                                                              *)

SetStatus(b, s) ==
    /\ status' = [status EXCEPT ![b] = s]
    /\ recent' = [recent EXCEPT ![b] = TRUE]
    /\ UNCHANGED <<lastSequence, log, horizon, pruned, checkpoint, device, pull>>

Connect(b) == status[b] = "none" /\ SetStatus(b, "pending")

Activate(b) ==
    /\ status[b] \in {"pending", "active", "reapproval", "disabled"}
    /\ SetStatus(b, "active")

\* The remote server or profile turned out to be another one.
NeedsReapproval(b) == status[b] \in {"pending", "active"} /\ SetStatus(b, "reapproval")

Deactivate(b) ==
    /\ status[b] \in {"pending", "active", "reapproval"}
    /\ SetStatus(b, "disabled")

\* The server behind a connection becomes known: only its update time moves.
Narrow(b) == status[b] # "none" /\ SetStatus(b, status[b])

-----------------------------------------------------------------------------
(* A legacy pull.  Asking for the changes after n says that n was applied.   *)

Advance(q, phase) == pull' = [pull EXCEPT ![q].phase = phase]

\* The client sends its saved cursor; an earlier request may still be under way.
StartPull(q, b) ==
    /\ pull[q] = NoPull
    /\ status[b] # "none"
    /\ pull' = [pull EXCEPT ![q] = [phase |-> "check", binding |-> b,
                                    cursor |-> device[b], read |-> 0]]
    /\ UNCHANGED <<lastSequence, log, horizon, pruned, status, recent, checkpoint, device>>

Expired(q) == 0 < pull[q].cursor /\ pull[q].cursor < pruned

\* A client whose place was pruned takes a snapshot and goes on from the newest
\* sequence.
CheckPull(q) ==
    /\ pull[q].phase = "check"
    /\ \/ /\ Expired(q)
          /\ device' = [device EXCEPT ![pull[q].binding] = lastSequence]
          /\ pull' = [pull EXCEPT ![q] = NoPull]
       \/ /\ ~Expired(q)
          /\ Advance(q, IF pull[q].cursor > 0 THEN "ack" ELSE "serve")
          /\ UNCHANGED device
    /\ UNCHANGED <<lastSequence, log, horizon, pruned, status, recent, checkpoint>>

MutantOnDelivery(q) == lastSequence
Proof(q) == pull[q].cursor

\* get_or_create: the first acknowledgement is the checkpoint.
ReadCheckpoint(q) ==
    LET b == pull[q].binding
    IN  /\ pull[q].phase = "ack"
        /\ \/ /\ checkpoint[b].pos = 0
              /\ checkpoint' = [checkpoint EXCEPT ![b] =
                                  [pos |-> Proof(q), fresh |-> TRUE]]
              /\ Advance(q, "serve")
           \/ /\ checkpoint[b].pos > 0
              /\ pull' = [pull EXCEPT ![q].read = checkpoint[b].pos,
                                      ![q].phase = "save"]
              /\ UNCHANGED checkpoint
        /\ UNCHANGED <<lastSequence, log, horizon, pruned, status, recent, device>>

\* The comparison is with what was read; what is stored now is overwritten.
SaveCheckpoint(q) ==
    LET b == pull[q].binding
    IN  /\ pull[q].phase = "save"
        /\ \/ /\ Proof(q) > pull[q].read
              /\ checkpoint' = [checkpoint EXCEPT ![b] =
                                  [pos |-> Proof(q), fresh |-> TRUE]]
           \/ /\ Proof(q) <= pull[q].read
              /\ UNCHANGED checkpoint
        /\ pull' = [pull EXCEPT ![q].phase = "serve", ![q].read = 0]
        /\ UNCHANGED <<lastSequence, log, horizon, pruned, status, recent, device>>

\* The rows after the cursor: the client applies a page and saves next_cursor, or
\* the answer is lost on the way.
ServePull(q) ==
    LET b == pull[q].binding
    IN  /\ pull[q].phase = "serve"
        /\ \/ \E c \in log : /\ c > pull[q].cursor
                             /\ c > device[b]
                             /\ device' = [device EXCEPT ![b] = c]
           \/ UNCHANGED device
        /\ pull' = [pull EXCEPT ![q] = NoPull]
        /\ UNCHANGED <<lastSequence, log, horizon, pruned, status, recent, checkpoint>>

-----------------------------------------------------------------------------
(* Compaction.                                                               *)

Enabled(b) == status[b] \notin {"none", "disabled"}

\* The connections the watermark is computed over: those with a checkpoint moved
\* inside the window.
MutantHeardOnce == {b \in Bindings : Enabled(b) /\ checkpoint[b].pos > 0}
Heard == {b \in Bindings : Enabled(b) /\ checkpoint[b].pos > 0 /\ checkpoint[b].fresh}

NativeWaiting == \E b \in Bindings : status[b] = "active" /\ recent[b]

MutantFastest ==
    {c \in log : /\ c <= horizon
                 /\ Heard = {} => ~NativeWaiting
                 /\ Heard = {} \/ \E b \in Heard : c <= checkpoint[b].pos}

\* Old rows, below the watermark when there is one.
Removable ==
    {c \in log : /\ c <= horizon
                 /\ Heard = {} => ~NativeWaiting
                 /\ \A b \in Heard : c <= checkpoint[b].pos}

\* Rows go oldest first, up to a batch limit; a deleted row raises the mark.
Compact ==
    \E c \in Removable :
        /\ log' = log \ {d \in Removable : d <= c}
        /\ pruned' = IF c > pruned THEN c ELSE pruned
        /\ UNCHANGED <<lastSequence, horizon, status, recent, checkpoint, device, pull>>

-----------------------------------------------------------------------------
Pull(q) ==
    \/ \E b \in Bindings : StartPull(q, b)
    \/ CheckPull(q)
    \/ ReadCheckpoint(q)
    \/ SaveCheckpoint(q)
    \/ ServePull(q)

Manage(b) ==
    \/ Connect(b)
    \/ Activate(b)
    \/ NeedsReapproval(b)
    \/ Deactivate(b)
    \/ Narrow(b)

Next ==
    \/ RecordChange
    \/ WindowPasses
    \/ \E b \in Bindings : Manage(b)
    \/ \E q \in Pulls : Pull(q)
    \/ Compact

Spec == Init /\ [][Next]_vars

\* Time goes on and the task is scheduled every day.
FairSpec == Spec /\ WF_vars(WindowPasses) /\ WF_vars(Compact)

-----------------------------------------------------------------------------
(* Properties.                                                               *)

\* Every variable keeps its type.
TypeOK ==
    /\ lastSequence \in Sequences
    /\ log \subseteq 1..lastSequence
    /\ horizon \in 0..lastSequence
    /\ pruned \in Sequences
    /\ status \in [Bindings -> {"none", "pending", "active", "reapproval", "disabled"}]
    /\ recent \in [Bindings -> BOOLEAN]
    /\ checkpoint \in [Bindings -> [pos : Sequences, fresh : BOOLEAN]]
    /\ device \in [Bindings -> Sequences]
    /\ pull \in [Pulls -> [phase : {"idle", "check", "ack", "save", "serve"},
                           binding : Bindings \cup {NoBinding},
                           cursor : Sequences, read : Sequences]]

\* A checkpoint is proof: it never runs ahead of what its client has saved,
\* whatever requests were repeated, overtaken or lost ("a checkpoint advanced
\* ahead of its data skips silently").
CheckpointsAreProven == \A b \in Bindings : checkpoint[b].pos <= device[b]

\* Compaction takes no row from a client that is connected and was heard from
\* inside the window: what is removed, that client has already saved.
HeardClientsKeepTheirTail ==
    [][\A c \in log \ log' : \A b \in Heard : c <= device[b]]_vars

\* Once the connections fall silent, no dead device pins the log: every row that
\* was not logged since goes in the end.
SilenceDrainsTheLog ==
    <>[][WindowPasses \/ Compact]_vars => <>[](log = {})

=============================================================================

-------------------------- MODULE MCBackfillQueue --------------------------
(* Instances of BackfillQueue for TLC. *)
EXTENDS BackfillQueue, TLC

\* Workers, and the members of the queue, are interchangeable.
Interchangeable == Permutations(Workers) \cup Permutations(Members)

=============================================================================

------------------------- MODULE MCOutboundDelivery -------------------------
(* Instances of OutboundDelivery: two interchangeable workers, so that a kick *)
(* and a sweep, or two sweeps, meet on one subject.                           *)
EXTENDS OutboundDelivery, TLC

WorkerSymmetry == Permutations(Workers)
=============================================================================

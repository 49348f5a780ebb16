-------------------------- MODULE MCMetadataSweep --------------------------
(* Instances of MetadataSweep for TLC. *)
EXTENDS MetadataSweep
=============================================================================

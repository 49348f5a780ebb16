-------------------------- MODULE MCFeedRetention --------------------------
(* Instances of FeedRetention for TLC. *)
EXTENDS FeedRetention
=============================================================================

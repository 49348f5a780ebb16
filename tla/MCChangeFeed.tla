--------------------------- MODULE MCChangeFeed ---------------------------
(* Instances of ChangeFeed for TLC. *)
EXTENDS ChangeFeed

\* Bound: resume positions move, and are mirrored, in libraries of at most one item.
OneItemPositions ==
    made > 1 => /\ state["progress"] = Empty
                /\ \A k \in Clients : client[k].res = "watched"

=============================================================================

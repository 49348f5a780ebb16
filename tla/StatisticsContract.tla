------------------------- MODULE StatisticsContract -------------------------
(***************************************************************************)
(* What Statistics promises its readers, without saying how: each range    *)
(* shows, for every source of rows it covers, a committed version of that  *)
(* source, and a later answer never shows an earlier version.              *)
(*                                                                         *)
(* app/statistics_sync.py keeps the promise with tokens, generations and a *)
(* fenced lease: module StatisticsSync implements this one.                *)
(***************************************************************************)
EXTENDS Integers

CONSTANTS Sources, Ranges

VARIABLES
    data,       \* the committed version of each source
    shown       \* per range: the version shown of each source it covers

vars == <<data, shown>>

Init ==
    /\ data  = [s \in Sources |-> 0]
    /\ shown = [r \in Ranges |-> <<>>]

\* A row of source s changes.
Change(s) ==
    /\ data' = [data EXCEPT ![s] = data'[s]]
    /\ data'[s] > data[s]
    /\ UNCHANGED shown

\* Range r gets a new answer; it may start or stop covering a source.
Publish(r) ==
    /\ shown' = [shown EXCEPT ![r] = shown'[r]]
    /\ \A s \in DOMAIN shown'[r] :
          /\ shown'[r][s] <= data[s]
          /\ s \in DOMAIN shown[r] => shown[r][s] <= shown'[r][s]
    /\ UNCHANGED data

Next == (\E s \in Sources : Change(s)) \/ (\E r \in Ranges : Publish(r))

Spec == Init /\ [][Next]_vars
=============================================================================

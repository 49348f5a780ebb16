-------------------------- MODULE OutboundContract --------------------------
(* What an outbox promises for one subject, with no workers, queues, clocks  *)
(* or retries: edits are numbered, the provider is shown them in order, and  *)
(* each edit ends, once and for good, told, replaced by a newer one, or      *)
(* dropped.                                                                  *)
EXTENDS Integers

CONSTANTS Values, NoValue, MaxRev

VARIABLES
    latest,   \* the newest edit
    intent,   \* what each edit asks for
    fate,     \* what became of each edit
    shown     \* what the provider holds, and the edit that put it there

vars  == <<latest, intent, fate, shown>>
Edits == 1..MaxRev
Open  == {r \in Edits : fate[r] = "open"}

Init ==
    /\ latest = 0
    /\ intent = [r \in Edits |-> NoValue]
    /\ fate = [r \in Edits |-> "none"]
    /\ shown = [rev |-> 0, value |-> NoValue]

\* A new edit may replace edits still open.
Edit(v) ==
    /\ latest < MaxRev
    /\ latest' = latest + 1
    /\ intent' = [intent EXCEPT ![latest + 1] = v]
    /\ \E replaced \in SUBSET Open :
          fate' = [r \in Edits |-> IF r = latest + 1 THEN "open"
                                   ELSE IF r \in replaced THEN "replaced"
                                   ELSE fate[r]]
    /\ UNCHANGED shown

\* The provider never goes back to an older edit.
Show(r) ==
    /\ fate[r] = "open"
    /\ r >= shown.rev
    /\ shown' = [rev |-> r, value |-> intent[r]]
    /\ UNCHANGED <<latest, intent, fate>>

\* Told means the provider holds the value; replaced means a newer edit exists.
Close(r, f) ==
    /\ fate[r] = "open"
    /\ f \in {"told", "replaced", "dropped"}
    /\ f = "told" => shown.value = intent[r]
    /\ f = "replaced" => r < latest
    /\ fate' = [fate EXCEPT ![r] = f]
    /\ UNCHANGED <<latest, intent, shown>>

\* The user stops the connection: edits still waiting are dropped.
Withdraw ==
    /\ \E dropped \in SUBSET Open :
          fate' = [r \in Edits |-> IF r \in dropped THEN "dropped" ELSE fate[r]]
    /\ UNCHANGED <<latest, intent, shown>>

Next ==
    \/ \E v \in Values : Edit(v)
    \/ \E r \in Edits : Show(r) \/ \E f \in {"told", "replaced", "dropped"} : Close(r, f)
    \/ Withdraw

Spec == Init /\ [][Next]_vars
=============================================================================

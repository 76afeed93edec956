----------------------------- MODULE OutboxOrder -----------------------------
(***************************************************************************)
(* The relay of Outbox.tla with a history variable: in which order the     *)
(* rows of outbox_events appeared.  The program never reads it.            *)
(***************************************************************************)
EXTENDS Outbox

VARIABLE ahead  \* ahead[e]: the older rows that the row of e found

historyVars == <<vars, ahead>>

Recorded == {e \in Events : status[e] # "ABSENT"}

OrderInit == Init /\ ahead = [e \in Events |-> {}]

OrderNext ==
  /\ Next
  /\ ahead' = [e \in Events |-> IF e \in Recorded' \ Recorded
                                 THEN {f \in Recorded : f < e}
                                 ELSE ahead[e]]

OrderSpec == OrderInit /\ [][OrderNext]_historyVars

FairOrderSpec == OrderSpec /\ Fairness

(* A new event is never overtaken by a younger one that came after it,     *)
(* although events are fetched in batches by several runs and retried ones *)
(* queue up again in front: when an event is sent, no older event whose    *)
(* row was there before its own still waits for its first attempt.  A row  *)
(* with an older createdAt that appears later has no such claim.           *)
OldestFirst ==
  [][\A e \in Events : delivered'[e] > delivered[e] =>
        \A f \in ahead[e] : status[f] = "PENDING" => attempts[f] > 0]_historyVars

=============================================================================

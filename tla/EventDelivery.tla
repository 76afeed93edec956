---------------------------- MODULE EventDelivery ----------------------------
(***************************************************************************)
(* What the outbox promises to the code that records events in it, with no *)
(* word about locks, batches or the cron job: an accepted event is sent to *)
(* Kafka a bounded number of times until it is settled, it is settled as   *)
(* published only after it has been sent, and once settled it is left      *)
(* alone.  Outbox.tla implements it as long as its lock is exclusive.      *)
(***************************************************************************)
EXTENDS Integers

CONSTANTS Events,       \* the events the program will ever record
          MaxSends      \* how often one event may be sent

VARIABLES outcome,      \* outcome[e]: what has become of e
          sent          \* sent[e]: how often e reached the broker

deliveryVars == <<outcome, sent>>

Settled(e) == outcome[e] \in {"published", "failed"}

DeliveryInit ==
  /\ outcome = [e \in Events |-> "none"]
  /\ sent = [e \in Events |-> 0]

Accept(e) ==
  /\ outcome[e] = "none"
  /\ outcome' = [outcome EXCEPT ![e] = "queued"]
  /\ UNCHANGED sent

Deliver(e) ==
  /\ outcome[e] = "queued"
  /\ sent[e] < MaxSends
  /\ sent' = [sent EXCEPT ![e] = @ + 1]
  /\ UNCHANGED outcome

Confirm(e) ==
  /\ outcome[e] = "queued"
  /\ sent[e] > 0
  /\ outcome' = [outcome EXCEPT ![e] = "published"]
  /\ UNCHANGED sent

GiveUp(e) ==
  /\ outcome[e] = "queued"
  /\ outcome' = [outcome EXCEPT ![e] = "failed"]
  /\ UNCHANGED sent

DeliveryNext ==
  \E e \in Events : Accept(e) \/ Deliver(e) \/ Confirm(e) \/ GiveUp(e)

DeliverySpec == DeliveryInit /\ [][DeliveryNext]_deliveryVars

=============================================================================

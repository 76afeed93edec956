---------------------------- MODULE MCOutboxOrder ----------------------------
(***************************************************************************)
(* The instance of OutboxOrder.tla for TLC: the cfg file chooses the runs, *)
(* the events, the limits and the faults.                                  *)
(***************************************************************************)
EXTENDS OutboxOrder

=============================================================================

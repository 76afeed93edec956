------------------------------ MODULE MCOutbox ------------------------------
(***************************************************************************)
(* Instances of Outbox.tla for TLC.  The cfg files choose the runs, the    *)
(* events, the limits and the faults.  Runs are interchangeable; the run   *)
(* that looks for a single violation is reduced by their permutations.     *)
(***************************************************************************)
EXTENDS Outbox, TLC

RunSymmetry == Permutations(Runs)

=============================================================================

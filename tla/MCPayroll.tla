------------------------------ MODULE MCPayroll ------------------------------
(***************************************************************************)
(* Instances of Payroll.tla for TLC.                                       *)
(***************************************************************************)
EXTENDS Payroll, TLC

CONSTANTS LastTime,
          Worked        \* the worker who may have overtime

TimesUpTo == 0 .. LastTime

OneRecord == {[worker |-> Worked, in |-> LastTime]}

(* Every moment is a period of its own, asked for any number of times. *)
ShortSpans == {[start |-> t, end |-> t] : t \in TimesUpTo}

=============================================================================

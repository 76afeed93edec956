------------------------------ MODULE MCLeave ------------------------------
(***************************************************************************)
(* Instances of Leave.tla for TLC.                                         *)
(***************************************************************************)
EXTENDS Leave

CONSTANTS TotalDays,    \* the same totalDays for every account
          ByUser        \* accounts for which a user's id is sent

(* SubmitLeaveCommand declares the id of the worker; LeaveController sends *)
(* the id of the user, which is the id of another row.                     *)
IdsSent == [a \in Accounts |-> IF a \in ByUser THEN <<"user", a>> ELSE a]

SameTotal == [a \in Accounts |-> TotalDays]

=============================================================================

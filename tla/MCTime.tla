------------------------------- MODULE MCTime -------------------------------
(***************************************************************************)
(* Instances of Leave.tla and Attendance.tla for TLC.  They share no       *)
(* state, so that every behaviour is one of one of them: the other one     *)
(* rests in an initial state.                                              *)
(***************************************************************************)
EXTENDS MCLeave, Attendance, TLC

VARIABLE part          \* the part that is at work

timeVars == <<part, vars, clockVars>>

CONSTANT LastTime

TimesUpTo == 0 .. LastTime

(* A forgotten clock-out is filled in, or the clock-in is moved. *)
SomeCorrections == {[in |-> None, out |-> LastTime], [in |-> 0, out |-> None]}

(* A kiosk has seen a worker come and go. *)
OneVisit ==
  {<<[type |-> "CLOCK_IN", worker |-> w, time |-> 0],
     [type |-> "CLOCK_OUT", worker |-> w, time |-> 1]>> : w \in Workers}

TimeInit ==
  /\ part \in {"leave", "attendance"}
  /\ Init
  /\ part = "leave" \/ may = {}
  /\ ClockInit

LeaveWorks == part = "leave" /\ Next /\ UNCHANGED <<part, clockVars>>
AttendanceWorks == part = "attendance" /\ ClockNext /\ UNCHANGED <<part, vars>>

TimeNext == LeaveWorks \/ AttendanceWorks

TimeSpec == TimeInit /\ [][TimeNext]_timeVars

(* The calls of both parts are the same model values. *)
TimeSymmetry == Permutations(Calls) \cup Permutations(Records)

=============================================================================

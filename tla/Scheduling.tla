----------------------------- MODULE Scheduling -----------------------------
(***************************************************************************)
(* Shifts, their assignment to workers, the roster of a factory and what   *)
(* its kiosks are told.  An assignment has a factory of its own, beside    *)
(* those of the shift and of the worker, and no two of the three are       *)
(* compared; its date is an instant, of which one worker has one row.      *)
(* Shifts and workers are never deleted.                                   *)
(***************************************************************************)
EXTENDS Integers

CONSTANTS Staff,        \* workers
          Home,         \* the factory of each worker
          Factories,
          Kiosks,
          Site,         \* the factory of each kiosk
          Shifts,       \* ids of shifts
          Instants,     \* dates of assignments
          DayLength,    \* instants in a day
          Planners,     \* requests that are handled at the same time
          Absent,       \* null
          HabitSets     \* sets of habits that may occur together

ASSUME SchedulingAssumption ==
  /\ Home \in [Staff -> Factories]
  /\ Site \in [Kiosks -> Factories]
  /\ Instants \subseteq Nat
  /\ DayLength \in Nat \ {0}
  /\ Absent \notin Factories
  /\ HabitSets \subseteq SUBSET {"times", "moves", "mixes"}

VARIABLES habits,      \* of the clients, the same in every state: dates have a
                       \* time of day, workers are planned in another factory
                       \* than their own, with a shift of another factory
          shift,       \* shift[s]: its factory, Absent without row
          assignment,  \* assignment[w][t]: the row of worker w and date t
          planning,    \* planning[p]: the assignment that p is about to write
          asked        \* asked[w][t]: the last assignment written for w and t
                       \* (history: what a planner believes)

schedulingVars == <<habits, shift, assignment, planning, asked>>

DayOf(t) == t \div DayLength
Midnight(day) == day * DayLength      \* what a date without a time becomes
Dates == IF "times" \in habits THEN Instants ELSE {t \in Instants : t = Midnight(DayOf(t))}

Plans == [worker : Staff, date : Instants, shift : Shifts, factory : Factories]
Cells == [shift : Shifts, factory : Factories]
NoCell == [shift |-> Absent, factory |-> Absent]

SchedulingInit ==
  /\ habits \in HabitSets
  /\ shift = [s \in Shifts |-> Absent]
  /\ assignment = [w \in Staff |-> [t \in Instants |-> NoCell]]
  /\ planning = [p \in Planners |-> Absent]
  /\ asked = assignment

-----------------------------------------------------------------------------
(* CreateShiftHandler: the factory is not looked up.  Nothing ever makes a *)
(* shift inactive.                                                         *)
CreateShift(s, f) ==
  /\ shift[s] = Absent
  /\ shift' = [shift EXCEPT ![s] = f]
  /\ UNCHANGED <<habits, assignment, planning, asked>>

(* AssignShiftHandler: worker and shift must exist ... *)
FindWorkerAndShift(p, plan) ==
  /\ planning[p] = Absent
  /\ shift[plan.shift] # Absent
  /\ plan.date \in Dates
  /\ "moves" \in habits \/ plan.factory = Home[plan.worker]
  /\ "mixes" \in habits \/ plan.factory = shift[plan.shift]
  /\ planning' = [planning EXCEPT ![p] = plan]
  /\ UNCHANGED <<habits, shift, assignment, asked>>

FirstShiftStays(cell, plan) ==  \* mutant: an existing row is left alone
  IF cell = NoCell THEN [shift |-> plan.shift, factory |-> plan.factory] ELSE cell

(* ... and the update of an existing row leaves its factory alone. *)
Upserted(cell, plan) ==
  IF cell = NoCell THEN [shift |-> plan.shift, factory |-> plan.factory]
  ELSE [cell EXCEPT !.shift = plan.shift]

UpsertAssignment(p) ==
  /\ planning[p] # Absent
  /\ LET plan == planning[p]
     IN  /\ assignment' = [assignment EXCEPT ![plan.worker][plan.date] = Upserted(@, plan)]
         /\ asked' = [asked EXCEPT ![plan.worker][plan.date] =
                        [shift |-> plan.shift, factory |-> plan.factory]]
  /\ planning' = [planning EXCEPT ![p] = Absent]
  /\ UNCHANGED <<habits, shift>>

SchedulingNext ==
  \/ \E s \in Shifts, f \in Factories : CreateShift(s, f)
  \/ \E p \in Planners :
       UpsertAssignment(p) \/ \E plan \in Plans : FindWorkerAndShift(p, plan)

SchedulingSpec == SchedulingInit /\ [][SchedulingNext]_schedulingVars

-----------------------------------------------------------------------------
(* What is read.                                                           *)

(* GetRosterHandler: the department that may be asked for is ignored. *)
Roster(f, start, end) ==
  {plan \in Plans :
     /\ assignment[plan.worker][plan.date] = [shift |-> plan.shift, factory |-> plan.factory]
     /\ plan.factory = f
     /\ start <= plan.date /\ plan.date <= end}

(* GetKioskConfigHandler. *)
KioskConfig(k) == {s \in Shifts : shift[s] = Site[k]}

-----------------------------------------------------------------------------
SchedulingTypeOK ==
  /\ habits \in HabitSets
  /\ shift \in [Shifts -> Factories \cup {Absent}]
  /\ assignment \in [Staff -> [Instants -> Cells \cup {NoCell}]]
  /\ planning \in [Planners -> Plans \cup {Absent}]
  /\ asked \in [Staff -> [Instants -> Cells \cup {NoCell}]]

Days == {DayOf(t) : t \in Instants}

(* The roster of a factory for some days shows what planners last asked    *)
(* for, however their requests overlap: of each worker and day not more    *)
(* than one shift if dates have no time, always the shift last asked for   *)
(* at that date, nothing missing if moreover workers stay in their         *)
(* factory; and its kiosks know the shifts unless clients mix factories.   *)
RosterAgrees ==
  \A f \in Factories, first, last \in Days :
    LET shown == Roster(f, Midnight(first), Midnight(last))
    IN  /\ \A a \in shown : a.shift = asked[a.worker][a.date].shift
        /\ "times" \notin habits =>
             \A a, b \in shown :
               a.worker = b.worker /\ DayOf(a.date) = DayOf(b.date) => a = b
        /\ habits \cap {"times", "moves"} = {} =>
             shown = {plan \in Plans :
               /\ asked[plan.worker][plan.date] =
                    [shift |-> plan.shift, factory |-> plan.factory]
               /\ plan.factory = f
               /\ first <= DayOf(plan.date) /\ DayOf(plan.date) <= last}
        /\ habits \cap {"moves", "mixes"} = {} =>
             \A a \in shown, k \in Kiosks : Site[k] = f => a.shift \in KioskConfig(k)

=============================================================================

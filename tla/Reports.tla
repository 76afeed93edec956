------------------------------- MODULE Reports -------------------------------
(***************************************************************************)
(* What is computed from the tables beside the lists: the key figures of   *)
(* the workforce, whose counts are statements that run side by side, the   *)
(* attendance of a day, and the trend of attendance.  A day begins at      *)
(* midnight UTC in the trend, and at midnight where the server is in the   *)
(* attendance of a day, whose date is the local day of midnight UTC.       *)
(* The server's clock is not changed in summer: setHours follows such a    *)
(* change, and where the clock is then on the other side of UTC, a date    *)
(* may be another local day than before.                                   *)
(*                                                                         *)
(* Pending leave requests and open incidents, which are counted alongside, *)
(* are numbers that nothing is compared with, and are left out.            *)
(***************************************************************************)
EXTENDS Lists

CONSTANTS People,      \* ids of workers
          Entries,     \* ids of attendance records
          Clock,       \* when people clock in
          DAY,         \* moments in a day
          Zones        \* what the server's clock is ahead of UTC, all year

ASSUME ReportsAssumption ==
  /\ IsFiniteSet(People)
  /\ Clock \subseteq Nat
  /\ DAY \in Nat \ {0}
  /\ Zones \subseteq (1 - DAY) .. (DAY - 1)

VARIABLES zone,      \* never changes
          person,    \* person[p]: the status of worker p
          entry,     \* entry[e]: its clock-in time, Unset without record
          kpis       \* the request for key figures

reportVars == <<zone, person, entry, kpis>>

Registered == {p \in People : person[p] # "ABSENT"}
Inactive == {p \in People : person[p] = "INACTIVE"}

NoFigures ==
  [step |-> "idle", total |-> Unset, active |-> Unset, before |-> 0, hired |-> FALSE]

ReportsInit ==
  /\ zone \in Zones
  /\ person \in [People -> {"ABSENT", "ACTIVE", "INACTIVE"}]
  /\ entry = [e \in Entries |-> Unset]
  /\ kpis = NoFigures

-----------------------------------------------------------------------------
(* Other requests.                                                         *)

RegisterPerson(p) ==
  /\ person[p] = "ABSENT"
  /\ person' = [person EXCEPT ![p] = "ACTIVE"]
  /\ kpis' = [kpis EXCEPT !.hired = TRUE]
  /\ UNCHANGED <<zone, entry>>

DeactivatePerson(p) ==
  /\ person[p] = "ACTIVE"
  /\ person' = [person EXCEPT ![p] = "INACTIVE"]
  /\ UNCHANGED <<zone, entry, kpis>>

(* A clock-in or its correction. *)
PutEntry(e, t) ==
  /\ entry' = [entry EXCEPT ![e] = t]
  /\ UNCHANGED <<zone, person, kpis>>

-----------------------------------------------------------------------------
(* WorkforceKpisHandler.  before, hired: how many were inactive when the   *)
(* request arrived, and whether somebody has been registered since.        *)

AskFigures ==
  /\ kpis.step \in {"idle", "done"}
  /\ kpis' = [NoFigures EXCEPT !.step = "count", !.before = Cardinality(Inactive)]
  /\ UNCHANGED <<zone, person, entry>>

CountWorkers ==
  /\ kpis.step = "count"
  /\ kpis.total = Unset
  /\ kpis' = [kpis EXCEPT !.total = Cardinality(Registered)]
  /\ UNCHANGED <<zone, person, entry>>

CountEverybody ==   \* mutant: the condition on the status is lost
  /\ kpis.step = "count"
  /\ kpis.active = Unset
  /\ kpis' = [kpis EXCEPT !.active = Cardinality(Registered)]
  /\ UNCHANGED <<zone, person, entry>>

CountActive ==
  /\ kpis.step = "count"
  /\ kpis.active = Unset
  /\ kpis' = [kpis EXCEPT !.active = Cardinality(Registered \ Inactive)]
  /\ UNCHANGED <<zone, person, entry>>

TellFigures ==
  /\ kpis.step = "count"
  /\ kpis.total # Unset /\ kpis.active # Unset
  /\ kpis' = [kpis EXCEPT !.step = "done"]
  /\ UNCHANGED <<zone, person, entry>>

ReportsNext ==
  \/ \E p \in People : RegisterPerson(p) \/ DeactivatePerson(p)
  \/ \E e \in Entries, t \in Clock : PutEntry(e, t)
  \/ AskFigures \/ CountWorkers \/ CountActive \/ TellFigures

ReportsSpec == ReportsInit /\ [][ReportsNext]_reportVars

-----------------------------------------------------------------------------
(* GetDailyAttendanceHandler and AttendanceTrendsHandler.                  *)

Between(start, end) == {e \in Entries : entry[e] # Unset /\ start <= entry[e] /\ entry[e] <= end}

(* setHours, in local time, of the instant that the date has become. *)
LocalDay(t) == (t + zone) \div DAY
DayStart(date) == LocalDay(date * DAY) * DAY - zone

NextMidnight(date) == DayStart(date) + DAY   \* mutant: the end belongs to the day

DayEnd(date) == DayStart(date) + DAY - 1

DailyAttendance(date) == Between(DayStart(date), DayEnd(date))

(* toISOString *)
TrendKey(e) == entry[e] \div DAY
Headcount(start, end, key) == Cardinality({e \in Between(start, end) : TrendKey(e) = key})

-----------------------------------------------------------------------------
Calendar == {t \div DAY : t \in Clock}
AndAround == UNION {d - 1 .. d + 1 : d \in Calendar}

ReportsTypeOK ==
  /\ zone \in Zones
  /\ person \in [People -> {"ABSENT", "ACTIVE", "INACTIVE"}]
  /\ entry \in [Entries -> Clock \cup {Unset}]
  /\ kpis.step \in {"idle", "count", "done"} /\ kpis.hired \in BOOLEAN
  /\ \A n \in {kpis.total, kpis.active} : n = Unset \/ n \in 0 .. Cardinality(People)
  /\ kpis.before \in 0 .. Cardinality(People)

(* Unless somebody is registered between its statements, a request for key *)
(* figures is told a number of inactive workers that there was at some     *)
(* moment of the request, though it is the difference of two counts made   *)
(* at different moments.                                                   *)
FiguresAgree ==
  kpis.step = "done" /\ ~ kpis.hired =>
    kpis.total - kpis.active \in kpis.before .. Cardinality(Inactive)

(* Wherever the server is, if its clock is not changed in summer, every    *)
(* record belongs to the daily attendance of exactly one date; and of the  *)
(* same date as in the trend where the server's clock shows UTC.           *)
EveryEntryOnce ==
  /\ \A e \in Entries : entry[e] # Unset =>
       Cardinality({date \in AndAround : e \in DailyAttendance(date)}) = 1
  /\ zone = 0 => \A date \in Calendar :
       Cardinality(DailyAttendance(date))
         = Headcount(date * DAY, date * DAY + DAY - 1, date)

(* The answers of the reading half of the API: see NothingIsMissed,        *)
(* FiguresAgree and EveryEntryOnce.                                        *)
AnswersAgree == NothingIsMissed /\ FiguresAgree /\ EveryEntryOnce

=============================================================================

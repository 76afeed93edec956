----------------------------- MODULE Attendance -----------------------------
(***************************************************************************)
(* Attendance records: clock-in, clock-out and correction by the API, and  *)
(* the records that a kiosk collected offline and sends as a batch.        *)
(*                                                                         *)
(* A call reads rows, decides, and writes; each awaited statement is one   *)
(* step, and other calls may take steps between two of them.  No handler   *)
(* uses a transaction, and every write is by id, whatever the row has      *)
(* become since it was read.                                               *)
(***************************************************************************)
EXTENDS Integers, Sequences, FiniteSets

CONSTANTS ClockCalls,   \* concurrent calls of the handlers
          Workers,
          Records,      \* ids of attendance records (a bound on their number)
          None,         \* null
          Times,        \* moments, as numbers: 0 .. the last one
          Corrections,  \* what corrections may ask for: [in |-> , out |-> ],
                        \* None for a time that is not given
          Batches,      \* what kiosks may send
          TimeScale,    \* units of time in a unit of the hours columns
          WINDOW,       \* WINDOW_MINUTES
          STANDARD,     \* standardHours
          MaxHours,     \* the largest number that fits into an hours column
          Liberties     \* what clients may do: let "clock-ins" of one worker
                        \* overlap, let "corrections" of a record overlap with
                        \* its other updates, send "timestamps" of clock-ins

ASSUME NoneAssumption ==
  /\ None \notin Int
  /\ None \notin Workers
  /\ None \notin Records

ASSUME TimeAssumption ==
  /\ Times \subseteq Nat
  /\ 0 \in Times
  /\ TimeScale \in Nat \ {0}
  /\ {WINDOW, STANDARD, MaxHours} \subseteq Nat

MaybeTime == Times \cup {None}
Entries == [type : {"CLOCK_IN", "CLOCK_OUT"}, worker : Workers, time : Times]

ASSUME InputAssumption ==
  /\ Corrections \subseteq [in : MaybeTime, out : MaybeTime]
  /\ Batches \subseteq Seq(Entries)

VARIABLES now,      \* the clock
          active,   \* the workers whose status is ACTIVE
          row,      \* attendance_records: row[i], None if there is no record i
          clockOp,  \* per call: the statement it is about to execute,
          worker,   \*   for which worker,
          time,     \*   the timestamp of the command,
          target,   \*   the record it has read,
          draft,    \*   the columns it is about to write there,
          todo      \*   and the rest of its batch

callVars == <<clockOp, worker, time, target, draft, todo>>
clockVars == <<now, active, row, callVars>>

ClockInSteps == {"in.worker", "in.duplicate", "in.open", "in.create"}
ClosingSteps == {"out.update", "sync.update"}
Steps == ClockInSteps \cup ClosingSteps \cup {"idle", "out.open", "correct", "sync"}

Columns == [in : Times, out : MaybeTime, hours : Int \cup {None}, overtime : Nat \cup {None}]
Rows == [worker : Workers, in : Times, out : MaybeTime,
         hours : (- MaxHours .. MaxHours) \cup {None}, overtime : Nat \cup {None},
         status : {"ACTIVE", "CORRECTED"}, synced : BOOLEAN]

ASSUME RowsAssumption == None \notin Rows

ClockInit ==
  /\ now = 0
  /\ active = Workers
  /\ row = [i \in Records |-> None]
  /\ clockOp = [c \in ClockCalls |-> "idle"]
  /\ worker = [c \in ClockCalls |-> None]
  /\ time = [c \in ClockCalls |-> 0]
  /\ target = [c \in ClockCalls |-> None]
  /\ draft = [c \in ClockCalls |-> None]
  /\ todo = [c \in ClockCalls |-> << >>]

Goto(c, step) == clockOp' = [clockOp EXCEPT ![c] = step]

EndCall(c) ==
  /\ Goto(c, "idle")
  /\ worker' = [worker EXCEPT ![c] = None]
  /\ time' = [time EXCEPT ![c] = 0]
  /\ target' = [target EXCEPT ![c] = None]
  /\ draft' = [draft EXCEPT ![c] = None]
  /\ todo' = [todo EXCEPT ![c] = << >>]

-----------------------------------------------------------------------------
(* Hours.  The columns are DECIMAL(5, 2): hundredths of an hour, at most   *)
(* 999.99; a statement with a larger value fails.                          *)

NearestUnit(n) == (2 * n + TimeScale) \div (2 * TimeScale)
HoursBetween(in, out) == IF out >= in THEN NearestUnit(out - in) ELSE - NearestUnit(in - out)
OvertimeOf(hours) == IF hours > STANDARD THEN hours - STANDARD ELSE 0
FitsBelow(hours) == hours = None \/ hours <= MaxHours   \* mutant: one limit only

Fits(hours) == hours = None \/ hours \in - MaxHours .. MaxHours

Stay(in, out) ==
  [in |-> in, out |-> out, hours |-> HoursBetween(in, out),
   overtime |-> OvertimeOf(HoursBetween(in, out))]

-----------------------------------------------------------------------------
(* The table.                                                              *)

Present == {i \in Records : row[i] # None}
AnyOpenRows(w) ==  \* mutant: the status is not asked for
  {i \in Present : row[i].worker = w /\ row[i].out = None}

OpenRows(w) ==
  {i \in Present : row[i].worker = w /\ row[i].out = None /\ row[i].status = "ACTIVE"}

Insert(w, t, synced) ==
  \E i \in Records \ Present :
    row' = [row EXCEPT ![i] = [worker |-> w, in |-> t, out |-> None, hours |-> None,
                               overtime |-> None, status |-> "ACTIVE", synced |-> synced]]

(* May record i be read for an update while others are at these steps? *)
MayTake(i, steps) ==
  "corrections" \in Liberties \/ \A d \in ClockCalls : clockOp[d] \in steps => target[d] # i

-----------------------------------------------------------------------------
(* Time passes, and workers leave: no handler makes one ACTIVE again.      *)

Tick ==
  /\ now + 1 \in Times
  /\ now' = now + 1
  /\ UNCHANGED <<active, row, callVars>>

DeactivateWorker(w) ==
  /\ active' = active \ {w}
  /\ UNCHANGED <<now, row, callVars>>

-----------------------------------------------------------------------------
(* ClockInHandler.  Without a timestamp in the request it is the time when *)
(* the request arrives.                                                    *)

StartClockIn(c, w, t) ==
  /\ clockOp[c] = "idle"
  /\ "timestamps" \in Liberties \/ t = now
  /\ "clock-ins" \in Liberties \/ \A d \in ClockCalls : clockOp[d] \in ClockInSteps => worker[d] # w
  /\ Goto(c, "in.worker")
  /\ worker' = [worker EXCEPT ![c] = w]
  /\ time' = [time EXCEPT ![c] = t]
  /\ UNCHANGED <<now, active, row, target, draft, todo>>

CheckWorker(c) ==
  /\ clockOp[c] = "in.worker"
  /\ IF worker[c] \in active
       THEN Goto(c, "in.duplicate") /\ UNCHANGED <<worker, time, target, draft, todo>>
       ELSE EndCall(c)
  /\ UNCHANGED <<now, active, row>>

NoWindow(w, t) == {}                               \* mutant: never a duplicate

(* isDuplicateClockIn: a clock-in within the window before the timestamp. *)
Duplicates(w, t) ==
  {i \in Present : row[i].worker = w /\ row[i].in >= t - WINDOW /\ row[i].in <= t}

CheckDuplicate(c) ==
  /\ clockOp[c] = "in.duplicate"
  /\ IF Duplicates(worker[c], time[c]) = {}
       THEN Goto(c, "in.open") /\ UNCHANGED <<worker, time, target, draft, todo>>
       ELSE EndCall(c)
  /\ UNCHANGED <<now, active, row>>

OpenNotChecked(c) ==  \* mutant: an open record is no obstacle
  /\ clockOp[c] = "in.open"
  /\ Goto(c, "in.create")
  /\ UNCHANGED <<now, active, row, worker, time, target, draft, todo>>

CheckOpen(c) ==
  /\ clockOp[c] = "in.open"
  /\ IF OpenRows(worker[c]) = {}
       THEN Goto(c, "in.create") /\ UNCHANGED <<worker, time, target, draft, todo>>
       ELSE EndCall(c)
  /\ UNCHANGED <<now, active, row>>

CreateRecord(c) ==
  /\ clockOp[c] = "in.create"
  /\ Insert(worker[c], time[c], FALSE)
  /\ EndCall(c)
  /\ UNCHANGED <<now, active>>

-----------------------------------------------------------------------------
(* ClockOutHandler, with the time of arrival or a timestamp of the client. *)

StartClockOut(c, w, t) ==
  /\ clockOp[c] = "idle"
  /\ Goto(c, "out.open")
  /\ worker' = [worker EXCEPT ![c] = w]
  /\ time' = [time EXCEPT ![c] = t]
  /\ UNCHANGED <<now, active, row, target, draft, todo>>

(* getOpenRecord, or the same query in the batch: some open record, with   *)
(* the hours from its clock-in to t.                                       *)
TakeOpen(c, w, t, next) ==
  \E i \in OpenRows(w) :
    /\ MayTake(i, {"correct"})
    /\ target' = [target EXCEPT ![c] = i]
    /\ draft' = [draft EXCEPT ![c] = Stay(row[i].in, t)]
    /\ Goto(c, next)

FindOpen(c) ==
  /\ clockOp[c] = "out.open"
  /\ \/ TakeOpen(c, worker[c], time[c], "out.update") /\ UNCHANGED <<worker, time, todo>>
     \/ OpenRows(worker[c]) = {} /\ EndCall(c)
  /\ UNCHANGED <<now, active, row>>

(* The update leaves clockInTime and status alone, and says where it comes *)
(* from only when that is a kiosk; it fails when the hours do not fit.     *)
Closed(r, stay, synced) ==
  [r EXCEPT !.out = stay.out, !.hours = stay.hours, !.overtime = stay.overtime,
            !.synced = IF synced THEN TRUE ELSE r.synced]

Close(c, synced) ==
  IF Fits(draft[c].hours)
    THEN row' = [row EXCEPT ![target[c]] = Closed(row[target[c]], draft[c], synced)]
    ELSE UNCHANGED row

WriteClockOut(c) ==
  /\ clockOp[c] = "out.update"
  /\ Close(c, FALSE)
  /\ EndCall(c)
  /\ UNCHANGED <<now, active>>

-----------------------------------------------------------------------------
(* CorrectAttendanceHandler.  The hours are computed anew when there is a  *)
(* clock-out time, and every column is written as it was read otherwise.   *)

Given(new, old) == IF new # None THEN new ELSE old

NotRecomputed(r, fix) ==  \* mutant: the hours stay what they were
  [in |-> Given(fix.in, r.in), out |-> Given(fix.out, r.out),
   hours |-> r.hours, overtime |-> r.overtime]

Corrected(r, fix) ==
  LET in == Given(fix.in, r.in)
      out == Given(fix.out, r.out)
  IN  IF out # None THEN Stay(in, out)
      ELSE [in |-> in, out |-> None, hours |-> r.hours, overtime |-> r.overtime]

ReadForCorrection(c, i, fix) ==
  /\ clockOp[c] = "idle"
  /\ i \in Present
  /\ MayTake(i, ClosingSteps \cup {"correct"})
  /\ Goto(c, "correct")
  /\ target' = [target EXCEPT ![c] = i]
  /\ draft' = [draft EXCEPT ![c] = Corrected(row[i], fix)]
  /\ UNCHANGED <<now, active, row, worker, time, todo>>

WriteCorrection(c) ==
  /\ clockOp[c] = "correct"
  /\ IF Fits(draft[c].hours)
       THEN row' = [row EXCEPT ![target[c]] =
                      [@ EXCEPT !.in = draft[c].in, !.out = draft[c].out,
                                !.hours = draft[c].hours, !.overtime = draft[c].overtime,
                                !.status = "CORRECTED"]]
       ELSE UNCHANGED row
  /\ EndCall(c)
  /\ UNCHANGED <<now, active>>

-----------------------------------------------------------------------------
(* SyncBatchHandler: the entries one by one, without the checks of a       *)
(* clock-in.  An entry that fails is logged and skipped, and a clock-out   *)
(* without an open record does nothing.                                    *)

StartSync(c, b) ==
  /\ clockOp[c] = "idle"
  /\ Goto(c, "sync")
  /\ todo' = [todo EXCEPT ![c] = b]
  /\ UNCHANGED <<now, active, row, worker, time, target, draft>>

SyncEntry(c) ==
  /\ clockOp[c] = "sync"
  /\ todo[c] # << >>
  /\ LET e == Head(todo[c])
         Skip == /\ todo' = [todo EXCEPT ![c] = Tail(@)]
                 /\ UNCHANGED <<clockOp, target, draft>>
     IN  \/ e.type = "CLOCK_IN" /\ Insert(e.worker, e.time, TRUE) /\ Skip
         \/ /\ e.type = "CLOCK_OUT"
            /\ TakeOpen(c, e.worker, e.time, "sync.update")
            /\ UNCHANGED <<row, todo>>
         \/ e.type = "CLOCK_OUT" /\ OpenRows(e.worker) = {} /\ Skip /\ UNCHANGED row
         \/ Skip /\ UNCHANGED row     \* no such worker, or a statement failed
  /\ UNCHANGED <<now, active, worker, time>>

SyncClockOut(c) ==
  /\ clockOp[c] = "sync.update"
  /\ Close(c, TRUE)
  /\ Goto(c, "sync")
  /\ todo' = [todo EXCEPT ![c] = Tail(@)]
  /\ target' = [target EXCEPT ![c] = None]
  /\ draft' = [draft EXCEPT ![c] = None]
  /\ UNCHANGED <<now, active, worker, time>>

(* The last statement stamps the device. *)
EndSync(c) ==
  /\ clockOp[c] = "sync"
  /\ todo[c] = << >>
  /\ EndCall(c)
  /\ UNCHANGED <<now, active, row>>

-----------------------------------------------------------------------------
ClockNext ==
  \/ Tick
  \/ \E w \in Workers : DeactivateWorker(w)
  \/ \E c \in ClockCalls :
       \/ \E w \in Workers, t \in Times : StartClockIn(c, w, t) \/ StartClockOut(c, w, t)
       \/ CheckWorker(c) \/ CheckDuplicate(c) \/ CheckOpen(c) \/ CreateRecord(c)
       \/ FindOpen(c) \/ WriteClockOut(c)
       \/ \E i \in Records, fix \in Corrections : ReadForCorrection(c, i, fix)
       \/ WriteCorrection(c)
       \/ \E b \in Batches : StartSync(c, b)
       \/ SyncEntry(c) \/ SyncClockOut(c) \/ EndSync(c)

ClockSpec == ClockInit /\ [][ClockNext]_clockVars

-----------------------------------------------------------------------------
ClockTypeOK ==
  /\ now \in Times
  /\ active \subseteq Workers
  /\ row \in [Records -> Rows \cup {None}]
  /\ clockOp \in [ClockCalls -> Steps]
  /\ worker \in [ClockCalls -> Workers \cup {None}]
  /\ time \in [ClockCalls -> Times]
  /\ target \in [ClockCalls -> Records \cup {None}]
  /\ draft \in [ClockCalls -> Columns \cup {None}]
  /\ todo \in [ClockCalls -> Seq(Entries)]

(* Nobody is clocked in twice: a worker has at most one open record made   *)
(* by a clock-in, however kiosks, clock-outs and corrections interfere.    *)
(* Clock-ins of one worker must not overlap.                               *)
OneOpenRecord ==
  \A i, j \in Present :
    /\ {i, j} \subseteq OpenRows(row[i].worker)
    /\ ~ row[i].synced /\ ~ row[j].synced
    => i = j

(* A second clock-in within the window is refused even when the first      *)
(* record has been closed in between.                                      *)
NoRepeatedClockIn ==
  \A i, j \in Present :
    /\ i # j /\ row[i].worker = row[j].worker
    /\ row[i].status = "ACTIVE" /\ ~ row[i].synced
    /\ row[j].status = "ACTIVE" /\ ~ row[j].synced
    => row[i].in > row[j].in + WINDOW \/ row[j].in > row[i].in + WINDOW

Consistent(r) ==
  IF r.out = None THEN r.hours = None /\ r.overtime = None
                  ELSE /\ r.hours = HoursBetween(r.in, r.out)
                       /\ r.overtime = OvertimeOf(r.hours)

(* What payroll adds up agrees with the times in the record, whichever     *)
(* handlers wrote them.  Corrections of a record must not overlap its      *)
(* other updates.                                                          *)
HoursMatchTimes == \A i \in Present : Consistent(row[i])

(* A closed record is never opened again, and a corrected one is only ever *)
(* changed by another correction; same condition.                          *)
CorrectionStands ==
  [][\A i \in Present :
       /\ row[i].out # None => row'[i].out # None
       /\ row[i].status = "CORRECTED" /\ row'[i] # row[i] =>
            \E c \in ClockCalls :
              clockOp[c] = "correct" /\ target[c] = i /\ clockOp'[c] = "idle"]_clockVars

=============================================================================

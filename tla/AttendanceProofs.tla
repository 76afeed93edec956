-------------------------- MODULE AttendanceProofs --------------------------
(***************************************************************************)
(* Theorems about Attendance.tla, for every set of calls, workers and      *)
(* records, every batch and every correction.                              *)
(***************************************************************************)
EXTENDS Attendance, TLAPS

-----------------------------------------------------------------------------
(* Hours.                                                                  *)

LEMMA DivIsInt ==
  ASSUME NEW n \in Int, NEW d \in Nat \ {0}
  PROVE  n \div d \in Int
BY Z3

LEMMA StayType ==
  ASSUME NEW in \in Times, NEW out \in Times
  PROVE  /\ Stay(in, out) \in [in : Times, out : Times, hours : Int, overtime : Nat]
         /\ Stay(in, out).in = in /\ Stay(in, out).out = out
         /\ Stay(in, out).hours = HoursBetween(in, out)
         /\ Stay(in, out).overtime = OvertimeOf(HoursBetween(in, out))
<1>0. in \in Int /\ out \in Int /\ TimeScale \in Nat \ {0} /\ STANDARD \in Nat
  BY TimeAssumption
<1>1. ASSUME NEW n \in Int
      PROVE  NearestUnit(n) \in Int
  <2>1. 2 * n + TimeScale \in Int /\ 2 * TimeScale \in Nat \ {0}
    BY <1>0
  <2>2. QED
    BY <2>1, DivIsInt DEF NearestUnit
<1>2. HoursBetween(in, out) \in Int
  BY <1>0, <1>1 DEF HoursBetween
<1>3. OvertimeOf(HoursBetween(in, out)) \in Nat
  BY <1>0, <1>2 DEF OvertimeOf
<1>4. QED
  BY <1>2, <1>3 DEF Stay

-----------------------------------------------------------------------------
(* Types.  A call about to write knows an existing record and the columns  *)
(* to write there.                                                         *)

CallInv ==
  \A c \in ClockCalls :
    /\ clockOp[c] \in ClockInSteps \cup {"out.open"} => worker[c] \in Workers
    /\ clockOp[c] \in ClosingSteps \cup {"correct"} => target[c] \in Present /\ draft[c] \in Columns
    /\ clockOp[c] \in ClosingSteps => draft[c].out \in Times
    /\ clockOp[c] = "sync.update" => todo[c] # << >>

TypeInv == ClockTypeOK /\ CallInv

(* What the writes do to the table. *)

LEMMA InsertEffect ==
  ASSUME ClockTypeOK, NEW w \in Workers, NEW t \in Times, NEW s \in BOOLEAN, Insert(w, t, s)
  PROVE  /\ row' \in [Records -> Rows \cup {None}]
         /\ \E i \in Records :
              /\ i \notin Present
              /\ row'[i] = [worker |-> w, in |-> t, out |-> None, hours |-> None,
                            overtime |-> None, status |-> "ACTIVE", synced |-> s]
              /\ \A j \in Records : j # i => row'[j] = row[j]
BY DEF Insert, ClockTypeOK, Rows, MaybeTime

LEMMA CloseEffect ==
  ASSUME ClockTypeOK, NEW c \in ClockCalls, NEW s \in BOOLEAN, Close(c, s),
         target[c] \in Present, draft[c] \in Columns, draft[c].out \in Times
  PROVE  /\ row' \in [Records -> Rows \cup {None}]
         /\ \A j \in Records : j # target[c] => row'[j] = row[j]
         /\ row'[target[c]] \in Rows
         /\ \/ row'[target[c]] = row[target[c]]
            \/ /\ row'[target[c]].worker = row[target[c]].worker
               /\ row'[target[c]].in = row[target[c]].in
               /\ row'[target[c]].status = row[target[c]].status
               /\ row'[target[c]].out = draft[c].out
               /\ row'[target[c]].hours = draft[c].hours
               /\ row'[target[c]].overtime = draft[c].overtime
<1> DEFINE i == target[c]
           new == Closed(row[i], draft[c], s)
<1>1. i \in Records /\ row[i] \in Rows
  BY DEF ClockTypeOK, Present
<1>2. CASE Fits(draft[c].hours)
  <2>1. draft[c].hours \in (- MaxHours .. MaxHours) \cup {None}
    BY <1>2 DEF Fits
  <2>2. row' = [row EXCEPT ![i] = new]
    BY <1>2 DEF Close
  <2>3. new \in Rows
    BY <1>1, <2>1 DEF Rows, Columns, MaybeTime, Closed
  <2>4. /\ row' \in [Records -> Rows \cup {None}]
        /\ \A j \in Records : j # i => row'[j] = row[j]
        /\ row'[i] = new
    BY <1>1, <2>2, <2>3 DEF ClockTypeOK
  <2>5. QED
    BY <1>1, <2>3, <2>4 DEF Rows, Closed
<1>3. CASE ~ Fits(draft[c].hours)
  BY <1>1, <1>3 DEF Close, ClockTypeOK
<1>4. QED
  BY <1>2, <1>3

LEMMA CorrectionEffect ==
  ASSUME ClockTypeOK, NEW c \in ClockCalls, WriteCorrection(c),
         target[c] \in Present, draft[c] \in Columns
  PROVE  /\ row' \in [Records -> Rows \cup {None}]
         /\ \A j \in Records : j # target[c] => row'[j] = row[j]
         /\ row'[target[c]] \in Rows
         /\ \/ row'[target[c]] = row[target[c]]
            \/ /\ row'[target[c]].worker = row[target[c]].worker
               /\ row'[target[c]].in = draft[c].in
               /\ row'[target[c]].status = "CORRECTED"
               /\ row'[target[c]].out = draft[c].out
               /\ row'[target[c]].hours = draft[c].hours
               /\ row'[target[c]].overtime = draft[c].overtime
<1> DEFINE i == target[c]
           new == [row[i] EXCEPT !.in = draft[c].in, !.out = draft[c].out,
                                 !.hours = draft[c].hours, !.overtime = draft[c].overtime,
                                 !.status = "CORRECTED"]
<1>1. i \in Records /\ row[i] \in Rows
  BY DEF ClockTypeOK, Present
<1>2. CASE Fits(draft[c].hours)
  <2>1. draft[c].hours \in (- MaxHours .. MaxHours) \cup {None}
    BY <1>2 DEF Fits
  <2>2. row' = [row EXCEPT ![i] = new]
    BY <1>2 DEF WriteCorrection
  <2>3. new \in Rows
    BY <1>1, <2>1 DEF Rows, Columns, MaybeTime
  <2>4. /\ row' \in [Records -> Rows \cup {None}]
        /\ \A j \in Records : j # i => row'[j] = row[j]
        /\ row'[i] = new
    BY <1>1, <2>2, <2>3 DEF ClockTypeOK
  <2>5. QED
    BY <1>1, <2>3, <2>4 DEF Rows
<1>3. CASE ~ Fits(draft[c].hours)
  BY <1>1, <1>3 DEF WriteCorrection, ClockTypeOK
<1>4. QED
  BY <1>2, <1>3

(* What a call that ends leaves behind. *)
LEMMA EndEffect ==
  ASSUME ClockTypeOK, NEW c \in ClockCalls, EndCall(c)
  PROVE  /\ clockOp' \in [ClockCalls -> Steps] /\ worker' \in [ClockCalls -> Workers \cup {None}]
         /\ time' \in [ClockCalls -> Times] /\ target' \in [ClockCalls -> Records \cup {None}]
         /\ draft' \in [ClockCalls -> Columns \cup {None}] /\ todo' \in [ClockCalls -> Seq(Entries)]
         /\ clockOp'[c] = "idle"
         /\ \A d \in ClockCalls : d # c => /\ clockOp'[d] = clockOp[d] /\ worker'[d] = worker[d]
                                          /\ time'[d] = time[d] /\ target'[d] = target[d]
                                          /\ draft'[d] = draft[d] /\ todo'[d] = todo[d]
BY TimeAssumption DEF EndCall, Goto, ClockTypeOK, Steps

(* Taking an open record. *)
LEMMA TakeEffect ==
  ASSUME ClockTypeOK, NEW c \in ClockCalls, NEW w \in Workers, NEW t \in Times,
         NEW next \in ClosingSteps, TakeOpen(c, w, t, next)
  PROVE  \E i \in OpenRows(w) :
           /\ i \in Records /\ row[i] \in Rows
           /\ MayTake(i, {"correct"})
           /\ target' = [target EXCEPT ![c] = i]
           /\ draft' = [draft EXCEPT ![c] = Stay(row[i].in, t)]
           /\ clockOp' = [clockOp EXCEPT ![c] = next]
           /\ Stay(row[i].in, t) \in Columns
           /\ Stay(row[i].in, t).out = t
<1>1. PICK i \in OpenRows(w) :
         /\ MayTake(i, {"correct"})
         /\ target' = [target EXCEPT ![c] = i]
         /\ draft' = [draft EXCEPT ![c] = Stay(row[i].in, t)]
         /\ clockOp' = [clockOp EXCEPT ![c] = next]
  BY DEF TakeOpen, Goto
<1>2. i \in Records /\ row[i] \in Rows
  BY DEF OpenRows, Present, ClockTypeOK
<1>3. row[i].in \in Times
  BY <1>2 DEF Rows
<1>4. Stay(row[i].in, t) \in Columns /\ Stay(row[i].in, t).out = t
  BY <1>3, StayType DEF Columns, MaybeTime
<1>5. QED
  BY <1>1, <1>2, <1>4

(* What a correction is about to write. *)
LEMMA CorrectedType ==
  ASSUME NEW r \in Rows, NEW fix \in Corrections
  PROVE  /\ Corrected(r, fix) \in Columns
         /\ \/ /\ Corrected(r, fix).out \in Times
               /\ Corrected(r, fix) = Stay(Corrected(r, fix).in, Corrected(r, fix).out)
            \/ /\ Corrected(r, fix).out = None /\ r.out = None
               /\ Corrected(r, fix).hours = r.hours
               /\ Corrected(r, fix).overtime = r.overtime
<1> DEFINE in == Given(fix.in, r.in)
           out == Given(fix.out, r.out)
<1>0. fix \in [in : MaybeTime, out : MaybeTime]
  BY InputAssumption
<1>1. in \in Times /\ out \in MaybeTime
  <2>1. r.in \in Times /\ r.out \in MaybeTime
    BY DEF Rows
  <2>2. fix.in \in MaybeTime /\ fix.out \in MaybeTime
    BY <1>0
  <2>3. QED
    BY <2>1, <2>2 DEF Given, MaybeTime
<1>2. CASE out # None
  <2>1. Corrected(r, fix) = Stay(in, out) /\ out \in Times
    BY <1>1, <1>2 DEF Corrected, MaybeTime
  <2>2. QED
    BY <1>1, <2>1, StayType DEF Columns, MaybeTime
<1>3. CASE out = None
  <2>1. Corrected(r, fix) = [in |-> in, out |-> None, hours |-> r.hours, overtime |-> r.overtime]
    BY <1>3 DEF Corrected
  <2>2. r.out = None
    BY <1>3 DEF Given
  <2>3. r.hours \in Int \cup {None} /\ r.overtime \in Nat \cup {None}
    <3>1. r.hours \in (- MaxHours .. MaxHours) \cup {None} /\ r.overtime \in Nat \cup {None}
      BY DEF Rows
    <3>2. MaxHours \in Nat
      BY TimeAssumption
    <3>3. QED
      BY <3>1, <3>2
  <2>4. QED
    BY <1>1, <2>1, <2>2, <2>3 DEF Columns, MaybeTime
<1>4. QED
  BY <1>2, <1>3

LEMMA TypeStep == TypeInv /\ [ClockNext]_clockVars => TypeInv'
<1> SUFFICES ASSUME TypeInv, [ClockNext]_clockVars
             PROVE  TypeInv'
  OBVIOUS
<1>0. ClockTypeOK /\ CallInv /\ None \notin Rows
  BY RowsAssumption DEF TypeInv
<1> DEFINE Clock == now' \in Times /\ active' \subseteq Workers
           Table == /\ row' \in [Records -> Rows \cup {None}]
                    /\ \A i \in Present : row'[i] # None
           Columns6 == /\ clockOp' \in [ClockCalls -> Steps]
                       /\ worker' \in [ClockCalls -> Workers \cup {None}]
                       /\ time' \in [ClockCalls -> Times]
                       /\ target' \in [ClockCalls -> Records \cup {None}]
                       /\ draft' \in [ClockCalls -> Columns \cup {None}]
                       /\ todo' \in [ClockCalls -> Seq(Entries)]
           Knows == \A c \in ClockCalls :
                      /\ clockOp'[c] \in ClockInSteps \cup {"out.open"} => worker'[c] \in Workers
                      /\ clockOp'[c] \in ClosingSteps \cup {"correct"} =>
                           target'[c] \in Present /\ draft'[c] \in Columns
                      /\ clockOp'[c] \in ClosingSteps => draft'[c].out \in Times
                      /\ clockOp'[c] = "sync.update" => todo'[c] # << >>
<1>z. Clock /\ Table /\ Columns6 /\ Knows => TypeInv'
  BY DEF TypeInv, ClockTypeOK, CallInv, Present
<1>a. UNCHANGED row => Table
  BY <1>0 DEF ClockTypeOK, Present
<1>b. \A c \in ClockCalls : EndCall(c) => Columns6 /\ Knows
  <2>1. SUFFICES ASSUME NEW c \in ClockCalls, EndCall(c)
                 PROVE  Columns6 /\ Knows
    OBVIOUS
  <2>2. Columns6
    BY <1>0, <2>1, EndEffect
  <2>3. Knows
    BY <1>0, <2>1, EndEffect DEF CallInv, ClockInSteps, ClosingSteps
  <2>4. QED
    BY <2>2, <2>3
<1>c. UNCHANGED <<now, active>> => Clock
  BY <1>0 DEF ClockTypeOK
<1>1. CASE Tick \/ \E w \in Workers : DeactivateWorker(w)
  BY <1>0, <1>1, <1>z, <1>a DEF Tick, DeactivateWorker, callVars, ClockTypeOK, CallInv
<1>2. ASSUME NEW c \in ClockCalls, NEW w \in Workers, NEW t \in Times,
             StartClockIn(c, w, t) \/ StartClockOut(c, w, t)
      PROVE  TypeInv'
  <2>a. /\ clockOp' = [clockOp EXCEPT ![c] = "in.worker"] \/ clockOp' = [clockOp EXCEPT ![c] = "out.open"]
        /\ worker' = [worker EXCEPT ![c] = w]
        /\ time' = [time EXCEPT ![c] = t]
        /\ UNCHANGED <<target, draft, todo>>
    BY <1>2 DEF StartClockIn, StartClockOut, Goto
  <2>b. {"in.worker", "out.open"} \subseteq Steps
    BY DEF Steps, ClockInSteps
  <2>d. clockOp' \in [ClockCalls -> Steps]
    BY <1>0, <2>a, <2>b DEF ClockTypeOK
  <2>1. Columns6
    BY <1>0, <2>a, <2>d DEF ClockTypeOK
  <2>2. Knows
    BY <1>0, <1>2 DEF StartClockIn, StartClockOut, Goto, ClockTypeOK, CallInv, ClockInSteps, ClosingSteps
  <2>3. UNCHANGED <<now, active, row>>
    BY <1>2 DEF StartClockIn, StartClockOut
  <2>4. QED
    BY <1>z, <1>a, <1>c, <2>1, <2>2, <2>3
<1>3. ASSUME NEW c \in ClockCalls, CheckWorker(c) \/ CheckDuplicate(c) \/ CheckOpen(c)
      PROVE  TypeInv'
  <2>1. UNCHANGED <<now, active, row>>
    BY <1>3 DEF CheckWorker, CheckDuplicate, CheckOpen
  <2>2. CASE EndCall(c)
    BY <1>z, <1>a, <1>b, <1>c, <2>1, <2>2
  <2>3. CASE /\ clockOp[c] \in ClockInSteps /\ clockOp' \in {[clockOp EXCEPT ![c] = s] : s \in ClockInSteps}
             /\ UNCHANGED <<worker, time, target, draft, todo>>
    <3>1. Columns6
      BY <1>0, <2>3 DEF ClockTypeOK, Steps
    <3>2. Knows
      BY <1>0, <2>3 DEF ClockTypeOK, CallInv, ClockInSteps, ClosingSteps
    <3>3. QED
      BY <1>z, <1>a, <1>c, <2>1, <3>1, <3>2
  <2>4. QED
    BY <1>3, <2>2, <2>3 DEF CheckWorker, CheckDuplicate, CheckOpen, Goto, ClockInSteps
<1>4. ASSUME NEW c \in ClockCalls, CreateRecord(c)
      PROVE  TypeInv'
  <2>1. worker[c] \in Workers /\ time[c] \in Times /\ Insert(worker[c], time[c], FALSE)
    BY <1>0, <1>4 DEF CreateRecord, CallInv, ClockInSteps, ClockTypeOK
  <2>2. Table
    <3>1. row' \in [Records -> Rows \cup {None}]
      BY <1>0, <2>1, InsertEffect
    <3>2. \A i \in Present : row'[i] = row[i]
      BY <1>0, <2>1, InsertEffect DEF Present
    <3>3. QED
      BY <3>1, <3>2 DEF Present
  <2>3. QED
    BY <1>4, <1>z, <1>b, <1>c, <2>2 DEF CreateRecord
<1>5. ASSUME NEW c \in ClockCalls, FindOpen(c)
      PROVE  TypeInv'
  <2>1. UNCHANGED <<now, active, row>>
    BY <1>5 DEF FindOpen
  <2>2. CASE EndCall(c)
    BY <1>z, <1>a, <1>b, <1>c, <2>1, <2>2
  <2>3. CASE TakeOpen(c, worker[c], time[c], "out.update") /\ UNCHANGED <<worker, time, todo>>
    <3>1. worker[c] \in Workers /\ time[c] \in Times
      BY <1>0, <1>5 DEF FindOpen, CallInv, ClockTypeOK
    <3>2. PICK i \in OpenRows(worker[c]) :
            /\ i \in Records
            /\ target' = [target EXCEPT ![c] = i]
            /\ draft' = [draft EXCEPT ![c] = Stay(row[i].in, time[c])]
            /\ clockOp' = [clockOp EXCEPT ![c] = "out.update"]
            /\ Stay(row[i].in, time[c]) \in Columns
            /\ Stay(row[i].in, time[c]).out = time[c]
      BY <1>0, <2>3, <3>1, TakeEffect DEF ClosingSteps
    <3>3. Columns6
      BY <1>0, <2>3, <3>2 DEF ClockTypeOK, Steps, ClosingSteps
    <3>4. i \in Present
      BY DEF OpenRows
    <3>5. Knows
      BY <1>0, <2>3, <3>1, <3>2, <3>4 DEF ClockTypeOK, CallInv, ClockInSteps, ClosingSteps
    <3>6. QED
      BY <1>z, <1>a, <1>c, <2>1, <3>3, <3>5
  <2>4. QED
    BY <1>5, <2>2, <2>3 DEF FindOpen
<1>6. ASSUME NEW c \in ClockCalls, WriteClockOut(c)
      PROVE  TypeInv'
  <2>1. /\ target[c] \in Present /\ draft[c] \in Columns /\ draft[c].out \in Times
        /\ Close(c, FALSE) /\ EndCall(c) /\ UNCHANGED <<now, active>>
    BY <1>0, <1>6 DEF WriteClockOut, CallInv, ClosingSteps
  <2>2. Table
    BY <1>0, <2>1, CloseEffect DEF Present
  <2>3. QED
    BY <1>z, <1>b, <1>c, <2>1, <2>2
<1>7. ASSUME NEW c \in ClockCalls, NEW i \in Records, NEW fix \in Corrections,
             ReadForCorrection(c, i, fix)
      PROVE  TypeInv'
  <2>1. row[i] \in Rows /\ i \in Present
    BY <1>0, <1>7 DEF ReadForCorrection, Present, ClockTypeOK
  <2>2. Corrected(row[i], fix) \in Columns
    BY <2>1, CorrectedType
  <2>3. Columns6
    BY <1>0, <1>7, <2>2 DEF ReadForCorrection, Goto, ClockTypeOK, Steps
  <2>4. Knows
    BY <1>0, <1>7, <2>1, <2>2
       DEF ReadForCorrection, Goto, ClockTypeOK, CallInv, ClockInSteps, ClosingSteps
  <2>5. UNCHANGED <<now, active, row>>
    BY <1>7 DEF ReadForCorrection
  <2>6. QED
    BY <1>z, <1>a, <1>c, <2>3, <2>4, <2>5
<1>8. ASSUME NEW c \in ClockCalls, WriteCorrection(c)
      PROVE  TypeInv'
  <2>1. /\ target[c] \in Present /\ draft[c] \in Columns /\ EndCall(c) /\ UNCHANGED <<now, active>>
    BY <1>0, <1>8 DEF WriteCorrection, CallInv
  <2>2. Table
    BY <1>0, <1>8, <2>1, CorrectionEffect DEF Present
  <2>3. QED
    BY <1>z, <1>b, <1>c, <2>1, <2>2
<1>9. ASSUME NEW c \in ClockCalls, NEW b \in Batches, StartSync(c, b)
      PROVE  TypeInv'
  <2>1. b \in Seq(Entries)
    BY InputAssumption
  <2>2. Columns6
    BY <1>0, <1>9, <2>1 DEF StartSync, Goto, ClockTypeOK, Steps
  <2>3. Knows
    BY <1>0, <1>9 DEF StartSync, Goto, ClockTypeOK, CallInv, ClockInSteps, ClosingSteps
  <2>4. UNCHANGED <<now, active, row>>
    BY <1>9 DEF StartSync
  <2>5. QED
    BY <1>z, <1>a, <1>c, <2>2, <2>3, <2>4
<1>10. ASSUME NEW c \in ClockCalls, SyncEntry(c)
       PROVE  TypeInv'
  <2> DEFINE e == Head(todo[c])
             Skip == /\ todo' = [todo EXCEPT ![c] = Tail(@)]
                     /\ UNCHANGED <<clockOp, target, draft>>
  <2>1. /\ clockOp[c] = "sync" /\ todo[c] \in Seq(Entries) /\ todo[c] # << >>
        /\ UNCHANGED <<now, active, worker, time>>
    BY <1>0, <1>10 DEF SyncEntry, ClockTypeOK
  <2>2. e \in Entries /\ Tail(todo[c]) \in Seq(Entries)
    BY <2>1
  <2>3. e.worker \in Workers /\ e.time \in Times
    BY <2>2 DEF Entries
  <2>4. ASSUME Skip
        PROVE  Columns6 /\ Knows
    <3>1. Columns6
      BY <1>0, <2>1, <2>2, <2>4 DEF ClockTypeOK
    <3>2. Knows
      BY <1>0, <2>1, <2>4 DEF ClockTypeOK, CallInv, ClockInSteps, ClosingSteps
    <3>3. QED
      BY <3>1, <3>2
  <2>5. CASE UNCHANGED row /\ Skip
    BY <1>z, <1>a, <1>c, <2>1, <2>4, <2>5
  <2>6. CASE Insert(e.worker, e.time, TRUE) /\ Skip
    <3>1. row' \in [Records -> Rows \cup {None}]
      BY <1>0, <2>3, <2>6, InsertEffect
    <3>2. \A i \in Present : row'[i] = row[i]
      BY <1>0, <2>3, <2>6, InsertEffect DEF Present
    <3>3. Table
      BY <3>1, <3>2 DEF Present
    <3>4. QED
      BY <1>z, <1>c, <2>1, <2>4, <2>6, <3>3
  <2>7. CASE TakeOpen(c, e.worker, e.time, "sync.update") /\ UNCHANGED <<row, todo>>
    <3>1. PICK i \in OpenRows(e.worker) :
            /\ i \in Records
            /\ target' = [target EXCEPT ![c] = i]
            /\ draft' = [draft EXCEPT ![c] = Stay(row[i].in, e.time)]
            /\ clockOp' = [clockOp EXCEPT ![c] = "sync.update"]
            /\ Stay(row[i].in, e.time) \in Columns
            /\ Stay(row[i].in, e.time).out = e.time
      BY <1>0, <2>3, <2>7, TakeEffect DEF ClosingSteps
    <3>2. Columns6
      BY <1>0, <2>1, <2>7, <3>1 DEF ClockTypeOK, Steps, ClosingSteps
    <3>3. i \in Present
      BY DEF OpenRows
    <3>4. Knows
      BY <1>0, <2>1, <2>3, <2>7, <3>1, <3>3 DEF ClockTypeOK, CallInv, ClockInSteps, ClosingSteps
    <3>5. QED
      BY <1>z, <1>a, <1>c, <2>1, <2>7, <3>2, <3>4
  <2>8. QED
    BY <1>10, <2>5, <2>6, <2>7 DEF SyncEntry
<1>11. ASSUME NEW c \in ClockCalls, SyncClockOut(c)
       PROVE  TypeInv'
  <2>1. /\ clockOp[c] = "sync.update"
        /\ target[c] \in Present /\ draft[c] \in Columns /\ draft[c].out \in Times
        /\ Close(c, TRUE) /\ UNCHANGED <<now, active, worker, time>>
        /\ todo[c] \in Seq(Entries) /\ todo[c] # << >>
    BY <1>0, <1>11 DEF SyncClockOut, CallInv, ClosingSteps, ClockTypeOK
  <2>2. Table
    BY <1>0, <2>1, CloseEffect DEF Present
  <2>3. Tail(todo[c]) \in Seq(Entries)
    BY <2>1
  <2>4. Columns6
    BY <1>0, <1>11, <2>1, <2>3 DEF SyncClockOut, Goto, ClockTypeOK, Steps
  <2>5. Knows
    BY <1>0, <1>11, <2>1 DEF SyncClockOut, Goto, ClockTypeOK, CallInv, ClockInSteps, ClosingSteps
  <2>6. QED
    BY <1>z, <1>c, <2>1, <2>2, <2>4, <2>5
<1>12. ASSUME NEW c \in ClockCalls, EndSync(c)
       PROVE  TypeInv'
  BY <1>12, <1>z, <1>a, <1>b, <1>c DEF EndSync
<1>13. CASE UNCHANGED clockVars
  BY <1>0, <1>13, <1>z, <1>a DEF clockVars, callVars, ClockTypeOK, CallInv
<1>14. QED
  BY <1>1, <1>2, <1>3, <1>4, <1>5, <1>6, <1>7, <1>8, <1>9, <1>10, <1>11, <1>12, <1>13 DEF ClockNext

LEMMA TypeInvariant == ClockSpec => []TypeInv
<1>1. ClockInit => TypeInv
  BY TimeAssumption DEF ClockInit, TypeInv, ClockTypeOK, CallInv, Steps, ClockInSteps, ClosingSteps
<1>2. QED
  BY <1>1, TypeStep, PTL DEF ClockSpec

(* Every column keeps its type whatever overlaps; in particular the hours  *)
(* always fit, because a statement that would store more fails.            *)
THEOREM TypeCorrect == ClockSpec => []ClockTypeOK
<1>1. TypeInv => ClockTypeOK
  BY DEF TypeInv
<1>2. QED
  BY <1>1, TypeInvariant, PTL

-----------------------------------------------------------------------------
(* Hours match times.  While corrections of a record do not overlap its    *)
(* other updates, what a call is about to write was computed from the      *)
(* record as it still is.                                                  *)

DraftOK(c) ==
  /\ clockOp[c] \in ClosingSteps =>
       /\ row[target[c]].status = "ACTIVE"
       /\ draft[c] = Stay(row[target[c]].in, draft[c].out)
  /\ clockOp[c] = "correct" =>
       \/ draft[c].out \in Times /\ draft[c] = Stay(draft[c].in, draft[c].out)
       \/ /\ draft[c].out = None /\ draft[c].hours = None /\ draft[c].overtime = None
          /\ row[target[c]].out = None

Alone ==
  \A c, d \in ClockCalls :
    c # d /\ clockOp[c] = "correct" /\ clockOp[d] \in ClosingSteps \cup {"correct"} =>
      target[c] # target[d]

HoursInv == HoursMatchTimes /\ (\A c \in ClockCalls : DraftOK(c)) /\ Alone

(* What CorrectionStands says of one step. *)
Stands ==
  \A i \in Present :
    /\ row[i].out # None => row'[i].out # None
    /\ row[i].status = "CORRECTED" /\ row'[i] # row[i] =>
         \E c \in ClockCalls : clockOp[c] = "correct" /\ target[c] = i /\ clockOp'[c] = "idle"

(* ClockCalls keep what they know, or have nothing to write any more. *)
Quiet(c) == clockOp'[c] \notin ClosingSteps \cup {"correct"}
Same(c) == clockOp'[c] = clockOp[c] /\ target'[c] = target[c] /\ draft'[c] = draft[c]

LEMMA QuietStep ==
  ASSUME HoursInv, \A c \in ClockCalls : Quiet(c) \/ Same(c),
         \A c \in ClockCalls : Same(c) /\ ~ Quiet(c) =>
           /\ row'[target[c]].status = row[target[c]].status
           /\ row'[target[c]].in = row[target[c]].in
           /\ clockOp[c] = "correct" => row'[target[c]].out = row[target[c]].out
  PROVE  (\A c \in ClockCalls : DraftOK(c)') /\ Alone'
<1>1. ASSUME NEW c \in ClockCalls
      PROVE  DraftOK(c)'
  <2>1. CASE Quiet(c)
    BY <2>1 DEF Quiet, DraftOK
  <2>2. CASE Same(c) /\ ~ Quiet(c)
    <3>1. DraftOK(c)
      BY DEF HoursInv
    <3>2. QED
      BY <2>2, <3>1 DEF Quiet, Same, DraftOK, ClosingSteps
  <2>3. QED
    BY <2>1, <2>2
<1>2. Alone'
  BY DEF HoursInv, Alone, Quiet, Same
<1>3. QED
  BY <1>1, <1>2

(* Taking a record that nobody is correcting keeps the invariant. *)
LEMMA TakeStep ==
  ASSUME TypeInv, HoursInv, "corrections" \notin Liberties,
         NEW c \in ClockCalls, NEW w \in Workers, NEW t \in Times, NEW next \in ClosingSteps,
         TakeOpen(c, w, t, next), UNCHANGED row
  PROVE  HoursInv' /\ Stands
<1>0. ClockTypeOK
  BY DEF TypeInv
<1>1. PICK i \in OpenRows(w) :
         /\ i \in Records /\ row[i] \in Rows
         /\ MayTake(i, {"correct"})
         /\ target' = [target EXCEPT ![c] = i]
         /\ draft' = [draft EXCEPT ![c] = Stay(row[i].in, t)]
         /\ clockOp' = [clockOp EXCEPT ![c] = next]
         /\ Stay(row[i].in, t).out = t
  BY <1>0, TakeEffect
<1>2. /\ clockOp'[c] = next /\ target'[c] = i /\ draft'[c] = Stay(row[i].in, t)
      /\ \A d \in ClockCalls : d # c => Same(d)
  BY <1>0, <1>1 DEF ClockTypeOK, Same
<1>3. \A d \in ClockCalls : clockOp[d] = "correct" => target[d] # i
  BY <1>1 DEF MayTake
<1>4. ASSUME NEW d \in ClockCalls
      PROVE  DraftOK(d)'
  <2>1. CASE d = c
    BY <1>1, <1>2, <2>1 DEF DraftOK, OpenRows, ClosingSteps
  <2>2. CASE d # c
    <3>1. DraftOK(d)
      BY DEF HoursInv
    <3>2. QED
      BY <1>2, <2>2, <3>1 DEF DraftOK, Same
  <2>3. QED
    BY <2>1, <2>2
<1>5. Alone'
  <2>1. next # "correct"
    BY DEF ClosingSteps
  <2>2. QED
    BY <1>2, <1>3, <2>1 DEF HoursInv, Alone, Same
<1>6. HoursMatchTimes' /\ Stands
  BY DEF HoursInv, HoursMatchTimes, Present, Stands, Consistent
<1>7. QED
  BY <1>4, <1>5, <1>6 DEF HoursInv

(* So does closing it. *)
LEMMA CloseStep ==
  ASSUME TypeInv, HoursInv, NEW c \in ClockCalls, NEW s \in BOOLEAN,
         clockOp[c] \in ClosingSteps, Close(c, s), Quiet(c),
         \A d \in ClockCalls : d # c => Same(d)
  PROVE  HoursInv' /\ Stands
<1> DEFINE i == target[c]
<1>0. ClockTypeOK /\ None \notin Times
  <2>1. Times \subseteq Int
    BY TimeAssumption
  <2>2. QED
    BY <2>1, NoneAssumption DEF TypeInv
<1>1. i \in Present /\ i \in Records /\ draft[c] \in Columns /\ draft[c].out \in Times
  BY DEF TypeInv, CallInv, Present
<1>2. /\ row[i].status = "ACTIVE"
      /\ draft[c] = Stay(row[i].in, draft[c].out)
      /\ Consistent(row[i])
  BY <1>1 DEF HoursInv, DraftOK, HoursMatchTimes
<1>3. row[i].in \in Times
  BY <1>0, <1>1 DEF ClockTypeOK, Rows, Present
<1>4. /\ draft[c].hours = HoursBetween(row[i].in, draft[c].out)
      /\ draft[c].overtime = OvertimeOf(HoursBetween(row[i].in, draft[c].out))
  BY <1>1, <1>2, <1>3, StayType
<1>5. /\ \A j \in Records : j # i => row'[j] = row[j]
      /\ \/ row'[i] = row[i]
         \/ /\ row'[i].in = row[i].in /\ row'[i].status = row[i].status
            /\ row'[i].out = draft[c].out
            /\ row'[i].hours = draft[c].hours
            /\ row'[i].overtime = draft[c].overtime
  BY <1>0, <1>1, CloseEffect
<1>6. Consistent(row'[i]) /\ (row[i].out # None => row'[i].out # None)
  BY <1>0, <1>1, <1>2, <1>4, <1>5 DEF Consistent
<1>7. HoursMatchTimes'
  BY <1>1, <1>5, <1>6 DEF HoursInv, HoursMatchTimes, Present, Consistent
<1>8. Stands
  BY <1>1, <1>2, <1>5, <1>6 DEF Stands, Present
<1>9. ASSUME NEW d \in ClockCalls, Same(d), ~ Quiet(d)
      PROVE  /\ row'[target[d]].status = row[target[d]].status
             /\ row'[target[d]].in = row[target[d]].in
             /\ clockOp[d] = "correct" => row'[target[d]].out = row[target[d]].out
  <2>1. target[d] \in Records /\ d # c
    BY <1>9 DEF TypeInv, CallInv, Present, Same, Quiet
  <2>2. clockOp[d] = "correct" => target[d] # i
    BY <2>1 DEF HoursInv, Alone
  <2>3. QED
    BY <1>5, <2>1, <2>2
<1>10. (\A d \in ClockCalls : DraftOK(d)') /\ Alone'
  BY <1>9, QuietStep
<1>11. QED
  BY <1>7, <1>8, <1>10 DEF HoursInv

(* So does a correction. *)
LEMMA CorrectStep ==
  ASSUME TypeInv, HoursInv, NEW c \in ClockCalls, WriteCorrection(c)
  PROVE  HoursInv' /\ Stands
<1> DEFINE i == target[c]
<1>0. ClockTypeOK /\ None \notin Times
  <2>1. Times \subseteq Int
    BY TimeAssumption
  <2>2. QED
    BY <2>1, NoneAssumption DEF TypeInv
<1>1. /\ clockOp[c] = "correct" /\ clockOp'[c] = "idle"
      /\ \A d \in ClockCalls : d # c => Same(d)
  BY <1>0, EndEffect DEF WriteCorrection, Same
<1>2. /\ i \in Present /\ i \in Records /\ draft[c] \in Columns
      /\ DraftOK(c) /\ Consistent(row[i])
  BY <1>1 DEF TypeInv, CallInv, Present, HoursInv, HoursMatchTimes
<1>3. /\ \A j \in Records : j # i => row'[j] = row[j]
      /\ \/ row'[i] = row[i]
         \/ /\ row'[i].in = draft[c].in
            /\ row'[i].out = draft[c].out
            /\ row'[i].hours = draft[c].hours
            /\ row'[i].overtime = draft[c].overtime
  BY <1>0, <1>1, <1>2, CorrectionEffect
<1>4. Consistent(row'[i]) /\ (row[i].out # None => row'[i].out # None)
  <2>1. CASE draft[c].out \in Times /\ draft[c] = Stay(draft[c].in, draft[c].out)
    <3>1. draft[c].in \in Times
      BY <1>2 DEF Columns
    <3>2. /\ draft[c].hours = HoursBetween(draft[c].in, draft[c].out)
          /\ draft[c].overtime = OvertimeOf(draft[c].hours)
      BY <2>1, <3>1, StayType
    <3>3. QED
      BY <1>0, <1>2, <1>3, <2>1, <3>2 DEF Consistent
  <2>2. CASE /\ draft[c].out = None /\ draft[c].hours = None /\ draft[c].overtime = None
             /\ row[i].out = None
    BY <1>2, <1>3, <2>2 DEF Consistent
  <2>3. QED
    BY <1>1, <1>2, <2>1, <2>2 DEF DraftOK
<1>5. HoursMatchTimes'
  BY <1>2, <1>3, <1>4 DEF HoursInv, HoursMatchTimes, Present, Consistent
<1>6. Stands
  BY <1>1, <1>2, <1>3, <1>4 DEF Stands, Present
<1>7. ASSUME NEW d \in ClockCalls, Same(d), ~ Quiet(d)
      PROVE  row'[target[d]] = row[target[d]]
  <2>1. target[d] \in Records /\ d # c /\ clockOp[d] \in ClosingSteps \cup {"correct"}
    BY <1>1, <1>7 DEF TypeInv, CallInv, Present, Same, Quiet, ClosingSteps
  <2>2. target[d] # i
    BY <1>1, <2>1 DEF HoursInv, Alone
  <2>3. QED
    BY <1>3, <2>1, <2>2
<1>8. Quiet(c)
  BY <1>1 DEF Quiet, ClosingSteps
<1>9. (\A d \in ClockCalls : DraftOK(d)') /\ Alone'
  BY <1>1, <1>7, <1>8, QuietStep
<1>10. QED
  BY <1>5, <1>6, <1>9 DEF HoursInv

(* And a step that writes no record, or only a new one. *)
LEMMA OtherStep ==
  ASSUME TypeInv, HoursInv,
         \A i \in Present : row'[i] = row[i],
         \A i \in Records : row'[i] = None \/ i \in Present \/ Consistent(row'[i]),
         \A c \in ClockCalls : Quiet(c) \/ Same(c)
  PROVE  HoursInv' /\ Stands
<1>1. HoursMatchTimes' /\ Stands
  BY DEF HoursInv, HoursMatchTimes, Present, Stands, Consistent
<1>2. \A c \in ClockCalls : Same(c) /\ ~ Quiet(c) => row'[target[c]] = row[target[c]]
  BY DEF TypeInv, CallInv, Same, Quiet
<1>3. QED
  BY <1>1, <1>2, QuietStep DEF HoursInv

LEMMA NewIsConsistent ==
  ASSUME ClockTypeOK, NEW w \in Workers, NEW t \in Times, NEW s \in BOOLEAN, Insert(w, t, s)
  PROVE  /\ \A i \in Present : row'[i] = row[i]
         /\ \A i \in Records : row'[i] = None \/ i \in Present \/ Consistent(row'[i])
<1>1. PICK i \in Records :
         /\ i \notin Present
         /\ row'[i] = [worker |-> w, in |-> t, out |-> None, hours |-> None,
                       overtime |-> None, status |-> "ACTIVE", synced |-> s]
         /\ \A j \in Records : j # i => row'[j] = row[j]
  BY InsertEffect
<1>2. Consistent(row'[i])
  BY <1>1 DEF Consistent
<1>3. QED
  BY <1>1, <1>2 DEF Present

LEMMA HoursStep ==
  ASSUME "corrections" \notin Liberties
  PROVE  TypeInv /\ HoursInv /\ [ClockNext]_clockVars => HoursInv' /\ Stands
<1> SUFFICES ASSUME TypeInv, HoursInv, [ClockNext]_clockVars
             PROVE  HoursInv' /\ Stands
  OBVIOUS
<1>0. ClockTypeOK
  BY DEF TypeInv
<1>a. ASSUME UNCHANGED row, \A c \in ClockCalls : Quiet(c) \/ Same(c)
      PROVE  HoursInv' /\ Stands
  BY <1>a, OtherStep DEF Present
<1>b. ASSUME NEW c \in ClockCalls, EndCall(c)
      PROVE  Quiet(c) /\ \A d \in ClockCalls : d # c => Same(d)
  BY <1>0, <1>b, EndEffect DEF Quiet, Same, ClosingSteps
<1>1. CASE \/ Tick
           \/ \E w \in Workers : DeactivateWorker(w)
           \/ UNCHANGED clockVars
  BY <1>1, <1>a DEF Tick, DeactivateWorker, callVars, clockVars, Same
<1>2. ASSUME NEW c \in ClockCalls,
             \/ \E w \in Workers, t \in Times : StartClockIn(c, w, t) \/ StartClockOut(c, w, t)
             \/ CheckWorker(c) \/ CheckDuplicate(c) \/ CheckOpen(c)
             \/ \E b \in Batches : StartSync(c, b)
             \/ EndSync(c)
      PROVE  HoursInv' /\ Stands
  <2>1. UNCHANGED row
    BY <1>2 DEF StartClockIn, StartClockOut, CheckWorker, CheckDuplicate, CheckOpen, StartSync, EndSync
  <2>2. CASE EndCall(c)
    BY <1>a, <1>b, <2>1, <2>2
  <2>3. CASE /\ clockOp' \in {[clockOp EXCEPT ![c] = s] : s \in ClockInSteps \cup {"out.open", "sync"}}
             /\ UNCHANGED <<target, draft>>
    BY <1>0, <1>a, <2>1, <2>3 DEF ClockTypeOK, Quiet, Same, ClockInSteps, ClosingSteps
  <2>4. QED
    BY <1>2, <2>2, <2>3
       DEF StartClockIn, StartClockOut, CheckWorker, CheckDuplicate, CheckOpen, StartSync, EndSync,
           Goto, ClockInSteps
<1>3. ASSUME NEW c \in ClockCalls, CreateRecord(c)
      PROVE  HoursInv' /\ Stands
  <2>1. worker[c] \in Workers /\ time[c] \in Times /\ Insert(worker[c], time[c], FALSE) /\ EndCall(c)
    BY <1>3 DEF CreateRecord, TypeInv, CallInv, ClockInSteps, ClockTypeOK
  <2>2. QED
    BY <1>0, <1>b, <2>1, NewIsConsistent, OtherStep
<1>4. ASSUME NEW c \in ClockCalls, FindOpen(c)
      PROVE  HoursInv' /\ Stands
  <2>1. worker[c] \in Workers /\ time[c] \in Times /\ UNCHANGED row
    BY <1>4 DEF FindOpen, TypeInv, CallInv, ClockTypeOK
  <2>2. CASE EndCall(c)
    BY <1>a, <1>b, <2>1, <2>2
  <2>3. CASE TakeOpen(c, worker[c], time[c], "out.update")
    BY <2>1, <2>3, TakeStep DEF ClosingSteps
  <2>4. QED
    BY <1>4, <2>2, <2>3 DEF FindOpen
<1>5. ASSUME NEW c \in ClockCalls, WriteClockOut(c)
      PROVE  HoursInv' /\ Stands
  BY <1>5, <1>b, CloseStep DEF WriteClockOut, ClosingSteps
<1>6. ASSUME NEW c \in ClockCalls, NEW i \in Records, NEW fix \in Corrections,
             ReadForCorrection(c, i, fix)
      PROVE  HoursInv' /\ Stands
  <2>1. /\ row[i] \in Rows /\ i \in Present /\ UNCHANGED row
        /\ clockOp' = [clockOp EXCEPT ![c] = "correct"] /\ target' = [target EXCEPT ![c] = i]
        /\ draft' = [draft EXCEPT ![c] = Corrected(row[i], fix)]
        /\ \A d \in ClockCalls : clockOp[d] \in ClosingSteps \cup {"correct"} => target[d] # i
    BY <1>0, <1>6 DEF ReadForCorrection, Goto, MayTake, Present, ClockTypeOK
  <2>2. /\ clockOp'[c] = "correct" /\ target'[c] = i /\ draft'[c] = Corrected(row[i], fix)
        /\ \A d \in ClockCalls : d # c => Same(d)
    BY <1>0, <2>1 DEF ClockTypeOK, Same
  <2>3. Consistent(row[i])
    BY <2>1 DEF HoursInv, HoursMatchTimes
  <2>4. DraftOK(c)'
    <3>1. \/ /\ draft'[c].out \in Times
             /\ draft'[c] = Stay(draft'[c].in, draft'[c].out)
          \/ /\ draft'[c].out = None /\ row'[i].out = None
             /\ draft'[c].hours = None /\ draft'[c].overtime = None
      BY <2>1, <2>2, <2>3, CorrectedType DEF Consistent
    <3>2. QED
      BY <2>2, <3>1 DEF DraftOK, ClosingSteps
  <2>5. ASSUME NEW d \in ClockCalls, d # c
        PROVE  DraftOK(d)'
    <3>1. DraftOK(d)
      BY DEF HoursInv
    <3>2. QED
      BY <2>1, <2>2, <2>5, <3>1 DEF DraftOK, Same
  <2>6. Alone'
    BY <2>1, <2>2 DEF HoursInv, Alone, Same
  <2>7. HoursMatchTimes' /\ Stands
    BY <2>1 DEF HoursInv, HoursMatchTimes, Present, Stands, Consistent
  <2>8. QED
    BY <2>4, <2>5, <2>6, <2>7 DEF HoursInv
<1>7. ASSUME NEW c \in ClockCalls, WriteCorrection(c)
      PROVE  HoursInv' /\ Stands
  BY <1>7, CorrectStep
<1>8. ASSUME NEW c \in ClockCalls, SyncEntry(c)
      PROVE  HoursInv' /\ Stands
  <2> DEFINE e == Head(todo[c])
  <2>1. e.worker \in Workers /\ e.time \in Times
    <3>1. todo[c] \in Seq(Entries) /\ todo[c] # << >>
      BY <1>0, <1>8 DEF SyncEntry, ClockTypeOK
    <3>2. e \in Entries
      BY <3>1
    <3>3. QED
      BY <3>2 DEF Entries
  <2>2. CASE UNCHANGED <<clockOp, target, draft, row>>
    BY <1>a, <2>2 DEF Same
  <2>3. CASE Insert(e.worker, e.time, TRUE) /\ UNCHANGED <<clockOp, target, draft>>
    BY <1>0, <2>1, <2>3, NewIsConsistent, OtherStep DEF Same
  <2>4. CASE TakeOpen(c, e.worker, e.time, "sync.update") /\ UNCHANGED row
    BY <2>1, <2>4, TakeStep DEF ClosingSteps
  <2>5. QED
    BY <1>8, <2>2, <2>3, <2>4 DEF SyncEntry
<1>9. ASSUME NEW c \in ClockCalls, SyncClockOut(c)
      PROVE  HoursInv' /\ Stands
  <2>1. /\ clockOp[c] \in ClosingSteps /\ Close(c, TRUE) /\ Quiet(c)
        /\ \A d \in ClockCalls : d # c => Same(d)
    BY <1>0, <1>9 DEF SyncClockOut, Goto, ClockTypeOK, ClosingSteps, Quiet, Same
  <2>2. QED
    BY <2>1, CloseStep
<1>10. QED
  BY <1>1, <1>2, <1>3, <1>4, <1>5, <1>6, <1>7, <1>8, <1>9 DEF ClockNext

LEMMA HoursInit == ClockInit => HoursInv
BY DEF ClockInit, HoursInv, HoursMatchTimes, DraftOK, Alone, Present, ClosingSteps

(* Unless corrections of a record overlap its other updates, the hours and *)
(* the overtime in it are those of its clock-in and clock-out.             *)
THEOREM HoursAlwaysMatch ==
  ASSUME "corrections" \notin Liberties
  PROVE  ClockSpec => []HoursMatchTimes
<1>1. HoursInv => HoursMatchTimes
  BY DEF HoursInv
<1>2. QED
  BY <1>1, HoursInit, TypeInvariant, HoursStep, PTL DEF ClockSpec

(* Same condition: a closed record stays closed, and a corrected one is    *)
(* only changed by another correction.                                     *)
THEOREM CorrectionsStand ==
  ASSUME "corrections" \notin Liberties
  PROVE  ClockSpec => CorrectionStands
<1>1. TypeInv /\ HoursInv /\ [ClockNext]_clockVars => [Stands]_clockVars
  BY HoursStep
<1>2. [][Stands]_clockVars => CorrectionStands
  BY PTL DEF CorrectionStands, Stands
<1>3. QED
  BY <1>1, <1>2, HoursInit, TypeInvariant, HoursStep, PTL DEF ClockSpec

-----------------------------------------------------------------------------
(* One open record.  Between CheckOpen and CreateRecord only a kiosk can   *)
(* open a record for the worker.                                           *)

OpenByClockIn(i) ==
  /\ row[i] # None
  /\ row[i].out = None /\ row[i].status = "ACTIVE" /\ ~ row[i].synced

Unique ==
  \A i, j \in Records :
    OpenByClockIn(i) /\ OpenByClockIn(j) /\ row[i].worker = row[j].worker => i = j

NoneOpen ==
  \A c \in ClockCalls : clockOp[c] = "in.create" =>
    \A i \in Records : OpenByClockIn(i) => row[i].worker # worker[c]

Serial ==
  \A c, d \in ClockCalls :
    c # d /\ clockOp[c] \in ClockInSteps /\ clockOp[d] \in ClockInSteps => worker[c] # worker[d]

OpenInv == Unique /\ NoneOpen /\ Serial

(* No write to an existing record opens it. *)
LEMMA WritesDoNotOpen ==
  ASSUME TypeInv, NEW c \in ClockCalls,
         \/ clockOp[c] \in ClosingSteps /\ \E s \in BOOLEAN : Close(c, s)
         \/ WriteCorrection(c)
  PROVE  \A i \in Records : OpenByClockIn(i)' =>
           OpenByClockIn(i) /\ row'[i].worker = row[i].worker
<1> DEFINE i == target[c]
<1>0. ClockTypeOK /\ None \notin Times
  <2>1. Times \subseteq Int
    BY TimeAssumption
  <2>2. QED
    BY <2>1, NoneAssumption DEF TypeInv
<1>1. i \in Present /\ i \in Records /\ draft[c] \in Columns
  BY DEF TypeInv, CallInv, Present, WriteCorrection
<1>2. \A j \in Records : j # i => row'[j] = row[j]
  BY <1>0, <1>1, CloseEffect, CorrectionEffect DEF TypeInv, CallInv
<1>3. row'[i] = row[i] \/ row'[i].out # None \/ row'[i].status = "CORRECTED"
  BY <1>0, <1>1, CloseEffect, CorrectionEffect DEF TypeInv, CallInv
<1>4. QED
  BY <1>1, <1>2, <1>3 DEF OpenByClockIn, Present

(* A step after which no call is about to create a record that was not. *)
NotAdvancing(c) ==
  \/ clockOp'[c] \notin ClockInSteps
  \/ clockOp'[c] = clockOp[c] /\ worker'[c] = worker[c]

LEMMA NoNewOpen ==
  ASSUME OpenInv,
         \A i \in Records : OpenByClockIn(i)' => OpenByClockIn(i) /\ row'[i].worker = row[i].worker,
         \A c \in ClockCalls : NotAdvancing(c)
  PROVE  OpenInv'
<1>1. Unique'
  BY DEF OpenInv, Unique
<1>2. NoneOpen'
  BY DEF OpenInv, NoneOpen, NotAdvancing, ClockInSteps
<1>3. Serial'
  BY DEF OpenInv, Serial, NotAdvancing
<1>4. QED
  BY <1>1, <1>2, <1>3 DEF OpenInv

LEMMA InsertedWorker ==
  ASSUME ClockTypeOK, NEW w \in Workers, NEW t \in Times, NEW s \in BOOLEAN, Insert(w, t, s)
  PROVE  \E i \in Records :
           /\ i \notin Present
           /\ row'[i].worker = w /\ row'[i].synced = s
           /\ \A j \in Records : j # i => row'[j] = row[j]
<1>1. PICK i \in Records :
         /\ i \notin Present
         /\ row'[i] = [worker |-> w, in |-> t, out |-> None, hours |-> None,
                       overtime |-> None, status |-> "ACTIVE", synced |-> s]
         /\ \A j \in Records : j # i => row'[j] = row[j]
  BY InsertEffect
<1>2. row'[i].worker = w /\ row'[i].synced = s
  BY <1>1
<1>3. QED
  BY <1>1, <1>2

LEMMA SyncedIsNotCounted ==
  ASSUME ClockTypeOK, NEW w \in Workers, NEW t \in Times, Insert(w, t, TRUE)
  PROVE  \A i \in Records : OpenByClockIn(i)' =>
           OpenByClockIn(i) /\ row'[i].worker = row[i].worker
<1>1. PICK i \in Records :
         /\ row'[i].synced = TRUE
         /\ \A j \in Records : j # i => row'[j] = row[j]
  BY InsertedWorker
<1>2. QED
  BY <1>1 DEF OpenByClockIn

LEMMA OpenStep ==
  ASSUME "clock-ins" \notin Liberties
  PROVE  TypeInv /\ OpenInv /\ [ClockNext]_clockVars => OpenInv'
<1> SUFFICES ASSUME TypeInv, OpenInv, [ClockNext]_clockVars
             PROVE  OpenInv'
  OBVIOUS
<1>0. ClockTypeOK /\ None \notin Rows
  BY RowsAssumption DEF TypeInv
<1>a. ASSUME UNCHANGED row,
             \A c \in ClockCalls : NotAdvancing(c)
      PROVE  OpenInv'
  BY <1>a, NoNewOpen DEF OpenByClockIn
<1>b. ASSUME NEW c \in ClockCalls, EndCall(c)
      PROVE  \A d \in ClockCalls : NotAdvancing(d)
  <2>1. clockOp'[c] = "idle"
    BY <1>0, <1>b, EndEffect
  <2>2. \A d \in ClockCalls : d # c => clockOp'[d] = clockOp[d] /\ worker'[d] = worker[d]
    BY <1>0, <1>b, EndEffect
  <2>3. QED
    <3>1. clockOp'[c] \notin ClockInSteps
      BY <2>1 DEF ClockInSteps
    <3>2. QED
      BY <2>2, <3>1 DEF NotAdvancing
<1>1. CASE \/ Tick
           \/ \E w \in Workers : DeactivateWorker(w)
           \/ UNCHANGED clockVars
  BY <1>1, <1>a DEF Tick, DeactivateWorker, callVars, clockVars, NotAdvancing
<1>2. ASSUME NEW c \in ClockCalls, NEW w \in Workers, NEW t \in Times, StartClockIn(c, w, t)
      PROVE  OpenInv'
  <2>1. /\ clockOp'[c] = "in.worker" /\ worker'[c] = w /\ UNCHANGED row
        /\ \A d \in ClockCalls : d # c => clockOp'[d] = clockOp[d] /\ worker'[d] = worker[d]
        /\ \A d \in ClockCalls : clockOp[d] \in ClockInSteps => worker[d] # w
    BY <1>0, <1>2 DEF StartClockIn, Goto, ClockTypeOK
  <2>2. Unique' /\ NoneOpen'
    BY <2>1 DEF OpenInv, Unique, NoneOpen, OpenByClockIn
  <2>3. Serial'
    BY <2>1 DEF OpenInv, Serial
  <2>4. QED
    BY <2>2, <2>3 DEF OpenInv
<1>3. ASSUME NEW c \in ClockCalls, CheckWorker(c) \/ CheckDuplicate(c)
      PROVE  OpenInv'
  <2>1. UNCHANGED row
    BY <1>3 DEF CheckWorker, CheckDuplicate
  <2>2. CASE EndCall(c)
    BY <1>a, <1>b, <2>1, <2>2
  <2>3. CASE /\ clockOp[c] \in ClockInSteps /\ UNCHANGED worker
             /\ clockOp' \in {[clockOp EXCEPT ![c] = s] : s \in {"in.duplicate", "in.open"}}
    <3>1. Unique' /\ NoneOpen'
      BY <1>0, <2>1, <2>3 DEF OpenInv, Unique, NoneOpen, OpenByClockIn, ClockTypeOK
    <3>2. Serial'
      BY <1>0, <2>3 DEF OpenInv, Serial, ClockTypeOK, ClockInSteps
    <3>3. QED
      BY <3>1, <3>2 DEF OpenInv
  <2>4. QED
    BY <1>3, <2>2, <2>3 DEF CheckWorker, CheckDuplicate, Goto, ClockInSteps
<1>4. ASSUME NEW c \in ClockCalls, CheckOpen(c)
      PROVE  OpenInv'
  <2>1. UNCHANGED row
    BY <1>4 DEF CheckOpen
  <2>2. CASE EndCall(c)
    BY <1>a, <1>b, <2>1, <2>2
  <2>3. CASE /\ clockOp[c] \in ClockInSteps /\ OpenRows(worker[c]) = {}
             /\ clockOp' = [clockOp EXCEPT ![c] = "in.create"] /\ UNCHANGED worker
    <3>1. \A i \in Records : OpenByClockIn(i) => row[i].worker # worker[c]
      BY <2>3 DEF OpenRows, Present, OpenByClockIn
    <3>2. Unique' /\ NoneOpen'
      BY <1>0, <2>1, <2>3, <3>1 DEF OpenInv, Unique, NoneOpen, OpenByClockIn, ClockTypeOK
    <3>3. Serial'
      BY <1>0, <2>3 DEF OpenInv, Serial, ClockTypeOK, ClockInSteps
    <3>4. QED
      BY <3>2, <3>3 DEF OpenInv
  <2>4. QED
    BY <1>4, <2>2, <2>3 DEF CheckOpen, Goto, ClockInSteps
<1>5. ASSUME NEW c \in ClockCalls, CreateRecord(c)
      PROVE  OpenInv'
  <2>1. /\ clockOp[c] = "in.create" /\ worker[c] \in Workers /\ time[c] \in Times
        /\ Insert(worker[c], time[c], FALSE) /\ EndCall(c)
    BY <1>5 DEF CreateRecord, TypeInv, CallInv, ClockInSteps, ClockTypeOK
  <2>2. PICK i \in Records :
           /\ i \notin Present
           /\ row'[i].worker = worker[c]
           /\ \A j \in Records : j # i => row'[j] = row[j]
    BY <1>0, <2>1, InsertedWorker
  <2>3. \A j \in Records : OpenByClockIn(j) => row[j].worker # worker[c]
    BY <2>1 DEF OpenInv, NoneOpen
  <2>4. \A j \in Records : j # i /\ OpenByClockIn(j)' => OpenByClockIn(j) /\ row'[j] = row[j]
    BY <2>2, SMTT(30) DEF OpenByClockIn
  <2>5. Unique'
    BY <2>2, <2>3, <2>4 DEF OpenInv, Unique
  <2>6. /\ clockOp'[c] = "idle"
        /\ \A d \in ClockCalls : d # c => clockOp'[d] = clockOp[d] /\ worker'[d] = worker[d]
    BY <1>0, <2>1, EndEffect
  <2>7. NoneOpen'
    <3>1. ASSUME NEW d \in ClockCalls, clockOp'[d] = "in.create"
          PROVE  \A j \in Records : OpenByClockIn(j)' => row'[j].worker # worker'[d]
      <4>1. d # c /\ clockOp[d] = "in.create" /\ worker'[d] = worker[d]
        BY <2>6, <3>1
      <4>2. worker[d] # worker[c]
        BY <2>1, <4>1 DEF OpenInv, Serial, ClockInSteps
      <4>3. QED
        BY <2>2, <2>4, <4>1, <4>2 DEF OpenInv, NoneOpen
    <3>2. QED
      BY <3>1 DEF NoneOpen
  <2>8. Serial'
    BY <2>6 DEF OpenInv, Serial, ClockInSteps
  <2>9. QED
    BY <2>5, <2>7, <2>8 DEF OpenInv
<1>6. ASSUME NEW c \in ClockCalls,
             \/ \E w \in Workers, t \in Times : StartClockOut(c, w, t)
             \/ \E i \in Records, fix \in Corrections : ReadForCorrection(c, i, fix)
             \/ \E b \in Batches : StartSync(c, b)
             \/ EndSync(c) \/ FindOpen(c)
      PROVE  OpenInv'
  <2>1. UNCHANGED row
    BY <1>6 DEF StartClockOut, ReadForCorrection, StartSync, EndSync, FindOpen
  <2>2. CASE EndCall(c)
    BY <1>a, <1>b, <2>1, <2>2
  <2>3. CASE /\ clockOp' \in {[clockOp EXCEPT ![c] = s] : s \in {"out.open", "out.update", "correct", "sync"}}
             /\ \A d \in ClockCalls : d # c => worker'[d] = worker[d]
    <3>1. PICK s \in {"out.open", "out.update", "correct", "sync"} : clockOp' = [clockOp EXCEPT ![c] = s]
      BY <2>3
    <3>2. clockOp'[c] = s /\ \A d \in ClockCalls : d # c => clockOp'[d] = clockOp[d]
      BY <1>0, <3>1 DEF ClockTypeOK
    <3>3. clockOp'[c] \notin ClockInSteps
      BY <3>2 DEF ClockInSteps
    <3>4. QED
      BY <1>a, <2>1, <2>3, <3>2, <3>3 DEF NotAdvancing
  <2>4. QED
    BY <1>0, <1>6, <2>2, <2>3
       DEF StartClockOut, ReadForCorrection, StartSync, EndSync, FindOpen, TakeOpen, Goto, ClockTypeOK
<1>7. ASSUME NEW c \in ClockCalls, WriteClockOut(c) \/ WriteCorrection(c)
      PROVE  OpenInv'
  <2>1. \A i \in Records : OpenByClockIn(i)' => OpenByClockIn(i) /\ row'[i].worker = row[i].worker
    BY <1>7, WritesDoNotOpen DEF WriteClockOut, ClosingSteps
  <2>2. EndCall(c)
    BY <1>7 DEF WriteClockOut, WriteCorrection
  <2>3. QED
    BY <1>b, <2>1, <2>2, NoNewOpen
<1>8. ASSUME NEW c \in ClockCalls, SyncEntry(c)
      PROVE  OpenInv'
  <2> DEFINE e == Head(todo[c])
  <2>1. e.worker \in Workers /\ e.time \in Times
    <3>1. todo[c] \in Seq(Entries) /\ todo[c] # << >>
      BY <1>0, <1>8 DEF SyncEntry, ClockTypeOK
    <3>2. e \in Entries
      BY <3>1
    <3>3. QED
      BY <3>2 DEF Entries
  <2>2. CASE UNCHANGED <<clockOp, worker, row>>
    BY <1>a, <2>2 DEF NotAdvancing
  <2>3. CASE Insert(e.worker, e.time, TRUE) /\ UNCHANGED <<clockOp, worker>>
    <3>1. \A i \in Records : OpenByClockIn(i)' =>
             OpenByClockIn(i) /\ row'[i].worker = row[i].worker
      BY <1>0, <2>1, <2>3, SyncedIsNotCounted
    <3>2. QED
      BY <2>3, <3>1, NoNewOpen DEF NotAdvancing
  <2>4. CASE TakeOpen(c, e.worker, e.time, "sync.update") /\ UNCHANGED <<row, worker>>
    BY <1>0, <1>a, <2>4 DEF TakeOpen, Goto, ClockTypeOK, ClockInSteps, NotAdvancing
  <2>5. QED
    BY <1>8, <2>2, <2>3, <2>4 DEF SyncEntry
<1>9. ASSUME NEW c \in ClockCalls, SyncClockOut(c)
      PROVE  OpenInv'
  <2>1. \A i \in Records : OpenByClockIn(i)' => OpenByClockIn(i) /\ row'[i].worker = row[i].worker
    BY <1>9, WritesDoNotOpen DEF SyncClockOut, ClosingSteps
  <2>2. clockOp' = [clockOp EXCEPT ![c] = "sync"] /\ UNCHANGED worker
    BY <1>9 DEF SyncClockOut, Goto
  <2>3. QED
    BY <1>0, <2>1, <2>2, NoNewOpen DEF ClockTypeOK, ClockInSteps, NotAdvancing
<1>10. QED
  BY <1>1, <1>2, <1>3, <1>4, <1>5, <1>6, <1>7, <1>8, <1>9 DEF ClockNext

(* Unless clock-ins of one worker overlap, a worker has at most one open   *)
(* record made by a clock-in, whatever kiosks, clock-outs and corrections  *)
(* do in between and whatever timestamps clients send.                     *)
THEOREM OneOpenAtATime ==
  ASSUME "clock-ins" \notin Liberties
  PROVE  ClockSpec => []OneOpenRecord
<1>1. ClockInit => OpenInv
  BY DEF ClockInit, OpenInv, Unique, NoneOpen, Serial, OpenByClockIn, ClockInSteps
<1>2. OpenInv => OneOpenRecord
  BY DEF OpenInv, Unique, OneOpenRecord, OpenByClockIn, OpenRows, Present
<1>3. QED
  BY <1>1, <1>2, TypeInvariant, OpenStep, PTL DEF ClockSpec

-----------------------------------------------------------------------------
(* Repeated clock-ins.  A clock-in that is alone and stamped on arrival is *)
(* younger than every other clock-in of its worker.                        *)

PlainIn(i) == row[i] # None /\ row[i].status = "ACTIVE" /\ ~ row[i].synced

Past == \A i \in Records : PlainIn(i) => row[i].in <= now

Apart ==
  \A i, j \in Records :
    i # j /\ PlainIn(i) /\ PlainIn(j) /\ row[i].worker = row[j].worker =>
      row[i].in > row[j].in + WINDOW \/ row[j].in > row[i].in + WINDOW

Younger ==
  \A c \in ClockCalls : clockOp[c] \in ClockInSteps =>
    /\ time[c] <= now
    /\ \A i \in Records : PlainIn(i) /\ row[i].worker = worker[c] =>
         /\ row[i].in <= time[c]
         /\ clockOp[c] \in {"in.open", "in.create"} => time[c] > row[i].in + WINDOW

WindowInv == Past /\ Apart /\ Younger

(* A step after which call c is where it was, or no clock-in. *)
NotNearer(c) ==
  \/ clockOp'[c] \notin ClockInSteps
  \/ worker'[c] = worker[c] /\ time'[c] = time[c] /\ clockOp'[c] = clockOp[c]

LEMMA WritesKeepTheIn ==
  ASSUME TypeInv, NEW c \in ClockCalls,
         \/ clockOp[c] \in ClosingSteps /\ \E s \in BOOLEAN : Close(c, s)
         \/ WriteCorrection(c)
  PROVE  \A i \in Records : PlainIn(i)' =>
           PlainIn(i) /\ row'[i].worker = row[i].worker /\ row'[i].in = row[i].in
<1> DEFINE i == target[c]
<1>0. ClockTypeOK
  BY DEF TypeInv
<1>1. i \in Present /\ i \in Records /\ draft[c] \in Columns
  BY DEF TypeInv, CallInv, Present, WriteCorrection
<1>2. CASE WriteCorrection(c)
  <2>1. \A j \in Records : j # i => row'[j] = row[j]
    BY <1>0, <1>1, <1>2, CorrectionEffect
  <2>2. row'[i] = row[i] \/ row'[i].status = "CORRECTED"
    BY <1>0, <1>1, <1>2, CorrectionEffect
  <2>3. QED
    BY <1>1, <2>1, <2>2 DEF PlainIn
<1>3. CASE clockOp[c] \in ClosingSteps /\ \E s \in BOOLEAN : Close(c, s)
  <2>1. PICK s \in BOOLEAN : Close(c, s)
    BY <1>3
  <2>2. draft[c].out \in Times
    BY <1>3 DEF TypeInv, CallInv
  <2>3. \A j \in Records : j # i => row'[j] = row[j]
    BY <1>0, <1>1, <2>1, <2>2, CloseEffect
  <2>4. /\ row'[i].worker = row[i].worker /\ row'[i].in = row[i].in
        /\ row'[i].status = row[i].status
    BY <1>0, <1>1, <2>1, <2>2, CloseEffect
  <2>5. row'[i].synced = row[i].synced \/ row'[i].synced = TRUE
    <3>1. row[i] \in Rows
      BY <1>0, <1>1 DEF ClockTypeOK, Present
    <3>2. Closed(row[i], draft[c], s).synced \in {row[i].synced, TRUE}
      BY <3>1 DEF Rows, Closed
    <3>3. row'[i] = row[i] \/ row'[i] = Closed(row[i], draft[c], s)
      BY <1>0, <1>1, <2>1 DEF Close, ClockTypeOK
    <3>4. QED
      BY <3>2, <3>3
  <2>6. row[i] # None
    BY <1>1 DEF Present
  <2>7. QED
    BY <1>1, <2>3, <2>4, <2>5, <2>6 DEF PlainIn
<1>4. QED
  BY <1>2, <1>3

LEMMA SyncedIsNoPlainIn ==
  ASSUME ClockTypeOK, NEW w \in Workers, NEW t \in Times, Insert(w, t, TRUE)
  PROVE  \A i \in Records : PlainIn(i)' =>
           PlainIn(i) /\ row'[i].worker = row[i].worker /\ row'[i].in = row[i].in
<1>1. PICK i \in Records :
         /\ row'[i].synced = TRUE
         /\ \A j \in Records : j # i => row'[j] = row[j]
  BY InsertedWorker
<1>2. QED
  BY <1>1 DEF PlainIn

LEMMA WindowKept ==
  ASSUME WindowInv, UNCHANGED now,
         \A i \in Records : PlainIn(i)' =>
           PlainIn(i) /\ row'[i].worker = row[i].worker /\ row'[i].in = row[i].in,
         \A c \in ClockCalls : NotNearer(c)
  PROVE  WindowInv'
<1>1. Past' /\ Apart'
  BY DEF WindowInv, Past, Apart
<1>2. Younger'
  BY DEF WindowInv, Younger, NotNearer
<1>3. QED
  BY <1>1, <1>2 DEF WindowInv

LEMMA WindowStep ==
  ASSUME "clock-ins" \notin Liberties, "timestamps" \notin Liberties
  PROVE  TypeInv /\ OpenInv /\ WindowInv /\ [ClockNext]_clockVars => WindowInv'
<1> SUFFICES ASSUME TypeInv, OpenInv, WindowInv, [ClockNext]_clockVars
             PROVE  WindowInv'
  OBVIOUS
<1>0. ClockTypeOK /\ None \notin Rows
  BY RowsAssumption DEF TypeInv
<1>n. /\ now \in Nat /\ WINDOW \in Nat /\ \A c \in ClockCalls : time[c] \in Nat
      /\ \A i \in Records : row[i] # None => row[i].in \in Nat
  BY <1>0, TimeAssumption DEF ClockTypeOK, Rows
<1>a. ASSUME UNCHANGED <<now, row>>, \A c \in ClockCalls : NotNearer(c)
      PROVE  WindowInv'
  BY <1>a, WindowKept DEF PlainIn
<1>b. ASSUME NEW c \in ClockCalls, EndCall(c)
      PROVE  \A d \in ClockCalls : NotNearer(d)
  <2>1. clockOp'[c] = "idle" /\ \A d \in ClockCalls : d # c =>
           clockOp'[d] = clockOp[d] /\ worker'[d] = worker[d] /\ time'[d] = time[d]
    BY <1>0, <1>b, EndEffect
  <2>2. QED
    BY <2>1 DEF NotNearer, ClockInSteps
<1>1. CASE Tick
  <2>1. now' = now + 1 /\ UNCHANGED <<row, clockOp, worker, time>>
    BY <1>1 DEF Tick, callVars
  <2>2. Past'
    BY <1>n, <2>1 DEF WindowInv, Past, PlainIn
  <2>3. Apart'
    BY <2>1 DEF WindowInv, Apart, PlainIn
  <2>4. Younger'
    <3>1. ASSUME NEW c \in ClockCalls, clockOp[c] \in ClockInSteps PROVE time[c] <= now'
      <4>1. time[c] <= now
        BY <3>1 DEF WindowInv, Younger
      <4>2. QED
        BY <1>n, <2>1, <4>1
    <3>2. QED
      BY <2>1, <3>1 DEF WindowInv, Younger, PlainIn
  <2>5. QED
    BY <2>2, <2>3, <2>4 DEF WindowInv
<1>2. CASE (\E w \in Workers : DeactivateWorker(w)) \/ UNCHANGED clockVars
  BY <1>2, <1>a DEF DeactivateWorker, callVars, clockVars, NotNearer
<1>3. ASSUME NEW c \in ClockCalls, NEW w \in Workers, NEW t \in Times, StartClockIn(c, w, t)
      PROVE  WindowInv'
  <2>1. /\ clockOp'[c] = "in.worker" /\ worker'[c] = w /\ time'[c] = now /\ UNCHANGED <<now, row>>
        /\ \A d \in ClockCalls : d # c =>
             clockOp'[d] = clockOp[d] /\ worker'[d] = worker[d] /\ time'[d] = time[d]
    BY <1>0, <1>3 DEF StartClockIn, Goto, ClockTypeOK
  <2>2. Past' /\ Apart'
    BY <2>1 DEF WindowInv, Past, Apart, PlainIn
  <2>3. Younger'
    <3> SUFFICES ASSUME NEW d \in ClockCalls, clockOp'[d] \in ClockInSteps
                 PROVE  /\ time'[d] <= now
                        /\ \A i \in Records : PlainIn(i) /\ row[i].worker = worker'[d] =>
                             /\ row[i].in <= time'[d]
                             /\ clockOp'[d] \in {"in.open", "in.create"} => time'[d] > row[i].in + WINDOW
      BY <2>1 DEF Younger, PlainIn
    <3>1. CASE d = c
      BY <1>n, <2>1, <3>1 DEF WindowInv, Past
    <3>2. CASE d # c
      BY <2>1, <3>2 DEF WindowInv, Younger
    <3>3. QED
      BY <3>1, <3>2
  <2>4. QED
    BY <2>2, <2>3 DEF WindowInv
<1>4. ASSUME NEW c \in ClockCalls, CheckWorker(c) \/ CheckDuplicate(c) \/ CheckOpen(c)
      PROVE  WindowInv'
  <2>1. UNCHANGED <<now, row>>
    BY <1>4 DEF CheckWorker, CheckDuplicate, CheckOpen
  <2>2. CASE EndCall(c)
    BY <1>a, <1>b, <2>1, <2>2
  <2>3. CASE /\ UNCHANGED <<worker, time>> /\ clockOp[c] \in ClockInSteps
             /\ \/ clockOp' = [clockOp EXCEPT ![c] = "in.duplicate"]
                \/ /\ clockOp' = [clockOp EXCEPT ![c] = "in.open"]
                   /\ Duplicates(worker[c], time[c]) = {}
                \/ clockOp' = [clockOp EXCEPT ![c] = "in.create"] /\ clockOp[c] = "in.open"
    <3>1. Past' /\ Apart'
      BY <2>1 DEF WindowInv, Past, Apart, PlainIn
    <3>2. /\ \A d \in ClockCalls : d # c => clockOp'[d] = clockOp[d]
          /\ clockOp'[c] \in {"in.open", "in.create"} =>
               clockOp[c] = "in.open" \/ Duplicates(worker[c], time[c]) = {}
      BY <1>0, <2>3 DEF ClockTypeOK
    <3>3. Younger'
      <4> SUFFICES ASSUME NEW d \in ClockCalls, clockOp'[d] \in ClockInSteps
                   PROVE  /\ time[d] <= now
                          /\ \A i \in Records : PlainIn(i) /\ row[i].worker = worker[d] =>
                               /\ row[i].in <= time[d]
                               /\ clockOp'[d] \in {"in.open", "in.create"} => time[d] > row[i].in + WINDOW
        BY <2>1, <2>3 DEF Younger, PlainIn
      <4>1. CASE d # c
        BY <3>2, <4>1 DEF WindowInv, Younger
      <4>2. CASE d = c
        <5>1. /\ time[c] <= now
              /\ \A i \in Records : PlainIn(i) /\ row[i].worker = worker[c] =>
                   /\ row[i].in <= time[c]
                   /\ clockOp[c] = "in.open" => time[c] > row[i].in + WINDOW
          BY <2>3 DEF WindowInv, Younger
        <5>2. ASSUME Duplicates(worker[c], time[c]) = {}, NEW i \in Records,
                     PlainIn(i), row[i].worker = worker[c]
              PROVE  time[c] > row[i].in + WINDOW
          <6>1. row[i].in <= time[c] /\ row[i].in \in Nat /\ i \in Present
            BY <1>n, <5>1, <5>2 DEF PlainIn, Present
          <6>2. ~ (row[i].in >= time[c] - WINDOW)
            BY <5>2, <6>1 DEF Duplicates
          <6>3. QED
            BY <1>n, <6>1, <6>2
        <5>3. QED
          BY <3>2, <4>2, <5>1, <5>2
      <4>3. QED
        BY <4>1, <4>2
    <3>4. QED
      BY <3>1, <3>3 DEF WindowInv
  <2>4. QED
    BY <1>4, <2>2, <2>3 DEF CheckWorker, CheckDuplicate, CheckOpen, Goto, ClockInSteps
<1>5. ASSUME NEW c \in ClockCalls, CreateRecord(c)
      PROVE  WindowInv'
  <2>1. /\ clockOp[c] = "in.create" /\ worker[c] \in Workers /\ time[c] \in Times
        /\ Insert(worker[c], time[c], FALSE) /\ EndCall(c) /\ UNCHANGED now
    BY <1>5 DEF CreateRecord, TypeInv, CallInv, ClockInSteps, ClockTypeOK
  <2>2. PICK i \in Records :
           /\ i \notin Present
           /\ row'[i] = [worker |-> worker[c], in |-> time[c], out |-> None, hours |-> None,
                         overtime |-> None, status |-> "ACTIVE", synced |-> FALSE]
           /\ \A j \in Records : j # i => row'[j] = row[j]
    BY <1>0, <2>1, InsertEffect
  <2>3. row'[i].worker = worker[c] /\ row'[i].in = time[c]
    BY <2>2
  <2>4. /\ time[c] <= now
        /\ \A j \in Records : PlainIn(j) /\ row[j].worker = worker[c] =>
              time[c] > row[j].in + WINDOW
    BY <2>1 DEF WindowInv, Younger, ClockInSteps
  <2>5. \A j \in Records : j # i /\ PlainIn(j)' => PlainIn(j) /\ row'[j] = row[j]
    BY <2>2 DEF PlainIn
  <2>6. Past'
    BY <2>1, <2>3, <2>4, <2>5 DEF WindowInv, Past
  <2>7. Apart'
    <3>1. \A j \in Records : j # i /\ PlainIn(j)' /\ row'[j].worker = row'[i].worker =>
            row'[i].in > row'[j].in + WINDOW
      BY <2>3, <2>4, <2>5
    <3>2. \A j, k \in Records : j # i /\ k # i /\ j # k /\ PlainIn(j)' /\ PlainIn(k)' /\
              row'[j].worker = row'[k].worker =>
            row'[j].in > row'[k].in + WINDOW \/ row'[k].in > row'[j].in + WINDOW
      BY <2>5 DEF WindowInv, Apart
    <3>3. QED
      BY <3>1, <3>2 DEF Apart
  <2>8. Younger'
    <3> SUFFICES ASSUME NEW d \in ClockCalls, clockOp'[d] \in ClockInSteps
                 PROVE  /\ time'[d] <= now
                        /\ \A j \in Records : PlainIn(j)' /\ row'[j].worker = worker'[d] =>
                             /\ row'[j].in <= time'[d]
                             /\ clockOp'[d] \in {"in.open", "in.create"} => time'[d] > row'[j].in + WINDOW
      BY <2>1 DEF Younger
    <3>1. d # c /\ clockOp'[d] = clockOp[d] /\ worker'[d] = worker[d] /\ time'[d] = time[d]
      <4>1. clockOp'[c] = "idle" /\ \A f \in ClockCalls : f # c =>
               clockOp'[f] = clockOp[f] /\ worker'[f] = worker[f] /\ time'[f] = time[f]
        BY <1>0, <2>1, EndEffect
      <4>2. QED
        BY <4>1 DEF ClockInSteps
    <3>2. worker[d] # worker[c]
      BY <2>1, <3>1 DEF OpenInv, Serial, ClockInSteps
    <3>3. QED
      BY <2>3, <2>5, <3>1, <3>2 DEF WindowInv, Younger
  <2>9. QED
    BY <2>6, <2>7, <2>8 DEF WindowInv
<1>6. ASSUME NEW c \in ClockCalls,
             \/ \E w \in Workers, t \in Times : StartClockOut(c, w, t)
             \/ \E i \in Records, fix \in Corrections : ReadForCorrection(c, i, fix)
             \/ \E b \in Batches : StartSync(c, b)
             \/ EndSync(c) \/ FindOpen(c)
      PROVE  WindowInv'
  <2>1. UNCHANGED <<now, row>>
    BY <1>6 DEF StartClockOut, ReadForCorrection, StartSync, EndSync, FindOpen
  <2>2. CASE EndCall(c)
    BY <1>a, <1>b, <2>1, <2>2
  <2>3. CASE /\ clockOp' \in {[clockOp EXCEPT ![c] = s] : s \in {"out.open", "out.update", "correct", "sync"}}
             /\ \A d \in ClockCalls : d # c => worker'[d] = worker[d] /\ time'[d] = time[d]
    <3>1. PICK s \in {"out.open", "out.update", "correct", "sync"} : clockOp' = [clockOp EXCEPT ![c] = s]
      BY <2>3
    <3>2. clockOp'[c] = s /\ \A d \in ClockCalls : d # c => clockOp'[d] = clockOp[d]
      BY <1>0, <3>1 DEF ClockTypeOK
    <3>3. clockOp'[c] \notin ClockInSteps
      BY <3>2 DEF ClockInSteps
    <3>4. QED
      BY <1>a, <2>1, <2>3, <3>2, <3>3 DEF NotNearer
  <2>4. QED
    BY <1>0, <1>6, <2>2, <2>3
       DEF StartClockOut, ReadForCorrection, StartSync, EndSync, FindOpen, TakeOpen, Goto, ClockTypeOK
<1>7. ASSUME NEW c \in ClockCalls, WriteClockOut(c) \/ WriteCorrection(c)
      PROVE  WindowInv'
  <2>1. \A i \in Records : PlainIn(i)' =>
          PlainIn(i) /\ row'[i].worker = row[i].worker /\ row'[i].in = row[i].in
    BY <1>7, WritesKeepTheIn DEF WriteClockOut, ClosingSteps
  <2>2. EndCall(c) /\ UNCHANGED now
    BY <1>7 DEF WriteClockOut, WriteCorrection
  <2>3. QED
    BY <1>b, <2>1, <2>2, WindowKept
<1>8. ASSUME NEW c \in ClockCalls, SyncEntry(c)
      PROVE  WindowInv'
  <2> DEFINE e == Head(todo[c])
  <2>0. e.worker \in Workers /\ e.time \in Times /\ UNCHANGED <<now, worker, time>>
    <3>1. todo[c] \in Seq(Entries) /\ todo[c] # << >>
      BY <1>0, <1>8 DEF SyncEntry, ClockTypeOK
    <3>2. e \in Entries
      BY <3>1
    <3>3. QED
      BY <1>8, <3>2 DEF Entries, SyncEntry
  <2>1. CASE UNCHANGED <<clockOp, row>>
    BY <1>a, <2>0, <2>1 DEF NotNearer
  <2>2. CASE Insert(e.worker, e.time, TRUE) /\ UNCHANGED clockOp
    <3>1. \A j \in Records : PlainIn(j)' =>
            PlainIn(j) /\ row'[j].worker = row[j].worker /\ row'[j].in = row[j].in
      BY <1>0, <2>0, <2>2, SyncedIsNoPlainIn
    <3>2. QED
      BY <2>0, <2>2, <3>1, WindowKept DEF NotNearer
  <2>3. CASE TakeOpen(c, e.worker, e.time, "sync.update") /\ UNCHANGED row
    BY <1>0, <1>a, <2>0, <2>3 DEF TakeOpen, Goto, ClockTypeOK, ClockInSteps, NotNearer
  <2>4. QED
    BY <1>8, <2>1, <2>2, <2>3 DEF SyncEntry
<1>9. ASSUME NEW c \in ClockCalls, SyncClockOut(c)
      PROVE  WindowInv'
  <2>1. \A i \in Records : PlainIn(i)' =>
          PlainIn(i) /\ row'[i].worker = row[i].worker /\ row'[i].in = row[i].in
    BY <1>9, WritesKeepTheIn DEF SyncClockOut, ClosingSteps
  <2>2. clockOp' = [clockOp EXCEPT ![c] = "sync"] /\ UNCHANGED <<now, worker, time>>
    BY <1>9 DEF SyncClockOut, Goto
  <2>3. QED
    BY <1>0, <2>1, <2>2, WindowKept DEF ClockTypeOK, ClockInSteps, NotNearer
<1>10. QED
  BY <1>1, <1>2, <1>3, <1>4, <1>5, <1>6, <1>7, <1>8, <1>9 DEF ClockNext

(* Clock-ins of a worker that do not overlap and are stamped on arrival    *)
(* are more than the window apart, even when the earlier record has been   *)
(* closed in between; records of kiosks and corrected ones do not count.   *)
THEOREM NobodyClocksInAgain ==
  ASSUME "clock-ins" \notin Liberties, "timestamps" \notin Liberties
  PROVE  ClockSpec => []NoRepeatedClockIn
<1>1. ClockInit => OpenInv /\ WindowInv
  BY DEF ClockInit, OpenInv, Unique, NoneOpen, Serial, OpenByClockIn, ClockInSteps,
     WindowInv, Past, Apart, Younger, PlainIn
<1>2. WindowInv => NoRepeatedClockIn
  BY DEF WindowInv, Apart, PlainIn, NoRepeatedClockIn, Present
<1>3. QED
  BY <1>1, <1>2, TypeInvariant, OpenStep, WindowStep, PTL DEF ClockSpec

=============================================================================

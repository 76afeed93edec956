---------------------------- MODULE PayrollProofs ----------------------------
(***************************************************************************)
(* Proofs about Payroll.tla, for any number of periods, workers, calls,    *)
(* consumers and jobs, and any faults.                                     *)
(*                                                                         *)
(* First the control state: which rows there are, their status, and where  *)
(* calls, jobs and runs are.  Then the amounts, which are sums over        *)
(* attendance records and payslips: see Sums.tla.                          *)
(***************************************************************************)
EXTENDS Payroll, Sums

RunFields == {"step", "job", "period", "workers", "todo", "slip", "gross", "net"}
PeriodFields == {"start", "end", "status", "gross", "net"}

JobType ==
  job \in [Jobs -> [state : JobStates, data : Periods \cup {None}, stalls : 0 .. MAX_STALLED]]

(* The shape of the variables; no amounts. *)
Shape ==
  /\ DOMAIN period = Periods
  /\ \A p \in Periods : DOMAIN period[p] = PeriodFields /\ period[p].status \in Statuses \cup {"NONE"}
  /\ \A p \in Existing : period[p].start \in Times /\ period[p].end \in Times
  /\ DOMAIN payslip = Periods
  /\ \A p \in Periods : DOMAIN payslip[p] = Workers
  /\ active \subseteq hired /\ hired \subseteq Workers
  /\ op \in [Calls -> CallSteps]
  /\ span \in [Calls -> Spans \cup {None}]
  /\ arg \in [Calls -> Periods \cup {None}]
  /\ DOMAIN run = Consumers
  /\ \A k \in Consumers : DOMAIN run[k] = RunFields
  /\ JobType

HasStatus(p, S) == p \in Existing /\ period[p].status \in S
Started == {"PROCESSING", "COMPLETED"}

(* A period stays DRAFT until one call has marked it, and only then is it  *)
(* known to the queue.                                                     *)
CallsInv ==
  \A c \in Calls :
    /\ op[c] = "create" => span[c] \in Spans
    /\ op[c] = "mark" => HasStatus(arg[c], IF "generate" \in Liberties THEN Statuses ELSE {"DRAFT"})
    /\ op[c] = "enqueue" => HasStatus(arg[c], Started)

QueueInv == \A j \in Jobs : job[j].state # "free" => HasStatus(job[j].data, Started)

RunsInv ==
  \A k \in Consumers :
    /\ run[k].job \in Jobs \cup {None}
    /\ run[k].job # None => job[run[k].job].state # "free"
    /\ run[k].step # "idle" => HasStatus(run[k].period, Started)
    /\ run[k].step = "idle" => run[k].job = None
    /\ run[k].workers \subseteq Workers
    /\ \A e \in run[k].todo : e.worker \in Workers
    /\ run[k].step = "upsert" => run[k].slip.worker \in Workers

OneGenerates ==
  "generate" \notin Liberties =>
    \A c, d \in Generating : c # d => arg[c] # arg[d]

ControlInv == Shape /\ CallsInv /\ QueueInv /\ RunsInv /\ OneGenerates

USE DEF Statuses, Started

-----------------------------------------------------------------------------
(* What a step may do to the periods without any part of the invariant     *)
(* that speaks of their status noticing.                                   *)
Kept == \A p \in Existing : p \in Existing' /\ period'[p].status = period[p].status

LEMMA InitControl == Init => ControlInv
<1> SUFFICES ASSUME Init
             PROVE  ControlInv
  OBVIOUS
<1>1. Shape
  BY NoneAssumption, JobsAssumption
  DEF Init, Shape, JobType, Existing, Idle, NoPeriod, PeriodFields, RunFields, JobsInit, CallSteps, JobStates
<1>2. CallsInv /\ QueueInv /\ RunsInv /\ OneGenerates
  BY DEF Init, CallsInv, QueueInv, RunsInv, OneGenerates, Generating, Idle, JobsInit
<1>3. QED
  BY <1>1, <1>2 DEF ControlInv

(* Job j goes from one state to another, none of them "free". *)
Moves(j) ==
  /\ JobType'
  /\ job'[j].state # "free"
  /\ job'[j].data = job[j].data
  /\ \A i \in Jobs : i # j => job'[i] = job[i]

LEMMA SetStateEffect ==
  ASSUME JobType, NEW j \in Jobs, NEW s \in JobStates \ {"free"}, SetState(j, s)
  PROVE  Moves(j)
BY DEF JobType, SetState, Moves

LEMMA StallEffect ==
  ASSUME JobType, NEW j \in Jobs, Stall(j)
  PROVE  Moves(j) /\ job[j].state # "free"
<1>1. job[j] \in [state : JobStates, data : Periods \cup {None}, stalls : 0 .. MAX_STALLED]
  BY DEF JobType
<1>2. CASE job[j].stalls < MAX_STALLED
  <2>1. job[j].stalls + 1 \in 0 .. MAX_STALLED
    BY <1>1, <1>2, JobsAssumption
  <2>2. [state |-> "waiting", data |-> job[j].data, stalls |-> job[j].stalls + 1]
          \in [state : JobStates, data : Periods \cup {None}, stalls : 0 .. MAX_STALLED]
    BY <1>1, <2>1 DEF JobStates
  <2>3. QED
    BY <1>2, <2>2 DEF Stall, JobType, Moves
<1>3. CASE ~ (job[j].stalls < MAX_STALLED)
  BY <1>3, SetStateEffect DEF Stall, JobStates
<1>4. QED
  BY <1>2, <1>3 DEF Stall

LEMMA AddEffect ==
  ASSUME JobType, NEW p \in Periods, Add(p)
  PROVE  JobType' /\ \E j \in Jobs : /\ job[j].state = "free"
                                     /\ job'[j].state = "waiting" /\ job'[j].data = p
                                     /\ \A i \in Jobs : i # j => job'[i] = job[i]
BY JobsAssumption DEF JobType, Add, JobStates

-----------------------------------------------------------------------------
(* The steps of the calls. *)

LEMMA CallControl ==
  ASSUME ControlInv, NEW c \in Calls, CallStep(c)
  PROVE  ControlInv'
<1>0. Shape /\ CallsInv /\ QueueInv /\ RunsInv /\ OneGenerates /\ JobType
  BY DEF ControlInv, Shape
<1> DEFINE Others == \A d \in Calls : d # c => /\ op'[d] = op[d] /\ span'[d] = span[d]
                                              /\ arg'[d] = arg[d]
           CallTypes == /\ op' \in [Calls -> CallSteps]
                        /\ span' \in [Calls -> Spans \cup {None}]
                        /\ arg' \in [Calls -> Periods \cup {None}]
<1>r. Return(c) => /\ CallTypes /\ Others /\ op'[c] = "idle"
  BY <1>0 DEF Return, Goto, Shape, CallSteps
<1>1. ASSUME NEW asked \in Spans, CheckOverlap(c, asked)
      PROVE  ControlInv'
  <2>1. /\ CallTypes /\ Others /\ op'[c] = "create" /\ span'[c] = asked
        /\ UNCHANGED <<period, payslip, hired, active, run, job>>
    BY <1>0, <1>1 DEF CheckOverlap, Goto, Shape, CallSteps, tables, others
  <2>2. Shape'
    BY <1>0, <2>1 DEF Shape, JobType, Existing
  <2>3. CallsInv'
    BY <1>0, <2>1 DEF CallsInv, HasStatus, Existing
  <2>4. QueueInv' /\ RunsInv'
    BY <1>0, <2>1 DEF QueueInv, RunsInv, HasStatus, Existing
  <2>5. OneGenerates'
    BY <1>0, <2>1 DEF OneGenerates, Generating
  <2>6. QED
    BY <2>2, <2>3, <2>4, <2>5 DEF ControlInv
<1>2. ASSUME CreatePeriod(c)
      PROVE  ControlInv'
  <2>1. /\ CallTypes /\ Others /\ op'[c] = "idle"
        /\ UNCHANGED <<payslip, hired, active, run, job>>
    BY <1>r, <1>2 DEF CreatePeriod, others
  <2>2. PICK p \in Periods \ Existing :
          period' = [period EXCEPT ![p] =
                       [start |-> span[c].start, end |-> span[c].end, status |-> "DRAFT",
                        gross |-> None, net |-> None]]
    BY <1>2 DEF CreatePeriod
  <2>3. /\ DOMAIN period' = Periods
        /\ period'[p] = [start |-> span[c].start, end |-> span[c].end, status |-> "DRAFT",
                         gross |-> None, net |-> None]
        /\ \A q \in Periods : q # p => period'[q] = period[q]
    BY <1>0, <2>2 DEF Shape
  <2>4. span[c].start \in Times /\ span[c].end \in Times
    BY <1>0, <1>2, AmountAssumption DEF CallsInv, CreatePeriod
  <2>5. ASSUME NEW q \in Existing', q # p
        PROVE  q \in Existing /\ period'[q] = period[q]
    <3>1. q \in Periods /\ period'[q].status # "NONE"
      BY <2>5 DEF Existing
    <3>2. period'[q] = period[q]
      BY <2>3, <2>5, <3>1
    <3>3. QED
      BY <3>1, <3>2 DEF Existing
  <2>6. \A q, S : HasStatus(q, S) => HasStatus(q, S)'
    BY <2>2, <2>3 DEF HasStatus, Existing
  <2>7. Shape'
    <3>1. \A q \in Existing' : period'[q].start \in Times /\ period'[q].end \in Times
      BY <1>0, <2>3, <2>4, <2>5 DEF Shape
    <3>2. \A q \in Periods : /\ DOMAIN period'[q] = PeriodFields
                             /\ period'[q].status \in Statuses \cup {"NONE"}
      BY <1>0, <2>3 DEF Shape, PeriodFields
    <3>3. QED
      BY <1>0, <2>1, <2>3, <3>1, <3>2 DEF Shape, JobType
  <2>8. CallsInv'
    BY <1>0, <2>1, <2>6 DEF CallsInv
  <2>9. QueueInv' /\ RunsInv'
    BY <1>0, <2>1, <2>6 DEF QueueInv, RunsInv
  <2>10. OneGenerates'
    BY <1>0, <2>1 DEF OneGenerates, Generating
  <2>11. QED
    BY <2>7, <2>8, <2>9, <2>10 DEF ControlInv
<1>3. ASSUME NEW p \in Periods, ReadPeriod(c, p)
      PROVE  ControlInv'
  <2>1. /\ CallTypes /\ Others /\ op'[c] = "mark" /\ arg'[c] = p
        /\ UNCHANGED <<period, payslip, hired, active, run, job>>
    BY <1>0, <1>3 DEF ReadPeriod, Goto, Shape, CallSteps, tables, others
  <2>2. /\ HasStatus(p, {"DRAFT"})
        /\ "generate" \notin Liberties => \A d \in Generating : arg[d] # p
    BY <1>3 DEF ReadPeriod, HasStatus
  <2>3. Shape'
    BY <1>0, <2>1 DEF Shape, JobType, Existing
  <2>4. CallsInv'
    BY <1>0, <2>1, <2>2 DEF CallsInv, HasStatus, Existing
  <2>5. QueueInv' /\ RunsInv'
    BY <1>0, <2>1 DEF QueueInv, RunsInv, HasStatus, Existing
  <2>6. OneGenerates'
    BY <1>0, <2>1, <2>2 DEF OneGenerates, Generating
  <2>7. QED
    BY <2>3, <2>4, <2>5, <2>6 DEF ControlInv
<1>4. ASSUME MarkProcessing(c)
      PROVE  ControlInv'
  <2>1. /\ CallTypes /\ Others /\ op[c] = "mark" /\ op'[c] = "enqueue" /\ arg'[c] = arg[c]
        /\ UNCHANGED <<payslip, hired, active, run, job>>
    BY <1>0, <1>4 DEF MarkProcessing, Goto, Shape, CallSteps, others
  <2>2. HasStatus(arg[c], Statuses) /\ arg[c] \in Periods /\ arg[c] \in Existing
    BY <1>0, <2>1 DEF CallsInv, HasStatus, Existing
  <2>3. /\ DOMAIN period' = Periods
        /\ period'[arg[c]] = [period[arg[c]] EXCEPT !.status = "PROCESSING"]
        /\ \A q \in Periods : q # arg[c] => period'[q] = period[q]
    BY <1>0, <1>4, <2>2 DEF MarkProcessing, SetStatus, Shape
  <2>4. /\ DOMAIN period'[arg[c]] = PeriodFields
        /\ period'[arg[c]].start = period[arg[c]].start
        /\ period'[arg[c]].end = period[arg[c]].end
        /\ period'[arg[c]].status = "PROCESSING"
    BY <1>0, <2>2, <2>3 DEF Shape, PeriodFields
  <2>6. Existing' = Existing
    BY <2>2, <2>3, <2>4 DEF Existing
  <2>7. /\ HasStatus(arg[c], Started)'
        /\ \A q : HasStatus(q, Started) => HasStatus(q, Started)'
        /\ \A q, S : q # arg[c] /\ HasStatus(q, S) => HasStatus(q, S)'
        /\ \A q : HasStatus(q, Statuses) => HasStatus(q, Statuses)'
    BY <2>1, <2>2, <2>3, <2>4, <2>6 DEF HasStatus, Existing
  <2>8. Shape'
    BY <1>0, <2>1, <2>3, <2>4, <2>6 DEF Shape, JobType, Existing
  <2>9. CallsInv'
    <3>1. ASSUME NEW d \in Calls, d # c, op[d] = "mark", "generate" \notin Liberties
          PROVE  arg[d] # arg[c]
      BY <1>0, <2>1, <3>1 DEF OneGenerates, Generating
    <3>2. QED
      BY <1>0, <2>1, <2>7, <3>1 DEF CallsInv
  <2>10. QueueInv' /\ RunsInv'
    BY <1>0, <2>1, <2>7 DEF QueueInv, RunsInv
  <2>11. OneGenerates'
    BY <1>0, <2>1 DEF OneGenerates, Generating
  <2>12. QED
    BY <2>8, <2>9, <2>10, <2>11 DEF ControlInv
<1>5. ASSUME Enqueue(c)
      PROVE  ControlInv'
  <2>1. /\ CallTypes /\ Others /\ op'[c] = "idle"
        /\ UNCHANGED <<period, payslip, hired, active, run>>
    BY <1>r, <1>5 DEF Enqueue, tables, others
  <2>2. HasStatus(arg[c], Started) /\ arg[c] \in Periods
    BY <1>0, <1>5 DEF Enqueue, CallsInv, HasStatus, Existing
  <2>3. /\ JobType'
        /\ \/ UNCHANGED job
           \/ \E j \in Jobs : /\ job[j].state = "free"
                              /\ job'[j].state = "waiting" /\ job'[j].data = arg[c]
                              /\ \A i \in Jobs : i # j => job'[i] = job[i]
    BY <1>0, <1>5, <2>2, AddEffect DEF Enqueue, JobType
  <2>4. Shape'
    BY <1>0, <2>1, <2>3 DEF Shape, Existing
  <2>5. CallsInv'
    BY <1>0, <2>1 DEF CallsInv, HasStatus, Existing
  <2>6. QueueInv'
    BY <1>0, <2>1, <2>2, <2>3 DEF QueueInv, HasStatus, Existing
  <2>7. RunsInv'
    BY <1>0, <2>1, <2>3 DEF RunsInv, HasStatus, Existing
  <2>8. OneGenerates'
    BY <1>0, <2>1 DEF OneGenerates, Generating
  <2>9. QED
    BY <2>4, <2>5, <2>6, <2>7, <2>8 DEF ControlInv
<1>6. QED
  BY <1>1, <1>2, <1>3, <1>4, <1>5 DEF CallStep

-----------------------------------------------------------------------------
(* The steps of the consumers. *)

(* Jobs come and go between states, but none is forgotten or new. *)
SameJobs ==
  /\ JobType'
  /\ \A j \in Jobs : /\ job'[j].state = "free" <=> job[j].state = "free"
                     /\ job'[j].data = job[j].data

LEMMA MoveKeepsJobs ==
  ASSUME NEW j \in Jobs, Moves(j), job[j].state # "free"
  PROVE  SameJobs
BY DEF Moves, SameJobs

LEMMA KeepsControl ==
  ASSUME ControlInv, SameJobs, UNCHANGED <<period, op, span, arg>>,
         DOMAIN payslip' = Periods, \A p \in Periods : DOMAIN payslip'[p] = Workers,
         active' \subseteq hired', hired' \subseteq Workers,
         DOMAIN run' = Consumers, \A k \in Consumers : DOMAIN run'[k] = RunFields,
         RunsInv'
  PROVE  ControlInv'
<1>1. Shape'
  BY DEF ControlInv, Shape, SameJobs, Existing
<1>2. CallsInv' /\ QueueInv' /\ OneGenerates'
  BY DEF ControlInv, CallsInv, QueueInv, OneGenerates, Generating, SameJobs, HasStatus, Existing
<1>3. QED
  BY <1>1, <1>2 DEF ControlInv

(* The run of one consumer changes to r. *)
RunOK(r) ==
  /\ DOMAIN r = RunFields
  /\ r.job \in Jobs \cup {None}
  /\ r.job # None => job[r.job].state # "free"
  /\ r.step # "idle" => HasStatus(r.period, Started)
  /\ r.step = "idle" => r.job = None
  /\ r.workers \subseteq Workers
  /\ \A e \in r.todo : e.worker \in Workers
  /\ r.step = "upsert" => r.slip.worker \in Workers

LEMMA RunOKInv == ControlInv => \A k \in Consumers : RunOK(run[k])
BY DEF ControlInv, Shape, RunsInv, RunOK

LEMMA IdleOK == RunOK(Idle)
BY DEF RunOK, Idle, RunFields

LEMMA RunChanges ==
  ASSUME ControlInv, SameJobs, UNCHANGED <<period, op, span, arg, hired, active>>,
         DOMAIN payslip' = Periods, \A p \in Periods : DOMAIN payslip'[p] = Workers,
         NEW k \in Consumers, NEW r, RunOK(r), run' = [run EXCEPT ![k] = r]
  PROVE  ControlInv'
<1>1. /\ DOMAIN run' = Consumers
      /\ run'[k] = r
      /\ \A i \in Consumers : i # k => run'[i] = run[i]
  BY DEF ControlInv, Shape
<1>2. \A i \in Consumers : RunOK(run'[i])
  BY <1>1, RunOKInv
<1>3. \A i \in Consumers : RunOK(run[i])'
  BY <1>2 DEF RunOK, SameJobs, HasStatus, Existing
<1>4. RunsInv' /\ \A i \in Consumers : DOMAIN run'[i] = RunFields
  BY <1>3 DEF RunsInv, RunOK
<1>5. active' \subseteq hired' /\ hired' \subseteq Workers
  BY DEF ControlInv, Shape
<1>6. QED
  BY <1>1, <1>4, <1>5, KeepsControl

LEMMA SettleKeepsJobs ==
  ASSUME ControlInv, NEW k \in Consumers, NEW s \in {"completed", "failed"}, SettleMine(k, s)
  PROVE  SameJobs
<1>1. RunOK(run[k]) /\ JobType
  BY RunOKInv DEF ControlInv, Shape
<1>2. CASE run[k].job = None
  BY <1>1, <1>2 DEF SettleMine, SameJobs, JobType
<1>3. CASE run[k].job # None
  <2>1. run[k].job \in Jobs /\ job[run[k].job].state # "free" /\ SetState(run[k].job, s)
    BY <1>1, <1>3 DEF RunOK, SettleMine, Settle
  <2>2. s \in JobStates \ {"free"}
    BY DEF JobStates
  <2>3. Moves(run[k].job)
    BY <1>1, <2>1, <2>2, SetStateEffect
  <2>4. QED
    BY <2>1, <2>3, MoveKeepsJobs
<1>4. QED
  BY <1>2, <1>3

LEMMA RunControl ==
  ASSUME ControlInv, NEW k \in Consumers, RunStep(k) \/ ThrowFromJob(k) \/ LoseJob(k)
  PROVE  ControlInv'
<1>0. /\ RunOK(run[k]) /\ JobType
      /\ DOMAIN payslip = Periods /\ \A p \in Periods : DOMAIN payslip[p] = Workers
      /\ active \subseteq Workers
  BY RunOKInv DEF ControlInv, Shape
<1>u. UNCHANGED job => SameJobs
  BY <1>0 DEF SameJobs, JobType
<1>1. ASSUME NEW j \in Jobs, StartRun(k, j)
      PROVE  ControlInv'
  <2> DEFINE r == [Idle EXCEPT !.step = "workers", !.job = j, !.period = job[j].data]
  <2>1. /\ job[j].state = "waiting" /\ SetState(j, "active") /\ run' = [run EXCEPT ![k] = r]
        /\ UNCHANGED <<period, payslip, hired, active, op, span, arg>>
    BY <1>1 DEF StartRun, Take, tables, others, calls
  <2>2. SameJobs
    BY <1>0, <2>1, SetStateEffect, MoveKeepsJobs DEF JobStates
  <2>3. HasStatus(job[j].data, Started)
    BY <2>1 DEF ControlInv, QueueInv
  <2>4. RunOK(r)
    BY <2>1, <2>3 DEF RunOK, Idle, RunFields
  <2>5. QED
    BY <1>0, <2>1, <2>2, <2>4, RunChanges
<1>2. ASSUME ListWorkers(k)
      PROVE  ControlInv'
  <2> DEFINE list == {[worker |-> w, basic |-> salary[w]] : w \in active}
             r == [run[k] EXCEPT !.step = "sum", !.workers = active, !.todo = list]
  <2>1. /\ run[k].step = "workers" /\ run' = [run EXCEPT ![k] = r]
        /\ UNCHANGED <<period, payslip, hired, active, op, span, arg, job>>
    BY <1>2 DEF ListWorkers, tables, others, calls
  <2>2. \A e \in list : e.worker \in Workers
    BY <1>0
  <2> HIDE DEF list
  <2>3. RunOK(r)
    BY <1>0, <2>1, <2>2 DEF RunOK, RunFields
  <2>4. QED
    BY <1>0, <1>u, <2>1, <2>3, RunChanges
<1>3. ASSUME SumAttendance(k)
      PROVE  ControlInv'
  <2>1. PICK e \in run[k].todo :
          LET over == OvertimeIn(e.worker, run[k].period)
              gross == GrossPay(e.basic, over)
          IN  run' = [run EXCEPT ![k] = [run[k] EXCEPT
                        !.step = "upsert",
                        !.todo = run[k].todo \ {e},
                        !.slip = [worker |-> e.worker, basic |-> e.basic, over |-> over],
                        !.gross = run[k].gross + gross,
                        !.net = run[k].net + gross - TaxDeduction(gross)]]
    BY <1>3 DEF SumAttendance
  <2>2. PICK over, g, n :
          run' = [run EXCEPT ![k] = [run[k] EXCEPT
                    !.step = "upsert", !.todo = run[k].todo \ {e},
                    !.slip = [worker |-> e.worker, basic |-> e.basic, over |-> over],
                    !.gross = g, !.net = n]]
    BY <2>1, Zenon
  <2> DEFINE r == [run[k] EXCEPT
                    !.step = "upsert", !.todo = run[k].todo \ {e},
                    !.slip = [worker |-> e.worker, basic |-> e.basic, over |-> over],
                    !.gross = g, !.net = n]
  <2>3. /\ run[k].step = "sum"
        /\ UNCHANGED <<period, payslip, hired, active, op, span, arg, job>>
    BY <1>3 DEF SumAttendance, tables, others, calls
  <2>4. RunOK(r)
    BY <1>0, <2>3 DEF RunOK, RunFields
  <2>5. QED
    BY <1>0, <1>u, <2>2, <2>3, <2>4, RunChanges
<1>4. ASSUME UpsertPayslip(k)
      PROVE  ControlInv'
  <2> DEFINE r == [run[k] EXCEPT !.step = "sum", !.slip = None]
  <2>1. /\ run[k].step = "upsert" /\ run' = [run EXCEPT ![k] = r]
        /\ UNCHANGED <<period, hired, active, op, span, arg, job>>
    BY <1>4 DEF UpsertPayslip, others, calls
  <2>2. DOMAIN payslip' = Periods /\ \A p \in Periods : DOMAIN payslip'[p] = Workers
    BY <1>0, <1>4 DEF UpsertPayslip
  <2>3. RunOK(r)
    BY <1>0, <2>1 DEF RunOK, RunFields
  <2>4. QED
    BY <1>u, <2>1, <2>2, <2>3, RunChanges
<1>5. ASSUME CompletePeriod(k)
      PROVE  ControlInv'
  <2> DEFINE r == [run[k] EXCEPT !.step = "return"]
             p == run[k].period
  <2>1. /\ run[k].step = "sum" /\ run' = [run EXCEPT ![k] = r]
        /\ UNCHANGED <<payslip, hired, active, op, span, arg, job>>
    BY <1>5 DEF CompletePeriod, others, calls
  <2>2. HasStatus(p, Started) /\ p \in Existing /\ p \in Periods
    BY <1>0, <2>1 DEF RunOK, HasStatus, Existing
  <2>3. /\ DOMAIN period' = Periods
        /\ period'[p] = [period[p] EXCEPT !.status = "COMPLETED", !.gross = Cents(run[k].gross),
                                          !.net = Cents(run[k].net)]
        /\ \A q \in Periods : q # p => period'[q] = period[q]
    BY <1>5, <2>2 DEF CompletePeriod, ControlInv, Shape
  <2>4. /\ DOMAIN period'[p] = PeriodFields
        /\ period'[p].start = period[p].start
        /\ period'[p].end = period[p].end
        /\ period'[p].status = "COMPLETED"
    BY <2>2, <2>3 DEF ControlInv, Shape, PeriodFields
  <2>5. Existing' = Existing
    BY <2>2, <2>3, <2>4 DEF Existing
  <2>6. /\ \A q : HasStatus(q, Started) => HasStatus(q, Started)'
        /\ \A q, S : q # p /\ HasStatus(q, S) => HasStatus(q, S)'
        /\ \A q : HasStatus(q, Statuses) => HasStatus(q, Statuses)'
    BY <2>2, <2>3, <2>4, <2>5 DEF HasStatus, Existing
  <2>7. /\ DOMAIN run' = Consumers /\ run'[k] = r
        /\ \A i \in Consumers : i # k => run'[i] = run[i]
    BY <2>1 DEF ControlInv, Shape
  <2>8. RunOK(r)
    BY <1>0, <2>1 DEF RunOK, RunFields
  <2>9. \A i \in Consumers : RunOK(run'[i])
    BY <2>7, <2>8, RunOKInv
  <2>10. \A i \in Consumers : RunOK(run[i])'
    BY <2>1, <2>6, <2>9 DEF RunOK
  <2>11. RunsInv' /\ \A i \in Consumers : DOMAIN run'[i] = RunFields
    BY <2>10 DEF RunsInv, RunOK
  <2>12. Shape'
    BY <1>0, <2>1, <2>3, <2>4, <2>5, <2>7, <2>11 DEF ControlInv, Shape, JobType, Existing
  <2>13. CallsInv'
    <3>1. ~ HasStatus(p, {"DRAFT"})
      BY <2>2 DEF HasStatus
    <3>2. QED
      BY <2>1, <2>6, <3>1 DEF ControlInv, CallsInv
  <2>14. QueueInv' /\ OneGenerates'
    BY <2>1, <2>6 DEF ControlInv, QueueInv, OneGenerates, Generating
  <2>15. QED
    BY <2>11, <2>12, <2>13, <2>14 DEF ControlInv
<1>6. ASSUME ReturnFromJob(k) \/ ThrowFromJob(k)
      PROVE  ControlInv'
  <2>1. /\ run' = [run EXCEPT ![k] = Idle]
        /\ UNCHANGED <<period, payslip, hired, active, op, span, arg>>
    BY <1>6 DEF ReturnFromJob, ThrowFromJob, tables, others, calls
  <2>2. SameJobs
    BY <1>6, SettleKeepsJobs DEF ReturnFromJob, ThrowFromJob
  <2>3. QED
    BY <1>0, <2>1, <2>2, IdleOK, RunChanges
<1>7. ASSUME LoseJob(k)
      PROVE  ControlInv'
  <2>1. /\ run[k].job # None /\ Stall(run[k].job)
        /\ \/ run' = [run EXCEPT ![k] = Idle]
           \/ run' = [run EXCEPT ![k] = [run[k] EXCEPT !.job = None]]
        /\ UNCHANGED <<period, payslip, hired, active, op, span, arg>>
    BY <1>7 DEF LoseJob, tables, others, calls
  <2>2. SameJobs
    BY <1>0, <2>1, StallEffect, MoveKeepsJobs DEF RunOK
  <2>3. RunOK([run[k] EXCEPT !.job = None])
    BY <1>0, <2>1 DEF RunOK, RunFields
  <2>4. QED
    BY <1>0, <2>1, <2>2, <2>3, IdleOK, RunChanges
<1>8. QED
  BY <1>1, <1>2, <1>3, <1>4, <1>5, <1>6, <1>7 DEF RunStep

LEMMA ControlStep == ControlInv /\ [Next]_vars => ControlInv'
<1> SUFFICES ASSUME ControlInv, [Next]_vars
             PROVE  ControlInv'
  OBVIOUS
<1>1. ASSUME UNCHANGED <<tables, calls, run, job>>, active' \subseteq hired', hired' \subseteq Workers
      PROVE  ControlInv'
  <2>1. SameJobs
    BY <1>1 DEF SameJobs, ControlInv, Shape, JobType
  <2>2. RunsInv'
    BY <1>1 DEF ControlInv, RunsInv, HasStatus, Existing, tables
  <2>3. QED
    BY <1>1, <2>1, <2>2, KeepsControl DEF ControlInv, Shape, tables, calls
<1>2. CASE \E c \in Calls : CallStep(c)
  BY <1>2, CallControl
<1>3. CASE \E k \in Consumers : RunStep(k) \/ ThrowFromJob(k) \/ LoseJob(k)
  BY <1>3, RunControl
<1>4. CASE \E r \in Attendance, over \in Overtimes : SetOvertime(r, over)
  BY <1>1, <1>4 DEF SetOvertime, ControlInv, Shape
<1>5. CASE \E w \in Workers :
              \/ WorkerJoins(w) \/ WorkerLeaves(w)
              \/ \E amount \in Salaries : UpdateSalary(w, amount)
  BY <1>1, <1>5 DEF WorkerJoins, WorkerLeaves, UpdateSalary, ControlInv, Shape
<1>6. CASE UNCHANGED vars
  BY <1>1, <1>6 DEF vars, others, ControlInv, Shape
<1>7. QED
  BY <1>2, <1>3, <1>4, <1>5, <1>6 DEF Next

(* In every reachable state a queued or running job belongs to a period    *)
(* that is PROCESSING or COMPLETED, and, unless calls to generate it       *)
(* overlap, a period about to be marked is still DRAFT.                    *)
THEOREM Control == Spec => []ControlInv
BY InitControl, ControlStep, PTL DEF Spec

-----------------------------------------------------------------------------
(* What steps do to the status of a period. *)

LEMMA StatusChanges ==
  ASSUME ControlInv, [Next]_vars
  PROVE  \/ UNCHANGED period
         \/ \E c \in Calls : CreatePeriod(c)
         \/ \E c \in Calls : MarkProcessing(c)
         \/ \E k \in Consumers : CompletePeriod(k)
BY DEF Next, vars, tables, others, calls, CallStep, RunStep, CheckOverlap, ReadPeriod, Enqueue,
       StartRun, ListWorkers, SumAttendance, UpsertPayslip, ReturnFromJob, ThrowFromJob, LoseJob,
       WorkerJoins, WorkerLeaves, UpdateSalary, SetOvertime

(* A period that is open keeps its dates, and one that is not open is not  *)
(* opened, unless it is new.                                               *)
Open(p) == p \in Existing /\ period[p].status # "COMPLETED"

Created(c, p) ==
  /\ op[c] = "create"
  /\ p \in Periods \ Existing
  /\ period'[p] = [start |-> span[c].start, end |-> span[c].end, status |-> "DRAFT",
                   gross |-> None, net |-> None]

LEMMA PeriodChanges ==
  ASSUME ControlInv, [Next]_vars, NEW p \in Periods, "generate" \notin Liberties
  PROVE  \/ period'[p] = period[p]
         \/ \E c \in Calls : Created(c, p)
         \/ /\ Open(p)
            /\ period'[p].start = period[p].start
            /\ period'[p].end = period[p].end
            /\ period'[p].status \in Started
         \/ period'[p].status = "COMPLETED"
<1>1. CASE UNCHANGED period
  BY <1>1
<1>2. ASSUME NEW c \in Calls, CreatePeriod(c)
      PROVE  period'[p] = period[p] \/ Created(c, p)
  BY <1>2 DEF CreatePeriod, Created, ControlInv, Shape
<1>3. ASSUME NEW c \in Calls, MarkProcessing(c), period'[p] # period[p]
      PROVE  /\ Open(p)
             /\ period'[p].start = period[p].start
             /\ period'[p].end = period[p].end
             /\ period'[p].status \in Started
  <2>1. HasStatus(arg[c], {"DRAFT"})
    BY <1>3 DEF MarkProcessing, ControlInv, CallsInv
  <2>2. arg[c] = p /\ period'[p] = [period[p] EXCEPT !.status = "PROCESSING"]
    BY <1>3 DEF MarkProcessing, SetStatus, ControlInv, Shape
  <2>3. Open(p)
    BY <2>1, <2>2 DEF HasStatus, Open
  <2>4. QED
    BY <2>2, <2>3 DEF ControlInv, Shape, PeriodFields
<1>4. ASSUME NEW k \in Consumers, CompletePeriod(k), period'[p] # period[p]
      PROVE  period'[p].status = "COMPLETED"
  <2>1. period'[p] = [period[p] EXCEPT !.status = "COMPLETED", !.gross = Cents(run[k].gross),
                                       !.net = Cents(run[k].net)]
    BY <1>4 DEF CompletePeriod, ControlInv, Shape
  <2>2. QED
    BY <2>1 DEF ControlInv, Shape, PeriodFields
<1>5. QED
  BY <1>1, <1>2, <1>3, <1>4, StatusChanges

(* CompletedStays: a completed payroll is not generated again, whatever    *)
(* consumers do, if calls to generate the same period do not overlap.      *)
THEOREM CompletedIsFinal ==
  ASSUME "generate" \notin Liberties
  PROVE  Spec => CompletedStays
<1>1. ControlInv /\ [Next]_vars =>
        \A p \in Existing : period[p].status = "COMPLETED" => period'[p].status = "COMPLETED"
  <2>1. SUFFICES ASSUME ControlInv, [Next]_vars, NEW p \in Existing,
                        period[p].status = "COMPLETED"
                 PROVE  period'[p].status = "COMPLETED"
    OBVIOUS
  <2>2. p \in Periods /\ ~ Open(p) /\ \A c \in Calls : ~ Created(c, p)
    BY <2>1 DEF Existing, Open, Created
  <2>3. QED
    BY <2>1, <2>2, PeriodChanges
<1>2. QED
  BY <1>1, Control, PTL DEF Spec, CompletedStays

-----------------------------------------------------------------------------
(* Open periods are disjoint, and disjoint from the one a call is about to *)
(* create.                                                                 *)
DisjointInv ==
  /\ \A p, q \in Periods : Open(p) /\ Open(q) /\ p # q => ~ Overlap(period[p], period[q])
  /\ \A c \in At("create") : \A p \in Periods : Open(p) => ~ Overlap(period[p], span[c])
  /\ \A c, d \in At("create") : c = d

LEMMA OverlapSymmetric == ASSUME NEW a, NEW b, Overlap(a, b) PROVE Overlap(b, a)
BY DEF Overlap

LEMMA DisjointStep ==
  ASSUME ControlInv, DisjointInv, [Next]_vars,
         "generate" \notin Liberties, "creations" \notin Liberties
  PROVE  DisjointInv'
<1> DEFINE Same(p) == /\ Open(p)
                      /\ period'[p].start = period[p].start
                      /\ period'[p].end = period[p].end
           Waiting(c) == c \in At("create") /\ span'[c] = span[c]
<1>1. CASE \E c \in Calls : CreatePeriod(c)
  <2>1. PICK c \in Calls : CreatePeriod(c)
    BY <1>1
  <2>2. /\ c \in At("create") /\ op' = [op EXCEPT ![c] = "idle"]
    BY <2>1 DEF CreatePeriod, At, Return, Goto
  <2>3. At("create")' = {}
    BY <2>2 DEF At, DisjointInv, ControlInv, Shape
  <2>4. PICK p \in Periods \ Existing :
          /\ period'[p].start = span[c].start
          /\ period'[p].end = span[c].end
          /\ \A q \in Periods : q # p => period'[q] = period[q]
    BY <2>1 DEF CreatePeriod, ControlInv, Shape
  <2>5. \A q \in Periods : Open(q)' /\ q # p => Open(q) /\ period'[q] = period[q]
    BY <2>4 DEF Open, Existing
  <2>6. \A q \in Periods : Open(q)' /\ q # p => ~ Overlap(period'[q], span[c])
    BY <2>2, <2>5 DEF DisjointInv
  <2>7. ASSUME NEW q \in Periods, NEW r \in Periods, Open(q)', Open(r)', q # r
        PROVE  ~ Overlap(period'[q], period'[r])
    <3>1. CASE q # p /\ r # p
      BY <2>5, <2>7, <3>1 DEF DisjointInv
    <3>2. CASE q = p
      BY <2>4, <2>6, <2>7, <3>2 DEF Overlap
    <3>3. CASE r = p
      BY <2>4, <2>6, <2>7, <3>3 DEF Overlap
    <3>4. QED
      BY <3>1, <3>2, <3>3
  <2>8. QED
    BY <2>3, <2>7 DEF DisjointInv
<1>2. CASE \A c \in Calls : ~ CreatePeriod(c)
  <2>1. ASSUME NEW p \in Periods, Open(p)'
        PROVE  Same(p)
    <3>1. CASE UNCHANGED period
      BY <2>1, <3>1 DEF Open, Existing
    <3>2. CASE ~ UNCHANGED period
      <4>1. \A q \in Existing' : q \in Existing
        <5>1. CASE \E c \in Calls : MarkProcessing(c)
          BY <5>1 DEF MarkProcessing, SetStatus, ControlInv, CallsInv, HasStatus, Existing, Shape
        <5>2. CASE \E k \in Consumers : CompletePeriod(k)
          BY <5>2 DEF CompletePeriod, ControlInv, RunsInv, HasStatus, Existing, Shape
        <5>3. QED
          BY <1>2, <3>2, <5>1, <5>2, StatusChanges
      <4>2. \A c \in Calls : ~ Created(c, p)
        BY <2>1, <4>1 DEF Created, Open
      <4>3. QED
        BY <2>1, <4>1, <4>2, PeriodChanges DEF Open
    <3>3. QED
      BY <3>1, <3>2
  <2>2. \A p, q \in Periods : Open(p)' /\ Open(q)' /\ p # q => ~ Overlap(period'[p], period'[q])
    BY <2>1 DEF DisjointInv, Overlap
  <2>3. CASE \E c \in Calls, asked \in Spans : CheckOverlap(c, asked)
    <3>1. PICK c \in Calls, asked \in Spans : CheckOverlap(c, asked)
      BY <2>3
    <3>2. /\ At("create") = {}
          /\ op' = [op EXCEPT ![c] = "create"]
          /\ span' = [span EXCEPT ![c] = asked]
          /\ UNCHANGED period
          /\ \A p \in Existing : period[p].status # "COMPLETED" => ~ Overlap(period[p], asked)
      BY <3>1 DEF CheckOverlap, Goto, tables
    <3>3. \A d \in At("create")' : d = c /\ span'[d] = asked
      BY <3>2 DEF At, ControlInv, Shape
    <3>4. \A p \in Periods : Open(p)' => ~ Overlap(period'[p], asked)
      BY <3>2 DEF Open, Existing
    <3>5. QED
      BY <2>2, <3>3, <3>4 DEF DisjointInv
  <2>4. CASE ~ \E c \in Calls, asked \in Spans : CheckOverlap(c, asked)
    <3>1. ASSUME NEW d \in At("create")'
          PROVE  Waiting(d)
      <4>1. CASE UNCHANGED calls
        BY <3>1, <4>1 DEF calls, At
      <4>2. ASSUME NEW c \in Calls, ReadPeriod(c, arg'[c]) \/ MarkProcessing(c)
            PROVE  Waiting(d)
        <5>1. UNCHANGED span /\ (op' = [op EXCEPT ![c] = "mark"] \/ op' = [op EXCEPT ![c] = "enqueue"])
          BY <4>2 DEF ReadPeriod, MarkProcessing, Goto
        <5>2. QED
          BY <3>1, <5>1 DEF At, ControlInv, Shape
      <4>3. ASSUME NEW c \in Calls, Enqueue(c)
            PROVE  Waiting(d)
        BY <3>1, <4>3 DEF Enqueue, Return, Goto, At, ControlInv, Shape
      <4>4. ASSUME NEW c \in Calls, NEW p \in Periods, ReadPeriod(c, p)
            PROVE  Waiting(d)
        <5>1. UNCHANGED span /\ op' = [op EXCEPT ![c] = "mark"]
          BY <4>4 DEF ReadPeriod, Goto
        <5>2. QED
          BY <3>1, <5>1 DEF At, ControlInv, Shape
      <4>5. (\E c \in Calls : CallStep(c)) \/ UNCHANGED calls
        BY DEF Next, vars, RunStep, StartRun, ListWorkers, SumAttendance, UpsertPayslip,
               CompletePeriod, ReturnFromJob, ThrowFromJob, LoseJob, WorkerJoins, WorkerLeaves,
               UpdateSalary, SetOvertime
      <4>6. QED
        BY <1>2, <2>4, <4>1, <4>2, <4>3, <4>4, <4>5 DEF CallStep
    <3>2. \A d \in At("create")' : \A p \in Periods : Open(p)' => ~ Overlap(period'[p], span'[d])
      BY <2>1, <3>1 DEF DisjointInv, Overlap
    <3>3. QED
      BY <2>2, <3>1, <3>2 DEF DisjointInv
  <2>5. QED
    BY <2>3, <2>4
<1>3. QED
  BY <1>1, <1>2

(* OpenPeriodsDisjoint: no clock-in is paid by two open periods, if        *)
(* neither creations nor calls to generate the same period overlap.        *)
THEOREM OpenPeriodsAreDisjoint ==
  ASSUME "generate" \notin Liberties, "creations" \notin Liberties
  PROVE  Spec => []OpenPeriodsDisjoint
<1>1. Init => DisjointInv
  BY DEF Init, DisjointInv, Open, Existing, At, NoPeriod
<1>2. ControlInv /\ DisjointInv /\ [Next]_vars => DisjointInv'
  BY DisjointStep
<1>3. ControlInv /\ DisjointInv => OpenPeriodsDisjoint
  <2>1. SUFFICES ASSUME ControlInv, DisjointInv, NEW p \in Existing, NEW q \in Existing, p # q,
                        period[p].status # "COMPLETED", period[q].status # "COMPLETED",
                        NEW t \in Times, Covers(p, t), Covers(q, t)
                 PROVE  FALSE
    BY DEF OpenPeriodsDisjoint
  <2>2. ~ Overlap(period[p], period[q])
    BY <2>1 DEF DisjointInv, Open, Existing
  <2>3. {period[p].start, period[p].end, period[q].start, period[q].end, t} \subseteq Nat
    BY <2>1, AmountAssumption DEF ControlInv, Shape
  <2>4. QED
    BY <2>1, <2>2, <2>3 DEF Overlap, Covers
<1>4. QED
  BY <1>1, <1>2, <1>3, Control, PTL DEF Spec

-----------------------------------------------------------------------------
(* Somebody whom a run has listed has a payslip, or the run has yet to     *)
(* come to them.                                                           *)
Awaited(r, w) ==
  \/ \E e \in r.todo : e.worker = w
  \/ r.step = "upsert" /\ r.slip.worker = w

PaidInv ==
  /\ NobodyForgotten
  /\ DOMAIN roster = Periods
  /\ \A k \in Consumers : run[k].step \in {"sum", "upsert"} =>
       \A w \in run[k].workers : w \in Rows(run[k].period) \/ Awaited(run[k], w)

LEMMA RosterChanges ==
  ASSUME [Next]_vars
  PROVE  UNCHANGED roster \/ \E k \in Consumers : CompletePeriod(k)
BY DEF Next, vars, CallStep, RunStep, CheckOverlap, CreatePeriod, ReadPeriod,
       MarkProcessing, Enqueue, StartRun, ListWorkers, SumAttendance, UpsertPayslip,
       ReturnFromJob, ThrowFromJob, LoseJob, WorkerJoins, WorkerLeaves, UpdateSalary,
       SetOvertime

LEMMA PayslipChanges ==
  ASSUME ControlInv, [Next]_vars
  PROVE  UNCHANGED payslip \/ \E k \in Consumers : UpsertPayslip(k)
BY DEF Next, vars, tables, CallStep, RunStep, CheckOverlap, CreatePeriod, ReadPeriod,
       MarkProcessing, Enqueue, StartRun, ListWorkers, SumAttendance,
       CompletePeriod, ReturnFromJob, ThrowFromJob, LoseJob, WorkerJoins, WorkerLeaves, UpdateSalary,
       SetOvertime

LEMMA UpsertEffect ==
  ASSUME ControlInv, NEW k \in Consumers, UpsertPayslip(k)
  PROVE  /\ run[k].period \in Periods /\ run[k].slip.worker \in Workers
         /\ payslip'[run[k].period][run[k].slip.worker].status = "DRAFT"
         /\ \A p \in Periods : \A w \in Workers :
              \/ payslip'[p][w] = payslip[p][w]
              \/ payslip'[p][w].status = "DRAFT"
<1> DEFINE q == run[k].period
           v == run[k].slip.worker
           row == [payslip[q] EXCEPT ![v] = Upserted(payslip[q][v], run[k].slip)]
<1>1. q \in Periods /\ v \in Workers
  BY DEF UpsertPayslip, ControlInv, RunsInv, HasStatus, Existing
<1>2. payslip' = [payslip EXCEPT ![q] = row]
  BY DEF UpsertPayslip
<1>3. Upserted(payslip[q][v], run[k].slip).status = "DRAFT"
  BY DEF Upserted
<1>4. payslip'[q] = row /\ \A p \in Periods : p # q => payslip'[p] = payslip[p]
  BY <1>1, <1>2 DEF ControlInv, Shape
<1>5. row[v].status = "DRAFT" /\ \A w \in Workers : w # v => row[w] = payslip[q][w]
  <2>1. DOMAIN payslip[q] = Workers
    BY <1>1 DEF ControlInv, Shape
  <2>2. QED
    BY <1>1, <1>3, <2>1
<1> HIDE DEF row
<1>6. QED
  BY <1>1, <1>4, <1>5

LEMMA RowsGrow ==
  ASSUME ControlInv, [Next]_vars, NEW p \in Periods
  PROVE  Rows(p) \subseteq Rows(p)'
<1>1. CASE UNCHANGED payslip
  BY <1>1 DEF Rows
<1>2. CASE \E k \in Consumers : UpsertPayslip(k)
  BY <1>2, UpsertEffect DEF Rows
<1>3. QED
  BY <1>1, <1>2, PayslipChanges

Acts(k) == RunStep(k) \/ ThrowFromJob(k) \/ LoseJob(k)

LEMMA RunsChange ==
  ASSUME ControlInv, [Next]_vars
  PROVE  UNCHANGED run \/ \E k \in Consumers : Acts(k)
BY DEF Acts, Next, vars, CallStep, CheckOverlap, CreatePeriod, ReadPeriod, MarkProcessing,
       Enqueue, WorkerJoins, WorkerLeaves, UpdateSalary, SetOvertime

LEMMA OthersKeepRun ==
  ASSUME ControlInv, NEW i \in Consumers, Acts(i), NEW k \in Consumers, k # i
  PROVE  run'[k] = run[k]
<1> SUFFICES \E r : run' = [run EXCEPT ![i] = r]
  BY DEF ControlInv, Shape
<1>1. CASE \E j \in Jobs : StartRun(i, j)
  BY <1>1 DEF StartRun
<1>2. CASE ListWorkers(i) \/ UpsertPayslip(i) \/ CompletePeriod(i)
  BY <1>2 DEF ListWorkers, UpsertPayslip, CompletePeriod
<1>3. CASE SumAttendance(i)
  BY <1>3 DEF SumAttendance
<1>4. CASE ReturnFromJob(i) \/ ThrowFromJob(i)
  BY <1>4 DEF ReturnFromJob, ThrowFromJob
<1>5. CASE LoseJob(i)
  BY <1>5 DEF LoseJob
<1>6. QED
  BY <1>1, <1>2, <1>3, <1>4, <1>5 DEF Acts, RunStep

(* What a run that is under way may have been before. *)
LEMMA AwaitedKept ==
  ASSUME ControlInv, PaidInv, [Next]_vars, NEW k \in Consumers,
         run'[k].step \in {"sum", "upsert"}, NEW w \in run'[k].workers
  PROVE  w \in Rows(run[k].period)' \/ Awaited(run'[k], w)
<1>0. w \in Workers
  BY ControlStep DEF ControlInv, RunsInv
<1>1. ASSUME run[k].step \in {"sum", "upsert"}, run'[k].period = run[k].period,
             run'[k].workers = run[k].workers, Awaited(run[k], w) => Awaited(run'[k], w)
      PROVE  w \in Rows(run[k].period)' \/ Awaited(run'[k], w)
  <2>1. run[k].period \in Periods
    BY <1>1 DEF ControlInv, RunsInv, HasStatus, Existing
  <2>2. Rows(run[k].period)' = {v \in Workers : payslip'[run[k].period][v].status # "NONE"}
    BY <1>1 DEF Rows
  <2>3. Rows(run[k].period) \subseteq {v \in Workers : payslip'[run[k].period][v].status # "NONE"}
    BY <2>1, RowsGrow DEF Rows
  <2>4. QED
    BY <1>0, <1>1, <2>2, <2>3 DEF PaidInv
<1>2. CASE run'[k] = run[k]
  BY <1>1, <1>2
<1>3. ASSUME NEW r, run' = [run EXCEPT ![k] = r]
      PROVE  run'[k] = r
  BY <1>3 DEF ControlInv, Shape
<1>4. DOMAIN run[k] = RunFields
  BY DEF ControlInv, Shape
<1>5. ~ \E j \in Jobs : StartRun(k, j)
  <2>1. SUFFICES ASSUME NEW j \in Jobs, StartRun(k, j)
                 PROVE  FALSE
    OBVIOUS
  <2>2. run'[k] = [Idle EXCEPT !.step = "workers", !.job = j, !.period = job[j].data]
    BY <1>3, <2>1 DEF StartRun
  <2>3. QED
    BY <2>2 DEF Idle
<1>6. CASE ListWorkers(k)
  <2>1. run'[k] = [run[k] EXCEPT !.step = "sum", !.workers = active,
                     !.todo = {[worker |-> v, basic |-> salary[v]] : v \in active}]
    BY <1>3, <1>6 DEF ListWorkers
  <2>2. /\ run'[k].workers = active
        /\ run'[k].todo = {[worker |-> v, basic |-> salary[v]] : v \in active}
    BY <1>4, <2>1 DEF RunFields
  <2>3. [worker |-> w, basic |-> salary[w]] \in run'[k].todo
    BY <1>0, <2>2
  <2>4. QED
    BY <2>3 DEF Awaited
<1>7. CASE SumAttendance(k)
  <2>1. PICK e \in run[k].todo :
          LET over == OvertimeIn(e.worker, run[k].period)
              gross == GrossPay(e.basic, over)
          IN  run' = [run EXCEPT ![k] = [run[k] EXCEPT
                     !.step = "upsert",
                     !.todo = run[k].todo \ {e},
                     !.slip = [worker |-> e.worker, basic |-> e.basic, over |-> over],
                     !.gross = run[k].gross + gross,
                     !.net = run[k].net + gross - TaxDeduction(gross)]]
    BY <1>7 DEF SumAttendance
  <2> DEFINE over == OvertimeIn(e.worker, run[k].period)
             gross == run[k].gross + GrossPay(e.basic, over)
             net == run[k].net + GrossPay(e.basic, over) - TaxDeduction(GrossPay(e.basic, over))
             next == [run[k] EXCEPT !.step = "upsert", !.todo = run[k].todo \ {e},
                        !.slip = [worker |-> e.worker, basic |-> e.basic, over |-> over],
                        !.gross = gross, !.net = net]
  <2>a. run'[k] = next
    BY <1>3, <2>1
  <2> HIDE DEF over, gross, net
  <2>2. /\ run'[k].step = "upsert"
        /\ run'[k].todo = run[k].todo \ {e}
        /\ run'[k].slip.worker = e.worker
        /\ run'[k].period = run[k].period /\ run'[k].workers = run[k].workers
    BY <1>4, <2>a DEF RunFields
  <2>3. Awaited(run[k], w) => Awaited(run'[k], w)
    <3>1. SUFFICES ASSUME Awaited(run[k], w)
                   PROVE  Awaited(run'[k], w)
      OBVIOUS
    <3>2. PICK d \in run[k].todo : d.worker = w
      BY <1>7, <3>1 DEF Awaited, SumAttendance
    <3>3. CASE d = e
      BY <2>2, <3>2, <3>3 DEF Awaited
    <3>4. CASE d # e
      BY <2>2, <3>2, <3>4 DEF Awaited
    <3>5. QED
      BY <3>3, <3>4
  <2>4. run[k].step \in {"sum", "upsert"}
    BY <1>7 DEF SumAttendance
  <2>5. QED
    BY <1>1, <2>2, <2>3, <2>4
<1>8. CASE UpsertPayslip(k)
  <2>1. run'[k] = [run[k] EXCEPT !.step = "sum", !.slip = None]
    BY <1>3, <1>8 DEF UpsertPayslip
  <2>2. /\ run'[k].step = "sum" /\ run'[k].todo = run[k].todo
        /\ run'[k].period = run[k].period /\ run'[k].workers = run[k].workers
    BY <1>4, <2>1 DEF RunFields
  <2>3. CASE w = run[k].slip.worker
    BY <1>0, <1>8, <2>2, <2>3, UpsertEffect DEF Rows
  <2>4. CASE w # run[k].slip.worker
    BY <1>1, <1>8, <2>2, <2>4 DEF Awaited, UpsertPayslip
  <2>5. QED
    BY <2>3, <2>4
<1>9. ~ CompletePeriod(k)
  BY <1>3, <1>4 DEF CompletePeriod, RunFields
<1>10. ~ (ReturnFromJob(k) \/ ThrowFromJob(k))
  BY <1>3 DEF ReturnFromJob, ThrowFromJob, Idle
<1>11. CASE LoseJob(k)
  <2>1. run'[k] = Idle \/ run'[k] = [run[k] EXCEPT !.job = None]
    BY <1>3, <1>11 DEF LoseJob
  <2>2. run'[k] # Idle
    BY DEF Idle
  <2>3. /\ run'[k].step = run[k].step /\ run'[k].todo = run[k].todo
        /\ run'[k].slip = run[k].slip /\ run'[k].period = run[k].period
        /\ run'[k].workers = run[k].workers
    BY <1>4, <2>1, <2>2 DEF RunFields
  <2>4. QED
    BY <1>1, <2>3 DEF Awaited
<1>12. CASE ~ Acts(k)
  BY <1>2, <1>12, RunsChange, OthersKeepRun
<1>13. QED
  BY <1>5, <1>6, <1>7, <1>8, <1>9, <1>10, <1>11, <1>12 DEF Acts, RunStep

LEMMA CompletionCovers ==
  ASSUME ControlInv, PaidInv, [Next]_vars, NEW p \in Existing', period'[p].status = "COMPLETED"
  PROVE  roster'[p] \subseteq Rows(p)'
<1>1. p \in Periods /\ Rows(p) \subseteq Rows(p)'
  BY RowsGrow DEF Existing
<1>2. ASSUME NEW k \in Consumers, CompletePeriod(k), run[k].period = p
      PROVE  roster'[p] \subseteq Rows(p)'
  <2>1. \A w \in run[k].workers : w \in Rows(p)
    BY <1>2 DEF CompletePeriod, PaidInv, Awaited
  <2>2. roster'[p] = run[k].workers
    BY <1>1, <1>2 DEF CompletePeriod, PaidInv
  <2>3. QED
    BY <1>1, <2>1, <2>2
<1>3. ASSUME ~ \E k \in Consumers : CompletePeriod(k) /\ run[k].period = p
      PROVE  roster'[p] \subseteq Rows(p)'
  <2>1. roster'[p] = roster[p]
    <3>1. ASSUME NEW k \in Consumers, CompletePeriod(k)
          PROVE  roster'[p] = roster[p]
      <4>1. run[k].period # p /\ roster' = [roster EXCEPT ![run[k].period] = run[k].workers]
        BY <1>3, <3>1 DEF CompletePeriod
      <4>2. QED
        BY <1>1, <4>1 DEF PaidInv
    <3>2. QED
      BY <3>1, RosterChanges
  <2>2. p \in Existing /\ period[p].status = "COMPLETED"
    <3>1. ~ \E c \in Calls : CreatePeriod(c) /\ period'[p] # period[p]
      BY <1>1 DEF CreatePeriod, ControlInv, Shape
    <3>2. ~ \E c \in Calls : MarkProcessing(c) /\ period'[p] # period[p]
      BY <1>1 DEF MarkProcessing, SetStatus, ControlInv, Shape, PeriodFields
    <3>3. period'[p] = period[p]
      BY <1>1, <1>3, <3>1, <3>2, StatusChanges DEF CompletePeriod, ControlInv, Shape
    <3>4. QED
      BY <1>1, <3>3 DEF Existing
  <2>3. QED
    BY <1>1, <2>1, <2>2 DEF PaidInv, NobodyForgotten
<1>4. QED
  BY <1>2, <1>3

(* NobodyForgotten: whatever overlaps and fails, and whoever is hired or   *)
(* leaves meanwhile, a payroll is only completed when everybody has a      *)
(* payslip whom the job that completed it had listed.                      *)
THEOREM NobodyIsForgotten == Spec => []NobodyForgotten
<1>1. Init => PaidInv
  BY DEF Init, PaidInv, NobodyForgotten, Existing, NoPeriod, Idle
<1>2. ControlInv /\ PaidInv /\ [Next]_vars => PaidInv'
  <2> SUFFICES ASSUME ControlInv, PaidInv, [Next]_vars
               PROVE  PaidInv'
    OBVIOUS
  <2>1. DOMAIN roster' = Periods
    BY RosterChanges DEF CompletePeriod, PaidInv
  <2>2. NobodyForgotten'
    BY CompletionCovers DEF NobodyForgotten
  <2>3. ASSUME NEW k \in Consumers, run'[k].step \in {"sum", "upsert"}, NEW w \in run'[k].workers
        PROVE  w \in Rows(run[k].period)' \/ Awaited(run'[k], w)
    BY <2>3, AwaitedKept
  <2>4. QED
    BY <2>1, <2>2, <2>3 DEF PaidInv, Awaited
<1>3. PaidInv => NobodyForgotten
  BY DEF PaidInv
<1>4. QED
  BY <1>1, <1>2, <1>3, Control, PTL DEF Spec

-----------------------------------------------------------------------------
(* Amounts. *)

LEMMA Quotient ==
  ASSUME NEW n \in Nat, NEW d \in Nat \ {0}
  PROVE  /\ n \div d \in Nat
         /\ d * (n \div d) <= n
         /\ n < d * (n \div d) + d
BY Z3

LEMMA CentsAreNat ==
  ASSUME NEW amount \in Nat
  PROVE  Cents(amount) \in Nat
<1>1. 2 * amount + Scale \in Nat /\ 2 * Scale \in Nat \ {0}
  BY AmountAssumption
<1>2. QED
  BY <1>1, Quotient DEF Cents

LEMMA PayIsNat ==
  ASSUME NEW basic \in Nat, NEW over \in Nat
  PROVE  GrossPay(basic, over) \in Nat
BY AmountAssumption DEF GrossPay

LEMMA TaxIsPart ==
  ASSUME NEW gross \in Nat
  PROVE  TaxDeduction(gross) \in Nat /\ TaxDeduction(gross) <= gross
<1> DEFINE q == (15 * gross) \div 100
<1>1. 15 * gross \in Nat /\ 100 \in Nat \ {0}
  OBVIOUS
<1>2. q \in Nat /\ 100 * q <= 15 * gross
  BY <1>1, Quotient
<1> HIDE DEF q
<1>3. q <= gross
  BY <1>2
<1>4. QED
  BY <1>2, <1>3 DEF TaxDeduction, q

LEMMA OvertimeIsNat ==
  ASSUME overtime \in [Attendance -> Overtimes], NEW w, NEW p
  PROVE  OvertimeIn(w, p) \in Nat
<1> DEFINE R == {r \in Attendance :
                  r.worker = w /\ period[p].start <= r.in /\ r.in <= period[p].end}
<1>1. IsFiniteSet(R)
  <2>1. R \subseteq Attendance /\ IsFiniteSet(Attendance)
    BY AmountAssumption
  <2> HIDE DEF R
  <2>2. QED
    BY <2>1, FS_Subset
<1>2. \A r \in R : overtime[r] \in Nat
  BY AmountAssumption
<1>3. OvertimeIn(w, p) = SumFunctionOnSet(overtime, R)
  BY DEF OvertimeIn
<1> HIDE DEF R
<1>4. QED
  BY <1>1, <1>2, <1>3, SumIsNat

-----------------------------------------------------------------------------
(* Types. *)

PeriodRows == [start : Times, end : Times, status : Statuses,
               gross : Nat \cup {None}, net : Nat \cup {None}]
PayslipRows == [status : {"NONE", "DRAFT"}, over : Nat, gross : Nat, net : Nat, tax : Nat]
Slips == [worker : Workers, basic : Salaries, over : Nat]
Runs == [step : RunSteps, job : Jobs \cup {None}, period : Periods \cup {None},
         workers : SUBSET Workers, todo : SUBSET [worker : Workers, basic : Salaries],
         slip : {None} \cup Slips, gross : Nat, net : Nat]

AmountTypes ==
  /\ period \in [Periods -> {NoPeriod} \cup PeriodRows]
  /\ payslip \in [Periods -> [Workers -> PayslipRows]]
  /\ salary \in [Workers -> Salaries]
  /\ overtime \in [Attendance -> Overtimes]
  /\ run \in [Consumers -> Runs]
  /\ \A k \in Consumers : run[k].step = "upsert" => run[k].slip \in Slips
  /\ roster \in [Periods -> SUBSET Workers]

LEMMA TypesImplied == ControlInv /\ AmountTypes => TypeOK
BY DEF ControlInv, Shape, AmountTypes, TypeOK, JobType, JobsTypeOK, PeriodRows, PayslipRows,
       Runs, Slips

LEMMA InitTypes == Init => AmountTypes
<1> SUFFICES ASSUME Init
             PROVE  AmountTypes
  OBVIOUS
<1>1. Idle \in Runs /\ Idle.step # "upsert"
  BY DEF Idle, Runs, RunSteps
<1>2. NoPayslip \in PayslipRows
  BY DEF NoPayslip, PayslipRows
<1>3. QED
  BY <1>1, <1>2, AmountAssumption DEF Init, AmountTypes

(* The run of one consumer changes to r. *)
LEMMA RunChangesType ==
  ASSUME AmountTypes, NEW k \in Consumers, NEW r \in Runs, run' = [run EXCEPT ![k] = r],
         r.step = "upsert" => r.slip \in Slips
  PROVE  /\ run' \in [Consumers -> Runs]
         /\ \A i \in Consumers : run'[i].step = "upsert" => run'[i].slip \in Slips
BY DEF AmountTypes

LEMMA RowChangesType ==
  ASSUME AmountTypes, NEW p \in Periods, NEW r \in PeriodRows, period' = [period EXCEPT ![p] = r]
  PROVE  period' \in [Periods -> {NoPeriod} \cup PeriodRows]
BY DEF AmountTypes

LEMMA ExistingRows ==
  ASSUME AmountTypes, NEW p \in Existing
  PROVE  period[p] \in PeriodRows
BY DEF AmountTypes, Existing, NoPeriod

LEMMA RunTypes ==
  ASSUME ControlInv, AmountTypes, NEW k \in Consumers, RunStep(k) \/ ThrowFromJob(k) \/ LoseJob(k)
  PROVE  AmountTypes'
<1>0. /\ run[k] \in Runs /\ RunOK(run[k]) /\ None \notin Int
      /\ salary \in [Workers -> Salaries] /\ active \subseteq Workers
      /\ overtime \in [Attendance -> Overtimes]
  BY RunOKInv, NoneAssumption DEF AmountTypes, ControlInv, Shape
<1>i. Idle \in Runs /\ Idle.step # "upsert"
  BY DEF Idle, Runs, RunSteps
<1>1. ASSUME NEW r \in Runs, run' = [run EXCEPT ![k] = r], r.step = "upsert" => r.slip \in Slips,
             UNCHANGED <<period, payslip, salary, overtime, roster>>
      PROVE  AmountTypes'
  BY <1>1, RunChangesType DEF AmountTypes
<1>2. ASSUME NEW j \in Jobs, StartRun(k, j)
      PROVE  AmountTypes'
  <2> DEFINE r == [Idle EXCEPT !.step = "workers", !.job = j, !.period = job[j].data]
  <2>1. run' = [run EXCEPT ![k] = r] /\ UNCHANGED <<period, payslip, salary, overtime, roster>>
    BY <1>2 DEF StartRun, tables, others
  <2>2. job[j].data \in Periods \cup {None}
    BY DEF ControlInv, Shape, JobType
  <2>3. r \in Runs /\ r.step # "upsert"
    BY <2>2 DEF Idle, Runs, RunSteps
  <2> HIDE DEF r
  <2>4. QED
    BY <1>1, <2>1, <2>3
<1>3. ASSUME ListWorkers(k)
      PROVE  AmountTypes'
  <2> DEFINE list == {[worker |-> w, basic |-> salary[w]] : w \in active}
             r == [run[k] EXCEPT !.step = "sum", !.workers = active, !.todo = list]
  <2>1. run' = [run EXCEPT ![k] = r] /\ UNCHANGED <<period, payslip, salary, overtime, roster>>
    BY <1>3 DEF ListWorkers, tables, others
  <2>2. list \in SUBSET [worker : Workers, basic : Salaries]
    BY <1>0
  <2> HIDE DEF list
  <2>3. r \in Runs /\ r.step # "upsert"
    BY <1>0, <2>2 DEF Runs, RunSteps
  <2> HIDE DEF r
  <2>4. QED
    BY <1>1, <2>1, <2>3
<1>4. ASSUME SumAttendance(k)
      PROVE  AmountTypes'
  <2>1. PICK e \in run[k].todo :
          LET over == OvertimeIn(e.worker, run[k].period)
              gross == GrossPay(e.basic, over)
          IN  run' = [run EXCEPT ![k] = [run[k] EXCEPT
                        !.step = "upsert",
                        !.todo = run[k].todo \ {e},
                        !.slip = [worker |-> e.worker, basic |-> e.basic, over |-> over],
                        !.gross = run[k].gross + gross,
                        !.net = run[k].net + gross - TaxDeduction(gross)]]
    BY <1>4 DEF SumAttendance
  <2> DEFINE over == OvertimeIn(e.worker, run[k].period)
             gross == GrossPay(e.basic, over)
             slip == [worker |-> e.worker, basic |-> e.basic, over |-> over]
             g == run[k].gross + gross
             n == run[k].net + gross - TaxDeduction(gross)
             r == [run[k] EXCEPT !.step = "upsert", !.todo = run[k].todo \ {e}, !.slip = slip,
                                 !.gross = g, !.net = n]
  <2>2. run' = [run EXCEPT ![k] = r]
    BY <2>1
  <2>3. e.worker \in Workers /\ e.basic \in Salaries /\ run[k].gross \in Nat /\ run[k].net \in Nat
    BY <1>0 DEF Runs
  <2>4. over \in Nat
    BY <1>0, OvertimeIsNat
  <2> HIDE DEF over
  <2>5. gross \in Nat
    BY <2>3, <2>4, PayIsNat, AmountAssumption
  <2>6. slip \in Slips
    BY <2>3, <2>4 DEF Slips
  <2> HIDE DEF gross, slip
  <2>7. g \in Nat /\ n \in Nat
    BY <2>3, <2>5, TaxIsPart
  <2> HIDE DEF g, n
  <2>8. r \in Runs /\ r.step = "upsert" /\ r.slip = slip
    BY <1>0, <2>6, <2>7 DEF Runs, RunSteps
  <2> HIDE DEF r
  <2>9. UNCHANGED <<period, payslip, salary, overtime, roster>>
    BY <1>4 DEF SumAttendance, tables, others
  <2>10. QED
    BY <1>1, <2>2, <2>6, <2>8, <2>9
<1>5. ASSUME UpsertPayslip(k)
      PROVE  AmountTypes'
  <2> DEFINE r == [run[k] EXCEPT !.step = "sum", !.slip = None]
             p == run[k].period
             slip == run[k].slip
             w == slip.worker
             row == Upserted(payslip[p][w], slip)
  <2>1. /\ run' = [run EXCEPT ![k] = r] /\ run[k].step = "upsert"
        /\ payslip' = [payslip EXCEPT ![p] = [payslip[p] EXCEPT ![w] = row]]
        /\ UNCHANGED <<period, salary, overtime>>
    BY <1>5 DEF UpsertPayslip, others
  <2>2. r \in Runs /\ r.step # "upsert"
    BY <1>0 DEF Runs, RunSteps
  <2>3. p \in Periods /\ slip \in Slips
    BY <1>0, <2>1 DEF RunOK, HasStatus, Existing, AmountTypes
  <2>4. payslip[p] \in [Workers -> PayslipRows] /\ w \in Workers /\ payslip[p][w] \in PayslipRows
    BY <2>3 DEF AmountTypes, Slips
  <2>5. row \in PayslipRows
    <3> DEFINE gross == GrossPay(slip.basic, slip.over)
               tax == TaxDeduction(gross)
    <3>1. slip.over \in Nat /\ slip.basic \in Nat
      BY <2>3, AmountAssumption DEF Slips
    <3>2. gross \in Nat
      BY <3>1, PayIsNat
    <3> HIDE DEF gross
    <3>3. tax \in Nat /\ gross - tax \in Nat
      BY <3>2, TaxIsPart
    <3> HIDE DEF tax
    <3>4. Cents(gross) \in Nat /\ Cents(gross - tax) \in Nat
      BY <3>2, <3>3, CentsAreNat
    <3>5. payslip[p][w].tax \in Nat
      BY <2>4 DEF PayslipRows
    <3>6. row = [status |-> "DRAFT", over |-> slip.over, gross |-> Cents(gross),
                 net |-> Cents(gross - tax),
                 tax |-> IF payslip[p][w].status = "NONE" THEN tax ELSE payslip[p][w].tax]
      BY DEF Upserted, gross, tax
    <3>7. QED
      BY <3>1, <3>3, <3>4, <3>5, <3>6 DEF PayslipRows
  <2> HIDE DEF row, r, w, p
  <2>6. [payslip[p] EXCEPT ![w] = row] \in [Workers -> PayslipRows]
    BY <2>4, <2>5
  <2>7. payslip' \in [Periods -> [Workers -> PayslipRows]]
    BY <2>1, <2>3, <2>6 DEF AmountTypes
  <2>8. /\ run' \in [Consumers -> Runs]
        /\ \A i \in Consumers : run'[i].step = "upsert" => run'[i].slip \in Slips
    BY <2>1, <2>2, RunChangesType
  <2>9. QED
    BY <1>5, <2>1, <2>7, <2>8 DEF AmountTypes, UpsertPayslip
<1>6. ASSUME CompletePeriod(k)
      PROVE  AmountTypes'
  <2> DEFINE r == [run[k] EXCEPT !.step = "return"]
             p == run[k].period
             g == Cents(run[k].gross)
             n == Cents(run[k].net)
             row == [period[p] EXCEPT !.status = "COMPLETED", !.gross = g, !.net = n]
  <2>1. /\ run' = [run EXCEPT ![k] = r] /\ run[k].step = "sum"
        /\ period' = [period EXCEPT ![p] = row]
        /\ UNCHANGED <<payslip, salary, overtime>>
    BY <1>6 DEF CompletePeriod, others
  <2>2. r \in Runs /\ r.step # "upsert"
    BY <1>0 DEF Runs, RunSteps
  <2>3. p \in Periods /\ p \in Existing
    BY <1>0, <2>1 DEF RunOK, HasStatus, Existing
  <2>4. g \in Nat /\ n \in Nat
    BY <1>0, CentsAreNat DEF Runs
  <2> HIDE DEF g, n
  <2>5. row \in PeriodRows
    BY <2>3, <2>4, ExistingRows DEF PeriodRows
  <2> HIDE DEF row, r
  <2>6. period' \in [Periods -> {NoPeriod} \cup PeriodRows]
    BY <2>1, <2>3, <2>5, RowChangesType
  <2>7. /\ run' \in [Consumers -> Runs]
        /\ \A i \in Consumers : run'[i].step = "upsert" => run'[i].slip \in Slips
    BY <2>1, <2>2, RunChangesType
  <2>8. roster' \in [Periods -> SUBSET Workers]
    <3>1. run[k].workers \subseteq Workers
      BY <1>0 DEF RunOK
    <3>2. roster' = [roster EXCEPT ![run[k].period] = run[k].workers]
      BY <1>6 DEF CompletePeriod
    <3>3. QED
      BY <3>1, <3>2 DEF AmountTypes
  <2>9. QED
    BY <2>1, <2>6, <2>7, <2>8 DEF AmountTypes
<1>7. ASSUME ReturnFromJob(k) \/ ThrowFromJob(k)
      PROVE  AmountTypes'
  BY <1>1, <1>7, <1>i DEF ReturnFromJob, ThrowFromJob, tables, others
<1>8. ASSUME LoseJob(k)
      PROVE  AmountTypes'
  <2> DEFINE r == [run[k] EXCEPT !.job = None]
  <2>1. /\ run' = [run EXCEPT ![k] = Idle] \/ run' = [run EXCEPT ![k] = r]
        /\ UNCHANGED <<period, payslip, salary, overtime, roster>>
    BY <1>8 DEF LoseJob, tables, others
  <2>2. r \in Runs /\ r.step = run[k].step /\ r.slip = run[k].slip
    BY <1>0 DEF Runs
  <2>3. r.step = "upsert" => r.slip \in Slips
    BY <2>2 DEF AmountTypes
  <2> HIDE DEF r
  <2>4. QED
    BY <1>1, <1>i, <2>1, <2>2, <2>3
<1>9. QED
  BY <1>2, <1>3, <1>4, <1>5, <1>6, <1>7, <1>8 DEF RunStep

LEMMA CallTypes ==
  ASSUME ControlInv, AmountTypes, NEW c \in Calls, CallStep(c)
  PROVE  AmountTypes'
<1>1. ASSUME UNCHANGED <<period, payslip, salary, overtime, run, roster>>
      PROVE  AmountTypes'
  BY <1>1 DEF AmountTypes
<1>2. ASSUME NEW asked \in Spans, CheckOverlap(c, asked)
      PROVE  AmountTypes'
  BY <1>1, <1>2 DEF CheckOverlap, tables, others
<1>3. ASSUME CreatePeriod(c)
      PROVE  AmountTypes'
  <2>1. PICK p \in Periods \ Existing :
          period' = [period EXCEPT ![p] =
                       [start |-> span[c].start, end |-> span[c].end, status |-> "DRAFT",
                        gross |-> None, net |-> None]]
    BY <1>3 DEF CreatePeriod
  <2>2. span[c] \in Spans
    BY <1>3 DEF CreatePeriod, ControlInv, CallsInv
  <2>3. [start |-> span[c].start, end |-> span[c].end, status |-> "DRAFT",
         gross |-> None, net |-> None] \in PeriodRows
    BY <2>2, AmountAssumption DEF PeriodRows
  <2>4. period' \in [Periods -> {NoPeriod} \cup PeriodRows]
    BY <2>1, <2>3, RowChangesType
  <2>5. QED
    BY <1>3, <2>4 DEF CreatePeriod, AmountTypes, others
<1>4. ASSUME NEW p \in Periods, ReadPeriod(c, p)
      PROVE  AmountTypes'
  BY <1>1, <1>4 DEF ReadPeriod, tables, others
<1>5. ASSUME MarkProcessing(c)
      PROVE  AmountTypes'
  <2> DEFINE p == arg[c]
             row == [period[p] EXCEPT !.status = "PROCESSING"]
  <2>1. p \in Existing /\ p \in Periods
    BY <1>5 DEF MarkProcessing, ControlInv, CallsInv, HasStatus, Existing
  <2>2. row \in PeriodRows
    BY <2>1, ExistingRows DEF PeriodRows
  <2>3. period' = [period EXCEPT ![p] = row]
    BY <1>5 DEF MarkProcessing, SetStatus
  <2> HIDE DEF row
  <2>4. period' \in [Periods -> {NoPeriod} \cup PeriodRows]
    BY <2>1, <2>2, <2>3, RowChangesType
  <2>5. QED
    BY <1>5, <2>4 DEF MarkProcessing, AmountTypes, others
<1>6. ASSUME Enqueue(c)
      PROVE  AmountTypes'
  BY <1>1, <1>6 DEF Enqueue, tables, others
<1>7. QED
  BY <1>2, <1>3, <1>4, <1>5, <1>6 DEF CallStep

LEMMA TypesStep == ControlInv /\ AmountTypes /\ [Next]_vars => AmountTypes'
<1> SUFFICES ASSUME ControlInv, AmountTypes, [Next]_vars
             PROVE  AmountTypes'
  OBVIOUS
<1>1. CASE \E c \in Calls : CallStep(c)
  BY <1>1, CallTypes
<1>2. CASE \E k \in Consumers : RunStep(k) \/ ThrowFromJob(k) \/ LoseJob(k)
  BY <1>2, RunTypes
<1>3. CASE \E r \in Attendance, over \in Overtimes : SetOvertime(r, over)
  BY <1>3 DEF SetOvertime, AmountTypes, tables
<1>4. CASE \E w \in Workers :
              \/ WorkerJoins(w) \/ WorkerLeaves(w)
              \/ \E amount \in Salaries : UpdateSalary(w, amount)
  BY <1>4 DEF WorkerJoins, WorkerLeaves, UpdateSalary, AmountTypes, tables
<1>5. CASE UNCHANGED vars
  BY <1>5 DEF vars, tables, others, AmountTypes
<1>6. QED
  BY <1>1, <1>2, <1>3, <1>4, <1>5 DEF Next

LEMMA AmountsInvariant == Spec => []AmountTypes
BY InitTypes, TypesStep, Control, PTL DEF Spec

(* TypeOK: rows, calls, jobs and runs keep their types; in particular no   *)
(* amount that is stored or summed up is ever negative, the net pay of a   *)
(* run and of a payslip included.                                          *)
THEOREM TypeCorrect == Spec => []TypeOK
BY TypesImplied, AmountsInvariant, Control, PTL

-----------------------------------------------------------------------------
(* The jobs and the runs of a period, if no call to generate it overlaps   *)
(* with another one and no job runs beside its repetition: there is one    *)
(* job, which has one run as long as it is active.                         *)
OneJob ==
  /\ \A i, j \in Jobs : /\ job[i].state # "free" /\ job[j].state # "free"
                        /\ job[i].data = job[j].data
                        => i = j
  /\ \A c \in Calls : op[c] = "enqueue" => JobsOf(arg[c]) = {}

OneRun ==
  /\ \A k \in Consumers : run[k].step # "idle" =>
       /\ run[k].job \in Jobs
       /\ job[run[k].job].state = "active"
       /\ job[run[k].job].data = run[k].period
  /\ \A k, l \in Consumers : run[k].step # "idle" /\ run[k].job = run[l].job => k = l

(* A payslip means that a job of its period has been taken before: if it   *)
(* waits, it is to be repeated.                                            *)
PaidByJob ==
  \A p \in Periods : Rows(p) # {} =>
    /\ JobsOf(p) # {}
    /\ \A j \in JobsOf(p) : job[j].state = "waiting" => job[j].stalls > 0

(* Payslips are of people who have been hired. *)
StaffInv ==
  /\ \A p \in Periods : Rows(p) \subseteq hired
  /\ \A k \in Consumers : \A w \in Workers : Awaited(run[k], w) => w \in hired

JobsInv == OneJob /\ OneRun /\ PaidByJob /\ StaffInv

(* What each kind of step does to the jobs. *)
Taken(j) == job[j].state = "waiting" /\ job'[j] = [job[j] EXCEPT !.state = "active"]
Dropped(j) ==
  /\ job[j].state = "active"
  /\ \/ /\ job'[j].state = "waiting" /\ job'[j].data = job[j].data
        /\ job'[j].stalls = job[j].stalls + 1
     \/ job'[j] = [job[j] EXCEPT !.state = "failed"]
Ended(j, s) == job'[j] = [job[j] EXCEPT !.state = s]
Only(j) == \A i \in Jobs : i # j => job'[i] = job[i]

LEMMA JobRow ==
  ASSUME JobType, NEW j \in Jobs
  PROVE  /\ job[j] \in [state : JobStates, data : Periods \cup {None}, stalls : 0 .. MAX_STALLED]
         /\ job[j].stalls \in Nat
BY JobsAssumption DEF JobType

LEMMA TakeJob ==
  ASSUME JobType, NEW k \in Consumers, NEW j \in Jobs, StartRun(k, j)
  PROVE  Taken(j) /\ Only(j)
BY DEF StartRun, Take, SetState, Taken, Only, JobType

LEMMA EndJob ==
  ASSUME JobType, NEW k \in Consumers, NEW s, SettleMine(k, s), run[k].job \in Jobs
  PROVE  Ended(run[k].job, s) /\ Only(run[k].job)
<1>1. run[k].job # None
  <2>1. Jobs \subseteq Int
    BY JobsAssumption
  <2>2. QED
    BY <2>1, NoneAssumption
<1>2. SetState(run[k].job, s)
  BY <1>1 DEF SettleMine, Settle
<1>3. QED
  BY <1>2 DEF SetState, Ended, Only, JobType

LEMMA DropJob ==
  ASSUME JobType, NEW j \in Jobs, Stall(j)
  PROVE  Dropped(j) /\ Only(j)
<1>1. CASE job[j].stalls < MAX_STALLED
  BY <1>1 DEF Stall, Dropped, Only, JobType
<1>2. CASE ~ (job[j].stalls < MAX_STALLED)
  BY <1>2 DEF Stall, SetState, Dropped, Only, JobType
<1>3. QED
  BY <1>1, <1>2

(* What a step may do to jobs: nothing, add one, or move one of its own. *)
LEMMA JobSteps ==
  ASSUME ControlInv, [Next]_vars
  PROVE  \/ UNCHANGED job
         \/ \E c \in Calls : Enqueue(c) /\ Add(arg[c])
         \/ \E k \in Consumers, j \in Jobs : StartRun(k, j)
         \/ \E k \in Consumers : ReturnFromJob(k) \/ ThrowFromJob(k) \/ LoseJob(k)
BY DEF Next, vars, CallStep, CheckOverlap, CreatePeriod, ReadPeriod, MarkProcessing, Enqueue,
       RunStep, ListWorkers, SumAttendance, UpsertPayslip, CompletePeriod, WorkerJoins, WorkerLeaves,
       UpdateSalary, SetOvertime

(* How a run ends: the job it had is over, or waits to be repeated. *)
LEMMA EndOfRun ==
  ASSUME ControlInv, OneRun, "stalls" \notin Liberties, NEW k \in Consumers,
         ReturnFromJob(k) \/ ThrowFromJob(k) \/ LoseJob(k)
  PROVE  /\ run[k].step # "idle" /\ run[k].job \in Jobs /\ Only(run[k].job)
         /\ \/ run[k].step = "return" /\ Ended(run[k].job, "completed")
            \/ Ended(run[k].job, "failed")
            \/ Dropped(run[k].job)
         /\ run' = [run EXCEPT ![k] = Idle]
         /\ UNCHANGED <<tables, others, calls>>
<1>0. JobType /\ RunOK(run[k])
  BY RunOKInv DEF ControlInv, Shape
<1>1. CASE ReturnFromJob(k)
  <2>1. run[k].step = "return" /\ run[k].job \in Jobs
    BY <1>1 DEF ReturnFromJob, OneRun
  <2>2. QED
    BY <1>0, <1>1, <2>1, EndJob DEF ReturnFromJob
<1>2. CASE ThrowFromJob(k)
  <2>1. run[k].step # "idle" /\ run[k].job \in Jobs
    BY <1>2 DEF ThrowFromJob, OneRun
  <2>2. QED
    BY <1>0, <1>2, <2>1, EndJob DEF ThrowFromJob
<1>3. CASE LoseJob(k)
  <2>1. run[k].job \in Jobs /\ run[k].step # "idle"
    BY <1>0, <1>3 DEF LoseJob, RunOK
  <2>2. Dropped(run[k].job) /\ Only(run[k].job)
    BY <1>0, <1>3, <2>1, DropJob DEF LoseJob
  <2>3. run' = [run EXCEPT ![k] = Idle]
    BY <1>3 DEF LoseJob
  <2>4. QED
    BY <1>3, <2>1, <2>2, <2>3 DEF LoseJob
<1>4. QED
  BY <1>1, <1>2, <1>3

(* No job is forgotten, and none forgets its stalls. *)
JobKept(j) == /\ job'[j].state # "free" /\ job'[j].data = job[j].data
              /\ job'[j].stalls >= job[j].stalls

LEMMA JobsAreKept ==
  ASSUME ControlInv, OneRun, "stalls" \notin Liberties, [Next]_vars
  PROVE  \A j \in Jobs : job[j].state # "free" => JobKept(j)
<1>0. JobType
  BY DEF ControlInv, Shape
<1> SUFFICES ASSUME NEW j \in Jobs, job[j].state # "free"
             PROVE  JobKept(j)
  OBVIOUS
<1>r. /\ job[j] \in [state : JobStates, data : Periods \cup {None}, stalls : 0 .. MAX_STALLED]
      /\ job[j].stalls \in Nat
  BY <1>0, JobRow
<1>i. job'[j] = job[j] => JobKept(j)
  BY <1>r DEF JobKept
<1>1. CASE UNCHANGED job
  BY <1>1, <1>i
<1>2. ASSUME NEW c \in Calls, Enqueue(c), Add(arg[c])
      PROVE  JobKept(j)
  <2>1. arg[c] \in Periods
    BY <1>2 DEF Enqueue, ControlInv, CallsInv, HasStatus, Existing
  <2>2. PICK i \in Jobs : job[i].state = "free" /\ \A l \in Jobs : l # i => job'[l] = job[l]
    BY <1>0, <1>2, <2>1, AddEffect
  <2>3. QED
    BY <1>i, <2>2
<1>3. ASSUME NEW k \in Consumers, NEW i \in Jobs, StartRun(k, i)
      PROVE  JobKept(j)
  <2>1. Taken(i) /\ Only(i)
    BY <1>0, <1>3, TakeJob
  <2>2. QED
    BY <1>i, <1>r, <2>1 DEF Taken, Only, JobKept
<1>4. ASSUME NEW k \in Consumers, ReturnFromJob(k) \/ ThrowFromJob(k) \/ LoseJob(k)
      PROVE  JobKept(j)
  <2>1. CASE j # run[k].job
    BY <1>4, <1>i, <2>1, EndOfRun DEF Only
  <2>2. CASE j = run[k].job /\ (Ended(j, "completed") \/ Ended(j, "failed"))
    BY <1>r, <2>2 DEF Ended, JobKept
  <2>3. CASE j = run[k].job /\ Dropped(j)
    BY <1>r, <2>3 DEF Dropped, JobKept
  <2>4. QED
    BY <1>4, <2>1, <2>2, <2>3, EndOfRun
<1>5. QED
  BY <1>1, <1>2, <1>3, <1>4, JobSteps

LEMMA ActsKeepJobs ==
  ASSUME ControlInv, NEW k \in Consumers, Acts(k)
  PROVE  SameJobs
<1>0. JobType /\ RunOK(run[k])
  BY RunOKInv DEF ControlInv, Shape
<1>1. CASE UNCHANGED job
  BY <1>0, <1>1 DEF SameJobs, JobType
<1>2. ASSUME NEW j \in Jobs, StartRun(k, j)
      PROVE  SameJobs
  <2>1. job[j].state # "free" /\ SetState(j, "active") /\ "active" \in JobStates \ {"free"}
    BY <1>2 DEF StartRun, Take, JobStates
  <2>2. Moves(j)
    BY <1>0, <2>1, SetStateEffect
  <2>3. QED
    BY <2>1, <2>2, MoveKeepsJobs
<1>3. CASE ReturnFromJob(k) \/ ThrowFromJob(k)
  BY <1>3, SettleKeepsJobs DEF ReturnFromJob, ThrowFromJob
<1>4. CASE LoseJob(k)
  <2>1. run[k].job \in Jobs
    BY <1>0, <1>4 DEF LoseJob, RunOK
  <2>2. QED
    BY <1>0, <1>4, <2>1, StallEffect, MoveKeepsJobs DEF LoseJob
<1>5. QED
  BY <1>1, <1>2, <1>3, <1>4
  DEF Acts, RunStep, ListWorkers, SumAttendance, UpsertPayslip, CompletePeriod

LEMMA RepeatedStays ==
  ASSUME ControlInv, OneRun, "stalls" \notin Liberties, [Next]_vars, NEW p \in Periods
  PROVE  /\ JobsOf(p) \subseteq JobsOf(p)'
         /\ Repeated(p) => Repeated(p)'
<1>1. \A j \in JobsOf(p) : job[j].stalls \in Nat /\ j \in JobsOf(p)' /\ job'[j].stalls >= job[j].stalls
  <2>1. SUFFICES ASSUME NEW j \in JobsOf(p)
                 PROVE  /\ job[j].stalls \in Nat /\ j \in JobsOf(p)'
                        /\ job'[j].stalls >= job[j].stalls
    OBVIOUS
  <2>2. j \in Jobs /\ job[j].state # "free" /\ job[j].data = p
    BY DEF JobsOf
  <2>3. JobKept(j) /\ job[j].stalls \in Nat
    BY <2>2, JobsAreKept, JobRow DEF ControlInv, Shape
  <2>4. QED
    BY <2>2, <2>3 DEF JobKept, JobsOf
<1>2. ASSUME NEW j \in JobsOf(p), job[j].stalls > 0
      PROVE  j \in JobsOf(p)' /\ job'[j].stalls > 0
  <2>1. job'[j].stalls >= job[j].stalls /\ job[j].stalls \in Nat
    BY <1>1, <1>2
  <2>2. JobType' /\ j \in Jobs
    BY <1>2, ControlStep DEF ControlInv, Shape, JobsOf
  <2>3. job'[j].stalls \in Nat
    BY <2>2, JobsAssumption DEF JobType
  <2>4. QED
    BY <1>1, <1>2, <2>1, <2>3
<1>3. QED
  BY <1>1, <1>2 DEF Repeated

LEMMA OneJobStep ==
  ASSUME ControlInv, OneJob, "generate" \notin Liberties, [Next]_vars
  PROVE  OneJob'
<1>0. JobType
  BY DEF ControlInv, Shape
<1>1. ASSUME SameJobs,
             \A c \in Calls : op'[c] = "enqueue" => op[c] = "enqueue" /\ arg'[c] = arg[c]
      PROVE  OneJob'
  BY <1>1 DEF OneJob, SameJobs, JobsOf
<1>2. CASE UNCHANGED <<op, arg, job>>
  BY <1>0, <1>1, <1>2 DEF SameJobs, JobType
<1>3. ASSUME NEW c \in Calls, CallStep(c)
      PROVE  OneJob'
  <2>0. /\ op \in [Calls -> CallSteps] /\ arg \in [Calls -> Periods \cup {None}]
    BY DEF ControlInv, Shape
  <2>s. UNCHANGED job => SameJobs
    BY <1>0 DEF SameJobs, JobType
  <2>1. CASE \E asked \in Spans : CheckOverlap(c, asked)
    BY <1>1, <2>0, <2>1, <2>s DEF CheckOverlap, Goto
  <2>2. CASE CreatePeriod(c)
    BY <1>1, <2>0, <2>2, <2>s DEF CreatePeriod, Return, Goto
  <2>3. CASE \E p \in Periods : ReadPeriod(c, p)
    BY <1>1, <2>0, <2>3, <2>s DEF ReadPeriod, Goto
  <2>4. CASE MarkProcessing(c)
    <3>1. HasStatus(arg[c], {"DRAFT"})
      BY <2>4 DEF MarkProcessing, ControlInv, CallsInv
    <3>2. JobsOf(arg[c]) = {}
      BY <3>1 DEF JobsOf, ControlInv, QueueInv, HasStatus
    <3>3. \A d \in Calls : op'[d] = "enqueue" => d = c \/ op[d] = "enqueue"
      BY <2>0, <2>4 DEF MarkProcessing, Goto
    <3>4. UNCHANGED <<arg, job>>
      BY <2>4 DEF MarkProcessing, others
    <3>5. QED
      BY <3>2, <3>3, <3>4 DEF OneJob, JobsOf
  <2>5. CASE Enqueue(c)
    <3>1. op[c] = "enqueue" /\ arg[c] \in Periods /\ JobsOf(arg[c]) = {}
      BY <2>5 DEF Enqueue, ControlInv, CallsInv, HasStatus, Existing, OneJob
    <3>2. \A d \in Calls : op'[d] = "enqueue" => d # c /\ op[d] = "enqueue" /\ arg'[d] = arg[d]
      BY <2>0, <2>5 DEF Enqueue, Return, Goto
    <3>3. \A d \in Calls : op'[d] = "enqueue" => arg[d] # arg[c]
      BY <3>1, <3>2 DEF ControlInv, OneGenerates, Generating
    <3>4. CASE UNCHANGED job
      BY <1>1, <2>s, <3>2, <3>4
    <3>5. CASE Add(arg[c])
      <4>1. PICK j \in Jobs : /\ job[j].state = "free" /\ job'[j].data = arg[c]
                              /\ \A i \in Jobs : i # j => job'[i] = job[i]
        BY <1>0, <3>1, <3>5, AddEffect
      <4>2. \A i \in Jobs : job[i].state # "free" => job[i].data # arg[c]
        BY <3>1 DEF JobsOf
      <4>3. QED
        BY <3>2, <3>3, <4>1, <4>2 DEF OneJob, JobsOf
    <3>6. QED
      BY <2>5, <3>4, <3>5 DEF Enqueue
  <2>6. QED
    BY <1>3, <2>1, <2>2, <2>3, <2>4, <2>5 DEF CallStep
<1>4. ASSUME NEW k \in Consumers, Acts(k)
      PROVE  OneJob'
  <2>1. SameJobs
    BY <1>4, ActsKeepJobs
  <2>2. UNCHANGED <<op, arg>>
    BY <1>4 DEF Acts, RunStep, StartRun, ListWorkers, SumAttendance, UpsertPayslip,
                CompletePeriod, ReturnFromJob, ThrowFromJob, LoseJob, calls
  <2>3. QED
    BY <1>1, <2>1, <2>2
<1>5. QED
  BY <1>2, <1>3, <1>4 DEF Next, vars, calls, others, Acts, SetOvertime, WorkerJoins, WorkerLeaves, UpdateSalary

LEMMA OneRunStep ==
  ASSUME ControlInv, OneRun, "stalls" \notin Liberties, [Next]_vars
  PROVE  OneRun'
<1>0. JobType /\ \A i \in Consumers : RunOK(run[i])
  BY RunOKInv DEF ControlInv, Shape
<1>n. None \notin Jobs
  <2>1. Jobs \subseteq Int
    BY JobsAssumption
  <2>2. QED
    BY <2>1, NoneAssumption
<1>w. \A i \in Consumers : run[i].step # "idle" <=> run[i].job # None
  BY <1>0, <1>n DEF RunOK, OneRun
<1>u. ASSUME NEW k \in Consumers, NEW r, run' = [run EXCEPT ![k] = r]
      PROVE  run'[k] = r /\ \A i \in Consumers : i # k => run'[i] = run[i]
  BY <1>u DEF ControlInv, Shape
<1>1. ASSUME \A i \in Consumers : /\ run'[i].job = run[i].job /\ run'[i].period = run[i].period
                                  /\ run'[i].step = "idle" <=> run[i].step = "idle",
             \A j \in Jobs : job[j].state = "active" =>
               job'[j].state = "active" /\ job'[j].data = job[j].data
      PROVE  OneRun'
  BY <1>1 DEF OneRun
<1>2. CASE UNCHANGED <<run, job>>
  BY <1>1, <1>2
<1>3. ASSUME NEW c \in Calls, Enqueue(c), Add(arg[c]), UNCHANGED run
      PROVE  OneRun'
  <2>1. arg[c] \in Periods
    BY <1>3 DEF Enqueue, ControlInv, CallsInv, HasStatus, Existing
  <2>2. PICK i \in Jobs : job[i].state = "free" /\ \A l \in Jobs : l # i => job'[l] = job[l]
    BY <1>0, <1>3, <2>1, AddEffect
  <2>3. QED
    BY <1>1, <1>3, <2>2
<1>4. ASSUME NEW k \in Consumers, NEW j \in Jobs, StartRun(k, j)
      PROVE  OneRun'
  <2>1. Taken(j) /\ Only(j)
    BY <1>0, <1>4, TakeJob
  <2> DEFINE r == [Idle EXCEPT !.step = "workers", !.job = j, !.period = job[j].data]
  <2>2. /\ run'[k] = r /\ \A i \in Consumers : i # k => run'[i] = run[i]
        /\ run[k].step = "idle"
    BY <1>4, <1>u DEF StartRun
  <2>3. r.step = "workers" /\ r.job = j /\ r.period = job[j].data
    BY DEF Idle
  <2> HIDE DEF r
  <2>4. job'[j].state = "active" /\ job'[j].data = job[j].data
    BY <1>0, <2>1, JobRow DEF Taken
  <2>5. \A i \in Consumers : i # k /\ run[i].step # "idle" => run[i].job # j
    BY <2>1 DEF Taken, OneRun
  <2>6. \A i \in Consumers : i # k => run'[i].job # j
    BY <1>n, <1>w, <2>2, <2>5
  <2>7. \A i \in Consumers : run'[i].step # "idle" =>
          /\ run'[i].job \in Jobs
          /\ job'[run'[i].job].state = "active"
          /\ job'[run'[i].job].data = run'[i].period
    BY <2>1, <2>2, <2>3, <2>4, <2>5 DEF OneRun, Only
  <2>8. \A i, l \in Consumers : run'[i].step # "idle" /\ run'[i].job = run'[l].job => i = l
    BY <2>2, <2>3, <2>6 DEF OneRun
  <2>9. QED
    BY <2>7, <2>8 DEF OneRun
<1>5. ASSUME NEW k \in Consumers, ReturnFromJob(k) \/ ThrowFromJob(k) \/ LoseJob(k)
      PROVE  OneRun'
  <2>1. /\ run[k].step # "idle" /\ run[k].job \in Jobs /\ Only(run[k].job)
        /\ run' = [run EXCEPT ![k] = Idle]
    BY <1>5, EndOfRun
  <2>2. /\ run'[k].step = "idle" /\ run'[k].job = None
        /\ \A i \in Consumers : i # k => run'[i] = run[i]
    <3>1. run'[k] = Idle /\ \A i \in Consumers : i # k => run'[i] = run[i]
      BY <2>1, <1>u
    <3>2. QED
      BY <3>1 DEF Idle
  <2>3. \A i \in Consumers : i # k /\ run[i].step # "idle" => run[i].job # run[k].job
    BY <2>1 DEF OneRun
  <2>4. \A i \in Consumers : run'[i].step # "idle" =>
          /\ i # k
          /\ run'[i].job \in Jobs
          /\ job'[run'[i].job].state = "active"
          /\ job'[run'[i].job].data = run'[i].period
    BY <2>1, <2>2, <2>3 DEF OneRun, Only
  <2>5. \A i, l \in Consumers : run'[i].step # "idle" /\ run'[i].job = run'[l].job => i = l
    BY <1>w, <2>2, <2>4 DEF OneRun
  <2>6. QED
    BY <2>4, <2>5 DEF OneRun
<1>6. ASSUME NEW k \in Consumers,
             ListWorkers(k) \/ SumAttendance(k) \/ UpsertPayslip(k) \/ CompletePeriod(k)
      PROVE  OneRun'
  <2>0. DOMAIN run[k] = RunFields
    BY <1>0 DEF RunOK
  <2>1. CASE ListWorkers(k)
    <3> DEFINE r == [run[k] EXCEPT !.step = "sum", !.workers = active,
                       !.todo = {[worker |-> w, basic |-> salary[w]] : w \in active}]
    <3>0. run' = [run EXCEPT ![k] = r]
      BY <2>1 DEF ListWorkers
    <3>1. UNCHANGED job /\ run[k].step # "idle"
      BY <2>1 DEF ListWorkers
    <3>2. r.step # "idle" /\ r.job = run[k].job /\ r.period = run[k].period
      BY <2>0 DEF RunFields
    <3> HIDE DEF r
    <3>3. QED
      BY <1>1, <1>u, <3>0, <3>1, <3>2
  <2>2. CASE SumAttendance(k)
    <3>1. PICK e \in run[k].todo :
            LET over == OvertimeIn(e.worker, run[k].period)
                gross == GrossPay(e.basic, over)
            IN  run' = [run EXCEPT ![k] = [run[k] EXCEPT
                          !.step = "upsert",
                          !.todo = run[k].todo \ {e},
                          !.slip = [worker |-> e.worker, basic |-> e.basic, over |-> over],
                          !.gross = run[k].gross + gross,
                          !.net = run[k].net + gross - TaxDeduction(gross)]]
      BY <2>2 DEF SumAttendance
    <3> DEFINE over == OvertimeIn(e.worker, run[k].period)
               gross == GrossPay(e.basic, over)
               r == [run[k] EXCEPT !.step = "upsert", !.todo = run[k].todo \ {e},
                       !.slip = [worker |-> e.worker, basic |-> e.basic, over |-> over],
                       !.gross = run[k].gross + gross,
                       !.net = run[k].net + gross - TaxDeduction(gross)]
    <3>0. run' = [run EXCEPT ![k] = r]
      BY <3>1
    <3>2. UNCHANGED job /\ run[k].step # "idle"
      BY <2>2 DEF SumAttendance
    <3> HIDE DEF over, gross
    <3>3. r.step # "idle" /\ r.job = run[k].job /\ r.period = run[k].period
      BY <2>0 DEF RunFields
    <3> HIDE DEF r
    <3>4. QED
      BY <1>1, <1>u, <3>0, <3>2, <3>3
  <2>3. CASE UpsertPayslip(k)
    <3> DEFINE r == [run[k] EXCEPT !.step = "sum", !.slip = None]
    <3>1. run' = [run EXCEPT ![k] = r] /\ UNCHANGED job /\ run[k].step # "idle"
      BY <2>3 DEF UpsertPayslip
    <3>2. r.step # "idle" /\ r.job = run[k].job /\ r.period = run[k].period
      BY <2>0 DEF RunFields
    <3> HIDE DEF r
    <3>3. QED
      BY <1>1, <1>u, <3>1, <3>2
  <2>4. CASE CompletePeriod(k)
    <3> DEFINE r == [run[k] EXCEPT !.step = "return"]
    <3>1. run' = [run EXCEPT ![k] = r] /\ UNCHANGED job /\ run[k].step # "idle"
      BY <2>4 DEF CompletePeriod
    <3>2. r.step # "idle" /\ r.job = run[k].job /\ r.period = run[k].period
      BY <2>0 DEF RunFields
    <3> HIDE DEF r
    <3>3. QED
      BY <1>1, <1>u, <3>1, <3>2
  <2>5. QED
    BY <1>6, <2>1, <2>2, <2>3, <2>4
<1>7. CASE \E c \in Calls : CallStep(c)
  <2>1. UNCHANGED run
    BY <1>7 DEF CallStep, CheckOverlap, CreatePeriod, ReadPeriod, MarkProcessing, Enqueue
  <2>2. UNCHANGED job \/ \E c \in Calls : Enqueue(c) /\ Add(arg[c])
    BY <1>7 DEF CallStep, CheckOverlap, CreatePeriod, ReadPeriod, MarkProcessing, Enqueue
  <2>3. QED
    BY <1>2, <1>3, <2>1, <2>2
<1>8. QED
  BY <1>2, <1>4, <1>5, <1>6, <1>7 DEF Next, RunStep, vars, SetOvertime, WorkerJoins, WorkerLeaves, UpdateSalary

(* The payslip that a run writes; the others stay as they are. *)
LEMMA UpsertRow ==
  ASSUME ControlInv, NEW k \in Consumers, UpsertPayslip(k), NEW p \in Periods, NEW w \in Workers
  PROVE  payslip'[p][w] = IF p = run[k].period /\ w = run[k].slip.worker
                            THEN Upserted(payslip[p][w], run[k].slip) ELSE payslip[p][w]
<1> DEFINE q == run[k].period
           v == run[k].slip.worker
           new == Upserted(payslip[q][v], run[k].slip)
           row == [payslip[q] EXCEPT ![v] = new]
<1>1. q \in Periods /\ v \in Workers
  BY DEF UpsertPayslip, ControlInv, RunsInv, HasStatus, Existing
<1>2. payslip' = [payslip EXCEPT ![q] = row]
  BY DEF UpsertPayslip
<1>3. payslip'[p] = IF p = q THEN row ELSE payslip[p]
  <2> HIDE DEF row, q
  <2>1. QED
    BY <1>1, <1>2 DEF ControlInv, Shape
<1>4. row[w] = IF w = v THEN new ELSE payslip[q][w]
  <2>1. DOMAIN payslip[q] = Workers
    BY <1>1 DEF ControlInv, Shape
  <2> HIDE DEF new, v, q
  <2>2. QED
    BY <2>1
<1> HIDE DEF row
<1>5. QED
  BY <1>3, <1>4

LEMMA PaidByJobStep ==
  ASSUME ControlInv, JobsInv, "stalls" \notin Liberties, [Next]_vars
  PROVE  PaidByJob'
<1>0. JobType /\ OneJob /\ OneRun /\ PaidByJob
  BY DEF ControlInv, Shape, JobsInv
<1> SUFFICES ASSUME NEW p \in Periods, Rows(p)' # {}
             PROVE  /\ JobsOf(p)' # {}
                    /\ \A j \in JobsOf(p)' : job'[j].state = "waiting" => job'[j].stalls > 0
  BY DEF PaidByJob
<1> DEFINE Goal == /\ JobsOf(p)' # {}
                   /\ \A j \in JobsOf(p)' : job'[j].state = "waiting" => job'[j].stalls > 0
<1>1. ASSUME Rows(p) # {},
             \A j \in JobsOf(p)' : /\ j \in JobsOf(p)
                                   /\ job'[j].state = "waiting" =>
                                        job'[j].stalls > 0 \/ job'[j] = job[j]
      PROVE  Goal
  BY <1>0, <1>1, RepeatedStays DEF PaidByJob
<1>2. CASE \E k \in Consumers : UpsertPayslip(k) /\ run[k].period = p
  <2>1. PICK k \in Consumers : UpsertPayslip(k) /\ run[k].period = p
    BY <1>2
  <2>2. UNCHANGED job /\ run[k].step # "idle"
    BY <2>1 DEF UpsertPayslip
  <2>3. /\ run[k].job \in Jobs /\ job[run[k].job].state = "active"
        /\ job[run[k].job].data = p
    BY <1>0, <2>1, <2>2 DEF OneRun
  <2>4. \A j \in JobsOf(p) : j = run[k].job
    BY <1>0, <2>3 DEF OneJob, JobsOf
  <2>5. run[k].job \in JobsOf(p)
    BY <2>3 DEF JobsOf
  <2>6. QED
    BY <2>2, <2>3, <2>4, <2>5 DEF JobsOf
<1>3. CASE ~ \E k \in Consumers : UpsertPayslip(k) /\ run[k].period = p
  <2>1. Rows(p) # {}
    <3>1. CASE UNCHANGED payslip
      BY <3>1 DEF Rows
    <3>2. CASE \E k \in Consumers : UpsertPayslip(k)
      BY <1>3, <3>2, UpsertRow DEF Rows
    <3>3. QED
      BY <3>1, <3>2, PayslipChanges
  <2>2. CASE UNCHANGED job
    BY <1>1, <2>1, <2>2 DEF JobsOf
  <2>3. ASSUME NEW c \in Calls, Enqueue(c), Add(arg[c])
        PROVE  Goal
    <3>1. arg[c] \in Periods /\ JobsOf(arg[c]) = {}
      BY <1>0, <2>3 DEF Enqueue, ControlInv, CallsInv, HasStatus, Existing, OneJob
    <3>2. arg[c] # p
      BY <1>0, <2>1, <3>1 DEF PaidByJob
    <3>3. PICK j \in Jobs : /\ job[j].state = "free" /\ job'[j].data = arg[c]
                            /\ \A i \in Jobs : i # j => job'[i] = job[i]
      BY <1>0, <2>3, <3>1, AddEffect
    <3>4. QED
      BY <1>1, <2>1, <3>2, <3>3 DEF JobsOf
  <2>4. ASSUME NEW k \in Consumers, NEW j \in Jobs, StartRun(k, j)
        PROVE  Goal
    <3>1. Taken(j) /\ Only(j)
      BY <1>0, <2>4, TakeJob
    <3>2. job'[j].state = "active" /\ job'[j].data = job[j].data /\ job[j].state # "free"
      BY <1>0, <3>1, JobRow DEF Taken
    <3>3. QED
      BY <1>1, <2>1, <3>1, <3>2 DEF JobsOf, Only
  <2>5. ASSUME NEW k \in Consumers, ReturnFromJob(k) \/ ThrowFromJob(k) \/ LoseJob(k)
        PROVE  Goal
    <3> DEFINE j == run[k].job
    <3>1. /\ run[k].step # "idle" /\ j \in Jobs /\ Only(j)
          /\ Ended(j, "completed") \/ Ended(j, "failed") \/ Dropped(j)
      BY <1>0, <2>5, EndOfRun
    <3>2. job[j].state = "active"
      BY <1>0, <3>1 DEF OneRun
    <3> HIDE DEF j
    <3>3. job'[j].data = job[j].data /\ (job'[j].state = "waiting" => job'[j].stalls > 0)
      BY <1>0, <3>1, <3>2, JobRow DEF Ended, Dropped
    <3>4. QED
      BY <1>1, <2>1, <3>1, <3>2, <3>3 DEF JobsOf, Only
  <2>6. QED
    BY <2>2, <2>3, <2>4, <2>5, JobSteps
<1>4. QED
  BY <1>2, <1>3

(* Nobody who has left becomes active again. *)
LEMMA StaffGrows ==
  ASSUME ControlInv, [Next]_vars
  PROVE  hired \subseteq hired' /\ active' \cap hired \subseteq active
BY DEF Next, vars, others, CallStep, RunStep, CheckOverlap, CreatePeriod, ReadPeriod,
       MarkProcessing, Enqueue, StartRun, ListWorkers, SumAttendance, UpsertPayslip,
       CompletePeriod, ReturnFromJob, ThrowFromJob, LoseJob, WorkerJoins, WorkerLeaves,
       UpdateSalary, SetOvertime

LEMMA AwaitedBefore ==
  ASSUME ControlInv, [Next]_vars, NEW k \in Consumers, NEW w \in Workers, Awaited(run'[k], w)
  PROVE  Awaited(run[k], w) \/ w \in active
<1>0. DOMAIN run[k] = RunFields
  BY DEF ControlInv, Shape
<1>1. ASSUME NEW r, run' = [run EXCEPT ![k] = r]
      PROVE  run'[k] = r
  BY <1>1 DEF ControlInv, Shape
<1>2. ~ \E j \in Jobs : StartRun(k, j)
  <2>1. SUFFICES ASSUME NEW j \in Jobs, StartRun(k, j)
                 PROVE  FALSE
    OBVIOUS
  <2>2. run'[k] = [Idle EXCEPT !.step = "workers", !.job = j, !.period = job[j].data]
    BY <1>1, <2>1 DEF StartRun
  <2>3. QED
    BY <2>2 DEF Idle, Awaited
<1>3. CASE ListWorkers(k)
  <2> DEFINE list == {[worker |-> v, basic |-> salary[v]] : v \in active}
  <2>1. run'[k] = [run[k] EXCEPT !.step = "sum", !.workers = active, !.todo = list]
    BY <1>1, <1>3 DEF ListWorkers
  <2>2. run'[k].todo = list /\ run'[k].step = "sum"
    BY <1>0, <2>1 DEF RunFields
  <2>3. QED
    BY <2>2 DEF Awaited
<1>4. CASE SumAttendance(k)
  <2>1. PICK e \in run[k].todo :
          LET over == OvertimeIn(e.worker, run[k].period)
              gross == GrossPay(e.basic, over)
          IN  run' = [run EXCEPT ![k] = [run[k] EXCEPT
                     !.step = "upsert",
                     !.todo = run[k].todo \ {e},
                     !.slip = [worker |-> e.worker, basic |-> e.basic, over |-> over],
                     !.gross = run[k].gross + gross,
                     !.net = run[k].net + gross - TaxDeduction(gross)]]
    BY <1>4 DEF SumAttendance
  <2>2. PICK over, gross, net :
          run' = [run EXCEPT ![k] = [run[k] EXCEPT
                     !.step = "upsert",
                     !.todo = run[k].todo \ {e},
                     !.slip = [worker |-> e.worker, basic |-> e.basic, over |-> over],
                     !.gross = gross, !.net = net]]
    BY <2>1, Zenon
  <2>3. run'[k].todo = run[k].todo \ {e} /\ run'[k].slip.worker = e.worker
    BY <1>0, <1>1, <2>2 DEF RunFields
  <2>4. QED
    BY <2>3 DEF Awaited
<1>5. CASE UpsertPayslip(k)
  <2>1. run'[k] = [run[k] EXCEPT !.step = "sum", !.slip = None]
    BY <1>1, <1>5 DEF UpsertPayslip
  <2>2. run'[k].step = "sum" /\ run'[k].todo = run[k].todo
    BY <1>0, <2>1 DEF RunFields
  <2>3. QED
    BY <2>2 DEF Awaited
<1>6. CASE CompletePeriod(k)
  <2>1. run'[k] = [run[k] EXCEPT !.step = "return"]
    BY <1>1, <1>6 DEF CompletePeriod
  <2>2. run'[k].step = "return" /\ run'[k].todo = run[k].todo
    BY <1>0, <2>1 DEF RunFields
  <2>3. QED
    BY <2>2 DEF Awaited
<1>7. ~ (ReturnFromJob(k) \/ ThrowFromJob(k))
  BY <1>1 DEF ReturnFromJob, ThrowFromJob, Idle, Awaited
<1>8. CASE LoseJob(k)
  <2>1. run'[k] = Idle \/ run'[k] = [run[k] EXCEPT !.job = None]
    BY <1>1, <1>8 DEF LoseJob
  <2>2. run'[k] # Idle
    BY DEF Idle, Awaited
  <2>3. run'[k].step = run[k].step /\ run'[k].todo = run[k].todo /\ run'[k].slip = run[k].slip
    BY <1>0, <2>1, <2>2 DEF RunFields
  <2>4. QED
    BY <2>3 DEF Awaited
<1>9. CASE ~ Acts(k)
  BY <1>9, RunsChange, OthersKeepRun
<1>10. QED
  BY <1>2, <1>3, <1>4, <1>5, <1>6, <1>7, <1>8, <1>9 DEF Acts, RunStep

LEMMA StaffStep ==
  ASSUME ControlInv, StaffInv, [Next]_vars
  PROVE  StaffInv'
<1>1. hired \subseteq hired' /\ active \subseteq hired
  BY StaffGrows DEF ControlInv, Shape
<1>2. ASSUME NEW k \in Consumers, NEW w \in Workers, Awaited(run'[k], w)
      PROVE  w \in hired'
  BY <1>1, <1>2, AwaitedBefore DEF StaffInv
<1>3. ASSUME NEW p \in Periods, NEW w \in Rows(p)'
      PROVE  w \in hired'
  <2>1. w \in Workers /\ payslip'[p][w].status # "NONE"
    BY DEF Rows
  <2>2. CASE payslip'[p][w] = payslip[p][w]
    BY <1>1, <2>1, <2>2 DEF StaffInv, Rows
  <2>3. CASE payslip'[p][w] # payslip[p][w]
    <3>1. PICK k \in Consumers : UpsertPayslip(k)
      BY <2>3, PayslipChanges
    <3>2. w = run[k].slip.worker
      BY <2>1, <2>3, <3>1, UpsertRow
    <3>3. run[k].step = "upsert"
      BY <3>1 DEF UpsertPayslip
    <3>4. QED
      BY <1>1, <2>1, <3>2, <3>3 DEF StaffInv, Awaited
  <2>4. QED
    BY <2>2, <2>3
<1>4. QED
  BY <1>2, <1>3 DEF StaffInv, Awaited

LEMMA JobsStep ==
  ASSUME ControlInv, JobsInv, "generate" \notin Liberties, "stalls" \notin Liberties, [Next]_vars
  PROVE  JobsInv'
BY OneJobStep, OneRunStep, PaidByJobStep, StaffStep DEF JobsInv

LEMMA InitJobs == Init => JobsInv
BY NoneAssumption
DEF Init, JobsInv, JobsInit, OneJob, OneRun, PaidByJob, JobsOf, Rows, NoPayslip, Idle, StaffInv,
    Awaited

-----------------------------------------------------------------------------
(* Totals.  An amount in cents is near an exact one if they differ by half *)
(* a cent for each of n roundings, at most.                                *)
Near(cents, exact, n) ==
  /\ 2 * (Scale * cents) - 2 * exact <= Scale * n
  /\ 2 * exact - 2 * (Scale * cents) <= Scale * n

LEMMA CentsNear ==
  ASSUME NEW amount \in Nat
  PROVE  Near(Cents(amount), amount, 1)
<1> DEFINE d == 2 * Scale
           q == (2 * amount + Scale) \div d
<1>1. Scale \in Nat \ {0} /\ 2 * amount + Scale \in Nat /\ d \in Nat \ {0}
  BY AmountAssumption
<1>2. q \in Nat /\ d * q <= 2 * amount + Scale /\ 2 * amount + Scale < d * q + d
  <2> HIDE DEF d
  <2>1. QED
    BY <1>1, Quotient
<1>3. d * q = 2 * (Scale * q)
  <2> HIDE DEF q
  <2>1. QED
    BY <1>1, <1>2
<1>4. Cents(amount) = q
  BY DEF Cents
<1> HIDE DEF q
<1> DEFINE s == Scale * q
<1>5. s \in Nat /\ 2 * s <= 2 * amount + Scale /\ 2 * amount + Scale < 2 * s + 2 * Scale
  BY <1>1, <1>2, <1>3
<1> HIDE DEF s
<1>6. 2 * s - 2 * amount <= Scale /\ 2 * amount - 2 * s <= Scale
  BY <1>1, <1>5
<1>7. QED
  BY <1>1, <1>4, <1>6 DEF Near, s

LEMMA NearAdd ==
  ASSUME NEW a \in Int, NEW x \in Int, NEW n \in Int, NEW b \in Int, NEW y \in Int, NEW m \in Int,
         Near(a, x, n), Near(b, y, m)
  PROVE  Near(a + b, x + y, n + m)
<1> DEFINE sa == Scale * a
           sb == Scale * b
           sn == Scale * n
           sm == Scale * m
<1>1. Scale \in Int /\ sa \in Int /\ sb \in Int /\ sn \in Int /\ sm \in Int
  BY AmountAssumption
<1>2. Scale * (a + b) = sa + sb /\ Scale * (n + m) = sn + sm
  BY <1>1
<1>3. /\ 2 * sa - 2 * x <= sn /\ 2 * x - 2 * sa <= sn
      /\ 2 * sb - 2 * y <= sm /\ 2 * y - 2 * sb <= sm
  BY DEF Near
<1> HIDE DEF sa, sb, sn, sm
<1>4. /\ 2 * (sa + sb) - 2 * (x + y) <= sn + sm
      /\ 2 * (x + y) - 2 * (sa + sb) <= sn + sm
  BY <1>1, <1>3
<1>5. QED
  BY <1>2, <1>4 DEF Near

LEMMA NearDifference ==
  ASSUME NEW a \in Int, NEW x \in Int, NEW n \in Int, NEW b \in Int, NEW m \in Int,
         Near(a, x, n), Near(b, x, m)
  PROVE  2 * Difference(a, b) <= n + m
<1> DEFINE sa == Scale * a
           sb == Scale * b
           sn == Scale * n
           sm == Scale * m
<1>1. Scale \in Nat \ {0} /\ sa \in Int /\ sb \in Int /\ sn \in Int /\ sm \in Int
  BY AmountAssumption
<1>2. /\ 2 * sa - 2 * x <= sn /\ 2 * x - 2 * sa <= sn
      /\ 2 * sb - 2 * x <= sm /\ 2 * x - 2 * sb <= sm
  BY DEF Near
<1>3. 2 * (sa - sb) <= sn + sm /\ 2 * (sb - sa) <= sn + sm
  <2> HIDE DEF sa, sb, sn, sm
  <2>1. QED
    BY <1>1, <1>2
<1>4. /\ Scale * (2 * (a - b)) = 2 * (sa - sb)
      /\ Scale * (2 * (b - a)) = 2 * (sb - sa)
      /\ Scale * (n + m) = sn + sm
  BY <1>1
<1>5. ASSUME NEW u \in Int, NEW v \in Int, Scale * u <= Scale * v
      PROVE  u <= v
  BY <1>1, <1>5
<1>6. 2 * (a - b) <= n + m /\ 2 * (b - a) <= n + m
  BY <1>3, <1>4, <1>5
<1>7. QED
  BY <1>6 DEF Difference

(* The payslips of a period, their amounts, and the totals that a payroll  *)
(* stores.                                                                 *)
Paid(slips) == {w \in Workers : slips[w].status # "NONE"}
GrossOf(slips) == [w \in Workers |-> slips[w].gross]
NetOf(slips) == [w \in Workers |-> slips[w].net]

AddsUp(slips, gross, net) ==
  /\ 2 * Difference(gross, SumFunctionOnSet(GrossOf(slips), Paid(slips)))
       <= Cardinality(Paid(slips)) + 1
  /\ 2 * Difference(net, SumFunctionOnSet(NetOf(slips), Paid(slips)))
       <= Cardinality(Paid(slips)) + 1

(* What a run has written, and what it has added to the totals already for *)
(* the payslip that it is about to write.                                  *)
Written(r, slips) == {w \in Paid(slips) : ~ Awaited(r, w)}
NetPay(gross) == gross - TaxDeduction(gross)
Ahead(r) == IF r.step = "upsert" THEN GrossPay(r.slip.basic, r.slip.over) ELSE 0
AheadNet(r) == IF r.step = "upsert" THEN NetPay(GrossPay(r.slip.basic, r.slip.over)) ELSE 0

SumsSoFar(r, slips) ==
  /\ Near(SumFunctionOnSet(GrossOf(slips), Written(r, slips)), r.gross - Ahead(r),
          Cardinality(Written(r, slips)))
  /\ Near(SumFunctionOnSet(NetOf(slips), Written(r, slips)), r.net - AheadNet(r),
          Cardinality(Written(r, slips)))

(* Everybody once, and not again those whose payslip is being written. *)
Once(r) ==
  /\ \A d, e \in r.todo : d.worker = e.worker => d = e
  /\ r.step = "upsert" => \A e \in r.todo : e.worker # r.slip.worker

(* The premise of TotalsAddUp: a repetition comes to every payslip again.  *)
AllAgain(p) == Repeated(p) => Rows(p) \subseteq active

RunSums(r) ==
  LET p == r.period
  IN  /\ Once(r)
      /\ r.step = "workers" => r.gross = 0 /\ r.net = 0 /\ (Repeated(p) \/ Rows(p) = {})
      /\ r.step \in {"sum", "upsert"} /\ AllAgain(p) => SumsSoFar(r, payslip[p])
      /\ r.step = "return" /\ AllAgain(p) => AddsUp(payslip[p], period[p].gross, period[p].net)

SettledAddsUp ==
  \A p \in Existing :
    period[p].status = "COMPLETED" /\ Settled(p) /\ AllAgain(p)
      => AddsUp(payslip[p], period[p].gross, period[p].net)

RowsFinite == \A p \in Periods : IsFiniteSet(Rows(p))

SumsInv ==
  /\ RowsFinite
  /\ \A k \in Consumers : RunSums(run[k])
  /\ SettledAddsUp

LEMMA SumsImply == SettledAddsUp => TotalsAddUp
<1> SUFFICES ASSUME SettledAddsUp, NEW p \in Existing, period[p].status = "COMPLETED", Settled(p),
                    Repeated(p) => Rows(p) \subseteq active
             PROVE  LET Sum(f(_)) == SumFunctionOnSet([w \in Workers |-> f(payslip[p][w])], Rows(p))
                        slack == Cardinality(Rows(p)) + 1
                    IN  /\ 2 * Difference(period[p].gross, Sum(LAMBDA s : s.gross)) <= slack
                        /\ 2 * Difference(period[p].net, Sum(LAMBDA s : s.net)) <= slack
  BY DEF TotalsAddUp
<1>1. AddsUp(payslip[p], period[p].gross, period[p].net)
  BY DEF SettledAddsUp, AllAgain
<1>2. Rows(p) = Paid(payslip[p])
  BY DEF Rows, Paid
<1>3. QED
  BY <1>1, <1>2 DEF AddsUp, GrossOf, NetOf

-----------------------------------------------------------------------------
(* What a step leaves alone. *)

LEMMA AllAgainBefore ==
  ASSUME ControlInv, JobsInv, "stalls" \notin Liberties, [Next]_vars, NEW p \in Periods,
         AllAgain(p)'
  PROVE  AllAgain(p)
<1> SUFFICES ASSUME Repeated(p)
             PROVE  Rows(p) \subseteq active
  BY DEF AllAgain
<1>1. Rows(p)' \subseteq active'
  BY RepeatedStays DEF AllAgain, JobsInv
<1>2. QED
  BY <1>1, RowsGrow, StaffGrows DEF JobsInv, StaffInv

LEMMA OneRunOfPeriod ==
  ASSUME JobsInv, NEW i \in Consumers, NEW k \in Consumers, run[i].step # "idle",
         run[k].step # "idle", run[i].period = run[k].period
  PROVE  i = k
<1>1. \A l \in {i, k} : /\ run[l].job \in Jobs /\ job[run[l].job].state # "free"
                        /\ job[run[l].job].data = run[l].period
  BY DEF JobsInv, OneRun
<1>2. run[i].job = run[k].job
  BY <1>1 DEF JobsInv, OneJob
<1>3. QED
  BY <1>2 DEF JobsInv, OneRun

TotalsKept(p) == period'[p].gross = period[p].gross /\ period'[p].net = period[p].net

LEMMA TotalsChange ==
  ASSUME ControlInv, [Next]_vars, NEW p \in Existing
  PROVE  TotalsKept(p) \/ \E k \in Consumers : CompletePeriod(k) /\ run[k].period = p
<1>0. p \in Periods /\ DOMAIN period[p] = PeriodFields /\ DOMAIN period = Periods
  BY DEF Existing, ControlInv, Shape
<1>1. CASE UNCHANGED period
  BY <1>1 DEF TotalsKept
<1>2. CASE \E c \in Calls : CreatePeriod(c)
  BY <1>0, <1>2 DEF CreatePeriod, TotalsKept
<1>3. CASE \E c \in Calls : MarkProcessing(c)
  BY <1>0, <1>3 DEF MarkProcessing, SetStatus, TotalsKept, PeriodFields
<1>4. CASE \E k \in Consumers : CompletePeriod(k)
  BY <1>0, <1>4 DEF CompletePeriod, TotalsKept
<1>5. QED
  BY <1>1, <1>2, <1>3, <1>4, StatusChanges

LEMMA PayslipsChange ==
  ASSUME ControlInv, [Next]_vars, NEW p \in Periods
  PROVE  payslip'[p] = payslip[p] \/ \E k \in Consumers : UpsertPayslip(k) /\ run[k].period = p
BY PayslipChanges DEF UpsertPayslip, ControlInv, Shape

(* Nobody but a run itself touches the rows of its period. *)
LEMMA OthersKeepSums ==
  ASSUME ControlInv, JobsInv, SumsInv, "stalls" \notin Liberties, [Next]_vars,
         NEW i \in Consumers, ~ Acts(i)
  PROVE  RunSums(run[i])'
<1>1. run'[i] = run[i]
  BY RunsChange, OthersKeepRun
<1>2. RunSums(run[i])
  BY DEF SumsInv
<1>3. CASE run[i].step = "idle"
  BY <1>1, <1>2, <1>3 DEF RunSums, Once
<1>4. CASE run[i].step # "idle"
  <2>0. run[i].period \in Existing
    BY <1>4 DEF ControlInv, RunsInv, HasStatus
  <2>1. PICK p \in Periods : p = run[i].period /\ p \in Existing
    BY <2>0 DEF Existing
  <2>2. \A k \in Consumers : Acts(k) /\ run[k].step # "idle" => run[k].period # p
    BY <1>4, <2>1, OneRunOfPeriod
  <2>3. payslip'[p] = payslip[p]
    BY <2>1, <2>2, PayslipsChange DEF Acts, RunStep, UpsertPayslip
  <2>4. TotalsKept(p)
    BY <2>1, <2>2, TotalsChange DEF Acts, RunStep, CompletePeriod
  <2>5. /\ Repeated(p) => Repeated(p)'
        /\ AllAgain(p)' => AllAgain(p)
    BY <2>1, RepeatedStays, AllAgainBefore DEF JobsInv
  <2>6. Rows(p)' = Rows(p)
    BY <2>3 DEF Rows
  <2>7. QED
    BY <1>1, <1>2, <2>1, <2>3, <2>4, <2>5, <2>6 DEF RunSums, TotalsKept
<1>5. QED
  BY <1>3, <1>4

-----------------------------------------------------------------------------
(* The steps of a run. *)

LEMMA SumsAreInt ==
  ASSUME AmountTypes, NEW p \in Periods, NEW S, S \subseteq Rows(p), IsFiniteSet(S)
  PROVE  /\ SumFunctionOnSet(GrossOf(payslip[p]), S) \in Int
         /\ SumFunctionOnSet(NetOf(payslip[p]), S) \in Int
         /\ Cardinality(S) \in Nat
<1>1. \A w \in S : payslip[p][w] \in PayslipRows /\ w \in Workers
  BY DEF Rows, AmountTypes
<1>2. \A w \in S : GrossOf(payslip[p])[w] \in Int /\ NetOf(payslip[p])[w] \in Int
  BY <1>1 DEF GrossOf, NetOf, PayslipRows
<1>3. QED
  BY <1>2, SumIsInt, FS_CardinalityType

LEMMA StartSums ==
  ASSUME ControlInv, JobsInv, AmountTypes, SumsInv, "stalls" \notin Liberties, [Next]_vars,
         NEW i \in Consumers, NEW j \in Jobs, StartRun(i, j)
  PROVE  RunSums(run[i])'
<1> DEFINE r == [Idle EXCEPT !.step = "workers", !.job = j, !.period = job[j].data]
<1>0. run'[i] = r
  BY DEF StartRun, ControlInv, Shape
<1>p. PICK p \in Periods : p = job[j].data
  BY DEF StartRun, Take, ControlInv, QueueInv, HasStatus, Existing
<1>1. r.step = "workers" /\ r.gross = 0 /\ r.net = 0 /\ r.todo = {} /\ r.period = p
  BY <1>p DEF Idle
<1> HIDE DEF r
<1>2. job[j].state = "waiting" /\ j \in JobsOf(p)
  BY <1>p DEF StartRun, Take, JobsOf
<1>3. Repeated(p) \/ Rows(p) = {}
  BY <1>2 DEF JobsInv, PaidByJob, Repeated
<1>4. Repeated(p)' \/ Rows(p)' = {}
  <2>1. Rows(p)' = Rows(p)
    BY DEF StartRun, tables, Rows
  <2>2. Repeated(p) => Repeated(p)'
    BY RepeatedStays DEF JobsInv
  <2>3. QED
    BY <1>3, <2>1, <2>2
<1>5. QED
  BY <1>0, <1>1, <1>4 DEF RunSums, Once

LEMMA ListSums ==
  ASSUME ControlInv, JobsInv, AmountTypes, SumsInv, "stalls" \notin Liberties, [Next]_vars,
         NEW i \in Consumers, ListWorkers(i)
  PROVE  RunSums(run[i])'
<1> DEFINE list == {[worker |-> w, basic |-> salary[w]] : w \in active}
           r == [run[i] EXCEPT !.step = "sum", !.workers = active, !.todo = list]
<1>0. run'[i] = r /\ run[i].step = "workers"
  BY DEF ListWorkers, ControlInv, Shape
<1>p. PICK p \in Periods : p = run[i].period
  BY <1>0 DEF ControlInv, RunsInv, HasStatus, Existing
<1>1. r.step = "sum" /\ r.todo = list /\ r.gross = run[i].gross /\ r.net = run[i].net /\ r.period = p
  <2>1. DOMAIN run[i] = RunFields
    BY DEF ControlInv, Shape
  <2> HIDE DEF list
  <2>2. QED
    BY <1>p, <2>1 DEF RunFields
<1> HIDE DEF r
<1>2. run[i].gross = 0 /\ run[i].net = 0 /\ (Repeated(p) \/ Rows(p) = {})
  BY <1>0, <1>p DEF SumsInv, RunSums
<1>3. Once(r)
  BY <1>1 DEF Once
<1>4. UNCHANGED <<payslip, active>>
  BY DEF ListWorkers, tables, others
<1>5. ASSUME AllAgain(p)'
      PROVE  SumsSoFar(r, payslip'[p])
  <2>1. Rows(p) \subseteq active
    BY <1>2, <1>5, AllAgainBefore DEF AllAgain
  <2>2. \A w \in active : Awaited(r, w)
    <3>1. \A w \in active : [worker |-> w, basic |-> salary[w]] \in r.todo
      BY <1>1
    <3>2. QED
      BY <3>1 DEF Awaited
  <2>3. Written(r, payslip'[p]) = {}
    BY <1>4, <2>1, <2>2 DEF Written, Paid, Rows
  <2>4. Ahead(r) = 0 /\ AheadNet(r) = 0
    BY <1>1 DEF Ahead, AheadNet
  <2>5. Near(0, 0, 0)
    BY AmountAssumption DEF Near
  <2>6. QED
    BY <1>1, <1>2, <2>3, <2>4, <2>5, SumEmpty, FS_EmptySet DEF SumsSoFar
<1> HIDE DEF list
<1>6. QED
  BY <1>0, <1>1, <1>3, <1>5 DEF RunSums

LEMMA AttendanceSums ==
  ASSUME ControlInv, JobsInv, AmountTypes, SumsInv, "stalls" \notin Liberties, [Next]_vars,
         NEW i \in Consumers, SumAttendance(i)
  PROVE  RunSums(run[i])'
<1>p. PICK p \in Periods : p = run[i].period
  BY DEF SumAttendance, ControlInv, RunsInv, HasStatus, Existing
<1>0. /\ run[i].step = "sum" /\ Once(run[i]) /\ (AllAgain(p) => SumsSoFar(run[i], payslip[p]))
      /\ run[i] \in Runs /\ overtime \in [Attendance -> Overtimes]
  BY <1>p DEF SumAttendance, SumsInv, RunSums, AmountTypes
<1>e. PICK e \in run[i].todo :
        LET over == OvertimeIn(e.worker, run[i].period)
            gross == GrossPay(e.basic, over)
        IN  run' = [run EXCEPT ![i] = [run[i] EXCEPT
                      !.step = "upsert",
                      !.todo = run[i].todo \ {e},
                      !.slip = [worker |-> e.worker, basic |-> e.basic, over |-> over],
                      !.gross = run[i].gross + gross,
                      !.net = run[i].net + gross - TaxDeduction(gross)]]
  BY DEF SumAttendance
<1> DEFINE over == OvertimeIn(e.worker, run[i].period)
           g == GrossPay(e.basic, over)
           t == TaxDeduction(g)
           slip == [worker |-> e.worker, basic |-> e.basic, over |-> over]
           gross == run[i].gross + g
           net == run[i].net + g - t
           r == [run[i] EXCEPT !.step = "upsert", !.todo = run[i].todo \ {e}, !.slip = slip,
                               !.gross = gross, !.net = net]
<1>1. run'[i] = r
  BY <1>e DEF ControlInv, Shape
<1>2. over \in Nat /\ e.basic \in Nat /\ run[i].gross \in Nat /\ run[i].net \in Nat
  BY <1>0, OvertimeIsNat, AmountAssumption DEF Runs
<1>3. g \in Nat /\ t \in Nat
  <2> HIDE DEF over
  <2>1. g \in Nat
    BY <1>2, PayIsNat
  <2> HIDE DEF g
  <2>2. QED
    BY <2>1, TaxIsPart
<1>4. slip.worker = e.worker /\ GrossPay(slip.basic, slip.over) = g
  OBVIOUS
<1> HIDE DEF over, slip
<1>5. /\ r.step = "upsert" /\ r.todo = run[i].todo \ {e} /\ r.slip = slip
      /\ r.gross = gross /\ r.net = net /\ r.period = p
  <2>1. DOMAIN run[i] = RunFields
    BY DEF ControlInv, Shape
  <2> HIDE DEF gross, net
  <2>2. QED
    BY <1>p, <2>1 DEF RunFields
<1> HIDE DEF r
<1>6. Once(r)
  BY <1>0, <1>4, <1>5 DEF Once
<1>7. \A w : Awaited(r, w) <=> Awaited(run[i], w)
  BY <1>0, <1>4, <1>5 DEF Awaited
<1>8. Written(r, payslip[p]) = Written(run[i], payslip[p])
  BY <1>7 DEF Written
<1>9. /\ r.gross - Ahead(r) = run[i].gross - Ahead(run[i])
      /\ r.net - AheadNet(r) = run[i].net - AheadNet(run[i])
  <2>1. Ahead(run[i]) = 0 /\ AheadNet(run[i]) = 0
    BY <1>0 DEF Ahead, AheadNet
  <2>2. Ahead(r) = g /\ AheadNet(r) = g - t
    BY <1>4, <1>5 DEF Ahead, AheadNet, NetPay
  <2> HIDE DEF g, t
  <2>3. gross - g = run[i].gross - 0 /\ net - (g - t) = run[i].net - 0
    BY <1>2, <1>3
  <2>4. QED
    BY <1>5, <2>1, <2>2, <2>3
<1>10. AllAgain(p)' => SumsSoFar(r, payslip[p])
  BY <1>0, <1>8, <1>9, AllAgainBefore DEF SumsSoFar
<1>11. payslip' = payslip
  BY DEF SumAttendance, tables
<1>12. QED
  BY <1>1, <1>5, <1>6, <1>10, <1>11 DEF RunSums

(* Writing a payslip adds what has been rounded to the sums of what has    *)
(* been written.                                                           *)
LEMMA WrittenNear ==
  ASSUME NEW f, NEW h, NEW W, IsFiniteSet(W), NEW w, w \notin W, NEW amount \in Nat,
         NEW total \in Int, \A v \in W : f[v] \in Int /\ h[v] = f[v], h[w] = Cents(amount),
         Near(SumFunctionOnSet(f, W), total - amount, Cardinality(W))
  PROVE  Near(SumFunctionOnSet(h, W \cup {w}), total, Cardinality(W \cup {w}))
<1>1. SumFunctionOnSet(f, W) \in Int /\ SumFunctionOnSet(h, W) = SumFunctionOnSet(f, W)
  BY SumIsInt, SumEqual
<1>2. Cents(amount) \in Nat
  BY CentsAreNat
<1>3. SumFunctionOnSet(h, W \cup {w}) = SumFunctionOnSet(f, W) + Cents(amount)
  <2>1. \A v \in W \cup {w} : h[v] \in Int
    BY <1>2
  <2>2. QED
    BY <1>1, <2>1, SumAdd
<1>4. Cardinality(W) \in Nat /\ Cardinality(W \cup {w}) = Cardinality(W) + 1
  BY FS_CardinalityType, FS_AddElement
<1>5. Near(SumFunctionOnSet(f, W) + Cents(amount), (total - amount) + amount, Cardinality(W) + 1)
  BY <1>1, <1>2, <1>4, CentsNear, NearAdd
<1>6. (total - amount) + amount = total
  OBVIOUS
<1>7. QED
  BY <1>3, <1>4, <1>5, <1>6

LEMMA UpsertSums ==
  ASSUME ControlInv, JobsInv, AmountTypes, SumsInv, "stalls" \notin Liberties, [Next]_vars,
         NEW i \in Consumers, UpsertPayslip(i)
  PROVE  RunSums(run[i])'
<1>p. PICK p \in Periods : p = run[i].period
  BY DEF UpsertPayslip, ControlInv, RunsInv, HasStatus, Existing
<1> DEFINE r == [run[i] EXCEPT !.step = "sum", !.slip = None]
           slip == run[i].slip
           w == slip.worker
           g == GrossPay(slip.basic, slip.over)
           t == TaxDeduction(g)
           slips == payslip[p]
<1>0. /\ run[i].step = "upsert" /\ Once(run[i]) /\ (AllAgain(p) => SumsSoFar(run[i], slips))
      /\ run[i] \in Runs /\ slip \in Slips /\ slips \in [Workers -> PayslipRows]
  BY <1>p DEF UpsertPayslip, SumsInv, RunSums, AmountTypes
<1>1. run'[i] = r
  BY DEF UpsertPayslip, ControlInv, Shape
<1>2. /\ r.step = "sum" /\ r.todo = run[i].todo /\ r.gross = run[i].gross /\ r.net = run[i].net
      /\ r.period = p
  BY <1>p DEF RunFields, ControlInv, Shape
<1> HIDE DEF r
<1>3. Once(r)
  BY <1>0, <1>2 DEF Once
<1>4. w \in Workers /\ slip.basic \in Nat /\ slip.over \in Nat
  BY <1>0, AmountAssumption DEF Slips
<1> HIDE DEF w
<1>5. g \in Nat /\ t \in Nat /\ g - t \in Nat
  <2>1. g \in Nat
    BY <1>4, PayIsNat
  <2> HIDE DEF g
  <2>2. QED
    BY <2>1, TaxIsPart
<1>6. \A v \in Workers : payslip'[p][v] = IF v = w THEN Upserted(slips[v], slip) ELSE slips[v]
  BY <1>p, UpsertRow DEF w
<1>7. /\ \A v \in Workers : v # w => payslip'[p][v] = slips[v]
      /\ payslip'[p][w].status = "DRAFT" /\ payslip'[p][w].gross = Cents(g)
      /\ payslip'[p][w].net = Cents(g - t)
  <2> DEFINE row == Upserted(slips[w], slip)
  <2>1. row.status = "DRAFT" /\ row.gross = Cents(g) /\ row.net = Cents(g - t)
    BY DEF Upserted
  <2>2. payslip'[p][w] = row
    BY <1>4, <1>6
  <2> HIDE DEF row
  <2>3. QED
    BY <1>6, <2>1, <2>2
<1>8. \A v : Awaited(r, v) <=> Awaited(run[i], v) /\ v # w
  BY <1>0, <1>2 DEF Awaited, Once, w
<1> DEFINE W == Written(run[i], slips)
<1>9. Written(r, payslip'[p]) = W \cup {w} /\ w \notin W /\ W \subseteq Rows(p)
  <2>1. w \notin W /\ Awaited(run[i], w)
    BY <1>0 DEF Written, Awaited, w
  <2>2. \A v \in Workers : v \in Written(r, payslip'[p]) <=> v \in W \/ v = w
    BY <1>4, <1>7, <1>8 DEF Written, Paid
  <2>3. Written(r, payslip'[p]) \subseteq Workers /\ W \subseteq Workers
    BY DEF Written, Paid
  <2>4. QED
    BY <1>4, <2>1, <2>2, <2>3 DEF Written, Paid, Rows
<1>10. ASSUME AllAgain(p)'
       PROVE  SumsSoFar(r, payslip'[p])
  <2>1. /\ Near(SumFunctionOnSet(GrossOf(slips), W), run[i].gross - g, Cardinality(W))
        /\ Near(SumFunctionOnSet(NetOf(slips), W), run[i].net - (g - t), Cardinality(W))
    BY <1>0, <1>10, AllAgainBefore DEF SumsSoFar, Ahead, AheadNet, NetPay
  <2>2. IsFiniteSet(W)
    BY <1>9, FS_Subset DEF SumsInv, RowsFinite
  <2>3. \A v \in W : /\ v \in Workers /\ v # w
                     /\ slips[v].gross \in Int /\ slips[v].net \in Int
    BY <1>0, <1>9 DEF Rows, PayslipRows
  <2>4. run[i].gross \in Int /\ run[i].net \in Int
    BY <1>0 DEF Runs
  <2> DEFINE f1 == GrossOf(slips)
             h1 == GrossOf(payslip'[p])
             f2 == NetOf(slips)
             h2 == NetOf(payslip'[p])
  <2>5. /\ \A v \in W : f1[v] \in Int /\ h1[v] = f1[v] /\ f2[v] \in Int /\ h2[v] = f2[v]
        /\ h1[w] = Cents(g) /\ h2[w] = Cents(g - t)
    BY <1>4, <1>7, <2>3 DEF GrossOf, NetOf
  <2> HIDE DEF f1, h1, f2, h2, W, g, t
  <2>6. /\ Near(SumFunctionOnSet(h1, W \cup {w}), run[i].gross, Cardinality(W \cup {w}))
        /\ Near(SumFunctionOnSet(h2, W \cup {w}), run[i].net, Cardinality(W \cup {w}))
    <3>1. Near(SumFunctionOnSet(f1, W), run[i].gross - g, Cardinality(W))
      BY <2>1 DEF f1
    <3>2. Near(SumFunctionOnSet(f2, W), run[i].net - (g - t), Cardinality(W))
      BY <2>1 DEF f2
    <3>3. Near(SumFunctionOnSet(h1, W \cup {w}), run[i].gross, Cardinality(W \cup {w}))
      BY <1>5, <1>9, <2>2, <2>4, <2>5, <3>1, WrittenNear
    <3> DEFINE n == g - t
    <3>4. n \in Nat /\ h2[w] = Cents(n) /\ Near(SumFunctionOnSet(f2, W), run[i].net - n, Cardinality(W))
      BY <1>5, <2>5, <3>2
    <3> HIDE DEF n
    <3>5. Near(SumFunctionOnSet(h2, W \cup {w}), run[i].net, Cardinality(W \cup {w}))
      BY <1>9, <2>2, <2>4, <2>5, <3>4, WrittenNear
    <3>6. QED
      BY <3>3, <3>5
  <2>7. Ahead(r) = 0 /\ AheadNet(r) = 0
    BY <1>2 DEF Ahead, AheadNet
  <2>8. run[i].gross - 0 = run[i].gross /\ run[i].net - 0 = run[i].net
    BY <2>4
  <2>9. QED
    BY <1>2, <1>9, <2>6, <2>7, <2>8 DEF SumsSoFar, h1, h2
<1>11. QED
  BY <1>1, <1>2, <1>3, <1>10 DEF RunSums

LEMMA CompleteSums ==
  ASSUME ControlInv, JobsInv, AmountTypes, SumsInv, "stalls" \notin Liberties, [Next]_vars,
         NEW i \in Consumers, CompletePeriod(i)
  PROVE  RunSums(run[i])'
<1>p. PICK p \in Periods : p = run[i].period
  BY DEF CompletePeriod, ControlInv, RunsInv, HasStatus, Existing
<1> DEFINE r == [run[i] EXCEPT !.step = "return"]
           slips == payslip[p]
           G == SumFunctionOnSet(GrossOf(slips), Paid(slips))
           N == SumFunctionOnSet(NetOf(slips), Paid(slips))
           n == Cardinality(Paid(slips))
<1>0. /\ run[i].step = "sum" /\ run[i].todo = {} /\ (AllAgain(p) => SumsSoFar(run[i], slips))
      /\ run[i] \in Runs
  BY <1>p DEF CompletePeriod, SumsInv, RunSums, AmountTypes
<1>1. run'[i] = r /\ UNCHANGED payslip
  BY DEF CompletePeriod, ControlInv, Shape
<1>2. r.step = "return" /\ r.todo = {} /\ r.period = p
  BY <1>0, <1>p DEF RunFields, ControlInv, Shape
<1> HIDE DEF r
<1>3. period'[p].gross = Cents(run[i].gross) /\ period'[p].net = Cents(run[i].net)
  <2>1. DOMAIN period[p] = PeriodFields /\ DOMAIN period = Periods
    BY DEF ControlInv, Shape
  <2>2. period'[p] = [period[p] EXCEPT !.status = "COMPLETED", !.gross = Cents(run[i].gross),
                                       !.net = Cents(run[i].net)]
    BY <1>p, <2>1 DEF CompletePeriod
  <2>3. QED
    BY <2>1, <2>2 DEF PeriodFields
<1>4. ASSUME AllAgain(p)'
      PROVE  AddsUp(slips, period'[p].gross, period'[p].net)
  <2>1. Written(run[i], slips) = Paid(slips)
    BY <1>0 DEF Written, Awaited
  <2>2. run[i].gross \in Nat /\ run[i].net \in Nat
    BY <1>0 DEF Runs
  <2>3. Ahead(run[i]) = 0 /\ AheadNet(run[i]) = 0
    BY <1>0 DEF Ahead, AheadNet
  <2>4. run[i].gross - 0 = run[i].gross /\ run[i].net - 0 = run[i].net
    BY <2>2
  <2>5. Near(G, run[i].gross, n) /\ Near(N, run[i].net, n)
    BY <1>0, <1>4, <2>1, <2>3, <2>4, AllAgainBefore DEF SumsSoFar
  <2>6. G \in Int /\ N \in Int /\ n \in Nat
    <3>1. Paid(slips) = Rows(p)
      BY DEF Paid, Rows
    <3>2. IsFiniteSet(Rows(p))
      BY DEF SumsInv, RowsFinite
    <3>3. QED
      BY <3>1, <3>2, SumsAreInt
  <2> HIDE DEF G, N, n
  <2>7. /\ Near(Cents(run[i].gross), run[i].gross, 1) /\ Cents(run[i].gross) \in Int
        /\ Near(Cents(run[i].net), run[i].net, 1) /\ Cents(run[i].net) \in Int
    BY <2>2, CentsNear, CentsAreNat
  <2>8. /\ 2 * Difference(Cents(run[i].gross), G) <= 1 + n
        /\ 2 * Difference(Cents(run[i].net), N) <= 1 + n
    BY <2>2, <2>5, <2>6, <2>7, NearDifference
  <2>9. 1 + n = n + 1
    BY <2>6
  <2>10. QED
    BY <1>3, <2>8, <2>9 DEF AddsUp, G, N, n
<1>5. QED
  BY <1>1, <1>2, <1>4 DEF RunSums, Once

LEMMA EndSums ==
  ASSUME ControlInv, JobsInv, "stalls" \notin Liberties,
         NEW i \in Consumers, ReturnFromJob(i) \/ ThrowFromJob(i) \/ LoseJob(i)
  PROVE  RunSums(run[i])'
<1>1. run'[i] = Idle
  BY EndOfRun DEF JobsInv, ControlInv, Shape
<1>2. Idle.step = "idle" /\ Idle.todo = {}
  BY DEF Idle
<1>3. QED
  BY <1>1, <1>2 DEF RunSums, Once

LEMMA RowsStayFinite ==
  ASSUME ControlInv, RowsFinite, [Next]_vars
  PROVE  RowsFinite'
<1> SUFFICES ASSUME NEW p \in Periods
             PROVE  IsFiniteSet(Rows(p)')
  BY DEF RowsFinite
<1>1. CASE UNCHANGED payslip
  <2>1. Rows(p)' = Rows(p)
    BY <1>1 DEF Rows
  <2>2. QED
    BY <2>1 DEF RowsFinite
<1>2. ASSUME NEW k \in Consumers, UpsertPayslip(k)
      PROVE  IsFiniteSet(Rows(p)')
  <2>1. PICK w : w = run[k].slip.worker
    OBVIOUS
  <2>2. Rows(p)' \subseteq Rows(p) \cup {w}
    BY <1>2, <2>1, UpsertRow DEF Rows
  <2>3. IsFiniteSet(Rows(p) \cup {w})
    BY FS_AddElement DEF RowsFinite
  <2>4. QED
    BY <2>2, <2>3, FS_Subset
<1>3. QED
  BY <1>1, <1>2, PayslipChanges

(* A total that has been added up stays: who would change it has a job     *)
(* that is active, so that the period is not settled.                      *)
LEMMA SettledStep ==
  ASSUME ControlInv, JobsInv, SumsInv, "stalls" \notin Liberties, [Next]_vars
  PROVE  SettledAddsUp'
<1>0. JobType /\ OneJob /\ OneRun
  BY DEF ControlInv, Shape, JobsInv
<1> SUFFICES ASSUME NEW p \in Periods, p \in Existing', period'[p].status = "COMPLETED",
                    Settled(p)', AllAgain(p)'
             PROVE  AddsUp(payslip'[p], period'[p].gross, period'[p].net)
  BY DEF SettledAddsUp, Existing
<1>1. AllAgain(p)
  BY AllAgainBefore
<1>2. ASSUME p \in Existing, period[p].status = "COMPLETED", Settled(p),
             payslip'[p] = payslip[p], TotalsKept(p)
      PROVE  AddsUp(payslip'[p], period'[p].gross, period'[p].net)
  BY <1>1, <1>2 DEF SumsInv, SettledAddsUp, TotalsKept
<1>s. ASSUME NEW j \in Jobs, job'[j].state # "free", job'[j].data = p
      PROVE  job'[j].state = "completed"
  BY <1>s DEF Settled, JobsOf
<1>3. ASSUME NEW k \in Consumers, UpsertPayslip(k) \/ CompletePeriod(k), run[k].period = p
      PROVE  FALSE
  <2>1. UNCHANGED job /\ run[k].step # "idle"
    BY <1>3 DEF UpsertPayslip, CompletePeriod
  <2>2. run[k].job \in Jobs /\ job[run[k].job].state = "active" /\ job[run[k].job].data = p
    BY <1>0, <1>3, <2>1 DEF OneRun
  <2>3. QED
    BY <1>s, <2>1, <2>2
<1>4. payslip'[p] = payslip[p]
  BY <1>3, PayslipsChange
<1>5. p \in Existing /\ period[p].status = "COMPLETED" /\ TotalsKept(p)
  <2>1. CASE UNCHANGED period
    BY <2>1 DEF Existing, TotalsKept
  <2>2. CASE \E c \in Calls : CreatePeriod(c)
    BY <2>2 DEF CreatePeriod, Existing, TotalsKept, ControlInv, Shape
  <2>3. CASE \E c \in Calls : MarkProcessing(c)
    BY <2>3 DEF MarkProcessing, SetStatus, Existing, TotalsKept, ControlInv, Shape, PeriodFields
  <2>4. CASE \E k \in Consumers : CompletePeriod(k)
    BY <1>3, <2>4 DEF CompletePeriod, Existing, TotalsKept, ControlInv, Shape
  <2>5. QED
    BY <2>1, <2>2, <2>3, <2>4, StatusChanges
<1>6. CASE Settled(p)
  BY <1>2, <1>4, <1>5, <1>6
<1>7. CASE ~ Settled(p)
  <2>1. PICK j \in Jobs : job[j].state \notin {"free", "completed"} /\ job[j].data = p
    BY <1>7 DEF Settled, JobsOf
  <2>2. job'[j].state = "completed" /\ job'[j] # job[j]
    BY <1>0, <1>s, <2>1, JobsAreKept DEF JobKept
  <2>3. ~ \E c \in Calls : Enqueue(c) /\ Add(arg[c])
    <3>1. SUFFICES ASSUME NEW c \in Calls, Enqueue(c), Add(arg[c])
                   PROVE  FALSE
      OBVIOUS
    <3>2. arg[c] \in Periods
      BY <3>1 DEF Enqueue, ControlInv, CallsInv, HasStatus, Existing
    <3>3. PICK i \in Jobs : job[i].state = "free" /\ \A l \in Jobs : l # i => job'[l] = job[l]
      BY <1>0, <3>1, <3>2, AddEffect
    <3>4. QED
      BY <2>1, <2>2, <3>3
  <2>4. ~ \E k \in Consumers, i \in Jobs : StartRun(k, i)
    <3>1. SUFFICES ASSUME NEW k \in Consumers, NEW i \in Jobs, StartRun(k, i)
                   PROVE  FALSE
      OBVIOUS
    <3>2. Taken(i) /\ Only(i)
      BY <1>0, <3>1, TakeJob
    <3>3. i = j /\ job'[j].state = "active"
      BY <1>0, <2>2, <3>2, JobRow DEF Taken, Only
    <3>4. QED
      BY <2>2, <3>3
  <2>5. PICK k \in Consumers : ReturnFromJob(k) \/ ThrowFromJob(k) \/ LoseJob(k)
    BY <2>2, <2>3, <2>4, JobSteps
  <2>6. /\ run[k].step # "idle" /\ run[k].job = j
        /\ \/ run[k].step = "return" \/ Ended(j, "failed") \/ Dropped(j)
    BY <1>0, <2>2, <2>5, EndOfRun DEF Only
  <2>7. ~ Ended(j, "failed") /\ ~ Dropped(j)
    BY <1>0, <2>2, JobRow DEF Ended, Dropped
  <2>8. run[k].step = "return" /\ run[k].period = p
    BY <1>0, <2>1, <2>6, <2>7 DEF OneRun
  <2>9. AddsUp(payslip[p], period[p].gross, period[p].net)
    BY <1>1, <2>8 DEF SumsInv, RunSums
  <2>10. QED
    BY <1>4, <1>5, <2>9 DEF TotalsKept
<1>8. QED
  BY <1>6, <1>7

LEMMA SumsStep ==
  ASSUME ControlInv, JobsInv, AmountTypes, SumsInv, "stalls" \notin Liberties, [Next]_vars
  PROVE  SumsInv'
<1>1. \A i \in Consumers : Acts(i) => RunSums(run[i])'
  BY StartSums, ListSums, AttendanceSums, UpsertSums, CompleteSums, EndSums DEF Acts, RunStep
<1>2. \A i \in Consumers : RunSums(run[i])'
  BY <1>1, OthersKeepSums
<1>3. RowsFinite'
  BY RowsStayFinite DEF SumsInv
<1>4. QED
  BY <1>2, <1>3, SettledStep DEF SumsInv

LEMMA InitSums == Init => SumsInv
<1> SUFFICES ASSUME Init
             PROVE  SumsInv
  OBVIOUS
<1>1. \A p \in Periods : Rows(p) = {}
  BY DEF Init, Rows, NoPayslip
<1>2. \A k \in Consumers : run[k].step = "idle" /\ run[k].todo = {}
  BY DEF Init, Idle
<1>3. Existing = {}
  BY DEF Init, Existing, NoPeriod
<1>4. QED
  BY <1>1, <1>2, <1>3, FS_EmptySet DEF SumsInv, RowsFinite, RunSums, Once, SettledAddsUp

(* TotalsAddUp: however salaries and attendance change while it runs, the  *)
(* totals of a payroll are the sums of its payslips, up to half a cent for *)
(* every amount that is rounded; after a repetition if everybody with a    *)
(* payslip is still active.  Calls to generate a period must not overlap,  *)
(* nor a job with its repetition.                                          *)
THEOREM TotalsAreSums ==
  ASSUME "generate" \notin Liberties, "stalls" \notin Liberties
  PROVE  Spec => []TotalsAddUp
<1>1. Init => JobsInv /\ SumsInv
  BY InitJobs, InitSums
<1>2. ControlInv /\ AmountTypes /\ JobsInv /\ SumsInv /\ [Next]_vars => (JobsInv /\ SumsInv)'
  BY JobsStep, SumsStep
<1>3. SumsInv => TotalsAddUp
  BY SumsImply DEF SumsInv
<1>4. QED
  BY <1>1, <1>2, <1>3, Control, AmountsInvariant, PTL DEF Spec

=============================================================================

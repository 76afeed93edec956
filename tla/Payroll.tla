------------------------------- MODULE Payroll -------------------------------
(***************************************************************************)
(* Payroll: periods are created and generated through the API; generating  *)
(* one queues a job, and a consumer of the queue writes a payslip for      *)
(* every active worker, then the totals of the period.                     *)
(*                                                                         *)
(* A handler or a job is a sequence of statements without a transaction;   *)
(* attendance, salaries and the set of active workers may change between   *)
(* any two of them, and a consumer may die.                                *)
(***************************************************************************)
EXTENDS Integers, FiniteSets, Functions, JobQueue

CONSTANTS Periods,      \* payroll periods: 1, 2, ... as they are created (a bound)
          Workers,
          Leavers,      \* those who may leave (a bound)
          Joiners,      \* those who may be hired later (a bound)
          Calls,        \* concurrent calls of the API
          Consumers,    \* consumers of the queue
          Times,        \* moments
          Attendance,   \* the attendance records there are or may be:
                        \* [worker |-> , in |-> ]
          Spans,        \* what clients ask for: [start |-> , end |-> ]
          Salaries,     \* in cents
          Overtimes,    \* overtime hours a record may have
          Scale,        \* units of an amount, as computed, in a cent
          RATE,         \* units per overtime hour and cent of salary
          Faults,       \* of "death" of a consumer, "error" in a statement of
                        \* a job, "lost" jobs
          Liberties     \* what may overlap: "creations" of periods, calls to
                        \* "generate" a period, a job with its repetition
                        \* ("stalls")

ASSUME NoneAssumption ==
  /\ None \notin Int
  /\ None \notin Workers
  /\ Periods \subseteq Nat

ASSUME AmountAssumption ==
  /\ Times \subseteq Nat
  /\ Attendance \subseteq [worker : Workers, in : Times]
  /\ IsFiniteSet(Attendance)
  /\ Spans \subseteq [start : Times, end : Times]
  /\ Salaries \subseteq Nat
  /\ Overtimes \subseteq Nat
  /\ 0 \in Overtimes
  /\ Leavers \subseteq Workers
  /\ Joiners \subseteq Workers
  /\ Scale \in Nat \ {0}
  /\ RATE \in Nat

VARIABLES period,   \* payroll_periods: period[p], of status NONE if there is no row
          payslip,  \* payslips: payslip[p][w], unique per worker and
                    \* period, of status NONE if there is no row
          hired,    \* the workers there are,
          active,   \*   and those whose status is ACTIVE
          salary,   \* per worker
          overtime, \* per attendance record
          op,       \* per call: the statement it is about to execute,
          span,     \*   the span of the period it creates
          arg,      \*   or the period it generates
          run,      \* per consumer: the job it executes, and where it is
          roster    \* history: per period, the workers that the job that
                    \* completed it last had listed; no step reads it

tables == <<period, payslip>>
others == <<hired, active, salary, overtime>>
calls == <<op, span, arg>>
vars == <<tables, others, calls, run, job, roster>>

Statuses == {"DRAFT", "PROCESSING", "COMPLETED"}
NoPeriod == [start |-> None, end |-> None, status |-> "NONE", gross |-> None, net |-> None]
NoPayslip == [status |-> "NONE", over |-> 0, gross |-> 0, net |-> 0, tax |-> 0]

CallSteps == {"idle", "create", "mark", "enqueue"}
RunSteps == {"idle", "workers", "sum", "upsert", "return"}

Idle == [step |-> "idle", job |-> None, period |-> None, workers |-> {}, todo |-> {},
         slip |-> None, gross |-> 0, net |-> 0]

Init ==
  /\ period = [p \in Periods |-> NoPeriod]
  /\ payslip = [p \in Periods |-> [w \in Workers |-> NoPayslip]]
  /\ hired = Workers \ Joiners
  /\ active = hired
  /\ salary \in [Workers -> Salaries]
  /\ overtime = [r \in Attendance |-> 0]
  /\ op = [c \in Calls |-> "idle"]
  /\ span = [c \in Calls |-> None]
  /\ arg = [c \in Calls |-> None]
  /\ run = [k \in Consumers |-> Idle]
  /\ roster = [p \in Periods |-> {}]
  /\ JobsInit

-----------------------------------------------------------------------------
(* Amounts.  They are computed unrounded, in units of which Scale make a   *)
(* cent, and rounded to cents when they are stored in a DECIMAL column.    *)

GrossPay(basic, over) == Scale * basic + RATE * over * basic

PercentForgotten(gross) == 15 * gross   \* mutant: 15 instead of 0.15

TaxDeduction(gross) == (15 * gross) \div 100

Cents(amount) == (2 * amount + Scale) \div (2 * Scale)

-----------------------------------------------------------------------------
(* What other handlers do to the tables that a payroll reads: a worker is  *)
(* hired, leaves for good, gets another salary, a clock-out or a           *)
(* correction sets the overtime of a record.                               *)

Rows(p) == {w \in Workers : payslip[p][w].status # "NONE"}
Existing == {p \in Periods : period[p].status # "NONE"}

WorkerJoins(w) ==
  /\ w \in Workers \ hired
  /\ hired' = hired \cup {w}
  /\ active' = active \cup {w}
  /\ UNCHANGED <<tables, salary, overtime, calls, run, job, roster>>

WorkerLeaves(w) ==
  /\ w \in active \cap Leavers
  /\ active' = active \ {w}
  /\ UNCHANGED <<tables, hired, salary, overtime, calls, run, job, roster>>

UpdateSalary(w, amount) ==
  /\ salary' = [salary EXCEPT ![w] = amount]
  /\ UNCHANGED <<tables, hired, active, overtime, calls, run, job, roster>>

SetOvertime(r, over) ==
  /\ overtime' = [overtime EXCEPT ![r] = over]
  /\ UNCHANGED <<tables, hired, active, salary, calls, run, job, roster>>

-----------------------------------------------------------------------------
(* CreatePayrollPeriodHandler: completed periods are no obstacle.          *)

Goto(c, step) == op' = [op EXCEPT ![c] = step]

Return(c) ==
  /\ Goto(c, "idle")
  /\ span' = [span EXCEPT ![c] = None]
  /\ arg' = [arg EXCEPT ![c] = None]

At(step) == {c \in Calls : op[c] = step}

Strictly(a, b) == a.start < b.end /\ b.start < a.end   \* mutant: lt and gt

Overlap(a, b) == a.start <= b.end /\ b.start <= a.end

CheckOverlap(c, asked) ==
  /\ op[c] = "idle"
  /\ "creations" \in Liberties \/ At("create") = {}
  /\ \A p \in Existing : period[p].status # "COMPLETED" => ~ Overlap(period[p], asked)
  /\ Goto(c, "create")
  /\ span' = [span EXCEPT ![c] = asked]
  /\ UNCHANGED <<arg, tables, others, run, job, roster>>

CreatePeriod(c) ==
  /\ op[c] = "create"
  /\ \E p \in Periods \ Existing :
       /\ \A q \in Periods : q < p => q \in Existing
       /\ period' = [period EXCEPT ![p] =
                       [start |-> span[c].start, end |-> span[c].end, status |-> "DRAFT",
                        gross |-> None, net |-> None]]
  /\ Return(c)
  /\ UNCHANGED <<payslip, others, run, job, roster>>

-----------------------------------------------------------------------------
(* GeneratePayrollHandler.                                                 *)

Generating == {c \in Calls : op[c] \in {"mark", "enqueue"}}

AnyPeriod(c, p) ==    \* mutant: the status is not checked
  /\ op[c] = "idle"
  /\ p \in Existing
  /\ \A d \in Generating : arg[d] # p
  /\ Goto(c, "mark")
  /\ arg' = [arg EXCEPT ![c] = p]
  /\ UNCHANGED <<span, tables, others, run, job, roster>>

ReadPeriod(c, p) ==
  /\ op[c] = "idle"
  /\ p \in Existing
  /\ "generate" \in Liberties \/ \A d \in Generating : arg[d] # p
  /\ period[p].status = "DRAFT"
  /\ Goto(c, "mark")
  /\ arg' = [arg EXCEPT ![c] = p]
  /\ UNCHANGED <<span, tables, others, run, job, roster>>

SetStatus(p, status) == period' = [period EXCEPT ![p].status = status]

MarkProcessing(c) ==
  /\ op[c] = "mark"
  /\ SetStatus(arg[c], "PROCESSING")
  /\ Goto(c, "enqueue")
  /\ UNCHANGED <<span, arg, payslip, others, run, job, roster>>

(* The job is lost if the process dies here or Redis does not answer.      *)
Enqueue(c) ==
  /\ op[c] = "enqueue"
  /\ \/ Add(arg[c])
     \/ "lost" \in Faults /\ UNCHANGED job
  /\ Return(c)
  /\ UNCHANGED <<tables, others, run, roster>>

-----------------------------------------------------------------------------
(* PayrollProcessor.  The period's dates never change, so that reading it  *)
(* is part of taking the job.                                              *)

SkipRepeated(k, j) ==   \* mutant: a payroll with payslips is not run again
  /\ run[k].step = "idle"
  /\ Take(j)
  /\ run' = [run EXCEPT ![k] = [Idle EXCEPT
               !.step = IF Rows(job[j].data) = {}
                          THEN "workers" ELSE "return",
               !.job = j, !.period = job[j].data]]
  /\ UNCHANGED <<tables, others, calls, roster>>

StartRun(k, j) ==
  /\ run[k].step = "idle"
  /\ Take(j)
  /\ run' = [run EXCEPT ![k] = [Idle EXCEPT !.step = "workers", !.job = j,
                                            !.period = job[j].data]]
  /\ UNCHANGED <<tables, others, calls, roster>>

ListWorkers(k) ==
  /\ run[k].step = "workers"
  /\ run' = [run EXCEPT ![k] = [@ EXCEPT
               !.step = "sum",
               !.workers = active,
               !.todo = {[worker |-> w, basic |-> salary[w]] : w \in active}]]
  /\ UNCHANGED <<tables, others, calls, job, roster>>

OvertimeIn(w, p) ==
  SumFunctionOnSet(overtime, {r \in Attendance :
    r.worker = w /\ period[p].start <= r.in /\ r.in <= period[p].end})

(* The amounts of the next worker are computed and added to the totals     *)
(* before the payslip is written.                                          *)
SumAttendance(k) ==
  /\ run[k].step = "sum"
  /\ \E e \in run[k].todo :
       LET over == OvertimeIn(e.worker, run[k].period)
           gross == GrossPay(e.basic, over)
       IN  run' = [run EXCEPT ![k] = [@ EXCEPT
                     !.step = "upsert",
                     !.todo = run[k].todo \ {e},
                     !.slip = [worker |-> e.worker, basic |-> e.basic, over |-> over],
                     !.gross = run[k].gross + gross,
                     !.net = run[k].net + gross - TaxDeduction(gross)]]
  /\ UNCHANGED <<tables, others, calls, job, roster>>

CreateOnly(old, slip) ==   \* mutant: a payslip that exists is kept
  LET gross == GrossPay(slip.basic, slip.over)
  IN  IF old.status # "NONE" THEN old
      ELSE [status |-> "DRAFT", over |-> slip.over, gross |-> Cents(gross),
            net |-> Cents(gross - TaxDeduction(gross)), tax |-> TaxDeduction(gross)]

(* An existing payslip keeps its deductions. *)
Upserted(old, slip) ==
  LET gross == GrossPay(slip.basic, slip.over)
      tax == TaxDeduction(gross)
  IN  [status |-> "DRAFT", over |-> slip.over, gross |-> Cents(gross),
       net |-> Cents(gross - tax), tax |-> IF old.status = "NONE" THEN tax ELSE old.tax]

UpsertPayslip(k) ==
  /\ run[k].step = "upsert"
  /\ LET p == run[k].period
         w == run[k].slip.worker
     IN  payslip' = [payslip EXCEPT ![p] =
                       [@ EXCEPT ![w] = Upserted(payslip[p][w], run[k].slip)]]
  /\ run' = [run EXCEPT ![k] = [@ EXCEPT !.step = "sum", !.slip = None]]
  /\ UNCHANGED <<period, others, calls, job, roster>>

Unfinished(k) ==           \* mutant: the loop may end early
  /\ run[k].step = "sum"
  /\ period' = [period EXCEPT ![run[k].period] =
                  [@ EXCEPT !.status = "COMPLETED", !.gross = Cents(run[k].gross),
                            !.net = Cents(run[k].net)]]
  /\ run' = [run EXCEPT ![k] = [@ EXCEPT !.step = "return"]]
  /\ roster' = [roster EXCEPT ![run[k].period] = run[k].workers]
  /\ UNCHANGED <<payslip, others, calls, job>>

CompletePeriod(k) ==
  /\ run[k].step = "sum"
  /\ run[k].todo = {}
  /\ period' = [period EXCEPT ![run[k].period] =
                  [@ EXCEPT !.status = "COMPLETED", !.gross = Cents(run[k].gross),
                            !.net = Cents(run[k].net)]]
  /\ run' = [run EXCEPT ![k] = [@ EXCEPT !.step = "return"]]
  /\ roster' = [roster EXCEPT ![run[k].period] = run[k].workers]
  /\ UNCHANGED <<payslip, others, calls, job>>

-----------------------------------------------------------------------------
(* How a run ends.  A run that has lost its job cannot settle it.          *)

SettleMine(k, state) ==
  IF run[k].job = None THEN UNCHANGED job ELSE Settle(run[k].job, state)

ReturnFromJob(k) ==
  /\ run[k].step = "return"
  /\ SettleMine(k, "completed")
  /\ run' = [run EXCEPT ![k] = Idle]
  /\ UNCHANGED <<tables, others, calls, roster>>

(* A statement of the job throws. *)
ThrowFromJob(k) ==
  /\ "error" \in Faults
  /\ run[k].step \notin {"idle", "return"}
  /\ SettleMine(k, "failed")
  /\ run' = [run EXCEPT ![k] = Idle]
  /\ UNCHANGED <<tables, others, calls, roster>>

(* The consumer dies, or only fails to renew the lock and goes on.         *)
LoseJob(k) ==
  /\ run[k].job # None
  /\ Stall(run[k].job)
  /\ run' \in {[run EXCEPT ![k] = r] :
                 r \in {x \in {Idle, [run[k] EXCEPT !.job = None]} :
                          IF x = Idle THEN "death" \in Faults ELSE "stalls" \in Liberties}}
  /\ UNCHANGED <<tables, others, calls, roster>>

-----------------------------------------------------------------------------
CallStep(c) ==
  \/ \E asked \in Spans : CheckOverlap(c, asked)
  \/ CreatePeriod(c)
  \/ \E p \in Periods : ReadPeriod(c, p)
  \/ MarkProcessing(c)
  \/ Enqueue(c)

RunStep(k) ==
  \/ \E j \in Jobs : StartRun(k, j)
  \/ ListWorkers(k) \/ SumAttendance(k) \/ UpsertPayslip(k)
  \/ CompletePeriod(k) \/ ReturnFromJob(k)

Next ==
  \/ \E c \in Calls : CallStep(c)
  \/ \E k \in Consumers : RunStep(k) \/ ThrowFromJob(k) \/ LoseJob(k)
  \/ \E r \in Attendance, over \in Overtimes : SetOvertime(r, over)
  \/ \E w \in Workers :
       \/ WorkerJoins(w) \/ WorkerLeaves(w)
       \/ \E amount \in Salaries : UpdateSalary(w, amount)

Spec == Init /\ [][Next]_vars

(* A live consumer takes jobs and goes on with the one it has.             *)
FairSpec == Spec /\ \A k \in Consumers : WF_vars(RunStep(k))

-----------------------------------------------------------------------------
Settled(p) == \A j \in JobsOf(p) : job[j].state = "completed"
Repeated(p) == \E j \in JobsOf(p) : job[j].stalls > 0
Difference(a, b) == IF a > b THEN a - b ELSE b - a

TypeOK ==
  /\ period \in [Periods -> {NoPeriod} \cup
       [start : Times, end : Times, status : Statuses,
        gross : Nat \cup {None}, net : Nat \cup {None}]]
  /\ payslip \in [Periods -> [Workers ->
       [status : {"NONE", "DRAFT"}, over : Nat, gross : Nat, net : Nat, tax : Nat]]]
  /\ active \subseteq hired /\ hired \subseteq Workers
  /\ salary \in [Workers -> Salaries]
  /\ overtime \in [Attendance -> Overtimes]
  /\ op \in [Calls -> CallSteps]
  /\ span \in [Calls -> Spans \cup {None}]
  /\ arg \in [Calls -> Periods \cup {None}]
  /\ JobsTypeOK(Periods)
  /\ run \in [Consumers ->
       [step : RunSteps, job : Jobs \cup {None}, period : Periods \cup {None},
        workers : SUBSET Workers, todo : SUBSET [worker : Workers, basic : Salaries],
        slip : {None} \cup [worker : Workers, basic : Salaries, over : Nat],
        gross : Nat, net : Nat]]
  /\ roster \in [Periods -> SUBSET Workers]

Covers(p, t) == period[p].start <= t /\ t <= period[p].end

(* No clock-in is paid by two periods that are not completed: the check    *)
(* for overlaps keeps its promise although generating a period changes its *)
(* status beside it.  Creations must not overlap.                          *)
OpenPeriodsDisjoint ==
  \A p, q \in Existing :
    /\ p # q
    /\ period[p].status # "COMPLETED" /\ period[q].status # "COMPLETED"
    => \A t \in Times : ~ (Covers(p, t) /\ Covers(q, t))

(* The totals of a completed payroll are the sums of its payslips, up to   *)
(* half a cent for each amount rounded, although data changed while it     *)
(* ran and it may have been repeated after a consumer died.  A repetition  *)
(* must have come to its end, and nobody may have left who has a payslip:  *)
(* the repetition would leave that payslip alone and not count it.         *)
TotalsAddUp ==
  \A p \in Existing :
    /\ period[p].status = "COMPLETED" /\ Settled(p)
    /\ Repeated(p) => Rows(p) \subseteq active
    => LET Sum(f(_)) == SumFunctionOnSet([w \in Workers |-> f(payslip[p][w])], Rows(p))
           slack == Cardinality(Rows(p)) + 1
       IN  /\ 2 * Difference(period[p].gross, Sum(LAMBDA s : s.gross)) <= slack
           /\ 2 * Difference(period[p].net, Sum(LAMBDA s : s.net)) <= slack

(* However often consumers die and jobs are repeated, a payroll is only    *)
(* completed when everybody has a payslip who was active at the moment     *)
(* when the job that completed it listed the workers, also those who have  *)
(* left since.  Somebody hired after that moment has none.                 *)
NobodyForgotten ==
  \A p \in Existing : period[p].status = "COMPLETED" => roster[p] \subseteq Rows(p)

(* A completed payroll is not generated again.  Calls to generate a period *)
(* must not overlap.                                                       *)
CompletedStays ==
  [][\A p \in Existing :
       period[p].status = "COMPLETED" => period'[p].status = "COMPLETED"]_vars

(* The deduction called "Income Tax (15%)" is 15 % of the gross pay, up to *)
(* the half cent by which that is rounded.                                 *)
TaxMatchesGross ==
  \A p \in Periods : \A w \in Rows(p) :
    LET slip == payslip[p][w]
    IN  2 * Difference(100 * slip.tax, 15 * Scale * slip.gross) <= 15 * Scale

(* A payroll for which a job was queued is completed unless a job fails,   *)
(* even when a consumer dies with it: of finitely many none is left sooner *)
(* or later.                                                               *)
QueuedIsPaid ==
  <>[] \A p \in Periods :
    JobsOf(p) # {} => \/ period[p].status = "COMPLETED"
                      \/ \E j \in JobsOf(p) : job[j].state = "failed"

=============================================================================

-------------------------------- MODULE Seed --------------------------------
(***************************************************************************)
(* The script that fills a database with a demo company (prisma/seed.ts),  *)
(* beside the API that creates tenants.  It is run by hand, as often as    *)
(* one likes, may die between any two statements, and is meant to complete *)
(* what an earlier run has left unfinished: every statement but one is an  *)
(* upsert with an empty update.                                            *)
(***************************************************************************)
EXTENDS Producers

CONSTANTS Demo,       \* the slug of the demo company
          Admin,      \* the address of its administrator
          MaxShifts   \* bound on its shifts

ASSUME SeedAssumption ==
  /\ Demo \in Slugs /\ Admin \in Emails
  /\ MaxShifts \in Nat

VARIABLES seed,      \* the statement that the script is about to execute and
                     \* the leave types that a loop has still to go through
          demoRows,  \* which of factory, department and worker exist
          shifts,    \* how many shifts the demo company has
          balances,  \* leave types of which the demo worker has a balance
          seeded     \* has a run of the script ended by itself?

seedVars == <<seed, demoRows, shifts, balances, seeded>>
tenancyVars == <<producersVars, seedVars>>

SeedSteps ==
  {"off", "factory", "department", "admin", "leaveTypes", "count", "shifts",
   "worker", "list", "balances", "subscription"}
SeedCodes == {"ANNUAL", "SICK", "UNPAID"}

SeedInit ==
  /\ ProducersInit
  /\ seed = [step |-> "off", todo |-> {}]
  /\ demoRows = {}
  /\ shifts = 0
  /\ balances = {}
  /\ seeded = FALSE

At(step) == seed.step = step
Proceed(step) == seed' = [step |-> step, todo |-> {}]
Loop(step, codes) == seed' = [step |-> step, todo |-> codes]

-----------------------------------------------------------------------------
OnlyOnce ==  \* mutant: nothing is done for a tenant that exists
  /\ "script" \in may
  /\ At("off")
  /\ IF Exists(Demo)
       THEN seeded' = TRUE /\ UNCHANGED <<tenant, seed>>
       ELSE /\ tenant' = [tenant EXCEPT ![Demo] = [NoTenant EXCEPT !.status = "ACTIVE"]]
            /\ Proceed("factory")
            /\ UNCHANGED seeded
  /\ UNCHANGED <<account, demoRows, shifts, balances>>

UpsertTenant ==
  /\ "script" \in may
  /\ At("off")
  /\ tenant' = [tenant EXCEPT ![Demo] =
                  IF Exists(Demo) THEN tenant[Demo]
                  ELSE [NoTenant EXCEPT !.status = "ACTIVE"]]
  /\ Proceed("factory")
  /\ UNCHANGED <<account, demoRows, shifts, balances, seeded>>

UpsertDemoRow(row, next) ==
  /\ At(row)
  /\ demoRows' = demoRows \cup {row}
  /\ next
  /\ UNCHANGED <<tenant, account, shifts, balances, seeded>>

UpsertFactory == UpsertDemoRow("factory", Proceed("department"))
UpsertDepartment == UpsertDemoRow("department", Proceed("admin"))
UpsertWorker == UpsertDemoRow("worker", Proceed("list"))

(* Found by the address alone: whoever has it is left as he is. *)
UpsertAdmin ==
  /\ At("admin")
  /\ account' = [account EXCEPT ![Admin] =
                   IF @ = NoAccount THEN [tenant |-> Demo, role |-> "ADMIN"] ELSE @]
  /\ Loop("leaveTypes", SeedCodes)
  /\ UNCHANGED <<tenant, demoRows, shifts, balances, seeded>>

UpsertLeaveType(code) ==   \* in the order of SeedCodes
  /\ At("leaveTypes")
  /\ code \in seed.todo
  /\ code = "SICK" => "ANNUAL" \notin seed.todo
  /\ code = "UNPAID" => seed.todo = {code}
  /\ tenant' = [tenant EXCEPT ![Demo].leaveTypes = @ \cup {code}]
  /\ IF seed.todo = {code} THEN Proceed("count") ELSE Loop("leaveTypes", seed.todo \ {code})
  /\ UNCHANGED <<account, demoRows, shifts, balances, seeded>>

CreateAnyway ==  \* mutant: the shifts that there are do not count
  /\ At("count")
  /\ Proceed("shifts")
  /\ UNCHANGED <<tenant, account, demoRows, shifts, balances, seeded>>

(* The shifts have no unique key: they are counted first. *)
CountShifts ==
  /\ At("count")
  /\ Proceed(IF shifts = 0 THEN "shifts" ELSE "worker")
  /\ UNCHANGED <<tenant, account, demoRows, shifts, balances, seeded>>

CreateShifts ==
  /\ At("shifts")
  /\ shifts' = shifts + 3
  /\ Proceed("worker")
  /\ UNCHANGED <<tenant, account, demoRows, balances, seeded>>

ListLeaveTypes ==
  /\ At("list")
  /\ Loop("balances", tenant[Demo].leaveTypes)
  /\ UNCHANGED <<tenant, account, demoRows, shifts, balances, seeded>>

UpsertBalance(code) ==
  /\ At("balances")
  /\ code \in seed.todo
  /\ balances' = balances \cup {code}
  /\ IF seed.todo = {code} THEN Proceed("subscription") ELSE Loop("balances", seed.todo \ {code})
  /\ UNCHANGED <<tenant, account, demoRows, shifts, seeded>>

UpsertSubscription ==
  /\ At("subscription")
  /\ tenant' = [tenant EXCEPT ![Demo].subscribed = TRUE]
  /\ Proceed("off")
  /\ seeded' = TRUE
  /\ UNCHANGED <<account, demoRows, shifts, balances>>

(* An error or a signal ends the script where it is. *)
SeedDies ==
  /\ ~ Calm
  /\ ~ At("off")
  /\ Proceed("off")
  /\ UNCHANGED <<tenant, account, demoRows, shifts, balances, seeded>>

(* Whoever can log in to the demo company may create a shift in its factory. *)
AddShift ==
  /\ \E m \in Emails : account[m].tenant = Demo
  /\ "factory" \in demoRows
  /\ shifts < MaxShifts
  /\ shifts' = shifts + 1
  /\ UNCHANGED <<tenant, account, seed, demoRows, balances, seeded>>

-----------------------------------------------------------------------------
SeedStep ==
  \/ UpsertTenant \/ UpsertFactory \/ UpsertDepartment \/ UpsertAdmin
  \/ \E code \in LeaveCodes : UpsertLeaveType(code) \/ UpsertBalance(code)
  \/ CountShifts \/ CreateShifts \/ UpsertWorker \/ ListLeaveTypes
  \/ UpsertSubscription \/ SeedDies
  \/ AddShift

SeedNext ==
  \/ ProducersNext /\ UNCHANGED seedVars
  \/ SeedStep /\ UNCHANGED <<may, incident, call, deliveryVars>>

(* Handlers run on and the outbox settles what it has accepted, which      *)
(* Outbox!EventuallySettled shows.  Nobody has to run the script.          *)
ProducersFairness ==
  /\ \A h \in Handlers : WF_tenancyVars(Continue(h) /\ UNCHANGED seedVars)
  /\ \A e \in Events : WF_tenancyVars(Relay(e) /\ UNCHANGED seedVars)

SeedSpec == SeedInit /\ [][SeedNext]_tenancyVars /\ ProducersFairness

-----------------------------------------------------------------------------
SeedTypeOK ==
  /\ seed \in [step : SeedSteps, todo : SUBSET LeaveCodes]
  /\ demoRows \subseteq {"factory", "department", "worker"}
  /\ shifts \in 0 .. MaxShifts + 3
  /\ balances \subseteq LeaveCodes
  /\ seeded \in BOOLEAN

(* Once the script has run to its end, nothing that it makes is missing,   *)
(* wherever earlier runs died and whether it or a request has made the     *)
(* tenant: in particular there are shifts, and the worker has a balance of *)
(* every leave type of the tenant.                                         *)
DemoIsComplete ==
  seeded =>
    /\ demoRows = {"factory", "department", "worker"}
    /\ account[Admin] # NoAccount
    /\ SeedCodes \subseteq tenant[Demo].leaveTypes
    /\ balances = tenant[Demo].leaveTypes
    /\ shifts > 0
    /\ tenant[Demo].subscribed

(* However requests race, fail and die and however often the script is     *)
(* started, its rows and those of requests are never left half done where  *)
(* somebody was told that they are there.                                  *)
NothingHalfDone == TenantsAreWhole /\ DemoIsComplete /\ EventsAreTrue

=============================================================================

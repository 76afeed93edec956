----------------------------- MODULE DeskProofs -----------------------------
(***************************************************************************)
(* Proofs about the parts of the system that MCDesk.tla puts together:     *)
(* Seed with Producers, Notifications, Scheduling, Lists and Reports; for  *)
(* any number of requests, rows and jobs, any faults and habits.           *)
(***************************************************************************)
EXTENDS MCDesk, FiniteSetTheorems, TLAPS

(***************************************************************************)
(* Seed, and so Producers beside the script.                               *)
(***************************************************************************)
(* The steps of the script that follow one of its statements. *)
AfterFactory == SeedSteps \ {"off", "factory"}
AfterDepartment == AfterFactory \ {"department"}
AfterAdmin == AfterDepartment \ {"admin"}
AfterTypes == AfterAdmin \ {"leaveTypes"}
AfterShifts == {"worker", "list", "balances", "subscription"}
AfterWorker == {"list", "balances", "subscription"}

(* What a request works on at its steps. *)
CallOK(r) ==
  /\ r.step \in {"email", "create"} => r.subject \in Slugs /\ r.email \in Emails
  /\ r.step = "record" => r.subject \in Events
  /\ r.step = "resolve" => r.subject \in Incidents

SeedTypeInv ==
  /\ ProducersTypeOK /\ SeedTypeOK
  /\ \A h \in Handlers : CallOK(call[h])
  /\ At("shifts") => shifts <= MaxShifts

-----------------------------------------------------------------------------
(* Types *)

LEMMA SeedRows ==
  /\ NoTenant \in TenantRows
  /\ Provisioned \in TenantRows
  /\ [NoTenant EXCEPT !.status = "ACTIVE"] \in TenantRows
  /\ \A s \in Slugs : /\ [tenant |-> s, role |-> "OWNER"] \in Accounts
                      /\ [tenant |-> s, role |-> "ADMIN"] \in Accounts
  /\ NoRequest \in Requests
  /\ CallOK(NoRequest)
  /\ NoTenant.status = "ABSENT" /\ NoTenant.leaveTypes = {}
  /\ NoAccount.role = "none"
  /\ NoRequest.step = "idle"
BY DEF NoTenant, TenantRows, Provisioned, OwnLeaveCodes, LeaveCodes, Accounts,
       NoRequest, Requests, CallOK, NoAccount

LEMMA SeedInitType == SeedInit => SeedTypeInv
<1> SUFFICES ASSUME SeedInit PROVE SeedTypeInv
  OBVIOUS
<1>1. ProducersTypeOK
  BY SeedRows, ProducersAssumption DEF SeedInit, ProducersInit, ProducersTypeOK, DeliveryInit
<1>2. SeedTypeOK
  <2>1. shifts \in 0 .. MaxShifts + 3
    BY SeedAssumption DEF SeedInit
  <2>2. seed \in [step : SeedSteps, todo : SUBSET LeaveCodes]
    BY DEF SeedInit, SeedSteps
  <2>3. QED
    BY <2>1, <2>2 DEF SeedInit, SeedTypeOK
<1>3. \A h \in Handlers : CallOK(call[h])
  BY SeedRows DEF SeedInit, ProducersInit
<1>4. QED
  BY <1>1, <1>2, <1>3 DEF SeedTypeInv, SeedInit, At

LEMMA CallEffect ==
  ASSUME SeedTypeInv, NEW h \in Handlers, NEW r \in Requests, CallOK(r),
         call' = [call EXCEPT ![h] = r]
  PROVE  /\ call' \in [Handlers -> Requests]
         /\ \A g \in Handlers : CallOK(call'[g])
         /\ call'[h] = r
         /\ \A g \in Handlers : g # h => call'[g] = call[g]
BY DEF SeedTypeInv, ProducersTypeOK

LEMMA FinishEffect ==
  ASSUME SeedTypeInv, NEW h \in Handlers, Finish(h)
  PROVE  /\ call' \in [Handlers -> Requests]
         /\ \A g \in Handlers : CallOK(call'[g])
         /\ call'[h] = NoRequest
         /\ \A g \in Handlers : g # h => call'[g] = call[g]
BY SeedRows, CallEffect DEF Finish

LEMMA GotoEffect ==
  ASSUME SeedTypeInv, NEW h \in Handlers, NEW step \in {"create", "record"}, Goto(h, step),
         call[h].step \in {"email", "create"}
  PROVE  /\ call' \in [Handlers -> Requests]
         /\ \A g \in Handlers : CallOK(call'[g])
         /\ call'[h].step = step /\ call'[h].subject = call[h].subject
         /\ \A g \in Handlers : g # h => call'[g] = call[g]
<1>1. call[h] \in Requests /\ call[h].subject \in Slugs /\ call[h].email \in Emails
  BY DEF SeedTypeInv, ProducersTypeOK, CallOK
<1> DEFINE r == [call[h] EXCEPT !.step = step]
<1>2. r \in Requests /\ r.step = step /\ r.subject = call[h].subject /\ r.email = call[h].email
  BY <1>1 DEF Requests
<1>3. CallOK(r)
  BY <1>1, <1>2, ProducersAssumption DEF CallOK
<1>4. call' = [call EXCEPT ![h] = r]
  BY DEF Goto
<1> HIDE DEF r
<1>5. QED
  BY <1>2, <1>3, <1>4, CallEffect

(* What a request has done to its rows when its transaction is over. *)
Made(h, s, m) ==
  /\ ~ Exists(s) /\ account[m] = NoAccount
  /\ tenant' = [tenant EXCEPT ![s] = Provisioned]
  /\ account' = [account EXCEPT ![m] = [tenant |-> s, role |-> "OWNER"]]
  /\ \/ call'[h] = NoRequest
     \/ call'[h].step = "record" /\ call'[h].subject = s

LEMMA CreateEffect ==
  ASSUME SeedTypeInv, NEW h \in Handlers, CreateTenant(h)
  PROVE  /\ call' \in [Handlers -> Requests]
         /\ \A g \in Handlers : CallOK(call'[g])
         /\ \A g \in Handlers : g # h => call'[g] = call[g]
         /\ \/ \E s \in Slugs, m \in Emails : Made(h, s, m)
            \/ UNCHANGED <<tenant, account>> /\ call'[h] = NoRequest
<1>1. call[h].subject \in Slugs /\ call[h].email \in Emails /\ call[h].step = "create"
  BY DEF SeedTypeInv, CallOK, CreateTenant
<1>2. CASE Goto(h, "record")
  <2>1. /\ call' \in [Handlers -> Requests]
        /\ \A g \in Handlers : CallOK(call'[g])
        /\ call'[h].step = "record" /\ call'[h].subject = call[h].subject
        /\ \A g \in Handlers : g # h => call'[g] = call[g]
    BY <1>1, <1>2, GotoEffect
  <2>2. CASE Finish(h)
    BY <2>1, <2>2, FinishEffect, SeedRows
  <2>3. CASE ~ Finish(h)
    <3>1. Made(h, call[h].subject, call[h].email)
      BY <2>1, <2>3 DEF CreateTenant, NoConflict, Made
    <3>2. QED
      BY <1>1, <2>1, <3>1
  <2>4. QED
    BY <2>2, <2>3
<1>3. CASE Finish(h)
  <2>1. /\ call' \in [Handlers -> Requests]
        /\ \A g \in Handlers : CallOK(call'[g])
        /\ call'[h] = NoRequest
        /\ \A g \in Handlers : g # h => call'[g] = call[g]
    BY <1>3, FinishEffect
  <2>2. Made(h, call[h].subject, call[h].email) \/ UNCHANGED <<tenant, account>>
    BY <2>1 DEF CreateTenant, NoConflict, Made
  <2>3. QED
    BY <1>1, <2>1, <2>2
<1>4. QED
  BY <1>2, <1>3 DEF CreateTenant

LEMMA TenantEffect ==
  ASSUME SeedTypeInv, NEW s \in Slugs, NEW row \in TenantRows,
         tenant' = [tenant EXCEPT ![s] = row]
  PROVE  /\ tenant' \in [Slugs -> TenantRows]
         /\ tenant'[s] = row
         /\ \A r \in Slugs : r # s => tenant'[r] = tenant[r]
BY DEF SeedTypeInv, ProducersTypeOK

LEMMA AccountEffect ==
  ASSUME SeedTypeInv, NEW m \in Emails, NEW row \in Accounts \cup {NoAccount},
         account' = [account EXCEPT ![m] = row]
  PROVE  /\ account' \in [Emails -> Accounts \cup {NoAccount}]
         /\ account'[m] = row
         /\ \A n \in Emails : n # m => account'[n] = account[n]
BY DEF SeedTypeInv, ProducersTypeOK

(* Statements of the requests other than the transaction. *)

LEMMA ProducerEffect ==
  ASSUME SeedTypeInv, NEW h \in Handlers,
         \/ \E s \in Slugs, m \in Emails : FindSlug(h, s, m)
         \/ \E i \in Incidents : InsertIncident(h, i) \/ FindIncident(h, i)
         \/ FindEmail(h) \/ UpdateIncident(h) \/ PublishSubject(h) \/ Die(h)
  PROVE  /\ UNCHANGED <<may, tenant, account>>
         /\ call' \in [Handlers -> Requests]
         /\ \A g \in Handlers : CallOK(call'[g])
         /\ \A g \in Handlers : g # h => call'[g] = call[g]
         /\ incident' \in [Incidents -> {"ABSENT", "OPEN", "RESOLVED"}]
         /\ \A i \in Incidents : incident[i] # "ABSENT" => incident'[i] # "ABSENT"
         /\ \/ UNCHANGED deliveryVars
            \/ call[h].step = "record" /\ Accept(call[h].subject)
         /\ call'[h].step = "record" =>
              \E i \in Incidents : call'[h].subject = i /\ incident'[i] # "ABSENT"
<1> USE DEF rows
<1>0. incident \in [Incidents -> {"ABSENT", "OPEN", "RESOLVED"}]
  BY DEF SeedTypeInv, ProducersTypeOK
<1>1. ASSUME NEW s \in Slugs, NEW m \in Emails, FindSlug(h, s, m)
      PROVE  /\ call' \in [Handlers -> Requests]
             /\ \A g \in Handlers : CallOK(call'[g])
             /\ \A g \in Handlers : g # h => call'[g] = call[g]
             /\ call'[h].step # "record"
  <2> DEFINE r == [step |-> "email", subject |-> s, email |-> m]
  <2>1. r \in Requests /\ CallOK(r) /\ r.step = "email"
    BY ProducersAssumption DEF Requests, CallOK
  <2>2. call' = [call EXCEPT ![h] = r]
    BY <1>1 DEF FindSlug
  <2> HIDE DEF r
  <2>3. QED
    BY <2>1, <2>2, CallEffect
<1>2. ASSUME NEW i \in Incidents, InsertIncident(h, i)
      PROVE  /\ call' \in [Handlers -> Requests]
             /\ \A g \in Handlers : CallOK(call'[g])
             /\ \A g \in Handlers : g # h => call'[g] = call[g]
             /\ call'[h].step = "record" => call'[h].subject = i
  <2> DEFINE r == [NoRequest EXCEPT !.step = "record", !.subject = i]
  <2>1. r \in Requests /\ CallOK(r) /\ r.subject = i
    BY ProducersAssumption DEF Requests, CallOK, NoRequest
  <2>2. call' = [call EXCEPT ![h] = r] \/ call' = call
    BY <1>2 DEF InsertIncident
  <2>3. CASE call' = call
    BY <1>2, <2>3 DEF InsertIncident, Idle, SeedTypeInv, ProducersTypeOK
  <2>4. CASE call' = [call EXCEPT ![h] = r]
    <3> HIDE DEF r
    <3>1. QED
      BY <2>1, <2>4, CallEffect
  <2>5. QED
    BY <2>2, <2>3, <2>4
<1>3. ASSUME NEW i \in Incidents, FindIncident(h, i)
      PROVE  /\ call' \in [Handlers -> Requests]
             /\ \A g \in Handlers : CallOK(call'[g])
             /\ \A g \in Handlers : g # h => call'[g] = call[g]
             /\ call'[h].step # "record"
  <2> DEFINE r == [NoRequest EXCEPT !.step = "resolve", !.subject = i]
  <2>1. r \in Requests /\ CallOK(r) /\ r.step = "resolve"
    BY ProducersAssumption DEF Requests, CallOK, NoRequest
  <2>2. call' = [call EXCEPT ![h] = r]
    BY <1>3 DEF FindIncident
  <2> HIDE DEF r
  <2>3. QED
    BY <2>1, <2>2, CallEffect
<1>4. ASSUME Finish(h)
      PROVE  /\ call' \in [Handlers -> Requests]
             /\ \A g \in Handlers : CallOK(call'[g])
             /\ \A g \in Handlers : g # h => call'[g] = call[g]
             /\ call'[h].step # "record"
  BY <1>4, FinishEffect, SeedRows
<1>5. ASSUME FindEmail(h)
      PROVE  /\ call' \in [Handlers -> Requests]
             /\ \A g \in Handlers : CallOK(call'[g])
             /\ \A g \in Handlers : g # h => call'[g] = call[g]
             /\ call'[h].step # "record"
  <2>1. CASE Goto(h, "create")
    BY <1>5, <2>1, GotoEffect DEF FindEmail
  <2>2. QED
    BY <1>4, <1>5, <2>1 DEF FindEmail
<1>6. CASE \E s \in Slugs, m \in Emails : FindSlug(h, s, m)
  BY <1>0, <1>1, <1>6 DEF FindSlug
<1>7. CASE \E i \in Incidents : InsertIncident(h, i)
  <2>1. PICK i \in Incidents : InsertIncident(h, i)
    BY <1>7
  <2>2. /\ incident' = [incident EXCEPT ![i] = "OPEN"]
        /\ UNCHANGED <<may, tenant, account, deliveryVars>>
    BY <2>1 DEF InsertIncident
  <2>3. QED
    BY <1>0, <1>2, <2>1, <2>2
<1>8. CASE \E i \in Incidents : FindIncident(h, i)
  BY <1>0, <1>3, <1>8 DEF FindIncident
<1>9. CASE FindEmail(h)
  BY <1>0, <1>5, <1>9 DEF FindEmail
<1>10. CASE UpdateIncident(h)
  <2>1. call[h].subject \in Incidents
    BY <1>10 DEF UpdateIncident, SeedTypeInv, CallOK
  <2>2. /\ incident' \in [Incidents -> {"ABSENT", "OPEN", "RESOLVED"}]
        /\ \A i \in Incidents : incident[i] # "ABSENT" => incident'[i] # "ABSENT"
    BY <1>0, <1>10, <2>1 DEF UpdateIncident
  <2>3. QED
    BY <1>4, <1>10, <2>2 DEF UpdateIncident
<1>11. CASE PublishSubject(h)
  BY <1>0, <1>4, <1>11 DEF PublishSubject
<1>12. CASE Die(h)
  BY <1>0, <1>4, <1>12 DEF Die
<1>13. QED
  BY <1>6, <1>7, <1>8, <1>9, <1>10, <1>11, <1>12

LEMMA DeliveryEffect ==
  ASSUME SeedTypeInv, NEW e \in Events, Accept(e) \/ Deliver(e) \/ Confirm(e) \/ GiveUp(e)
  PROVE  /\ outcome' \in [Events -> {"none", "queued", "published", "failed"}]
         /\ sent' \in [Events -> 0 .. MaxSends]
         /\ \A d \in Events : d # e => outcome'[d] = outcome[d]
<1>1. /\ outcome \in [Events -> {"none", "queued", "published", "failed"}]
      /\ sent \in [Events -> 0 .. MaxSends]
      /\ MaxSends \in Nat
  BY ProducersAssumption DEF SeedTypeInv, ProducersTypeOK
<1>2. CASE Accept(e)
  BY <1>1, <1>2 DEF Accept
<1>3. CASE Deliver(e)
  <2>1. sent[e] + 1 \in 0 .. MaxSends
    BY <1>1, <1>3 DEF Deliver
  <2>2. sent' = [sent EXCEPT ![e] = sent[e] + 1] /\ outcome' = outcome
    BY <1>3 DEF Deliver
  <2>3. QED
    BY <1>1, <2>1, <2>2
<1>4. CASE Confirm(e)
  BY <1>1, <1>4 DEF Confirm
<1>5. CASE GiveUp(e)
  BY <1>1, <1>5 DEF GiveUp
<1>6. QED
  BY <1>2, <1>3, <1>4, <1>5

LEMMA ProducersType ==
  ASSUME SeedTypeInv, ProducersNext, UNCHANGED seedVars
  PROVE  SeedTypeInv'
<1>1. SeedTypeOK' /\ (At("shifts") => shifts <= MaxShifts)'
  BY DEF SeedTypeInv, SeedTypeOK, At, seedVars
<1>2. SUFFICES ProducersTypeOK' /\ \A h \in Handlers : CallOK(call'[h])
  BY <1>1 DEF SeedTypeInv
<1> USE DEF ProducersTypeOK
<1>3. ASSUME NEW h \in Handlers, CreateTenant(h)
      PROVE  ProducersTypeOK' /\ \A g \in Handlers : CallOK(call'[g])
  <2>1. tenant' \in [Slugs -> TenantRows] /\ account' \in [Emails -> Accounts \cup {NoAccount}]
    <3>1. CASE UNCHANGED <<tenant, account>>
      BY <3>1 DEF SeedTypeInv
    <3>2. ASSUME NEW s \in Slugs, NEW m \in Emails, Made(h, s, m)
          PROVE  tenant' \in [Slugs -> TenantRows] /\ account' \in [Emails -> Accounts \cup {NoAccount}]
      BY <3>2, SeedRows, TenantEffect, AccountEffect DEF Made
    <3>3. QED
      BY <1>3, <3>1, <3>2, CreateEffect
  <2>2. UNCHANGED <<may, incident, outcome, sent>>
    BY <1>3 DEF CreateTenant, deliveryVars
  <2>3. QED
    BY <1>3, <2>1, <2>2, CreateEffect DEF SeedTypeInv
<1>4. ASSUME NEW h \in Handlers,
             \/ \E s \in Slugs, m \in Emails : FindSlug(h, s, m)
             \/ \E i \in Incidents : InsertIncident(h, i) \/ FindIncident(h, i)
             \/ FindEmail(h) \/ UpdateIncident(h) \/ PublishSubject(h) \/ Die(h)
      PROVE  ProducersTypeOK' /\ \A g \in Handlers : CallOK(call'[g])
  <2>1. \/ UNCHANGED deliveryVars
        \/ call[h].step = "record" /\ Accept(call[h].subject)
    BY <1>4, ProducerEffect
  <2>2. /\ outcome' \in [Events -> {"none", "queued", "published", "failed"}]
        /\ sent' \in [Events -> 0 .. MaxSends]
    <3>1. CASE UNCHANGED deliveryVars
      BY <3>1 DEF deliveryVars, SeedTypeInv
    <3>2. CASE call[h].step = "record" /\ Accept(call[h].subject)
      BY <3>2, DeliveryEffect DEF SeedTypeInv, CallOK
    <3>3. QED
      BY <2>1, <3>1, <3>2
  <2>3. QED
    BY <1>4, <2>2, ProducerEffect DEF SeedTypeInv
<1>5. ASSUME NEW e \in Events, Relay(e)
      PROVE  ProducersTypeOK' /\ \A g \in Handlers : CallOK(call'[g])
  BY <1>5, DeliveryEffect DEF Relay, rows, SeedTypeInv
<1>6. QED
  BY <1>3, <1>4, <1>5 DEF ProducersNext, Begin, Continue, RecordTenant, RecordIncident

(* Statements of the script.  What each leaves alone ... *)

LEMMA ScriptFrame ==
  ASSUME SeedStep
  PROVE  \/ UNCHANGED <<tenant, account>>
         \/ UpsertTenant \/ UpsertAdmin \/ UpsertSubscription
         \/ \E code \in LeaveCodes : UpsertLeaveType(code)
BY DEF SeedStep, UpsertFactory, UpsertDepartment, UpsertWorker, UpsertDemoRow, CountShifts,
       CreateShifts, ListLeaveTypes, UpsertBalance, SeedDies, AddShift

(* ... and what the others do to the row of the demo company. *)

LEMMA DemoEffect ==
  ASSUME SeedTypeInv,
         UpsertTenant \/ UpsertSubscription \/ \E code \in LeaveCodes : UpsertLeaveType(code)
  PROVE  /\ tenant' \in [Slugs -> TenantRows]
         /\ \A s \in Slugs : s # Demo => tenant'[s] = tenant[s]
         /\ UNCHANGED account
         /\ Exists(Demo) => /\ tenant'[Demo].status = tenant[Demo].status
                            /\ tenant[Demo].subscribed => tenant'[Demo].subscribed
                            /\ tenant[Demo].leaveTypes \subseteq tenant'[Demo].leaveTypes
<1>1. tenant[Demo] \in TenantRows /\ Demo \in Slugs
  BY SeedAssumption DEF SeedTypeInv, ProducersTypeOK
<1>2. CASE UpsertTenant
  <2> DEFINE row == IF Exists(Demo) THEN tenant[Demo] ELSE [NoTenant EXCEPT !.status = "ACTIVE"]
  <2>1. row \in TenantRows /\ (Exists(Demo) => row = tenant[Demo])
    BY <1>1, SeedRows
  <2>2. tenant' = [tenant EXCEPT ![Demo] = row] /\ UNCHANGED account
    BY <1>2 DEF UpsertTenant
  <2> HIDE DEF row
  <2>3. QED
    BY <1>1, <2>1, <2>2, TenantEffect
<1>3. CASE UpsertSubscription
  <2> DEFINE row == [tenant[Demo] EXCEPT !.subscribed = TRUE]
  <2>1. /\ row \in TenantRows /\ row.status = tenant[Demo].status /\ row.subscribed
        /\ row.leaveTypes = tenant[Demo].leaveTypes
    BY <1>1 DEF TenantRows
  <2>2. tenant' = [tenant EXCEPT ![Demo] = row] /\ UNCHANGED account
    BY <1>3 DEF UpsertSubscription
  <2> HIDE DEF row
  <2>3. QED
    BY <1>1, <2>1, <2>2, TenantEffect
<1>4. ASSUME NEW code \in LeaveCodes, UpsertLeaveType(code)
      PROVE  /\ tenant' \in [Slugs -> TenantRows]
             /\ \A s \in Slugs : s # Demo => tenant'[s] = tenant[s]
             /\ UNCHANGED account
             /\ tenant'[Demo].status = tenant[Demo].status
             /\ tenant[Demo].subscribed => tenant'[Demo].subscribed
             /\ tenant[Demo].leaveTypes \subseteq tenant'[Demo].leaveTypes
  <2> DEFINE row == [tenant[Demo] EXCEPT !.leaveTypes = tenant[Demo].leaveTypes \cup {code}]
  <2>1. /\ row \in TenantRows /\ row.status = tenant[Demo].status
        /\ row.subscribed = tenant[Demo].subscribed
        /\ row.leaveTypes = tenant[Demo].leaveTypes \cup {code}
    BY <1>1 DEF TenantRows
  <2>2. tenant' = [tenant EXCEPT ![Demo] = row] /\ UNCHANGED account
    BY <1>4 DEF UpsertLeaveType
  <2> HIDE DEF row
  <2>3. QED
    BY <1>1, <2>1, <2>2, TenantEffect
<1>5. QED
  BY <1>2, <1>3, <1>4

LEMMA AdminEffect ==
  ASSUME SeedTypeInv, UpsertAdmin
  PROVE  /\ account' \in [Emails -> Accounts \cup {NoAccount}]
         /\ account'[Admin] # NoAccount
         /\ \A m \in Emails : \/ account'[m] = account[m]
                              \/ account[m] = NoAccount /\ account'[m].role = "ADMIN"
         /\ UNCHANGED tenant
<1>1. account[Admin] \in Accounts \cup {NoAccount} /\ Demo \in Slugs /\ Admin \in Emails
  BY SeedAssumption DEF SeedTypeInv, ProducersTypeOK
<1> DEFINE row == IF account[Admin] = NoAccount THEN [tenant |-> Demo, role |-> "ADMIN"]
                  ELSE account[Admin]
<1>2. [tenant |-> Demo, role |-> "ADMIN"] # NoAccount
  BY DEF NoAccount
<1>3. /\ row \in Accounts \cup {NoAccount} /\ row # NoAccount
      /\ row = account[Admin] \/ (account[Admin] = NoAccount /\ row.role = "ADMIN")
  BY <1>1, <1>2, SeedRows
<1>4. account' = [account EXCEPT ![Admin] = row] /\ UNCHANGED tenant
  BY DEF UpsertAdmin
<1> HIDE DEF row
<1>5. QED
  BY <1>1, <1>3, <1>4, AccountEffect

LEMMA ScriptType ==
  ASSUME SeedTypeInv, SeedStep, UNCHANGED <<may, incident, call, deliveryVars>>
  PROVE  SeedTypeInv'
<1>1. ProducersTypeOK' /\ \A h \in Handlers : CallOK(call'[h])
  <2>1. CASE UNCHANGED <<tenant, account>>
    BY <2>1 DEF SeedTypeInv, ProducersTypeOK, deliveryVars
  <2>2. CASE UpsertAdmin
    BY <2>2, AdminEffect DEF SeedTypeInv, ProducersTypeOK, deliveryVars
  <2>3. CASE UpsertTenant \/ UpsertSubscription \/ \E code \in LeaveCodes : UpsertLeaveType(code)
    BY <2>3, DemoEffect DEF SeedTypeInv, ProducersTypeOK, deliveryVars
  <2>4. QED
    BY <2>1, <2>2, <2>3, ScriptFrame
<1>2. seed'.step \in SeedSteps /\ seed' \in [step : SeedSteps, todo : SUBSET LeaveCodes]
  <2>1. /\ seed \in [step : SeedSteps, todo : SUBSET LeaveCodes]
        /\ tenant[Demo].leaveTypes \subseteq LeaveCodes
    BY SeedAssumption DEF SeedTypeInv, SeedTypeOK, ProducersTypeOK, TenantRows
  <2>2. ASSUME NEW step \in SeedSteps, NEW codes \in SUBSET LeaveCodes, Loop(step, codes)
        PROVE  seed' \in [step : SeedSteps, todo : SUBSET LeaveCodes]
    BY <2>2 DEF Loop
  <2>3. ASSUME NEW step \in SeedSteps, Proceed(step)
        PROVE  seed' \in [step : SeedSteps, todo : SUBSET LeaveCodes]
    BY <2>3 DEF Proceed
  <2>4. SUFFICES seed' \in [step : SeedSteps, todo : SUBSET LeaveCodes]
    OBVIOUS
  <2>5. CASE UpsertAdmin \/ ListLeaveTypes
    BY <2>1, <2>2, <2>5 DEF UpsertAdmin, ListLeaveTypes, SeedSteps, SeedCodes, LeaveCodes
  <2>6. ASSUME NEW code \in LeaveCodes, UpsertLeaveType(code) \/ UpsertBalance(code)
        PROVE  seed' \in [step : SeedSteps, todo : SUBSET LeaveCodes]
    <3>1. seed.todo \ {code} \subseteq LeaveCodes
      BY <2>1
    <3>2. QED
      BY <2>2, <2>3, <2>6, <3>1 DEF UpsertLeaveType, UpsertBalance, SeedSteps
  <2>7. CASE AddShift
    BY <2>1, <2>7 DEF AddShift
  <2>8. CASE \/ UpsertTenant \/ UpsertFactory \/ UpsertDepartment \/ CountShifts \/ CreateShifts
             \/ UpsertWorker \/ UpsertSubscription \/ SeedDies
    BY <2>3, <2>8 DEF UpsertTenant, UpsertFactory, UpsertDepartment, CountShifts, CreateShifts,
       UpsertWorker, UpsertSubscription, SeedDies, UpsertDemoRow, SeedSteps
  <2>9. QED
    BY <2>5, <2>6, <2>7, <2>8 DEF SeedStep
<1>3. shifts' \in 0 .. MaxShifts + 3 /\ (At("shifts") => shifts <= MaxShifts)'
  <2>1. /\ shifts \in 0 .. MaxShifts + 3 /\ MaxShifts \in Nat
        /\ At("shifts") => shifts <= MaxShifts
    BY SeedAssumption DEF SeedTypeInv, SeedTypeOK
  <2>2. CASE AddShift
    BY <2>1, <2>2 DEF AddShift, At
  <2>3. CASE CreateShifts
    BY <2>1, <2>3 DEF CreateShifts, At, Proceed
  <2>4. CASE CountShifts
    BY <2>1, <2>4 DEF CountShifts, At, Proceed
  <2>5. CASE shifts' = shifts /\ seed'.step # "shifts"
    BY <2>1, <2>5 DEF At
  <2>6. SUFFICES ASSUME ~ AddShift, ~ CreateShifts, ~ CountShifts
                 PROVE  shifts' = shifts /\ seed'.step # "shifts"
    BY <2>2, <2>3, <2>4, <2>5
  <2>7. QED
    BY <2>6 DEF SeedStep, UpsertTenant, UpsertFactory, UpsertDepartment, UpsertAdmin,
       UpsertLeaveType, UpsertWorker, ListLeaveTypes, UpsertBalance, UpsertSubscription,
       SeedDies, UpsertDemoRow, Proceed, Loop
<1>4. demoRows' \subseteq {"factory", "department", "worker"}
  <2>1. demoRows \subseteq {"factory", "department", "worker"}
    BY DEF SeedTypeInv, SeedTypeOK
  <2>2. QED
    BY <2>1 DEF SeedStep, UpsertTenant, UpsertFactory, UpsertDepartment, UpsertAdmin,
       UpsertLeaveType, CountShifts, CreateShifts, UpsertWorker, ListLeaveTypes, UpsertBalance,
       UpsertSubscription, SeedDies, AddShift, UpsertDemoRow
<1>5. balances' \subseteq LeaveCodes /\ seeded' \in BOOLEAN
  <2>1. balances \subseteq LeaveCodes /\ seeded \in BOOLEAN
    BY DEF SeedTypeInv, SeedTypeOK
  <2>2. QED
    BY <2>1 DEF SeedStep, UpsertTenant, UpsertFactory, UpsertDepartment, UpsertAdmin,
       UpsertLeaveType, CountShifts, CreateShifts, UpsertWorker, ListLeaveTypes, UpsertBalance,
       UpsertSubscription, SeedDies, AddShift, UpsertDemoRow
<1>6. QED
  BY <1>1, <1>2, <1>3, <1>4, <1>5 DEF SeedTypeInv, SeedTypeOK

LEMMA SeedTypeStep == SeedTypeInv /\ [SeedNext]_tenancyVars => SeedTypeInv'
<1> SUFFICES ASSUME SeedTypeInv, [SeedNext]_tenancyVars PROVE SeedTypeInv'
  OBVIOUS
<1>1. CASE UNCHANGED tenancyVars
  BY <1>1 DEF SeedTypeInv, ProducersTypeOK, SeedTypeOK, At, tenancyVars, producersVars, seedVars,
     rows, deliveryVars
<1>2. QED
  BY <1>1, ProducersType, ScriptType DEF SeedNext

(* The rows of tenancy and emergency and those of the demo company keep    *)
(* their types; in particular the script never adds its shifts to those    *)
(* that are there.                                                         *)
THEOREM SeedTypeCorrect == SeedSpec => [](ProducersTypeOK /\ SeedTypeOK)
<1>1. SeedTypeInv => ProducersTypeOK /\ SeedTypeOK
  BY DEF SeedTypeInv
<1>2. QED
  BY <1>1, SeedInitType, SeedTypeStep, PTL DEF SeedSpec

-----------------------------------------------------------------------------
(* Tenants are whole                                                       *)

WholeInv ==
  /\ TenantsAreWhole
  /\ \A m \in Emails :
       account[m].role = "OWNER" => tenant[account[m].tenant].status = "PROVISIONING"

(* Nothing is lost of a tenant that a request has made, and no account     *)
(* becomes or ceases to be an owner's.                                     *)
LEMMA WholeStays ==
  ASSUME SeedTypeInv, WholeInv,
         \A s \in Slugs :
           /\ tenant'[s].status = "PROVISIONING" <=> tenant[s].status = "PROVISIONING"
           /\ tenant[s].status = "PROVISIONING" =>
                /\ tenant[s].subscribed => tenant'[s].subscribed
                /\ tenant[s].leaveTypes \subseteq tenant'[s].leaveTypes,
         \A m \in Emails : \/ account'[m] = account[m]
                           \/ account[m] = NoAccount /\ account'[m].role = "ADMIN"
  PROVE  WholeInv'
<1>1. \A m \in Emails : /\ account[m].role = "OWNER" => account'[m] = account[m]
                        /\ account'[m].role = "OWNER" => account'[m] = account[m]
  BY SeedRows
<1>2. \A s \in Slugs : OwnersOf(s)' = OwnersOf(s)
  <2> SUFFICES ASSUME NEW s \in Slugs, NEW m \in Emails
               PROVE  account'[m] = [tenant |-> s, role |-> "OWNER"]
                        <=> account[m] = [tenant |-> s, role |-> "OWNER"]
    BY DEF OwnersOf
  <2>1. [tenant |-> s, role |-> "OWNER"].role = "OWNER"
    OBVIOUS
  <2>2. QED
    BY <1>1, <2>1
<1>3. TenantsAreWhole'
  BY <1>2 DEF WholeInv, TenantsAreWhole
<1>4. \A m \in Emails : account[m].role = "OWNER" => account[m].tenant \in Slugs
  BY SeedRows DEF SeedTypeInv, ProducersTypeOK, Accounts
<1>5. QED
  BY <1>1, <1>3, <1>4 DEF WholeInv

LEMMA WholeMade ==
  ASSUME SeedTypeInv, WholeInv, NEW h \in Handlers, NEW s \in Slugs, NEW m \in Emails, Made(h, s, m)
  PROVE  WholeInv'
<1>1. /\ tenant'[s] = Provisioned
      /\ \A r \in Slugs : r # s => tenant'[r] = tenant[r]
      /\ account'[m] = [tenant |-> s, role |-> "OWNER"]
      /\ \A n \in Emails : n # m => account'[n] = account[n]
      /\ account[m] = NoAccount
      /\ tenant[s].status = "ABSENT"
  BY SeedRows, TenantEffect, AccountEffect DEF Made, Exists
<1>2. /\ Provisioned.status = "PROVISIONING" /\ Provisioned.subscribed
      /\ Provisioned.leaveTypes = OwnLeaveCodes
  BY DEF Provisioned
<1>3. \A n \in Emails : account[n].role = "OWNER" => account[n].tenant # s
  BY <1>1 DEF WholeInv
<1>4. OwnersOf(s)' = {m}
  BY <1>1, <1>3 DEF OwnersOf
<1>5. \A r \in Slugs : r # s => OwnersOf(r)' = OwnersOf(r)
  <2> SUFFICES ASSUME NEW r \in Slugs, r # s, NEW n \in Emails
               PROVE  account'[n] = [tenant |-> r, role |-> "OWNER"]
                        <=> account[n] = [tenant |-> r, role |-> "OWNER"]
    BY DEF OwnersOf
  <2>1. [tenant |-> r, role |-> "OWNER"] # NoAccount
    BY DEF NoAccount
  <2>2. [tenant |-> r, role |-> "OWNER"] # [tenant |-> s, role |-> "OWNER"]
    OBVIOUS
  <2>3. QED
    BY <1>1, <2>1, <2>2
<1>6. TenantsAreWhole'
  <2> SUFFICES ASSUME NEW r \in Slugs, tenant'[r].status = "PROVISIONING"
               PROVE  /\ \E n \in Emails : OwnersOf(r)' = {n}
                      /\ tenant'[r].subscribed
                      /\ OwnLeaveCodes \subseteq tenant'[r].leaveTypes
    BY DEF TenantsAreWhole
  <2>1. CASE r = s
    BY <1>1, <1>2, <1>4, <2>1
  <2>2. CASE r # s
    BY <1>1, <1>5, <2>2 DEF WholeInv, TenantsAreWhole
  <2>3. QED
    BY <2>1, <2>2
<1>7. \A n \in Emails : account[n].role = "OWNER" => account[n].tenant \in Slugs
  BY SeedRows DEF SeedTypeInv, ProducersTypeOK, Accounts
<1>8. \A n \in Emails :
        account'[n].role = "OWNER" => tenant'[account'[n].tenant].status = "PROVISIONING"
  BY <1>1, <1>2, <1>7 DEF WholeInv
<1>9. QED
  BY <1>6, <1>8 DEF WholeInv

(* What SeedNext does to tenants and accounts. *)
LEMMA TenancyStep ==
  ASSUME SeedTypeInv, SeedNext
  PROVE  \/ UNCHANGED <<tenant, account>>
         \/ /\ UNCHANGED seedVars
            /\ \E h \in Handlers, s \in Slugs, m \in Emails : Made(h, s, m)
         \/ UpsertAdmin
         \/ UpsertTenant \/ UpsertSubscription \/ \E code \in LeaveCodes : UpsertLeaveType(code)
<1>1. CASE SeedStep
  BY <1>1, ScriptFrame
<1>2. CASE ProducersNext /\ UNCHANGED seedVars
  <2>1. ASSUME NEW e \in Events, Relay(e) PROVE UNCHANGED <<tenant, account>>
    BY <2>1 DEF Relay, rows
  <2>2. ASSUME NEW h \in Handlers, Begin(h) \/ Continue(h) \/ Die(h), ~ CreateTenant(h)
        PROVE  UNCHANGED <<tenant, account>>
    BY <2>2, ProducerEffect DEF Begin, Continue, RecordTenant, RecordIncident
  <2>3. QED
    BY <1>2, <2>1, <2>2, CreateEffect DEF ProducersNext
<1>3. QED
  BY <1>1, <1>2 DEF SeedNext

LEMMA WholeStep == SeedTypeInv /\ WholeInv /\ [SeedNext]_tenancyVars => WholeInv'
<1> SUFFICES ASSUME SeedTypeInv, WholeInv, [SeedNext]_tenancyVars PROVE WholeInv'
  OBVIOUS
<1>1. CASE UNCHANGED <<tenant, account>>
  BY <1>1, WholeStays
<1>2. CASE \E h \in Handlers, s \in Slugs, m \in Emails : Made(h, s, m)
  BY <1>2, WholeMade
<1>3. CASE UpsertAdmin
  BY <1>3, AdminEffect, WholeStays
<1>4. CASE UpsertTenant \/ UpsertSubscription \/ \E code \in LeaveCodes : UpsertLeaveType(code)
  <2>1. CASE Exists(Demo)
    BY <1>4, <2>1, DemoEffect, WholeStays
  <2>2. CASE ~ Exists(Demo)
    <3>1. tenant'[Demo].status # "PROVISIONING"
      <4>1. tenant[Demo] \in TenantRows /\ Demo \in Slugs /\ tenant[Demo].status = "ABSENT"
        BY <2>2, SeedAssumption DEF SeedTypeInv, ProducersTypeOK, Exists
      <4>2. CASE UpsertTenant
        BY <2>2, <4>1, <4>2, SeedRows, TenantEffect DEF UpsertTenant, NoTenant
      <4>3. CASE UpsertSubscription
        BY <4>1, <4>3 DEF UpsertSubscription, SeedTypeInv, ProducersTypeOK, TenantRows
      <4>4. ASSUME NEW code \in LeaveCodes, UpsertLeaveType(code)
            PROVE  tenant'[Demo].status # "PROVISIONING"
        BY <4>1, <4>4 DEF UpsertLeaveType, SeedTypeInv, ProducersTypeOK, TenantRows
      <4>5. QED
        BY <1>4, <4>2, <4>3, <4>4
    <3>2. tenant[Demo].status # "PROVISIONING"
      BY <2>2 DEF Exists
    <3>3. QED
      BY <1>4, <3>1, <3>2, DemoEffect, WholeStays
  <2>3. QED
    BY <2>1, <2>2
<1>5. CASE UNCHANGED tenancyVars
  BY <1>1, <1>5 DEF tenancyVars, producersVars, rows
<1>6. QED
  BY <1>1, <1>2, <1>3, <1>4, <1>5, TenancyStep

-----------------------------------------------------------------------------
(* Events are true                                                         *)

EventInv ==
  /\ \A e \in Events : outcome[e] # "none" => Committed(e)
  /\ \A h \in Handlers : call[h].step = "record" => Committed(call[h].subject)

(* SeedRows that are committed stay so. *)
LEMMA CommittedStays ==
  ASSUME SeedTypeInv, [SeedNext]_tenancyVars, NEW e \in Events, Committed(e)
  PROVE  Committed(e)'
<1>1. CASE e \in Slugs
  <2>1. tenant[e].status = "PROVISIONING" /\ Exists(e)
    BY <1>1 DEF Committed, Exists
  <2>2. SUFFICES tenant'[e].status = "PROVISIONING"
    BY <1>1 DEF Committed
  <2>3. CASE UNCHANGED <<tenant, account>>
    BY <2>1, <2>3
  <2>4. ASSUME NEW h \in Handlers, NEW s \in Slugs, NEW m \in Emails, Made(h, s, m)
        PROVE  tenant'[e].status = "PROVISIONING"
    BY <1>1, <2>1, <2>4, SeedRows, TenantEffect DEF Made
  <2>5. CASE UpsertAdmin
    BY <2>1, <2>5, AdminEffect
  <2>6. CASE UpsertTenant \/ UpsertSubscription \/ \E code \in LeaveCodes : UpsertLeaveType(code)
    BY <1>1, <2>1, <2>6, DemoEffect
  <2>7. CASE UNCHANGED tenancyVars
    BY <2>3, <2>7 DEF tenancyVars, producersVars, rows
  <2>8. QED
    BY <2>3, <2>4, <2>5, <2>6, <2>7, TenancyStep
<1>2. CASE e \notin Slugs
  <2>1. e \in Incidents /\ incident[e] # "ABSENT"
    BY <1>2, ProducersAssumption DEF Committed
  <2>2. SUFFICES incident'[e] # "ABSENT"
    BY <1>2 DEF Committed
  <2>3. CASE UNCHANGED incident
    BY <2>1, <2>3
  <2>4. CASE ProducersNext
    BY <2>1, <2>3, <2>4, ProducerEffect DEF ProducersNext, Begin, Continue, RecordTenant,
       RecordIncident, CreateTenant, Relay, rows
  <2>5. QED
    BY <2>3, <2>4 DEF SeedNext, tenancyVars, producersVars, rows
<1>3. QED
  BY <1>1, <1>2

LEMMA EventStep == SeedTypeInv /\ EventInv /\ [SeedNext]_tenancyVars => EventInv'
<1> SUFFICES ASSUME SeedTypeInv, EventInv, [SeedNext]_tenancyVars PROVE EventInv'
  OBVIOUS
<1>1. SUFFICES /\ \A e \in Events : outcome'[e] # "none" => outcome[e] # "none" \/ Committed(e)'
               /\ \A h \in Handlers : call'[h].step = "record" =>
                    \/ call'[h] = call[h]
                    \/ \E e \in Events : call'[h].subject = e /\ Committed(e)'
  <2>1. \A h \in Handlers : call[h].step = "record" => call[h].subject \in Events
    BY DEF SeedTypeInv, CallOK
  <2>2. ASSUME NEW e \in Events, outcome'[e] # "none" PROVE Committed(e)'
    BY <1>1, <2>2, CommittedStays DEF EventInv
  <2>3. ASSUME NEW h \in Handlers, call'[h].step = "record" PROVE Committed(call[h].subject)'
    <3>1. CASE call'[h] = call[h]
      <4>1. call[h].subject \in Events /\ Committed(call[h].subject)
        BY <2>1, <2>3, <3>1 DEF EventInv
      <4> DEFINE e == call[h].subject
      <4>2. PICK d \in Events : d = e
        BY <4>1
      <4>3. Committed(d)'
        BY <4>1, <4>2, CommittedStays
      <4>4. call'[h].subject = d
        BY <3>1, <4>2
      <4>5. QED
        BY <4>3, <4>4 DEF Committed
    <3>2. CASE \E e \in Events : call'[h].subject = e /\ Committed(e)'
      BY <3>2 DEF Committed
    <3>3. QED
      BY <1>1, <2>3, <3>1, <3>2
  <2>4. QED
    BY <2>2, <2>3 DEF EventInv
<1>2. CASE UNCHANGED <<call, deliveryVars>>
  BY <1>2 DEF deliveryVars
<1>3. ASSUME NEW h \in Handlers, CreateTenant(h)
      PROVE  /\ \A e \in Events : outcome'[e] # "none" => outcome[e] # "none"
             /\ \A g \in Handlers : call'[g].step = "record" =>
                    \/ call'[g] = call[g]
                    \/ \E e \in Events : call'[g].subject = e /\ Committed(e)'
  <2>1. UNCHANGED outcome
    BY <1>3 DEF CreateTenant, deliveryVars
  <2>2. ASSUME NEW s \in Slugs, NEW m \in Emails, Made(h, s, m) PROVE Committed(s)'
    <3>1. tenant'[s].status = "PROVISIONING"
      BY <2>2, SeedRows, TenantEffect DEF Made, Provisioned
    <3>2. QED
      BY <3>1 DEF Committed
  <2>3. call'[h].step = "record" => \E e \in Events : call'[h].subject = e /\ Committed(e)'
    BY <1>3, <2>2, CreateEffect, SeedRows, ProducersAssumption DEF Made
  <2>4. QED
    BY <1>3, <2>1, <2>3, CreateEffect
<1>4. ASSUME NEW h \in Handlers,
             \/ \E s \in Slugs, m \in Emails : FindSlug(h, s, m)
             \/ \E i \in Incidents : InsertIncident(h, i) \/ FindIncident(h, i)
             \/ FindEmail(h) \/ UpdateIncident(h) \/ PublishSubject(h) \/ Die(h)
      PROVE  /\ \A e \in Events : outcome'[e] # "none" => outcome[e] # "none" \/ Committed(e)'
             /\ \A g \in Handlers : call'[g].step = "record" =>
                    \/ call'[g] = call[g]
                    \/ \E e \in Events : call'[g].subject = e /\ Committed(e)'
  <2>1. \A e \in Events : outcome'[e] # "none" => outcome[e] # "none" \/ Committed(e)'
    <3>1. CASE UNCHANGED deliveryVars
      BY <3>1 DEF deliveryVars
    <3>2. CASE call[h].step = "record" /\ Accept(call[h].subject)
      <4>1. call[h].subject \in Events /\ Committed(call[h].subject)
        BY <3>2 DEF SeedTypeInv, CallOK, EventInv
      <4>2. PICK d \in Events : d = call[h].subject
        BY <4>1
      <4>3. Committed(d)'
        BY <4>1, <4>2, CommittedStays
      <4>4. Accept(d)
        BY <3>2, <4>2
      <4>5. QED
        BY <4>3, <4>4, DeliveryEffect
    <3>3. QED
      BY <1>4, <3>1, <3>2, ProducerEffect
  <2>2. ASSUME NEW i \in Incidents, incident'[i] # "ABSENT" PROVE i \in Events /\ Committed(i)'
    BY <2>2, ProducersAssumption DEF Committed
  <2>3. QED
    BY <1>4, <2>1, <2>2, ProducerEffect
<1>5. ASSUME NEW e \in Events, Relay(e)
      PROVE  UNCHANGED call /\ \A d \in Events : outcome'[d] # "none" => outcome[d] # "none"
  <2>1. UNCHANGED call /\ outcome[e] # "none"
    BY <1>5 DEF Relay, Deliver, Confirm, GiveUp
  <2>2. QED
    BY <1>5, <2>1, DeliveryEffect DEF Relay
<1>6. CASE ProducersNext
  BY <1>3, <1>4, <1>5, <1>6 DEF ProducersNext, Begin, Continue, RecordTenant, RecordIncident
<1>7. QED
  BY <1>2, <1>6 DEF SeedNext, tenancyVars, producersVars

-----------------------------------------------------------------------------
(* The script completes what it has begun                                  *)

(* The script is at one of these steps, or has ended by itself before. *)
Past(steps) == seed.step \in steps \/ seeded

SeedInv ==
  /\ Past(SeedSteps \ {"off"}) => Exists(Demo)
  /\ Past(AfterFactory) => "factory" \in demoRows
  /\ Past(AfterDepartment) => "department" \in demoRows
  /\ Past(AfterAdmin) => account[Admin] # NoAccount
  /\ Past(AfterTypes) => SeedCodes \subseteq tenant[Demo].leaveTypes
  /\ At("leaveTypes") =>
       /\ seed.todo \subseteq SeedCodes
       /\ SeedCodes \subseteq tenant[Demo].leaveTypes \cup seed.todo
  /\ Past(AfterShifts) => shifts > 0
  /\ Past(AfterWorker) => "worker" \in demoRows
  /\ balances \subseteq tenant[Demo].leaveTypes
  /\ At("balances") =>
       /\ seed.todo \subseteq tenant[Demo].leaveTypes
       /\ tenant[Demo].leaveTypes \subseteq balances \cup seed.todo
  /\ Past({"subscription"}) => tenant[Demo].leaveTypes \subseteq balances
  /\ ~ Exists(Demo) => balances = {}
  /\ seeded => tenant[Demo].subscribed

LEMMA SeedStepInv == SeedTypeInv /\ SeedInv /\ [SeedNext]_tenancyVars => SeedInv'
<1> SUFFICES ASSUME SeedTypeInv, SeedInv, [SeedNext]_tenancyVars PROVE SeedInv'
  OBVIOUS
<1> USE DEF AfterFactory, AfterDepartment, AfterAdmin, AfterTypes, AfterShifts, AfterWorker
<1>0. /\ tenant \in [Slugs -> TenantRows] /\ Demo \in Slugs /\ Admin \in Emails
      /\ account \in [Emails -> Accounts \cup {NoAccount}]
      /\ seed \in [step : SeedSteps, todo : SUBSET LeaveCodes]
      /\ shifts \in 0 .. MaxShifts + 3 /\ MaxShifts \in Nat
  BY SeedAssumption DEF SeedTypeInv, ProducersTypeOK, SeedTypeOK
<1>1. CASE UNCHANGED <<tenant, account, seedVars>>
  BY <1>1 DEF SeedInv, Past, At, Exists, seedVars
<1>2. ASSUME NEW h \in Handlers, NEW s \in Slugs, NEW m \in Emails, Made(h, s, m),
             UNCHANGED seedVars
      PROVE  SeedInv'
  <2>1. /\ \A r \in Slugs : r # s => tenant'[r] = tenant[r]
        /\ tenant'[s] = Provisioned
        /\ account'[Admin] = account[Admin] \/ account'[Admin] # NoAccount
    BY <1>0, <1>2, SeedRows, TenantEffect, AccountEffect DEF Made, NoAccount
  <2>2. CASE s # Demo
    BY <1>0, <1>2, <2>1, <2>2 DEF SeedInv, Past, At, Exists, seedVars
  <2>3. CASE s = Demo
    <3>1. ~ Exists(Demo) /\ balances = {}
      BY <1>2, <2>3 DEF Made, SeedInv
    <3>2. seed.step = "off" /\ ~ seeded
      BY <1>0, <3>1 DEF SeedInv, Past
    <3>3. Exists(Demo)'
      BY <2>1, <2>3 DEF Exists, Provisioned
    <3>4. QED
      BY <1>2, <3>1, <3>2, <3>3 DEF SeedInv, Past, At, seedVars
  <2>4. QED
    BY <2>2, <2>3
<1>3. CASE UpsertTenant
  <2>1. tenant'[Demo] = IF Exists(Demo) THEN tenant[Demo] ELSE [NoTenant EXCEPT !.status = "ACTIVE"]
    BY <1>0, <1>3 DEF UpsertTenant
  <2>2. Exists(Demo)' /\ (Exists(Demo) => tenant'[Demo] = tenant[Demo])
    BY <2>1 DEF Exists, NoTenant
  <2>3. seed'.step = "factory" /\ UNCHANGED <<account, demoRows, shifts, balances, seeded>>
    BY <1>3 DEF UpsertTenant, Proceed
  <2>4. CASE Exists(Demo)
    BY <2>2, <2>3, <2>4 DEF SeedInv, Past, At
  <2>5. CASE ~ Exists(Demo)
    <3>1. balances = {} /\ ~ seeded
      BY <2>5 DEF SeedInv, Past
    <3>2. QED
      BY <2>2, <2>3, <3>1 DEF SeedInv, Past, At
  <2>6. QED
    BY <2>4, <2>5
<1>4. CASE UpsertFactory
  BY <1>4 DEF UpsertFactory, UpsertDemoRow, Proceed, SeedInv, Past, At, Exists, SeedSteps
<1>5. CASE UpsertDepartment
  BY <1>5 DEF UpsertDepartment, UpsertDemoRow, Proceed, SeedInv, Past, At, Exists, SeedSteps
<1>6. CASE UpsertWorker
  BY <1>6 DEF UpsertWorker, UpsertDemoRow, Proceed, SeedInv, Past, At, Exists, SeedSteps
<1>7. CASE UpsertAdmin
  <2>1. account'[Admin] # NoAccount /\ UNCHANGED tenant
    BY <1>7, AdminEffect
  <2>2. /\ seed.step = "admin" /\ seed'.step = "leaveTypes" /\ seed'.todo = SeedCodes
        /\ UNCHANGED <<demoRows, shifts, balances, seeded>>
    BY <1>7 DEF UpsertAdmin, Loop, At
  <2>3. QED
    BY <2>1, <2>2 DEF SeedInv, Past, At, Exists, SeedSteps
<1>8. ASSUME NEW code \in LeaveCodes, UpsertLeaveType(code) PROVE SeedInv'
  <2>1. /\ tenant'[Demo].leaveTypes = tenant[Demo].leaveTypes \cup {code}
        /\ tenant'[Demo].status = tenant[Demo].status
        /\ tenant'[Demo].subscribed = tenant[Demo].subscribed
    BY <1>0, <1>8 DEF UpsertLeaveType, TenantRows
  <2>2. /\ seed.step = "leaveTypes" /\ code \in seed.todo
        /\ \/ seed'.step = "count" /\ seed.todo = {code}
           \/ seed'.step = "leaveTypes" /\ seed'.todo = seed.todo \ {code}
        /\ UNCHANGED <<account, demoRows, shifts, balances, seeded>>
    BY <1>8 DEF UpsertLeaveType, Loop, Proceed, At
  <2>3. tenant'[Demo].leaveTypes = tenant[Demo].leaveTypes \/ ~ seeded
    BY <2>1, <2>2 DEF SeedInv, Past, At
  <2>4. SeedCodes \subseteq tenant'[Demo].leaveTypes \cup (seed.todo \ {code})
    BY <2>1, <2>2 DEF SeedInv, At
  <2>5. Exists(Demo) /\ Exists(Demo)'
    BY <2>1, <2>2 DEF SeedInv, Past, Exists, SeedSteps
  <2>6. CASE seed'.step = "count" /\ seed.todo = {code}
    BY <2>1, <2>2, <2>3, <2>4, <2>5, <2>6 DEF SeedInv, Past, At, SeedSteps
  <2>7. CASE seed'.step = "leaveTypes" /\ seed'.todo = seed.todo \ {code}
    BY <2>1, <2>2, <2>3, <2>4, <2>5, <2>7 DEF SeedInv, Past, At, SeedSteps
  <2>8. QED
    BY <2>2, <2>6, <2>7
<1>9. CASE CountShifts
  BY <1>0, <1>9 DEF CountShifts, Proceed, SeedInv, Past, At, Exists, SeedSteps
<1>10. CASE CreateShifts
  BY <1>0, <1>10 DEF CreateShifts, Proceed, SeedInv, Past, At, Exists, SeedSteps
<1>11. CASE ListLeaveTypes
  BY <1>11 DEF ListLeaveTypes, Loop, SeedInv, Past, At, Exists, SeedSteps
<1>12. ASSUME NEW code \in LeaveCodes, UpsertBalance(code) PROVE SeedInv'
  <2>1. /\ seed.step = "balances" /\ code \in seed.todo
        /\ \/ seed'.step = "subscription" /\ seed.todo = {code}
           \/ seed'.step = "balances" /\ seed'.todo = seed.todo \ {code}
        /\ balances' = balances \cup {code}
        /\ UNCHANGED <<tenant, account, demoRows, shifts, seeded>>
    BY <1>12 DEF UpsertBalance, Loop, Proceed, At
  <2>2. /\ balances' \subseteq tenant[Demo].leaveTypes
        /\ tenant[Demo].leaveTypes \subseteq balances' \cup (seed.todo \ {code})
        /\ Exists(Demo)
    BY <2>1 DEF SeedInv, Past, At, SeedSteps
  <2>3. CASE seed'.step = "subscription" /\ seed.todo = {code}
    BY <2>1, <2>2, <2>3 DEF SeedInv, Past, At, Exists, SeedSteps
  <2>4. CASE seed'.step = "balances" /\ seed'.todo = seed.todo \ {code}
    BY <2>1, <2>2, <2>4 DEF SeedInv, Past, At, Exists, SeedSteps
  <2>5. QED
    BY <2>1, <2>3, <2>4
<1>13. CASE UpsertSubscription
  <2>1. /\ tenant'[Demo].leaveTypes = tenant[Demo].leaveTypes
        /\ tenant'[Demo].status = tenant[Demo].status
        /\ tenant'[Demo].subscribed
    BY <1>0, <1>13 DEF UpsertSubscription, TenantRows
  <2>2. /\ seed.step = "subscription" /\ seed'.step = "off" /\ seeded'
        /\ UNCHANGED <<account, demoRows, shifts, balances>>
    BY <1>13 DEF UpsertSubscription, Proceed, At
  <2>3. QED
    BY <2>1, <2>2 DEF SeedInv, Past, At, Exists, SeedSteps
<1>14. CASE SeedDies
  BY <1>14 DEF SeedDies, Proceed, SeedInv, Past, At, Exists, SeedSteps
<1>15. CASE AddShift
  BY <1>0, <1>15 DEF AddShift, SeedInv, Past, At, Exists
<1>16. CASE SeedStep
  BY <1>3, <1>4, <1>5, <1>6, <1>7, <1>8, <1>9, <1>10, <1>11, <1>12, <1>13, <1>14, <1>15, <1>16
     DEF SeedStep
<1>17. CASE ProducersNext /\ UNCHANGED seedVars
  <2>1. \/ UNCHANGED <<tenant, account>>
        \/ \E h \in Handlers, s \in Slugs, m \in Emails : Made(h, s, m)
    <3>1. ASSUME NEW e \in Events, Relay(e) PROVE UNCHANGED <<tenant, account>>
      BY <3>1 DEF Relay, rows
    <3>2. QED
      BY <1>17, <3>1, ProducerEffect, CreateEffect
         DEF ProducersNext, Begin, Continue, RecordTenant, RecordIncident
  <2>2. QED
    BY <1>1, <1>2, <1>17, <2>1
<1>18. CASE UNCHANGED tenancyVars
  BY <1>1, <1>18 DEF tenancyVars, producersVars, rows
<1>19. QED
  BY <1>16, <1>17, <1>18 DEF SeedNext

-----------------------------------------------------------------------------
LEMMA SeedInitInv == SeedInit => WholeInv /\ EventInv /\ SeedInv
<1> SUFFICES ASSUME SeedInit PROVE WholeInv /\ EventInv /\ SeedInv
  OBVIOUS
<1>1. /\ tenant = [s \in Slugs |-> NoTenant] /\ account = [m \in Emails |-> NoAccount]
      /\ call = [h \in Handlers |-> NoRequest] /\ outcome = [e \in Events |-> "none"]
      /\ seed.step = "off" /\ ~ seeded /\ balances = {}
  BY DEF SeedInit, ProducersInit, DeliveryInit
<1>2. WholeInv
  BY <1>1, SeedRows DEF WholeInv, TenantsAreWhole
<1>3. EventInv
  BY <1>1, SeedRows DEF EventInv
<1>4. SeedInv
  BY <1>1 DEF SeedInv, Past, At, AfterFactory, AfterDepartment, AfterAdmin, AfterTypes,
     AfterShifts, AfterWorker
<1>5. QED
  BY <1>2, <1>3, <1>4

(* However requests race for slugs and addresses, whatever fails and       *)
(* wherever processes and the script die: a tenant that a request has made *)
(* is whole, events speak of committed rows, and a script that reached its *)
(* end has left nothing out.                                               *)
THEOREM NothingIsHalfDone == SeedSpec => []NothingHalfDone
<1>1. SeedTypeInv /\ WholeInv /\ EventInv /\ SeedInv => NothingHalfDone
  <2> SUFFICES ASSUME SeedTypeInv, WholeInv, EventInv, SeedInv PROVE NothingHalfDone
    OBVIOUS
  <2>1. DemoIsComplete
    <3>1. demoRows \subseteq {"factory", "department", "worker"}
      BY DEF SeedTypeInv, SeedTypeOK
    <3>2. QED
      BY <3>1 DEF SeedInv, Past, DemoIsComplete
  <2>2. EventsAreTrue
    BY DEF EventInv, Committed, EventsAreTrue
  <2>3. QED
    BY <2>1, <2>2 DEF WholeInv, NothingHalfDone
<1>2. QED
  BY <1>1, SeedInitType, SeedInitInv, SeedTypeStep, WholeStep, EventStep, SeedStepInv, PTL DEF SeedSpec


(***************************************************************************)
(* Notifications.                                                          *)
(***************************************************************************)
Sendings == {"find", "send", "sent", "failed", "returned", "thrown"}
NoticeRows == [status : {"PENDING", "SENT", "FAILED"}, channel : Channels, read : BOOLEAN]
Used(j) == job[j].state # "free"
Of(j) == job[j].data.notice

NoticeTypes ==
  /\ troubles \in Weather
  /\ notice \in [Notices -> {NoNotice} \cup NoticeRows]
  /\ adding \in [Notices -> Letters \cup {None}]
  /\ mailed \in [Notices -> Nat]
  /\ sender \in [Senders -> {Resting} \cup [step : Sendings, job : Jobs]]
  /\ JobsTypeOK(Letters)

(* A notification has its row, then its request is about to add its job,   *)
(* then it has that one job for ever; nothing is mailed before.            *)
AddingInv == \A n \in Notices : adding[n] # None =>
               adding[n].notice = n /\ notice[n].status = "PENDING"
QueueInv ==
  /\ \A j \in Jobs : Used(j) =>
       job[j].data \in Letters /\ notice[Of(j)] # NoNotice /\ adding[Of(j)] = None
  /\ \A i, j \in Jobs : Used(i) /\ Used(j) /\ Of(i) = Of(j) => i = j
MailInv == \A n \in Notices : mailed[n] # 0 => \E j \in Jobs : Used(j) /\ Of(j) = n

(* An active job has one consumer. *)
SenderInv ==
  /\ \A k \in Senders : sender[k] # Resting => job[sender[k].job].state = "active"
  /\ \A k, l \in Senders :
       sender[k] # Resting /\ sender[l] # Resting /\ sender[k].job = sender[l].job => k = l

(* Copies are counted by stalls: one more only after the send. *)
Few(j) == mailed[Of(j)] <= job[j].stalls
CopyInv ==
  /\ \A j \in Jobs : Used(j) => mailed[Of(j)] <= job[j].stalls + 1
  /\ \A j \in Jobs : job[j].state = "waiting" => Few(j)
  /\ \A k \in Senders : sender[k].step \in {"find", "send"} => Few(sender[k].job)

(* SENT is written only after the mail server accepted the mail. *)
TruthInv ==
  /\ \A j \in Jobs : Used(j) /\ IsMail(job[j].data) /\ notice[Of(j)].status = "SENT" =>
       mailed[Of(j)] > 0
  /\ \A k \in Senders : sender[k].step = "sent" /\ IsMail(Letter(k)) => mailed[Of(sender[k].job)] > 0

NoticesInv ==
  NoticeTypes /\ AddingInv /\ QueueInv /\ MailInv /\ SenderInv /\ CopyInv /\ TruthInv

LEMMA NoticesInitInv == NoticesInit => NoticesInv
BY JobsAssumption, NotificationsAssumption
   DEF NoticesInit, NoticesInv, NoticeTypes, JobsInit, JobsTypeOK, JobStates, AddingInv, QueueInv, MailInv,
     SenderInv, CopyInv, Few, TruthInv, Used, Resting

LEMMA NoticesImplied == NoticesInv => NoticesTypeOK /\ SentIsSent
<1> SUFFICES ASSUME NoticesInv PROVE NoticesTypeOK /\ SentIsSent
  OBVIOUS
<1>0. MAX_STALLED \in Nat
  BY JobsAssumption
<1>1. ASSUME NEW n \in Notices PROVE mailed[n] \in 0 .. MAX_STALLED + 1
  <2>1. CASE mailed[n] # 0
    <3>1. PICK j \in Jobs : Used(j) /\ Of(j) = n
      BY <2>1 DEF NoticesInv, MailInv
    <3>2. mailed[n] <= job[j].stalls + 1 /\ job[j].stalls \in 0 .. MAX_STALLED /\ mailed[n] \in Nat
      BY <3>1 DEF NoticesInv, CopyInv, Few, NoticeTypes, JobsTypeOK
    <3>3. QED
      BY <1>0, <3>2
  <2>2. QED
    BY <1>0, <2>1
<1>2. NoticesTypeOK
  BY <1>1 DEF NoticesInv, NoticeTypes, NoticesTypeOK, NoticeRows, Sendings
<1>3. SentIsSent
  BY DEF NoticesInv, CopyInv, Few, TruthInv, SentIsSent, JobsOfNotice, Used, Of
<1>4. QED
  BY <1>2, <1>3

LEMMA RowsStep ==
  ASSUME NoticesInv, NEW n \in Notices,
         (\E command \in Commands : CreateNotice(n, command)) \/ MarkRead(n)
  PROVE  NoticesInv'
<1>0. UNCHANGED <<troubles, mailed, sender, job>>
  BY DEF CreateNotice, MarkRead
<1>1. CASE \E command \in Commands : CreateNotice(n, command)
  <2>1. PICK command \in Commands : CreateNotice(n, command)
    BY <1>1
  <2>2. command \in [channel : Channels, email : BOOLEAN, phone : BOOLEAN]
    BY NotificationsAssumption
  <2> DEFINE row == [status |-> "PENDING", channel |-> command.channel, read |-> FALSE]
             letter == [notice |-> n, email |-> command.email, phone |-> command.phone]
  <2>3. /\ row \in NoticeRows /\ row # NoNotice /\ row.status = "PENDING"
        /\ letter \in Letters /\ letter.notice = n
    BY <2>2 DEF NoticeRows, Letters, NoNotice
  <2>4. /\ notice[n] = NoNotice /\ notice' = [notice EXCEPT ![n] = row]
        /\ adding' = [adding EXCEPT ![n] = letter] \/ adding' = adding
    BY <2>1 DEF CreateNotice
  <2> HIDE DEF row, letter
  <2>5. \A j \in Jobs : Used(j) => Of(j) \in Notices /\ Of(j) # n
    BY <2>4 DEF NoticesInv, QueueInv, Letters, Of
  <2>6. NoticeTypes'
    BY <1>0, <2>3, <2>4 DEF NoticesInv, NoticeTypes, JobsTypeOK
  <2>7. AddingInv' /\ QueueInv'
    BY <1>0, <2>3, <2>4, <2>5 DEF NoticesInv, NoticeTypes, AddingInv, QueueInv, Used, Of
  <2>8. MailInv' /\ SenderInv' /\ CopyInv'
    BY <1>0 DEF NoticesInv, MailInv, SenderInv, CopyInv, Few, Used, Of
  <2>9. TruthInv'
    <3>1. \A k \in Senders : sender[k].step = "sent" => sender[k].job \in Jobs /\ Used(sender[k].job)
      BY DEF NoticesInv, NoticeTypes, SenderInv, Used, Resting
    <3>2. QED
      BY <1>0, <2>3, <2>4, <2>5, <3>1 DEF NoticesInv, NoticeTypes, TruthInv, IsMail, Letter, Used, Of
  <2>10. QED
    BY <2>6, <2>7, <2>8, <2>9 DEF NoticesInv
<1>2. CASE MarkRead(n)
  <2> DEFINE row == [notice[n] EXCEPT !.read = TRUE]
  <2>1. notice[n] \in NoticeRows
    BY <1>2 DEF MarkRead, NoticesInv, NoticeTypes, NoNotice
  <2>2. /\ row \in NoticeRows /\ row # NoNotice
        /\ row.status = notice[n].status /\ row.channel = notice[n].channel
    BY <2>1 DEF NoticeRows, NoNotice
  <2>3. notice' = [notice EXCEPT ![n] = row] /\ adding' = adding
    BY <1>2 DEF MarkRead
  <2> HIDE DEF row
  <2>4. NoticeTypes' /\ AddingInv'
    BY <1>0, <2>2, <2>3 DEF NoticesInv, NoticeTypes, JobsTypeOK, AddingInv
  <2>5. \A i \in Notices : /\ notice'[i].status = notice[i].status
                           /\ notice'[i].channel = notice[i].channel
                           /\ notice[i] # NoNotice => notice'[i] # NoNotice
    BY <2>2, <2>3 DEF NoticesInv, NoticeTypes
  <2>6. \A j \in Jobs : Used(j) => Of(j) \in Notices
    BY DEF NoticesInv, QueueInv, Letters, Of
  <2>7. QueueInv' /\ MailInv' /\ SenderInv' /\ CopyInv'
    BY <1>0, <2>3, <2>5, <2>6 DEF NoticesInv, QueueInv, MailInv, SenderInv, CopyInv, Few, Used, Of
  <2>8. TruthInv'
    <3>1. \A k \in Senders : sender[k].step = "sent" => sender[k].job \in Jobs /\ Used(sender[k].job)
      BY DEF NoticesInv, NoticeTypes, SenderInv, Used, Resting
    <3>2. QED
      BY <1>0, <2>5, <2>6, <3>1 DEF NoticesInv, TruthInv, IsMail, Letter, Used, Of
  <2>9. QED
    BY <2>4, <2>7, <2>8 DEF NoticesInv
<1>3. QED
  BY <1>1, <1>2

LEMMA AddStep ==
  ASSUME NoticesInv, NEW n \in Notices, AddNoticeJob(n)
  PROVE  NoticesInv'
<1>0. UNCHANGED <<troubles, notice, mailed, sender>> /\ adding[n] # None
      /\ adding' = [adding EXCEPT ![n] = None]
  BY DEF AddNoticeJob
<1>1. /\ adding[n] \in Letters /\ adding[n].notice = n
      /\ notice[n].status = "PENDING" /\ notice[n] # NoNotice
  BY <1>0 DEF NoticesInv, NoticeTypes, AddingInv, NoNotice
<1>2. \A j \in Jobs : Used(j) => Of(j) \in Notices /\ Of(j) # n
  BY <1>0 DEF NoticesInv, QueueInv, Letters, Of
<1>3. mailed[n] = 0
  BY <1>2 DEF NoticesInv, MailInv
<1>4. \A k \in Senders : sender[k] # Resting => sender[k].job \in Jobs /\ Used(sender[k].job)
  BY DEF NoticesInv, NoticeTypes, SenderInv, Used
<1>5. AddingInv'
  BY <1>0 DEF NoticesInv, NoticeTypes, AddingInv
<1>6. CASE UNCHANGED job
  <2>1. NoticeTypes' /\ QueueInv'
    BY <1>0, <1>2, <1>6 DEF NoticesInv, NoticeTypes, JobsTypeOK, QueueInv, Used, Of
  <2>2. MailInv' /\ SenderInv' /\ CopyInv' /\ TruthInv'
    BY <1>0, <1>6 DEF NoticesInv, MailInv, SenderInv, CopyInv, Few, TruthInv, Used, Of, IsMail, Letter
  <2>3. QED
    BY <1>5, <2>1, <2>2 DEF NoticesInv
<1>7. CASE Add(adding[n])
  <2> DEFINE new == [state |-> "waiting", data |-> adding[n], stalls |-> 0]
  <2>1. PICK j \in Jobs : job[j].state = "free" /\ job' = [job EXCEPT ![j] = new]
    BY <1>7 DEF Add
  <2>2. new \in [state : JobStates, data : Letters \cup {None}, stalls : 0 .. MAX_STALLED]
        /\ new.state = "waiting" /\ new.data = adding[n] /\ new.stalls = 0
    BY <1>1, JobsAssumption DEF JobStates
  <2> HIDE DEF new
  <2>3. job'[j] = new /\ \A i \in Jobs : i # j => job'[i] = job[i]
    BY <2>1 DEF NoticesInv, NoticeTypes, JobsTypeOK
  <2>4. NoticeTypes'
    BY <1>0, <2>1, <2>2 DEF NoticesInv, NoticeTypes, JobsTypeOK
  <2>5. \A k \in Senders : sender[k] # Resting => sender[k].job \in Jobs /\ sender[k].job # j
    BY <1>4, <2>1 DEF Used
  <2>6. QueueInv'
    BY <1>0, <1>1, <1>2, <2>1, <2>2, <2>3 DEF NoticesInv, NoticeTypes, QueueInv, Used, Of
  <2>7. MailInv' /\ SenderInv'
    BY <1>0, <2>1, <2>3, <2>5 DEF NoticesInv, MailInv, SenderInv, Used, Of
  <2>8. CopyInv' /\ TruthInv'
    BY <1>0, <1>1, <1>3, <2>1, <2>2, <2>3, <2>5
       DEF NoticesInv, NoticeTypes, CopyInv, Few, TruthInv, Used, Of, IsMail, Letter, Resting
  <2>9. QED
    BY <1>5, <2>4, <2>6, <2>7, <2>8 DEF NoticesInv
<1>8. QED
  BY <1>6, <1>7 DEF AddNoticeJob

(* A consumer and its job. *)
LEMMA SenderFacts ==
  ASSUME NoticesInv, NEW k \in Senders, sender[k] # Resting
  PROVE  /\ sender[k].step \in Sendings /\ sender[k].job \in Jobs
         /\ job[sender[k].job].state = "active" /\ Used(sender[k].job)
         /\ job[sender[k].job].data \in Letters /\ Of(sender[k].job) \in Notices
         /\ notice[Of(sender[k].job)] \in NoticeRows
BY DEF NoticesInv, NoticeTypes, SenderInv, QueueInv, Used, Of, Letters

LEMMA TakeStep ==
  ASSUME NoticesInv, NEW k \in Senders, NEW j \in Jobs, TakeLetter(k, j)
  PROVE  NoticesInv'
<1>0. /\ UNCHANGED <<troubles, notice, adding, mailed>>
      /\ sender[k].step = "idle" /\ job[j].state = "waiting"
  BY DEF TakeLetter, Take
<1> DEFINE r == [job[j] EXCEPT !.state = "active"]
           q == [step |-> "find", job |-> j]
<1>1. job' = [job EXCEPT ![j] = r] /\ sender' = [sender EXCEPT ![k] = q]
  BY DEF TakeLetter, Take, SetState
<1>2. /\ r \in [state : JobStates, data : Letters \cup {None}, stalls : 0 .. MAX_STALLED]
      /\ r.state = "active" /\ r.data = job[j].data /\ r.stalls = job[j].stalls
      /\ q \in [step : Sendings, job : Jobs] /\ q # Resting /\ q.job = j /\ q.step = "find"
  BY DEF NoticesInv, NoticeTypes, JobsTypeOK, JobStates, Sendings, Resting
<1> HIDE DEF r, q
<1>3. /\ \A i \in Jobs : job'[i] = IF i = j THEN r ELSE job[i]
      /\ \A l \in Senders : sender'[l] = IF l = k THEN q ELSE sender[l]
  BY <1>1 DEF NoticesInv, NoticeTypes, JobsTypeOK
<1>4. \A i \in Jobs : Used(i)' = Used(i) /\ job'[i].data = job[i].data /\ Of(i)' = Of(i)
  BY <1>0, <1>2, <1>3 DEF Used, Of
<1>5. \A l \in Senders : sender[l] # Resting => sender[l].job \in Jobs /\ sender[l].job # j
  BY <1>0, SenderFacts
<1>6. NoticeTypes' /\ AddingInv'
  BY <1>0, <1>1, <1>2 DEF NoticesInv, NoticeTypes, JobsTypeOK, AddingInv
<1>7. QueueInv' /\ MailInv'
  BY <1>0, <1>4 DEF NoticesInv, QueueInv, MailInv, Of
<1>8. SenderInv'
  BY <1>2, <1>3, <1>5 DEF NoticesInv, SenderInv
<1>9. CopyInv'
  <2>1. \A i \in Jobs : Used(i)' => mailed'[Of(i)'] <= job'[i].stalls + 1
    BY <1>0, <1>2, <1>3, <1>4 DEF NoticesInv, CopyInv
  <2>4. \A i \in Jobs : job'[i].state = "waiting" => Few(i)'
    BY <1>0, <1>2, <1>3, <1>4 DEF NoticesInv, CopyInv, Few
  <2>2. ASSUME NEW l \in Senders, sender'[l].step \in {"find", "send"}
        PROVE  Few(sender[l].job)'
    <3>1. CASE l = k
      BY <1>0, <1>2, <1>3, <3>1 DEF NoticesInv, CopyInv, Few, Of, Used
    <3>2. CASE l # k
      <4>1. sender'[l] = sender[l] /\ sender[l] # Resting
        BY <1>3, <2>2, <3>2 DEF Resting
      <4>2. job'[sender[l].job] = job[sender[l].job]
        BY <1>3, <1>5, <4>1
      <4>3. QED
        BY <1>0, <2>2, <4>1, <4>2 DEF NoticesInv, CopyInv, Few, Of, Used
    <3>3. QED
      BY <3>1, <3>2
  <2>3. QED
    BY <2>1, <2>2, <2>4 DEF CopyInv
<1>10. TruthInv'
  <2>1. \A i \in Jobs : Used(i)' /\ IsMail(job[i].data)' /\ notice'[Of(i)'].status = "SENT" =>
          mailed'[Of(i)'] > 0
    BY <1>0, <1>4 DEF NoticesInv, TruthInv, IsMail
  <2>2. ASSUME NEW l \in Senders, sender'[l].step = "sent", IsMail(Letter(l))'
        PROVE  mailed'[job'[sender'[l].job].data.notice] > 0
    <3>1. sender'[l] = sender[l] /\ sender[l] # Resting
      BY <1>2, <1>3, <2>2 DEF Resting
    <3>2. job'[sender[l].job] = job[sender[l].job]
      BY <1>3, <1>5, <3>1
    <3>3. IsMail(Letter(l))
      BY <1>0, <2>2, <3>1, <3>2 DEF IsMail, Letter
    <3>4. QED
      BY <1>0, <2>2, <3>1, <3>2, <3>3 DEF NoticesInv, TruthInv, Of
  <2>3. QED
    BY <2>1, <2>2 DEF TruthInv, Of, Used, IsMail, Letter
<1>11. QED
  BY <1>6, <1>7, <1>8, <1>9, <1>10 DEF NoticesInv

(* A consumer goes on: the mail server may have accepted the message. *)
LEMMA Goes ==
  ASSUME NoticesInv, NEW k \in Senders, sender[k] # Resting, NEW step \in {"send", "sent", "failed", "thrown"},
         SenderGoes(k, step), UNCHANGED <<troubles, notice, adding, job>>,
         mailed' = mailed \/ (mailed' = Posted(Of(sender[k].job)) /\ sender[k].step = "send"),
         step = "send" => sender[k].step = "find",
         step = "sent" /\ IsMail(Letter(k)) => mailed'[Of(sender[k].job)] > 0
  PROVE  NoticesInv'
<1> DEFINE j == sender[k].job
           n == Of(j)
           q == [sender[k] EXCEPT !.step = step]
<1>0. /\ j \in Jobs /\ Used(j) /\ n \in Notices /\ job[j].state = "active"
      /\ sender[k] \in [step : Sendings, job : Jobs]
  BY SenderFacts DEF NoticesInv, NoticeTypes
<1>1. sender' = [sender EXCEPT ![k] = q]
  BY DEF SenderGoes
<1>2. q \in [step : Sendings, job : Jobs] /\ q.job = j /\ q.step = step /\ q # Resting
  BY <1>0 DEF Sendings, Resting
<1> HIDE DEF q
<1>3. \A l \in Senders : sender'[l] = IF l = k THEN q ELSE sender[l]
  BY <1>1 DEF NoticesInv, NoticeTypes
<1>4. /\ mailed' \in [Notices -> Nat]
      /\ \A i \in Notices : i # n => mailed'[i] = mailed[i]
      /\ mailed[n] <= mailed'[n]
      /\ mailed'[n] = mailed[n] \/ (mailed'[n] = mailed[n] + 1 /\ sender[k].step = "send")
  BY <1>0 DEF NoticesInv, NoticeTypes, Posted
<1>5. \A i \in Jobs : Used(i) => Of(i) \in Notices /\ (i # j => Of(i) # n)
  BY <1>0 DEF NoticesInv, QueueInv, Letters, Of
<1>6. \A l \in Senders : sender[l] # Resting =>
        /\ sender[l].job \in Jobs /\ Used(sender[l].job) /\ (l # k => sender[l].job # j)
  BY SenderFacts DEF NoticesInv, SenderInv
<1>7. NoticeTypes' /\ AddingInv'
  BY <1>1, <1>2, <1>4 DEF NoticesInv, NoticeTypes, JobsTypeOK, AddingInv
<1>8. QueueInv' /\ SenderInv'
  BY <1>2, <1>3, <1>6 DEF NoticesInv, QueueInv, SenderInv, Used, Of
<1>9. MailInv'
  BY <1>0, <1>4 DEF NoticesInv, MailInv, Used, Of
<1>10. mailed[n] \in Nat /\ mailed[n] <= job[j].stalls + 1
       /\ (sender[k].step \in {"find", "send"} => mailed[n] <= job[j].stalls)
       /\ job[j].stalls \in Nat
  BY <1>0 DEF NoticesInv, NoticeTypes, JobsTypeOK, CopyInv, Few
<1>11. mailed'[n] <= job[j].stalls + 1 /\ (step = "send" => mailed'[n] <= job[j].stalls)
  BY <1>4, <1>10
<1>12. CopyInv'
  <2>1. \A i \in Jobs : Used(i)' => (mailed[Of(i)] <= job[i].stalls + 1)'
    BY <1>0, <1>4, <1>5, <1>11 DEF NoticesInv, CopyInv, Used, Of
  <2>4. \A i \in Jobs : job'[i].state = "waiting" => Few(i)'
    BY <1>0, <1>4, <1>5, <1>11 DEF NoticesInv, CopyInv, Few, Used, Of
  <2>2. ASSUME NEW l \in Senders, sender'[l].step \in {"find", "send"}
        PROVE  Few(sender[l].job)'
    <3>1. CASE l = k
      BY <1>2, <1>3, <1>11, <2>2, <3>1 DEF Few, Of
    <3>2. CASE l # k
      <4>1. sender'[l] = sender[l] /\ sender[l] # Resting
        BY <1>3, <2>2, <3>2 DEF Resting
      <4>2. mailed[Of(sender[l].job)] <= job[sender[l].job].stalls
        BY <2>2, <4>1 DEF NoticesInv, CopyInv, Few
      <4>3. QED
        BY <1>4, <1>5, <1>6, <3>2, <4>1, <4>2 DEF Few, Of
    <3>3. QED
      BY <3>1, <3>2
  <2>3. QED
    BY <2>1, <2>2, <2>4 DEF CopyInv
<1>13. TruthInv'
  <2>1. \A i \in Jobs : Used(i) /\ IsMail(job[i].data) /\ notice[Of(i)].status = "SENT" => mailed'[Of(i)] > 0
    <3>1. \A m \in Notices : mailed[m] > 0 => mailed'[m] > 0
      BY <1>4, <1>10
    <3>2. QED
      BY <1>5, <3>1 DEF NoticesInv, TruthInv
  <2>2. ASSUME NEW l \in Senders, sender'[l].step = "sent", IsMail(job[sender'[l].job].data)
        PROVE  mailed'[Of(sender'[l].job)] > 0
    <3>1. CASE l = k
      BY <1>2, <1>3, <2>2, <3>1 DEF Letter
    <3>2. CASE l # k
      <4>1. sender'[l] = sender[l] /\ sender[l] # Resting
        BY <1>3, <2>2, <3>2 DEF Resting
      <4>2. mailed[Of(sender[l].job)] > 0
        BY <2>2, <4>1 DEF NoticesInv, TruthInv, Letter
      <4>3. QED
        BY <1>4, <1>5, <1>6, <3>2, <4>1, <4>2
    <3>3. QED
      BY <3>1, <3>2
  <2>3. QED
    BY <2>1, <2>2 DEF TruthInv, Used, Of, IsMail, Letter
<1>14. QED
  BY <1>7, <1>8, <1>9, <1>12, <1>13 DEF NoticesInv

(* A consumer is rid of its job, which ends or waits again. *)
LEMMA Leaves ==
  ASSUME NoticesInv, NEW k \in Senders, sender[k] # Resting, NEW r,
         job' = [job EXCEPT ![sender[k].job] = r],
         r \in [state : JobStates, data : Letters \cup {None}, stalls : 0 .. MAX_STALLED],
         r.state \in {"waiting", "completed", "failed"},
         r.data = job[sender[k].job].data,
         job[sender[k].job].stalls <= r.stalls,
         r.state = "waiting" => mailed[Of(sender[k].job)] <= r.stalls,
         sender' = [sender EXCEPT ![k] = Resting],
         UNCHANGED <<troubles, notice, adding, mailed>>
  PROVE  NoticesInv'
<1> DEFINE j == sender[k].job
           n == Of(j)
<1>0. j \in Jobs /\ Used(j) /\ n \in Notices
  BY SenderFacts
<1>1. /\ job'[j] = r /\ \A i \in Jobs : i # j => job'[i] = job[i]
      /\ \A l \in Senders : sender'[l] = IF l = k THEN Resting ELSE sender[l]
  BY <1>0 DEF NoticesInv, NoticeTypes, JobsTypeOK
<1>2. \A i \in Jobs : Used(i)' = Used(i) /\ job'[i].data = job[i].data /\ Of(i)' = Of(i)
  BY <1>0, <1>1 DEF Used, Of
<1>3. \A l \in Senders : sender'[l] # Resting =>
        /\ sender'[l] = sender[l] /\ sender[l].job \in Jobs
        /\ sender[l].job # j /\ job'[sender[l].job] = job[sender[l].job]
  BY <1>1, SenderFacts DEF NoticesInv, SenderInv
<1>4. NoticeTypes' /\ AddingInv'
  BY <1>0 DEF NoticesInv, NoticeTypes, JobsTypeOK, AddingInv
<1>5. QueueInv'
  <2>1. \A i \in Jobs : Used(i)' =>
          job'[i].data \in Letters /\ notice'[Of(i)'] # NoNotice /\ adding'[Of(i)'] = None
    BY <1>2 DEF NoticesInv, QueueInv
  <2>2. \A i, l \in Jobs : Used(i)' /\ Used(l)' /\ Of(i)' = Of(l)' => i = l
    BY <1>2 DEF NoticesInv, QueueInv
  <2>3. QED
    BY <2>1, <2>2 DEF QueueInv
<1>6. MailInv'
  BY <1>2 DEF NoticesInv, MailInv
<1>7. SenderInv'
  BY <1>3 DEF NoticesInv, SenderInv
<1>8. mailed[n] \in Nat /\ mailed[n] <= job[j].stalls + 1
      /\ job[j].stalls \in Nat /\ r.stalls \in Nat
  BY <1>0 DEF NoticesInv, NoticeTypes, JobsTypeOK, CopyInv
<1>9. CopyInv'
  <2>1. \A i \in Jobs : Used(i)' => (mailed[Of(i)] <= job[i].stalls + 1)'
    <3>1. mailed[n] <= r.stalls + 1
      BY <1>8
    <3>2. QED
      BY <1>1, <1>2, <3>1 DEF NoticesInv, CopyInv
  <2>2. \A i \in Jobs : job'[i].state = "waiting" => Few(i)'
    BY <1>1, <1>2 DEF NoticesInv, CopyInv, Few
  <2>3. \A l \in Senders : sender'[l].step \in {"find", "send"} => Few(sender[l].job)'
    BY <1>2, <1>3 DEF NoticesInv, CopyInv, Few, Resting
  <2>4. QED
    BY <2>1, <2>2, <2>3 DEF CopyInv
<1>10. TruthInv'
  <2>1. ASSUME NEW i \in Jobs, Used(i)', IsMail(job[i].data)', notice'[Of(i)'].status = "SENT"
        PROVE  mailed'[Of(i)'] > 0
    BY <1>2, <2>1 DEF NoticesInv, TruthInv, IsMail
  <2>2. ASSUME NEW l \in Senders, sender'[l].step = "sent", IsMail(Letter(l))'
        PROVE  (mailed[Of(sender[l].job)] > 0)'
    <3>1. sender'[l] # Resting
      BY <2>2 DEF Resting
    <3>2. IsMail(Letter(l))
      BY <1>3, <2>2, <3>1 DEF IsMail, Letter
    <3>3. QED
      BY <1>2, <1>3, <2>2, <3>1, <3>2 DEF NoticesInv, TruthInv
  <2>3. QED
    BY <2>1, <2>2 DEF TruthInv
<1>11. QED
  BY <1>4, <1>5, <1>6, <1>7, <1>9, <1>10 DEF NoticesInv

(* The processor has returned or thrown. *)
LEMMA Ends ==
  ASSUME NoticesInv, NEW k \in Senders, sender[k] # Resting,
         NEW state \in {"completed", "failed"}, SenderEnds(k, state),
         UNCHANGED <<troubles, notice, adding, mailed>>
  PROVE  NoticesInv'
<1> DEFINE r == [job[sender[k].job] EXCEPT !.state = state]
<1>1. job' = [job EXCEPT ![sender[k].job] = r] /\ sender' = [sender EXCEPT ![k] = Resting]
  BY DEF SenderEnds, Settle, SetState
<1>2. /\ r \in [state : JobStates, data : Letters \cup {None}, stalls : 0 .. MAX_STALLED]
      /\ r.state = state /\ r.data = job[sender[k].job].data
      /\ r.stalls = job[sender[k].job].stalls /\ r.stalls \in Nat
  BY SenderFacts DEF NoticesInv, NoticeTypes, JobsTypeOK, JobStates
<1> HIDE DEF r
<1>3. job[sender[k].job].stalls <= r.stalls
  BY <1>2
<1>4. QED
  BY <1>1, <1>2, <1>3, Leaves

(* The row is marked, and the consumer goes on. *)
LEMMA Marks ==
  ASSUME NoticesInv, NEW k \in Senders, sender[k] # Resting,
         NEW step \in {"failed", "returned", "thrown"}, SenderGoes(k, step),
         NEW status \in {"SENT", "FAILED"}, Mark(k, status),
         status = "SENT" /\ IsMail(Letter(k)) => mailed[Of(sender[k].job)] > 0,
         UNCHANGED <<troubles, adding, mailed, job>>
  PROVE  NoticesInv'
<1> DEFINE j == sender[k].job
           n == Of(j)
           row == [notice[n] EXCEPT !.status = status]
           q == [sender[k] EXCEPT !.step = step]
<1>0. /\ j \in Jobs /\ Used(j) /\ n \in Notices /\ notice[n] \in NoticeRows
      /\ sender[k] \in [step : Sendings, job : Jobs]
  BY SenderFacts DEF NoticesInv, NoticeTypes
<1>1. sender' = [sender EXCEPT ![k] = q] /\ notice' = [notice EXCEPT ![n] = row]
  BY DEF SenderGoes, Mark, Letter, Of
<1>2. /\ q \in [step : Sendings, job : Jobs] /\ q.job = j /\ q.step = step /\ q # Resting
      /\ row \in NoticeRows /\ row.channel = notice[n].channel /\ row.status = status
      /\ row # NoNotice
  BY <1>0 DEF Sendings, Resting, NoticeRows, NoNotice
<1> HIDE DEF q, row
<1>3. /\ \A l \in Senders : sender'[l] = IF l = k THEN q ELSE sender[l]
      /\ \A i \in Notices : notice'[i] = IF i = n THEN row ELSE notice[i]
  BY <1>1 DEF NoticesInv, NoticeTypes
<1>4. \A i \in Jobs : Used(i) => Of(i) \in Notices /\ (i # j => Of(i) # n)
  BY <1>0 DEF NoticesInv, QueueInv, Letters, Of
<1>5. \A l \in Senders : sender[l] # Resting => sender[l].job \in Jobs /\ Used(sender[l].job)
  BY SenderFacts
<1>6. adding[n] = None
  BY <1>0 DEF NoticesInv, QueueInv
<1>7. \A i \in Notices : notice'[i].channel = notice[i].channel
  BY <1>2, <1>3
<1>8. NoticeTypes' /\ AddingInv'
  BY <1>1, <1>2, <1>3, <1>6 DEF NoticesInv, NoticeTypes, JobsTypeOK, AddingInv
<1>9. QueueInv' /\ MailInv'
  BY <1>2, <1>3, <1>4 DEF NoticesInv, QueueInv, MailInv, Used, Of
<1>10. SenderInv'
  BY <1>0, <1>2, <1>3 DEF NoticesInv, SenderInv
<1>11. CopyInv'
  <2>1. \A l \in Senders : sender'[l].step \in {"find", "send"} => sender'[l] = sender[l]
    BY <1>2, <1>3
  <2>2. QED
    BY <2>1 DEF NoticesInv, CopyInv, Few, Used, Of
<1>12. TruthInv'
  <2>1. ASSUME NEW i \in Jobs, Used(i), IsMail(job[i].data)', notice'[Of(i)].status = "SENT"
        PROVE  mailed[Of(i)] > 0
    <3>1. IsMail(job[i].data)
      BY <1>4, <1>7, <2>1 DEF IsMail, Of
    <3>2. CASE i = j
      BY <1>0, <1>2, <1>3, <2>1, <3>1, <3>2 DEF Letter
    <3>3. CASE i # j
      BY <1>3, <1>4, <2>1, <3>1, <3>3 DEF NoticesInv, TruthInv
    <3>4. QED
      BY <3>2, <3>3
  <2>2. ASSUME NEW l \in Senders, sender'[l].step = "sent", IsMail(Letter(l))'
        PROVE  mailed[Of(sender[l].job)] > 0 /\ sender'[l] = sender[l]
    <3>1. sender'[l] = sender[l] /\ sender[l] # Resting
      BY <1>2, <1>3, <2>2 DEF Resting
    <3>2. IsMail(Letter(l))
      BY <1>4, <1>5, <1>7, <2>2, <3>1 DEF IsMail, Letter, Of
    <3>3. QED
      BY <2>2, <3>1, <3>2 DEF NoticesInv, TruthInv
  <2>3. QED
    BY <2>1, <2>2 DEF TruthInv, Used, Of
<1>13. QED
  BY <1>8, <1>9, <1>10, <1>11, <1>12 DEF NoticesInv

LEMMA SenderStepInv ==
  ASSUME NoticesInv, NEW k \in Senders, SenderStep(k) \/ SenderDies(k)
  PROVE  NoticesInv'
<1> DEFINE n == Of(sender[k].job)
<1>1. CASE \E j \in Jobs : TakeLetter(k, j)
  BY <1>1, TakeStep
<1>2. ASSUME sender[k].step # "idle"
      PROVE  sender[k] # Resting /\ n \in Notices
  BY <1>2, SenderFacts DEF Resting
<1>4. CASE FindNotice(k)
  <2>1. sender[k].step = "find" /\ UNCHANGED <<troubles, notice, adding, mailed>>
    BY <1>4 DEF FindNotice
  <2>2. sender[k] # Resting
    BY <2>1 DEF Resting
  <2>3. CASE SenderGoes(k, "send") /\ UNCHANGED job
    BY <2>1, <2>2, <2>3, Goes
  <2>4. CASE SenderEnds(k, "completed") \/ SenderEnds(k, "failed")
    BY <1>2, <2>1, <2>4, Ends
  <2>5. QED
    BY <1>4, <2>3, <2>4 DEF FindNotice
<1>5. CASE SendNotice(k)
  <2>1. sender[k].step = "send" /\ UNCHANGED <<troubles, notice, adding, job>>
    BY <1>5 DEF SendNotice
  <2>2. sender[k] # Resting /\ n = Letter(k).notice
    BY <2>1 DEF Resting, Of, Letter
  <2>3. mailed' = mailed \/ mailed' = Posted(n)
    BY <1>5, <2>2 DEF SendNotice, sendEmail, sendSms, StoredInApp
  <2>4. CASE SenderGoes(k, "failed")
    BY <2>1, <2>2, <2>3, <2>4, Goes
  <2>5. CASE SenderGoes(k, "sent") /\ ~ IsMail(Letter(k))
    BY <2>1, <2>2, <2>3, <2>5, Goes
  <2>6. CASE SenderGoes(k, "sent") /\ mailed' = Posted(n)
    <3>1. mailed'[n] > 0
      BY <1>2, <2>1, <2>6 DEF Posted, NoticesInv, NoticeTypes
    <3>2. QED
      BY <2>1, <2>2, <2>6, <3>1, Goes
  <2>7. CASE IsMail(Letter(k))
    <3>0. ~ IsText(Letter(k))
      BY <2>7 DEF IsMail, IsText
    <3>1. sendEmail(k)
      BY <1>5, <2>7, <3>0 DEF SendNotice, sendEmail, sendSms, StoredInApp, SenderGoes
    <3>2. QED
      BY <2>2, <2>4, <2>6, <3>1 DEF sendEmail
  <2>8. CASE ~ IsMail(Letter(k))
    BY <1>5, <2>5, <2>8 DEF SendNotice, sendSms, StoredInApp
  <2>9. QED
    BY <2>7, <2>8
<1>6. CASE MarkSent(k)
  <2>1. /\ sender[k].step = "sent" /\ UNCHANGED <<troubles, adding, mailed, job>>
        /\ Mark(k, "SENT") \/ UNCHANGED notice
        /\ SenderGoes(k, "returned") \/ SenderGoes(k, "failed")
        /\ UNCHANGED notice => SenderGoes(k, "failed") \/ Mark(k, "SENT")
    BY <1>6 DEF MarkSent
  <2>2. sender[k] # Resting /\ (IsMail(Letter(k)) => mailed[n] > 0)
    BY <2>1 DEF Resting, NoticesInv, TruthInv
  <2>3. CASE Mark(k, "SENT")
    BY <2>1, <2>2, <2>3, Marks
  <2>4. CASE UNCHANGED notice /\ SenderGoes(k, "failed")
    BY <2>1, <2>2, <2>4, Goes
  <2>5. QED
    BY <2>1, <2>3, <2>4
<1>7. CASE MarkFailed(k) \/ EndLetter(k)
  <2>1. CASE MarkFailed(k) /\ Mark(k, "FAILED")
    BY <2>1, Marks DEF MarkFailed, Resting
  <2>2. CASE MarkFailed(k) /\ UNCHANGED notice
    BY <2>2, Goes DEF MarkFailed, Resting
  <2>3. CASE EndLetter(k)
    <3>1. /\ sender[k] # Resting /\ UNCHANGED <<troubles, notice, adding, mailed>>
          /\ SenderEnds(k, "completed") \/ SenderEnds(k, "failed")
      BY <2>3 DEF EndLetter, Resting
    <3>2. QED
      BY <3>1, Ends
  <2>4. QED
    BY <1>7, <2>1, <2>2, <2>3 DEF MarkFailed
<1>8. CASE SenderDies(k)
  <2>1. /\ sender[k].step # "idle" /\ Stall(sender[k].job)
        /\ sender' = [sender EXCEPT ![k] = Resting] /\ UNCHANGED <<troubles, notice, adding, mailed>>
    BY <1>8 DEF SenderDies
  <2> DEFINE j == sender[k].job
             again == [state |-> "waiting", data |-> job[j].data, stalls |-> job[j].stalls + 1]
  <2>2. /\ sender[k] # Resting /\ j \in Jobs /\ Used(j)
        /\ job[j] \in [state : JobStates, data : Letters \cup {None}, stalls : 0 .. MAX_STALLED]
    BY <1>2, <2>1, SenderFacts DEF NoticesInv, NoticeTypes, JobsTypeOK
  <2>3. mailed[n] <= job[j].stalls + 1 /\ job[j].stalls \in Nat /\ MAX_STALLED \in Nat
    <3>1. mailed[n] <= job[j].stalls + 1
      BY <2>2 DEF NoticesInv, CopyInv
    <3>2. job[j].stalls \in 0 .. MAX_STALLED
      BY <2>2
    <3>3. QED
      BY <3>1, <3>2, JobsAssumption
  <2>4. CASE job[j].stalls < MAX_STALLED
    <3>1. job' = [job EXCEPT ![j] = again]
      BY <2>1, <2>4 DEF Stall
    <3>2. /\ again \in [state : JobStates, data : Letters \cup {None}, stalls : 0 .. MAX_STALLED]
          /\ again.state = "waiting" /\ again.data = job[j].data
          /\ again.stalls = job[j].stalls + 1
      BY <2>2, <2>3, <2>4 DEF JobStates
    <3> HIDE DEF again
    <3>3. job[j].stalls <= again.stalls /\ mailed[n] <= again.stalls
      BY <2>3, <3>2
    <3>4. QED
      BY <1>2, <2>1, <2>2, <3>1, <3>2, <3>3, Leaves
  <2>5. CASE ~ (job[j].stalls < MAX_STALLED)
    <3>1. SenderEnds(k, "failed")
      BY <2>1, <2>5 DEF Stall, SenderEnds, Settle
    <3>2. QED
      BY <1>2, <2>1, <2>2, <3>1, Ends
  <2>6. QED
    BY <2>4, <2>5
<1>9. QED
  BY <1>1, <1>4, <1>5, <1>6, <1>7, <1>8 DEF SenderStep

LEMMA NoticesStep == NoticesInv /\ [NoticesNext]_noticeVars => NoticesInv'
<1> SUFFICES ASSUME NoticesInv, [NoticesNext]_noticeVars PROVE NoticesInv'
  OBVIOUS
<1>1. CASE NoticesNext
  BY <1>1, RowsStep, AddStep, SenderStepInv DEF NoticesNext
<1>2. CASE UNCHANGED noticeVars
  BY <1>2 DEF noticeVars, NoticesInv, NoticeTypes, JobsTypeOK, AddingInv, QueueInv, MailInv,
     SenderInv, CopyInv, Few, TruthInv, IsMail, Letter, Used, Of
<1>3. QED
  BY <1>1, <1>2

(* However often consumers die, also between the update of the row and the *)
(* end of the job, and whatever fails: a row that says SENT of a mail to   *)
(* an address means that the mail server has accepted the mail, and nobody *)
(* gets more copies than the queue has tries.                              *)
THEOREM MailsAreCounted == NoticesSpec => [](NoticesTypeOK /\ SentIsSent)
BY NoticesInitInv, NoticesStep, NoticesImplied, PTL DEF NoticesSpec

(***************************************************************************)
(* Scheduling.                                                             *)
(***************************************************************************)

(* What a request of these clients asks for: of the plan and of its shift. *)
Habitual(worker, date, of, factory) ==
  /\ of # Absent /\ date \in Dates
  /\ "moves" \in habits \/ factory = Home[worker]
  /\ "mixes" \in habits \/ factory = of

PlansInv == \A p \in Planners : planning[p] # Absent =>
  Habitual(planning[p].worker, planning[p].date, shift[planning[p].shift], planning[p].factory)

(* The row of a worker and date has the shift last asked for there, and    *)
(* everything else too if the worker's factory is the only one asked for.  *)
CellInv(w, t) ==
  /\ asked[w][t] # NoCell => Habitual(w, t, shift[asked[w][t].shift], asked[w][t].factory)
  /\ assignment[w][t] = NoCell <=> asked[w][t] = NoCell
  /\ assignment[w][t].shift = asked[w][t].shift
  /\ "moves" \in habits \/ assignment[w][t] = asked[w][t]

SchedulingInv ==
  /\ SchedulingTypeOK /\ PlansInv
  /\ \A w \in Staff, t \in Instants : CellInv(w, t)

LEMMA SchedulingInitInv == SchedulingInit => SchedulingInv
BY DEF SchedulingInit, SchedulingInv, SchedulingTypeOK, PlansInv, CellInv, NoCell

LEMMA Multiples ==
  ASSUME NEW a \in Nat, NEW b \in Nat
  PROVE  Midnight(a) <= Midnight(b) <=> a <= b
<1>0. DayLength \in Nat /\ DayLength >= 1
  BY SchedulingAssumption
<1>1. ASSUME a <= b PROVE a * DayLength <= b * DayLength
  BY <1>0, <1>1
<1>2. ASSUME b < a PROVE b * DayLength < a * DayLength
  <2>1. b + 1 <= a
    BY <1>2
  <2>2. (b + 1) * DayLength <= a * DayLength
    BY <1>0, <2>1
  <2>3. (b + 1) * DayLength = b * DayLength + DayLength
    BY <1>0
  <2>4. QED
    BY <1>0, <2>2, <2>3
<1>3. a * DayLength \in Nat /\ b * DayLength \in Nat
  BY <1>0
<1>4. QED
  BY <1>1, <1>2, <1>3 DEF Midnight

LEMMA CreateShiftInv ==
  ASSUME SchedulingInv, NEW s \in Shifts, NEW f \in Factories, CreateShift(s, f)
  PROVE  SchedulingInv'
<1>1. /\ shift[s] = Absent /\ shift' = [shift EXCEPT ![s] = f] /\ f # Absent
      /\ UNCHANGED <<habits, assignment, planning, asked>>
  BY SchedulingAssumption DEF CreateShift
<1>2. \A i \in Shifts : shift[i] # Absent => shift'[i] = shift[i]
  BY <1>1 DEF SchedulingInv, SchedulingTypeOK
<1>3. SchedulingTypeOK'
  BY <1>1 DEF SchedulingInv, SchedulingTypeOK
<1>4. PlansInv'
  <2>1. \A p \in Planners : planning[p] # Absent => planning[p].shift \in Shifts
    BY DEF SchedulingInv, SchedulingTypeOK, Plans
  <2>2. QED
    BY <1>1, <1>2, <2>1 DEF SchedulingInv, PlansInv, Habitual, Dates
<1>5. ASSUME NEW w \in Staff, NEW t \in Instants PROVE CellInv(w, t)'
  <2>1. CellInv(w, t)
    BY DEF SchedulingInv
  <2>2. asked[w][t] # NoCell => asked[w][t].shift \in Shifts
    BY DEF SchedulingInv, SchedulingTypeOK, Cells
  <2>3. QED
    BY <1>1, <1>2, <2>1, <2>2 DEF CellInv, Habitual, Dates
<1>6. QED
  BY <1>3, <1>4, <1>5 DEF SchedulingInv

LEMMA FindInv ==
  ASSUME SchedulingInv, NEW p \in Planners, NEW plan \in Plans, FindWorkerAndShift(p, plan)
  PROVE  SchedulingInv'
<1>1. planning' = [planning EXCEPT ![p] = plan] /\ UNCHANGED <<habits, shift, assignment, asked>>
  BY DEF FindWorkerAndShift
<1>2. Habitual(plan.worker, plan.date, shift[plan.shift], plan.factory)
  BY DEF FindWorkerAndShift, Habitual
<1>3. SchedulingTypeOK'
  BY <1>1 DEF SchedulingInv, SchedulingTypeOK
<1>4. PlansInv'
  BY <1>1, <1>2 DEF SchedulingInv, SchedulingTypeOK, PlansInv, Habitual, Dates
<1>5. \A w \in Staff, t \in Instants : CellInv(w, t)'
  BY <1>1 DEF SchedulingInv, CellInv, Habitual, Dates
<1>6. QED
  BY <1>3, <1>4, <1>5 DEF SchedulingInv

LEMMA UpsertInv ==
  ASSUME SchedulingInv, NEW p \in Planners, UpsertAssignment(p)
  PROVE  SchedulingInv'
<1> DEFINE plan == planning[p]
           wanted == [shift |-> plan.shift, factory |-> plan.factory]
           w0 == plan.worker
           t0 == plan.date
           cell == Upserted(assignment[w0][t0], plan)
<1>1. /\ plan \in Plans /\ Habitual(w0, t0, shift[plan.shift], plan.factory)
      /\ w0 \in Staff /\ t0 \in Instants /\ wanted \in Cells
      /\ wanted.shift = plan.shift /\ wanted.factory = plan.factory
  BY DEF UpsertAssignment, SchedulingInv, SchedulingTypeOK, PlansInv, Plans, Cells
<1>2. /\ assignment' = [assignment EXCEPT ![w0] = [assignment[w0] EXCEPT ![t0] = cell]]
      /\ asked' = [asked EXCEPT ![w0] = [asked[w0] EXCEPT ![t0] = wanted]]
      /\ planning' = [planning EXCEPT ![p] = Absent] /\ UNCHANGED <<habits, shift>>
  BY DEF UpsertAssignment
<1>3. /\ assignment \in [Staff -> [Instants -> Cells \cup {NoCell}]]
      /\ asked \in [Staff -> [Instants -> Cells \cup {NoCell}]]
  BY DEF SchedulingInv, SchedulingTypeOK
<1>4. /\ assignment[w0][t0] \in Cells \cup {NoCell}
      /\ CellInv(w0, t0)
  BY <1>1, <1>3 DEF SchedulingInv
<1>5. \A c \in Cells : c # NoCell
  BY SchedulingAssumption DEF Cells, NoCell
<1>6. /\ cell \in Cells /\ cell.shift = plan.shift
      /\ "moves" \in habits \/ cell = wanted
  <2>1. CASE assignment[w0][t0] = NoCell
    BY <1>1, <2>1 DEF Upserted
  <2>2. CASE assignment[w0][t0] # NoCell
    <3>1. assignment[w0][t0] \in Cells /\ cell = [assignment[w0][t0] EXCEPT !.shift = plan.shift]
      BY <1>4, <2>2 DEF Upserted
    <3>2. cell \in Cells /\ cell.shift = plan.shift /\ cell.factory = assignment[w0][t0].factory
      BY <1>1, <3>1 DEF Cells, Plans
    <3>3. "moves" \in habits \/ assignment[w0][t0].factory = Home[w0]
      BY <1>4, <2>2 DEF CellInv, Habitual
    <3>4. "moves" \in habits \/ cell.factory = wanted.factory
      BY <1>1, <3>2, <3>3 DEF Habitual
    <3>5. QED
      BY <1>1, <3>2, <3>4 DEF Cells
  <2>3. QED
    BY <2>1, <2>2
<1> HIDE DEF cell, wanted, w0, t0
<1>7. /\ \A w \in Staff, t \in Instants :
           /\ assignment'[w][t] = IF w = w0 /\ t = t0 THEN cell ELSE assignment[w][t]
           /\ asked'[w][t] = IF w = w0 /\ t = t0 THEN wanted ELSE asked[w][t]
      /\ assignment' \in [Staff -> [Instants -> Cells \cup {NoCell}]]
      /\ asked' \in [Staff -> [Instants -> Cells \cup {NoCell}]]
  BY <1>1, <1>2, <1>3, <1>6
<1>8. SchedulingTypeOK'
  BY <1>2, <1>7 DEF SchedulingInv, SchedulingTypeOK
<1>9. PlansInv'
  BY <1>2 DEF SchedulingInv, SchedulingTypeOK, PlansInv, Habitual, Dates
<1>10. ASSUME NEW w \in Staff, NEW t \in Instants PROVE CellInv(w, t)'
  <2>1. CASE w = w0 /\ t = t0
    BY <1>1, <1>2, <1>5, <1>6, <1>7, <2>1 DEF CellInv, Habitual, Dates
  <2>2. CASE ~ (w = w0 /\ t = t0)
    <3>1. CellInv(w, t)
      BY DEF SchedulingInv
    <3>2. QED
      BY <1>2, <1>7, <2>2, <3>1 DEF CellInv, Habitual, Dates
  <2>3. QED
    BY <2>1, <2>2
<1>11. QED
  BY <1>8, <1>9, <1>10 DEF SchedulingInv

LEMMA SchedulingStep == SchedulingInv /\ [SchedulingNext]_schedulingVars => SchedulingInv'
<1> SUFFICES ASSUME SchedulingInv, [SchedulingNext]_schedulingVars PROVE SchedulingInv'
  OBVIOUS
<1>1. CASE SchedulingNext
  <2>1. CASE \E s \in Shifts, f \in Factories : CreateShift(s, f)
    BY <2>1, CreateShiftInv
  <2>2. CASE \E p \in Planners, plan \in Plans : FindWorkerAndShift(p, plan)
    BY <2>2, FindInv
  <2>3. CASE \E p \in Planners : UpsertAssignment(p)
    BY <2>3, UpsertInv
  <2>4. QED
    BY <1>1, <2>1, <2>2, <2>3 DEF SchedulingNext
<1>2. CASE UNCHANGED schedulingVars
  <2>1. UNCHANGED <<habits, shift, assignment, planning, asked>>
    BY <1>2 DEF schedulingVars
  <2>2. SchedulingTypeOK' /\ PlansInv'
    BY <2>1 DEF SchedulingInv, SchedulingTypeOK, PlansInv, Habitual, Dates
  <2>3. \A w \in Staff, t \in Instants : CellInv(w, t)'
    BY <2>1 DEF SchedulingInv, CellInv, Habitual, Dates
  <2>4. QED
    BY <2>2, <2>3 DEF SchedulingInv
<1>3. QED
  BY <1>1, <1>2

LEMMA RosterImplied == SchedulingInv => RosterAgrees
<1> SUFFICES ASSUME SchedulingInv, NEW f \in Factories, NEW first \in Days, NEW last \in Days
             PROVE  LET shown == Roster(f, Midnight(first), Midnight(last))
                    IN  /\ \A a \in shown : a.shift = asked[a.worker][a.date].shift
                        /\ "times" \notin habits =>
                             \A a, b \in shown :
                               a.worker = b.worker /\ DayOf(a.date) = DayOf(b.date) => a = b
                        /\ habits \cap {"times", "moves"} = {} =>
                             shown = {plan \in Plans :
                               /\ asked[plan.worker][plan.date] =
                                    [shift |-> plan.shift, factory |-> plan.factory]
                               /\ plan.factory = f
                               /\ first <= DayOf(plan.date) /\ DayOf(plan.date) <= last}
                        /\ habits \cap {"moves", "mixes"} = {} =>
                             \A a \in shown, k \in Kiosks : Site[k] = f => a.shift \in KioskConfig(k)
  BY DEF RosterAgrees
<1> DEFINE shown == Roster(f, Midnight(first), Midnight(last))
<1>1. ASSUME NEW a \in shown
      PROVE  /\ a \in Plans /\ a.worker \in Staff /\ a.date \in Instants
             /\ a.shift \in Shifts /\ a.factory = f /\ CellInv(a.worker, a.date)
             /\ assignment[a.worker][a.date] = [shift |-> a.shift, factory |-> a.factory]
             /\ assignment[a.worker][a.date] # NoCell
             /\ assignment[a.worker][a.date].shift = a.shift
             /\ assignment[a.worker][a.date].factory = f
  <2>1. /\ a \in Plans /\ a.factory = f
        /\ assignment[a.worker][a.date] = [shift |-> a.shift, factory |-> a.factory]
    BY DEF Roster
  <2>2. /\ a.worker \in Staff /\ a.date \in Instants /\ a.shift \in Shifts
        /\ a.factory \in Factories
    BY <2>1 DEF Plans
  <2>3. [shift |-> a.shift, factory |-> a.factory] # NoCell
    BY <2>2, SchedulingAssumption DEF NoCell
  <2>4. CellInv(a.worker, a.date)
    BY <2>2 DEF SchedulingInv
  <2>5. QED
    BY <2>1, <2>2, <2>3, <2>4
<1>8. \A plan \in Plans :
        plan \in shown <=>
          /\ assignment[plan.worker][plan.date] = [shift |-> plan.shift, factory |-> plan.factory]
          /\ plan.factory = f
          /\ Midnight(first) <= plan.date /\ plan.date <= Midnight(last)
  BY DEF Roster
<1>9. shown \subseteq Plans
  BY DEF Roster
<1> HIDE DEF shown
<1>2. \A a \in shown : a.shift = asked[a.worker][a.date].shift
  BY <1>1 DEF CellInv
<1>3. \A t \in Instants : DayOf(t) \in Nat
  BY SchedulingAssumption DEF DayOf
<1>4. first \in Nat /\ last \in Nat
  BY <1>3 DEF Days
<1>5. ASSUME "times" \notin habits, NEW a \in shown, NEW b \in shown,
             a.worker = b.worker, DayOf(a.date) = DayOf(b.date)
      PROVE  a = b
  <2>1. a.date \in Dates /\ b.date \in Dates
    BY <1>1 DEF CellInv, Habitual
  <2>2. a.date = b.date
    BY <1>5, <2>1 DEF Dates
  <2>3. a.shift = b.shift /\ a.factory = b.factory
    <3>1. [shift |-> a.shift, factory |-> a.factory] = [shift |-> b.shift, factory |-> b.factory]
      BY <1>1, <1>5, <2>2
    <3>2. QED
      BY <3>1
  <2>4. a \in Plans /\ b \in Plans
    BY <1>1
  <2>5. QED
    BY <1>5, <2>2, <2>3, <2>4 DEF Plans
<1>6. ASSUME habits \cap {"times", "moves"} = {}, NEW plan \in Plans
      PROVE  plan \in shown <=>
               /\ asked[plan.worker][plan.date] = [shift |-> plan.shift, factory |-> plan.factory]
               /\ plan.factory = f
               /\ first <= DayOf(plan.date) /\ DayOf(plan.date) <= last
  <2>1. plan.worker \in Staff /\ plan.date \in Instants
    BY DEF Plans
  <2>2. CellInv(plan.worker, plan.date) /\ "times" \notin habits /\ "moves" \notin habits
    BY <1>6, <2>1 DEF SchedulingInv
  <2>3. assignment[plan.worker][plan.date] = asked[plan.worker][plan.date]
    BY <2>2 DEF CellInv
  <2>4. [shift |-> plan.shift, factory |-> plan.factory] # NoCell
    BY SchedulingAssumption DEF Plans, NoCell
  <2>5. ASSUME asked[plan.worker][plan.date] = [shift |-> plan.shift, factory |-> plan.factory]
        PROVE  /\ Midnight(first) <= plan.date <=> first <= DayOf(plan.date)
               /\ plan.date <= Midnight(last) <=> DayOf(plan.date) <= last
    <3>1. plan.date \in Dates
      BY <2>2, <2>4, <2>5 DEF CellInv, Habitual
    <3>2. plan.date = Midnight(DayOf(plan.date))
      BY <2>2, <3>1 DEF Dates
    <3>3. QED
      BY <1>3, <1>4, <2>1, <3>2, Multiples
  <2>6. QED
    BY <1>8, <2>3, <2>5
<1>7. ASSUME habits \cap {"moves", "mixes"} = {}, NEW a \in shown, NEW k \in Kiosks, Site[k] = f
      PROVE  a.shift \in KioskConfig(k)
  <2>1. asked[a.worker][a.date] = assignment[a.worker][a.date]
    BY <1>1, <1>7 DEF CellInv
  <2>2. /\ asked[a.worker][a.date].shift = a.shift /\ asked[a.worker][a.date].factory = f
        /\ asked[a.worker][a.date] # NoCell
    BY <1>1, <2>1
  <2>3. Habitual(a.worker, a.date, shift[a.shift], f)
    BY <1>1, <2>1, <2>2 DEF CellInv
  <2>4. shift[a.shift] = f
    BY <1>7, <2>3 DEF Habitual
  <2>5. QED
    BY <1>1, <1>7, <2>4 DEF KioskConfig
<1>10. QED
  BY <1>2, <1>5, <1>6, <1>7, <1>9 DEF shown

(* However requests of planners overlap, the roster of any days shows the  *)
(* shifts last asked for; under the premises RosterAgrees names, it shows  *)
(* one per day, leaves nothing out and shows what the kiosks know.         *)
THEOREM RosterShowsThePlan == SchedulingSpec => [](SchedulingTypeOK /\ RosterAgrees)
<1>1. SchedulingInv => SchedulingTypeOK
  BY DEF SchedulingInv
<1>2. QED
  BY <1>1, SchedulingInitInv, SchedulingStep, RosterImplied, PTL DEF SchedulingSpec

(***************************************************************************)
(* Lists.  Rank(r) is the place of row r in the list, if no two rows are   *)
(* of one moment.                                                          *)
(***************************************************************************)
Rank(r) == Cardinality({s \in Where : table[s].at >= table[r].at})

NoTies == "ties" \notin bustle => \A r, s \in Present : r # s => table[r].at # table[s].at

TableRows == [at : Moments, fails : Conditions \cup {Unset}]

ListTypes ==
  /\ list \in Lists /\ bustle \in Bustles /\ trusting \in BOOLEAN
  /\ given \subseteq Queries[list].optional
  /\ table \in [ListedRows -> TableRows \cup {NoRow}]
  /\ DOMAIN reader = {"step", "page", "limit", "items", "total", "seen", "due"}
  /\ reader.step \in {"start", "page", "done"}
  /\ reader.items = Unset \/ reader.items \subseteq ListedRows
  /\ reader.total = Unset \/ reader.total \in 0 .. Cardinality(ListedRows)
  /\ reader.seen \subseteq ListedRows /\ reader.due \subseteq ListedRows

(* A client that turns to a page knows that there have been rows for all   *)
(* the pages before it.                                                    *)
PagesInv ==
  LET n == Cardinality(ListedRows)
  IN  /\ reader.step = "start" => reader = NotReading
      /\ reader.step = "page" =>
           /\ reader.page \in Nat \ {0} /\ reader.limit \in Limits
           /\ Skip(reader.page, reader.limit) <= n
           /\ reader.items # Unset /\ Cardinality(reader.items) >= reader.limit
                => reader.page * reader.limit <= n
      /\ reader.step = "done" => reader.page \in 0 .. n + 2

(* The premises of NothingIsMissed. *)
Promised ==
  /\ "updates" \in bustle => Conditions \cap Queries[list].changing = {}
  /\ "ties" \notin bustle
  /\ trusting => "inserts" \notin bustle

(* What the client is still to see is beyond the pages it has read, where  *)
(* new rows can only shift it further; and a page that is not full was the *)
(* last.                                                                   *)
DueInv ==
  /\ reader.step = "page" /\ Promised =>
       /\ reader.due \subseteq Where
       /\ reader.items = Unset => \A r \in reader.due :
            r \in reader.seen \/ Rank(r) > Skip(reader.page, reader.limit)
       /\ reader.items # Unset =>
            /\ \A r \in reader.due : \/ r \in reader.seen \cup reader.items
                                     \/ Rank(r) > reader.page * reader.limit
            /\ Cardinality(reader.items) < reader.limit
                 => reader.due \subseteq reader.seen \cup reader.items
       /\ trusting /\ reader.total # Unset => reader.total = Cardinality(Where)
  /\ NothingIsMissed

ListsInv == ListTypes /\ NoTies /\ PagesInv /\ DueInv

-----------------------------------------------------------------------------
LEMMA WhereIsFinite ==
  ASSUME NEW S, S \subseteq Where
  PROVE  /\ IsFiniteSet(S) /\ IsFiniteSet(Where) /\ Cardinality(S) \in Nat
         /\ Cardinality(Where) \in Nat /\ Cardinality(ListedRows) \in Nat
         /\ Cardinality(S) <= Cardinality(Where)
         /\ Cardinality(Where) <= Cardinality(ListedRows)
<1>1. S \subseteq ListedRows /\ Where \subseteq ListedRows
  BY DEF Where, Present
<1>2. IsFiniteSet(S) /\ IsFiniteSet(Where)
  BY <1>1, ListsAssumption, FS_Subset
<1>3. QED
  BY <1>1, <1>2, ListsAssumption, FS_Subset, FS_CardinalityType

LEMMA WhereRows ==
  ASSUME ListTypes, NEW r \in Present
  PROVE  table[r] \in TableRows /\ table[r].at \in Nat /\ r \in ListedRows
BY ListsAssumption DEF Present, ListTypes, TableRows

(* A sequence of all members of a set has each of them. *)
LEMMA Permutation ==
  ASSUME NEW S, IsFiniteSet(S), NEW found \in SetToSeqs(S)
  PROVE  /\ found \in [1 .. Cardinality(S) -> S] /\ Len(found) = Cardinality(S)
         /\ \A i, j \in 1 .. Cardinality(S) : found[i] = found[j] => i = j
         /\ \A r \in S : \E i \in 1 .. Cardinality(S) : found[i] = r
<1> DEFINE n == Cardinality(S)
<1>1. n \in Nat
  BY FS_CardinalityType
<1>2. found \in [1 .. n -> S] /\ \A i, j \in 1 .. n : found[i] = found[j] => i = j
  BY DEF SetToSeqs
<1>3. Len(found) = n
  BY <1>1, <1>2
<1>4. found \in Injection(1 .. n, S)
  BY <1>2 DEF Injection, IsInjective
<1>5. Cardinality(1 .. n) = n
  <2> HIDE DEF n
  <2>1. IF 1 > n THEN n = 0 ELSE n - 1 + 1 = n
    BY <1>1
  <2>2. 1 \in Int /\ n \in Int
    BY <1>1
  <2>3. Cardinality(1 .. n) = IF 1 > n THEN 0 ELSE n - 1 + 1
    BY ONLY <2>2, FS_Interval
  <2>4. QED
    BY <2>1, <2>3
<1>6. found \in Surjection(1 .. n, S)
  BY <1>4, <1>5, FS_Injection
<1>7. QED
  BY <1>2, <1>3, <1>6 DEF Surjection

(* The rows of the list up to the i-th are those that are not older. *)
LEMMA RankIsPlace ==
  ASSUME ListTypes, NoTies, "ties" \notin bustle, NEW found \in Orders,
         NEW i \in 1 .. Cardinality(Where)
  PROVE  Rank(found[i]) = i
<1> DEFINE n == Cardinality(Where)
           T == {s \in Where : table[s].at >= table[found[i]].at}
           f == [j \in 1 .. i |-> found[j]]
<1>0. n \in Nat /\ i \in Nat /\ i >= 1 /\ i <= n
  BY WhereIsFinite
<1>1. /\ found \in [1 .. n -> Where] /\ Len(found) = n
      /\ \A j, k \in 1 .. n : found[j] = found[k] => j = k
      /\ \A r \in Where : \E j \in 1 .. n : found[j] = r
  BY WhereIsFinite, Permutation DEF Orders
<1>2. \A j, k \in 1 .. n : j < k => table[found[j]].at >= table[found[k]].at
  BY <1>1 DEF Orders, IsOrdered
<1>3. \A r \in Where : r \in Present /\ table[r].at \in Nat
  BY WhereRows DEF Where
<1>4. \A j, k \in 1 .. n : j < k => table[found[j]].at > table[found[k]].at
  <2>1. SUFFICES ASSUME NEW j \in 1 .. n, NEW k \in 1 .. n, j < k
                 PROVE  table[found[j]].at > table[found[k]].at
    OBVIOUS
  <2>2. found[j] # found[k] /\ found[j] \in Where /\ found[k] \in Where
    BY <1>1, <2>1
  <2>3. table[found[j]].at # table[found[k]].at
    BY <1>3, <2>2 DEF NoTies
  <2>4. QED
    BY <1>2, <1>3, <2>1, <2>2, <2>3
<1> HIDE DEF n
<1>5. \A j \in 1 .. n : found[j] \in T <=> j <= i
  <2>1. SUFFICES ASSUME NEW j \in 1 .. n
                 PROVE  found[j] \in T <=> j <= i
    OBVIOUS
  <2>2. found[j] \in Where /\ found[i] \in Where /\ i \in 1 .. n
    BY <1>0, <1>1
  <2>3. table[found[j]].at \in Nat /\ table[found[i]].at \in Nat
    BY <1>3, <2>2
  <2>4. CASE j < i
    BY <1>4, <2>2, <2>3, <2>4
  <2>5. CASE j = i
    BY <2>2, <2>3, <2>5
  <2>6. CASE j > i
    BY <1>4, <2>2, <2>3, <2>6
  <2>7. QED
    BY <1>0, <2>4, <2>5, <2>6
<1>6. T \subseteq Where
  OBVIOUS
<1> HIDE DEF T
<1>7. f \in [1 .. i -> T] /\ \A j \in 1 .. i : j \in 1 .. n
  BY <1>0, <1>5
<1>8. f \in Injection(1 .. i, T)
  BY <1>1, <1>7 DEF Injection, IsInjective
<1>9. f \in Surjection(1 .. i, T)
  <2>1. ASSUME NEW r \in T
        PROVE  \E j \in 1 .. i : f[j] = r
    <3>1. PICK j \in 1 .. n : found[j] = r
      BY <1>1, <1>6
    <3>2. j \in 1 .. i
      BY <1>0, <1>5, <3>1
    <3>3. QED
      BY <3>1, <3>2
  <2>2. QED
    BY <1>7, <2>1 DEF Surjection
<1>10. IsFiniteSet(1 .. i) /\ Cardinality(1 .. i) = i
  <2>1. i - 1 + 1 = i /\ ~ (1 > i)
    BY <1>0
  <2>2. QED
    BY <1>0, <2>1, FS_Interval
<1> HIDE DEF f
<1>11. Cardinality(T) = i
  BY <1>8, <1>9, <1>10, FS_Surjection
<1>12. QED
  BY <1>11 DEF Rank, T

-----------------------------------------------------------------------------
(* The page that is found. *)
PageRows(found, skip, limit) == {found[i] : i \in DOMAIN found \cap (skip + 1 .. skip + limit)}

LEMMA PageSize ==
  ASSUME NEW found \in Orders, NEW skip \in Nat, NEW limit \in Nat \ {0}
  PROVE  /\ PageRows(found, skip, limit) \subseteq Where
         /\ Cardinality(PageRows(found, skip, limit)) >= limit => skip + limit <= Cardinality(Where)
         /\ skip + limit <= Cardinality(Where) => Cardinality(PageRows(found, skip, limit)) = limit
<1> DEFINE n == Cardinality(Where)
           I == 1 .. n \cap (skip + 1 .. skip + limit)
           T == {found[i] : i \in I}
           f == [i \in I |-> found[i]]
<1>0. n \in Nat /\ found \in SetToSeqs(Where) /\ IsFiniteSet(Where)
  BY WhereIsFinite DEF Orders
<1>1. /\ found \in [1 .. n -> Where]
      /\ \A j, k \in 1 .. n : found[j] = found[k] => j = k
  BY <1>0, Permutation
<1>2. PageRows(found, skip, limit) = T
  BY <1>1 DEF PageRows
<1> HIDE DEF n
<1>3. T \subseteq Where
  BY <1>1
<1>4. f \in Surjection(I, T)
  BY DEF Surjection
<1>5. f \in Injection(I, T)
  BY <1>1 DEF Injection, IsInjective
<1>6. skip + 1 \in Int /\ skip + limit \in Int
  OBVIOUS
<1>7. /\ IsFiniteSet(skip + 1 .. skip + limit)
      /\ Cardinality(skip + 1 .. skip + limit) = limit
  <2>1. ~ (skip + 1 > skip + limit) /\ skip + limit - (skip + 1) + 1 = limit
    OBVIOUS
  <2>2. QED
    BY <1>6, <2>1, FS_Interval
<1>8. IsFiniteSet(I) /\ I \subseteq skip + 1 .. skip + limit
  BY <1>7, FS_Subset
<1> HIDE DEF T, f
<1>9. Cardinality(T) = Cardinality(I)
  BY <1>4, <1>5, <1>8, FS_Surjection
<1>10. skip + limit <= n => Cardinality(I) = limit
  <2>1. ASSUME skip + limit <= n
        PROVE  I = skip + 1 .. skip + limit
    BY <1>0, <2>1
  <2>2. QED
    BY <1>7, <2>1
<1>11. Cardinality(I) >= limit => skip + limit <= n
  <2>1. SUFFICES ASSUME skip + limit > n
                 PROVE  Cardinality(I) < limit
    BY <1>0, <1>8, FS_CardinalityType
  <2>2. skip + limit \notin I /\ skip + limit \in skip + 1 .. skip + limit
    BY <1>0, <2>1
  <2>3. I # skip + 1 .. skip + limit
    BY <2>2
  <2> DEFINE J == skip + 1 .. skip + limit
  <2>4. IsFiniteSet(J) /\ Cardinality(J) = limit /\ I \subseteq J /\ I # J
    BY <1>7, <1>8, <2>3
  <2> HIDE DEF I, J
  <2>5. Cardinality(I) <= Cardinality(J) /\ Cardinality(I) # Cardinality(J)
    BY <2>4, FS_Subset
  <2>6. Cardinality(I) \in Nat
    BY <1>8, FS_CardinalityType
  <2>7. QED
    BY <2>4, <2>5, <2>6
<1>12. QED
  BY <1>2, <1>3, <1>9, <1>10, <1>11 DEF n

(* If no two rows are of one moment, the page has the rows of its ranks.   *)
LEMMA PageHasItsRanks ==
  ASSUME ListTypes, NoTies, "ties" \notin bustle, NEW found \in Orders,
         NEW skip \in Nat, NEW limit \in Nat \ {0}, NEW r \in Where,
         Rank(r) > skip, Rank(r) <= skip + limit
  PROVE  r \in PageRows(found, skip, limit)
<1> DEFINE n == Cardinality(Where)
<1>0. n \in Nat /\ found \in SetToSeqs(Where) /\ IsFiniteSet(Where)
  BY WhereIsFinite DEF Orders
<1>1. found \in [1 .. n -> Where] /\ \A q \in Where : \E i \in 1 .. n : found[i] = q
  BY <1>0, Permutation
<1>2. PICK i \in 1 .. n : found[i] = r
  BY <1>1
<1>3. Rank(r) = i
  BY <1>2, RankIsPlace
<1>4. i \in DOMAIN found \cap (skip + 1 .. skip + limit)
  BY <1>0, <1>1, <1>3
<1>5. QED
  BY <1>2, <1>4 DEF PageRows

LEMMA RankIsBounded ==
  ASSUME NEW r
  PROVE  Rank(r) \in Nat /\ Rank(r) <= Cardinality(Where)
<1>1. {s \in Where : table[s].at >= table[r].at} \subseteq Where
  OBVIOUS
<1>2. QED
  BY <1>1, WhereIsFinite DEF Rank

LEMMA RankIsPositive ==
  ASSUME ListTypes, NEW r \in Where
  PROVE  Rank(r) > 0
<1> DEFINE T == {s \in Where : table[s].at >= table[r].at}
<1>1. table[r].at \in Nat
  BY WhereRows DEF Where
<1>2. r \in T /\ T \subseteq Where
  BY <1>1
<1> HIDE DEF T
<1>3. IsFiniteSet(T) /\ Cardinality(T) \in Nat
  BY <1>2, WhereIsFinite
<1>4. Cardinality(T) # 0
  BY <1>2, <1>3, FS_EmptySet
<1>5. QED
  BY <1>3, <1>4 DEF Rank, T

LEMMA SkipIsNat ==
  ASSUME NEW page \in Nat \ {0}, NEW limit \in Nat \ {0}
  PROVE  /\ Skip(page, limit) \in Nat /\ page * limit \in Nat
         /\ Skip(page, limit) + limit = page * limit
         /\ page - 1 <= Skip(page, limit)
         /\ Skip(page + 1, limit) = page * limit
         /\ page + 1 \in Nat \ {0}
<1>1. \E m \in Nat : page = m + 1
  <2>1. page - 1 \in Nat /\ page = (page - 1) + 1
    OBVIOUS
  <2>2. QED
    BY <2>1
<1>2. PICK m \in Nat : page = m + 1
  BY <1>1
<1>3. page - 1 = m /\ (page + 1) - 1 = page
  BY <1>2
<1>4. m * limit \in Nat /\ (m + 1) * limit = m * limit + limit
  OBVIOUS
<1>5. m <= m * limit
  OBVIOUS
<1>6. QED
  BY <1>2, <1>3, <1>4, <1>5 DEF Skip

-----------------------------------------------------------------------------
(* What other requests do to the list. *)

LEMMA RowsShiftOn ==
  ASSUME ListTypes, ListTypes', Where \subseteq Where',
         \A s \in Where : table'[s].at = table[s].at, NEW r \in Where
  PROVE  Rank(r)' >= Rank(r)
<1> DEFINE S == {s \in Where : table[s].at >= table[r].at}
           T == {s \in Where' : table'[s].at >= table'[r].at}
<1>1. S \subseteq T
  OBVIOUS
<1>2. IsFiniteSet(T)
  <2>1. T \subseteq ListedRows
    BY DEF Where, Present
  <2> HIDE DEF T
  <2>2. QED
    BY <2>1, ListsAssumption, FS_Subset
<1> HIDE DEF S, T
<1>3. IsFiniteSet(S) /\ Cardinality(S) <= Cardinality(T)
  BY <1>1, <1>2, FS_Subset
<1>4. Cardinality(S) \in Nat /\ Cardinality(T) \in Nat
  BY <1>2, <1>3, FS_CardinalityType
<1>5. QED
  BY <1>3, <1>4 DEF Rank, S, T

LEMMA UnsetIsNoCondition ==
  ASSUME list \in Lists, given \subseteq Queries[list].optional
  PROVE  Unset \notin Conditions
BY ConditionsAssumption DEF Conditions

LEMMA TableStep ==
  ASSUME ListsInv, NEW r \in ListedRows, NEW at \in Moments, NEW fails \in Conditions \cup {Unset},
         InsertRow(r, at, fails) \/ UpdateRow(r, at, fails)
  PROVE  /\ ListTypes' /\ NoTies' /\ UNCHANGED <<list, bustle, given, trusting, reader>>
         /\ Promised => /\ Where \subseteq Where'
                        /\ \A s \in Where : table'[s].at = table[s].at
                        /\ trusting => Where' = Where
<1> DEFINE row == [at |-> at, fails |-> fails]
<1>0. ListTypes /\ NoTies
  BY DEF ListsInv
<1>1. UNCHANGED <<list, bustle, given, trusting, reader>> /\ table' = [table EXCEPT ![r] = row]
  BY DEF InsertRow, UpdateRow
<1>2. Conditions' = Conditions /\ TableRows' = TableRows
  BY <1>1 DEF Conditions, TableRows
<1>3. row \in TableRows /\ row # NoRow
  BY ListsAssumption DEF TableRows, NoRow
<1>4. row.at = at /\ row.fails = fails
  OBVIOUS
<1> HIDE DEF row
<1>5. table'[r] = row /\ \A s \in ListedRows : s # r => table'[s] = table[s]
  BY <1>0, <1>1 DEF ListTypes
<1>6. ListTypes'
  <2>1. table' \in [ListedRows -> TableRows \cup {NoRow}]
    BY <1>0, <1>1, <1>3 DEF ListTypes
  <2>2. QED
    BY <1>0, <1>1, <1>2, <2>1 DEF ListTypes
<1>7. Present' = Present \cup {r}
  BY <1>3, <1>5 DEF Present
<1>8. ASSUME "ties" \notin bustle, NEW s \in Present, s # r
      PROVE  table'[s] = table[s] /\ table[s].at # at
  <2>1. s \in ListedRows
    BY <1>8 DEF Present
  <2>2. CASE InsertRow(r, at, fails)
    BY <1>5, <1>8, <2>1, <2>2 DEF InsertRow, Fresh
  <2>3. CASE UpdateRow(r, at, fails)
    <3>1. CASE ByCreation
      BY <1>0, <1>5, <1>8, <2>1, <2>3, <3>1 DEF UpdateRow, NoTies
    <3>2. CASE ~ ByCreation
      BY <1>5, <1>8, <2>1, <2>3, <3>2 DEF UpdateRow
    <3>3. QED
      BY <3>1, <3>2
  <2>4. QED
    BY <2>2, <2>3
<1>9. NoTies'
  <2>1. SUFFICES ASSUME "ties" \notin bustle, NEW s \in Present', NEW t \in Present', s # t
                 PROVE  table'[s].at # table'[t].at
    BY <1>1 DEF NoTies
  <2>2. CASE s = r
    BY <1>4, <1>5, <1>7, <1>8, <2>1, <2>2
  <2>3. CASE t = r
    BY <1>4, <1>5, <1>7, <1>8, <2>1, <2>3
  <2>4. CASE s # r /\ t # r
    BY <1>0, <1>7, <1>8, <2>1, <2>4 DEF NoTies
  <2>5. QED
    BY <2>2, <2>3, <2>4
<1>10. ASSUME Promised
       PROVE  /\ Where \subseteq Where'
              /\ \A s \in Where : table'[s].at = table[s].at
              /\ trusting => Where' = Where
  <2>1. CASE InsertRow(r, at, fails)
    <3>1. r \notin Present /\ ~ trusting
      BY <1>10, <2>1 DEF InsertRow, Present, Promised
    <3>2. \A s \in Where : s \in ListedRows /\ s # r /\ s \in Present
      BY <3>1 DEF Where, Present
    <3>3. QED
      BY <1>2, <1>5, <1>7, <3>1, <3>2 DEF Where
  <2>2. CASE UpdateRow(r, at, fails)
    <3>1. /\ r \in Present /\ {table[r].fails, fails} \subseteq Queries[list].changing \cup {Unset}
          /\ Conditions \cap Queries[list].changing = {}
      BY <1>10, <2>2 DEF UpdateRow, Promised
    <3>2. fails \notin Conditions /\ table[r].fails \notin Conditions
      BY <1>0, <3>1, UnsetIsNoCondition DEF ListTypes
    <3>3. table'[r].at = table[r].at
      <4>1. ByCreation
        <5>1. list # "attendance"
          BY <1>0, <3>1 DEF ListTypes, Lists, Queries, Conditions, GetWorkerAttendance
        <5>2. QED
          BY <5>1 DEF ByCreation
      <4>2. QED
        BY <1>4, <1>5, <2>2, <4>1 DEF UpdateRow
    <3>4. Present' = Present
      BY <1>7, <3>1
    <3>5. \A s \in Present : (table'[s].fails \notin Conditions <=> table[s].fails \notin Conditions)
                             /\ table'[s].at = table[s].at
      BY <1>4, <1>5, <3>2, <3>3 DEF Present
    <3>6. Where' = Where
      BY <1>2, <3>4, <3>5 DEF Where
    <3>7. QED
      BY <3>5, <3>6 DEF Where
  <2>3. QED
    BY <2>1, <2>2
<1>11. QED
  BY <1>1, <1>6, <1>9, <1>10

LEMMA RowsAppear ==
  ASSUME ListsInv, NEW r \in ListedRows, NEW at \in Moments, NEW fails \in Conditions \cup {Unset},
         InsertRow(r, at, fails) \/ UpdateRow(r, at, fails)
  PROVE  ListsInv'
<1>1. /\ ListTypes' /\ NoTies' /\ UNCHANGED <<list, bustle, given, trusting, reader>>
      /\ Promised => /\ Where \subseteq Where'
                     /\ \A s \in Where : table'[s].at = table[s].at
                     /\ trusting => Where' = Where
  BY TableStep
<1>2. PagesInv'
  BY <1>1 DEF ListsInv, PagesInv
<1>3. Promised' <=> Promised
  BY <1>1 DEF Promised, Conditions
<1>4. NothingIsMissed'
  BY <1>1 DEF ListsInv, DueInv, NothingIsMissed, Conditions
<1>5. ASSUME reader.step = "page", Promised
      PROVE  /\ reader.due \subseteq Where /\ reader.due \subseteq Where'
             /\ \A r_1 \in reader.due : Rank(r_1)' >= Rank(r_1)
             /\ trusting => Where' = Where
  <2>1. reader.due \subseteq Where
    BY <1>5 DEF ListsInv, DueInv
  <2>2. QED
    BY <1>1, <1>5, <2>1, RowsShiftOn DEF ListsInv
<1>6. ASSUME reader.step = "page", Promised, NEW q \in reader.due, NEW bound \in Nat,
             Rank(q) > bound
      PROVE  Rank(q)' > bound
  <2>1. Rank(q) \in Nat /\ Rank(q)' >= Rank(q)
    BY <1>5, <1>6, RankIsBounded
  <2>2. Rank(q)' \in Nat
    <3>1. {s \in Where' : table'[s].at >= table'[q].at} \subseteq ListedRows
      BY DEF Where, Present
    <3>2. IsFiniteSet({s \in Where' : table'[s].at >= table'[q].at})
      BY <3>1, ListsAssumption, FS_Subset
    <3>3. QED
      BY <3>2, FS_CardinalityType DEF Rank
  <2>3. QED
    BY <1>6, <2>1, <2>2
<1>7. ASSUME reader.step = "page"
      PROVE  Skip(reader.page, reader.limit) \in Nat /\ reader.page * reader.limit \in Nat
  <2>1. reader.page \in Nat \ {0} /\ reader.limit \in Nat \ {0}
    BY <1>7, ListsAssumption DEF ListsInv, PagesInv
  <2> DEFINE page == reader.page
             limit == reader.limit
  <2>2. page \in Nat \ {0} /\ limit \in Nat \ {0}
    BY <2>1
  <2> HIDE DEF page, limit
  <2>3. Skip(page, limit) \in Nat /\ page * limit \in Nat
    BY <2>2, SkipIsNat
  <2>4. QED
    BY <2>3 DEF page, limit
<1>8. DueInv'
  <2>1. SUFFICES ASSUME reader.step = "page", Promised
                 PROVE  /\ reader.due \subseteq Where'
                        /\ reader.items = Unset => \A q \in reader.due :
                             q \in reader.seen \/ Rank(q)' > Skip(reader.page, reader.limit)
                        /\ reader.items # Unset =>
                             /\ \A q \in reader.due : \/ q \in reader.seen \cup reader.items
                                                      \/ Rank(q)' > reader.page * reader.limit
                             /\ Cardinality(reader.items) < reader.limit
                                  => reader.due \subseteq reader.seen \cup reader.items
                        /\ trusting /\ reader.total # Unset
                             => reader.total = Cardinality(Where')
    BY <1>1, <1>3, <1>4 DEF DueInv, Skip
  <2>2. ASSUME reader.items = Unset, NEW q \in reader.due, q \notin reader.seen
        PROVE  Rank(q)' > Skip(reader.page, reader.limit)
    BY <1>6, <1>7, <2>1, <2>2 DEF ListsInv, DueInv
  <2>3. ASSUME reader.items # Unset, NEW q \in reader.due, q \notin reader.seen \cup reader.items
        PROVE  Rank(q)' > reader.page * reader.limit
    BY <1>6, <1>7, <2>1, <2>3 DEF ListsInv, DueInv
  <2>4. trusting /\ reader.total # Unset => reader.total = Cardinality(Where')
    BY <1>5, <2>1 DEF ListsInv, DueInv
  <2>5. reader.items # Unset /\ Cardinality(reader.items) < reader.limit
          => reader.due \subseteq reader.seen \cup reader.items
    BY <2>1 DEF ListsInv, DueInv
  <2>6. QED
    BY <1>5, <2>1, <2>2, <2>3, <2>4, <2>5
<1>9. QED
  BY <1>1, <1>2, <1>8 DEF ListsInv

-----------------------------------------------------------------------------
(* What the client does. *)

LEMMA TableStays ==
  ASSUME UNCHANGED <<list, bustle, given, trusting, table>>
  PROVE  /\ Where' = Where /\ Present' = Present /\ (Promised' <=> Promised)
         /\ Conditions' = Conditions
         /\ \A r : Rank(r)' = Rank(r)
         /\ NoTies => NoTies'
<1>1. Present' = Present /\ Conditions' = Conditions
  BY DEF Present, Conditions
<1>2. Where' = Where
  BY <1>1 DEF Where
<1>3. QED
  BY <1>1, <1>2 DEF Promised, Rank, NoTies

LEMMA TypesStay ==
  ASSUME ListTypes, UNCHANGED <<list, bustle, given, trusting, table>>,
         DOMAIN reader' = {"step", "page", "limit", "items", "total", "seen", "due"},
         reader'.step \in {"start", "page", "done"},
         reader'.items = Unset \/ reader'.items \subseteq ListedRows,
         reader'.total = Unset \/ reader'.total \in 0 .. Cardinality(ListedRows),
         reader'.seen \subseteq ListedRows, reader'.due \subseteq ListedRows
  PROVE  ListTypes'
<1>1. TableRows' = TableRows
  BY DEF TableRows, Conditions
<1>2. QED
  BY <1>1 DEF ListTypes

ReaderFields == {"step", "page", "limit", "items", "total", "seen", "due"}

LEMMA StartStep ==
  ASSUME ListsInv, NEW limit \in Limits, StartReading(limit)
  PROVE  ListsInv'
<1>0. ListTypes /\ NoTies /\ reader.step = "start" /\ limit \in Nat \ {0}
  BY ListsAssumption DEF ListsInv, StartReading
<1>1. /\ reader' = [step |-> "page", page |-> 1, limit |-> limit, items |-> Unset, total |-> Unset,
                    seen |-> {}, due |-> Where]
      /\ UNCHANGED <<list, bustle, given, trusting, table>>
  BY DEF StartReading, NotReading
<1>2. /\ DOMAIN reader' = ReaderFields
      /\ reader'.step = "page" /\ reader'.page = 1 /\ reader'.limit = limit
      /\ reader'.items = Unset /\ reader'.total = Unset /\ reader'.seen = {} /\ reader'.due = Where
  BY <1>1 DEF ReaderFields
<1>3. ListTypes'
  <2>1. Where \subseteq ListedRows
    BY DEF Where, Present
  <2>2. QED
    BY <1>0, <1>1, <1>2, <2>1, TypesStay DEF ReaderFields
<1>4. Skip(1, limit) = 0 /\ Cardinality(ListedRows) \in Nat
  <2>1. (1 - 1) * limit = 0
    BY <1>0
  <2>2. QED
    BY <2>1, ListsAssumption, FS_CardinalityType DEF Skip
<1>5. PagesInv'
  BY <1>2, <1>4 DEF PagesInv, Skip
<1>6. \A r \in Where : Rank(r)' > Skip(1, limit)
  BY <1>0, <1>1, <1>4, TableStays, RankIsPositive
<1>7. DueInv'
  BY <1>1, <1>2, <1>6, TableStays DEF DueInv, NothingIsMissed, Skip
<1>8. QED
  BY <1>0, <1>1, <1>3, <1>5, <1>7, TableStays DEF ListsInv

LEMMA FindStep ==
  ASSUME ListsInv, FindPage
  PROVE  ListsInv'
<1>0. /\ ListTypes /\ NoTies /\ reader.step = "page" /\ reader.items = Unset
      /\ reader.page \in Nat \ {0} /\ reader.limit \in Nat \ {0} /\ reader.limit \in Limits
      /\ DOMAIN reader = ReaderFields
  BY ListsAssumption DEF ListsInv, FindPage, PagesInv, ListTypes, ReaderFields
<1> DEFINE skip == Skip(reader.page, reader.limit)
           n == Cardinality(Where)
<1>1. PICK found \in Orders : reader' = [reader EXCEPT !.items = PageRows(found, skip, reader.limit)]
  BY DEF FindPage, PageRows
<1> DEFINE items == PageRows(found, skip, reader.limit)
<1>2. /\ reader' = [reader EXCEPT !.items = items]
      /\ UNCHANGED <<list, bustle, given, trusting, table>>
  BY <1>1 DEF FindPage
<1>3. skip \in Nat /\ reader.page * reader.limit = skip + reader.limit
  BY <1>0, SkipIsNat
<1>4. /\ items \subseteq Where
      /\ Cardinality(items) >= reader.limit => skip + reader.limit <= n
      /\ skip + reader.limit <= n => Cardinality(items) = reader.limit
  BY <1>0, <1>3, PageSize
<1>5. n \in Nat /\ Cardinality(ListedRows) \in Nat /\ n <= Cardinality(ListedRows)
  BY WhereIsFinite
<1>6. ASSUME Promised, NEW r \in reader.due, r \notin reader.seen, Rank(r) <= skip + reader.limit
      PROVE  r \in items
  <2>1. r \in Where /\ Rank(r) > skip /\ "ties" \notin bustle
    BY <1>0, <1>6 DEF ListsInv, DueInv, Promised
  <2>2. QED
    BY <1>0, <1>3, <1>6, <2>1, PageHasItsRanks
<1>7. items \subseteq ListedRows
  BY <1>4 DEF Where, Present
<1>8. items # Unset
  BY <1>7, ListsAssumption
<1> HIDE DEF items, skip, n
<1>9. /\ DOMAIN reader' = ReaderFields /\ reader'.items = items
      /\ reader'.step = "page" /\ reader'.page = reader.page /\ reader'.limit = reader.limit
      /\ reader'.total = reader.total /\ reader'.seen = reader.seen /\ reader'.due = reader.due
  BY <1>0, <1>2 DEF ReaderFields
<1>10. ListTypes'
  BY <1>0, <1>2, <1>7, <1>9, TypesStay DEF ReaderFields, ListTypes
<1>11. Cardinality(items) >= reader.limit => reader.page * reader.limit <= Cardinality(ListedRows)
  BY <1>3, <1>4, <1>5, <1>0
<1>12. PagesInv'
  BY <1>0, <1>9, <1>11 DEF ListsInv, PagesInv, Skip
<1>13. ASSUME Promised, NEW r \in reader.due
       PROVE  /\ r \in Where
              /\ r \in reader.seen \cup items \/ Rank(r) > reader.page * reader.limit
              /\ Cardinality(items) < reader.limit => r \in reader.seen \cup items
  <2>1. r \in Where /\ Rank(r) \in Nat /\ Rank(r) <= n
    BY <1>0, <1>13, RankIsBounded DEF ListsInv, DueInv, n
  <2>2. r \in reader.seen \cup items \/ Rank(r) > skip + reader.limit
    BY <1>0, <1>3, <1>6, <1>13, <2>1
  <2>3. Cardinality(items) < reader.limit => skip + reader.limit > n
    BY <1>0, <1>3, <1>4, <1>5
  <2>4. QED
    BY <1>0, <1>3, <1>5, <2>1, <2>2, <2>3
<1>14. trusting /\ reader.total # Unset /\ Promised => reader.total = n
  BY <1>0 DEF ListsInv, DueInv, n
<1>15. DueInv'
  <2>1. NothingIsMissed'
    BY <1>9 DEF NothingIsMissed
  <2>2. Where' = Where /\ (Promised' <=> Promised) /\ \A r : Rank(r)' = Rank(r)
    BY <1>2, TableStays
  <2>3. QED
    BY <1>2, <1>8, <1>9, <1>13, <1>14, <2>1, <2>2 DEF DueInv, n
<1>16. QED
  BY <1>2, <1>0, <1>10, <1>12, <1>15, TableStays DEF ListsInv

LEMMA CountStep ==
  ASSUME ListsInv, CountRows
  PROVE  ListsInv'
<1>0. /\ ListTypes /\ NoTies /\ reader.step = "page" /\ reader.total = Unset
      /\ DOMAIN reader = ReaderFields
  BY DEF ListsInv, CountRows, ListTypes, ReaderFields
<1> DEFINE n == Cardinality(Where)
<1>1. /\ reader' = [reader EXCEPT !.total = n]
      /\ UNCHANGED <<list, bustle, given, trusting, table>>
  BY DEF CountRows
<1>2. n \in Nat /\ n \in 0 .. Cardinality(ListedRows)
  BY WhereIsFinite
<1> HIDE DEF n
<1>3. /\ DOMAIN reader' = ReaderFields /\ reader'.total = n
      /\ reader'.step = "page" /\ reader'.page = reader.page /\ reader'.limit = reader.limit
      /\ reader'.items = reader.items /\ reader'.seen = reader.seen /\ reader'.due = reader.due
  BY <1>0, <1>1 DEF ReaderFields
<1>4. ListTypes'
  BY <1>0, <1>1, <1>2, <1>3, TypesStay DEF ReaderFields, ListTypes
<1>5. PagesInv'
  BY <1>0, <1>3 DEF ListsInv, PagesInv, Skip
<1>6. DueInv'
  <2>1. NothingIsMissed'
    BY <1>3 DEF NothingIsMissed
  <2>2. Where' = Where /\ (Promised' <=> Promised) /\ \A r : Rank(r)' = Rank(r)
    BY <1>1, TableStays
  <2>3. QED
    BY <1>0, <1>1, <1>3, <2>1, <2>2 DEF ListsInv, DueInv, Skip, n
<1>7. QED
  BY <1>0, <1>1, <1>4, <1>5, <1>6, TableStays DEF ListsInv

(* A client that trusts the number of pages, and turns to the next one,    *)
(* has had a full page; one that stops has had the last row.               *)
LEMMA CeilingOfPages ==
  ASSUME NEW total \in Nat, NEW limit \in Nat \ {0}, NEW page \in Nat \ {0}
  PROVE  page >= (total + limit - 1) \div limit <=> page * limit >= total
<1> DEFINE c == (total + limit - 1) \div limit
           q == (total + limit - 1) % limit
<1>1. c \in Nat /\ q \in 0 .. limit - 1 /\ total + limit - 1 = limit * c + q
  OBVIOUS
<1> HIDE DEF c, q
<1>2. page * limit \in Nat /\ limit * c \in Nat
  BY <1>1
<1>3. CASE page >= c
  <2>1. page * limit >= limit * c
    <3>1. page * limit = limit * c + limit * (page - c) /\ page - c \in Nat
      BY <1>1, <1>3
    <3>2. limit * (page - c) \in Nat
      BY <3>1
    <3>3. QED
      BY <1>2, <3>1, <3>2
  <2>2. QED
    BY <1>1, <1>2, <1>3, <2>1 DEF c
<1>4. CASE page + 1 <= c
  <2>1. page * limit + limit <= limit * c
    <3>1. limit * c = page * limit + limit + limit * (c - (page + 1)) /\ c - (page + 1) \in Nat
      BY <1>1, <1>4
    <3>2. limit * (c - (page + 1)) \in Nat
      BY <3>1
    <3>3. QED
      BY <1>2, <3>1, <3>2
  <2>2. QED
    BY <1>1, <1>2, <1>4, <2>1 DEF c
<1>5. QED
  BY <1>1, <1>3, <1>4

LEMMA LastPageSeesAll ==
  ASSUME ListsInv, Answer, IsLastPage, Promised
  PROVE  reader.due \subseteq reader.seen \cup reader.items
<1>0. /\ ListTypes /\ reader.step = "page" /\ reader.items # Unset /\ reader.total # Unset
      /\ reader.page \in Nat \ {0} /\ reader.limit \in Nat \ {0}
  BY ListsAssumption DEF ListsInv, Answer, PagesInv
<1>1. CASE ~ trusting
  BY <1>0, <1>1 DEF ListsInv, DueInv, IsLastPage
<1>2. CASE trusting
  <2> DEFINE p == reader.page
             l == reader.limit
             n == Cardinality(Where)
  <2>1. n \in Nat /\ reader.total = n
    BY <1>0, <1>2, WhereIsFinite DEF ListsInv, DueInv
  <2>2. p >= (n + l - 1) \div l
    BY <1>2, <2>1 DEF IsLastPage, TotalPages
  <2>3. p \in Nat \ {0} /\ l \in Nat \ {0}
    BY <1>0
  <2>4. SUFFICES ASSUME NEW q \in reader.due, q \notin reader.seen \cup reader.items
                 PROVE  FALSE
    OBVIOUS
  <2>5. Rank(q) > p * l /\ q \in Where
    BY <1>0, <2>4 DEF ListsInv, DueInv
  <2>6. Rank(q) \in Nat /\ Rank(q) <= n
    BY <1>0, <2>5, RankIsBounded
  <2> HIDE DEF p, l, n
  <2>7. p * l >= n /\ p * l \in Nat
    BY <2>1, <2>2, <2>3, CeilingOfPages, SkipIsNat
  <2>8. QED
    BY <2>1, <2>5, <2>6, <2>7
<1>3. QED
  BY <1>1, <1>2

LEMMA NextPageExists ==
  ASSUME ListsInv, Answer, ~ IsLastPage
  PROVE  reader.page * reader.limit <= Cardinality(ListedRows)
<1>0. /\ ListTypes /\ reader.step = "page" /\ reader.items # Unset /\ reader.total # Unset
      /\ reader.page \in Nat \ {0} /\ reader.limit \in Nat \ {0}
      /\ Cardinality(ListedRows) \in Nat
  BY ListsAssumption, FS_CardinalityType DEF ListsInv, Answer, PagesInv
<1>1. CASE ~ trusting
  <2>1. Cardinality(reader.items) \in Nat
    <3>1. reader.items \subseteq ListedRows
      BY <1>0 DEF ListTypes
    <3>2. QED
      BY <3>1, ListsAssumption, FS_Subset, FS_CardinalityType
  <2>2. Cardinality(reader.items) >= reader.limit
    BY <1>0, <1>1, <2>1 DEF IsLastPage
  <2>3. QED
    BY <1>0, <2>2 DEF ListsInv, PagesInv
<1>2. CASE trusting
  <2> DEFINE p == reader.page
             l == reader.limit
             t == reader.total
  <2>1. p \in Nat \ {0} /\ l \in Nat \ {0} /\ t \in Nat /\ t <= Cardinality(ListedRows)
    BY <1>0 DEF ListTypes
  <2>2. ~ (p >= (t + l - 1) \div l)
    BY <1>2 DEF IsLastPage, TotalPages
  <2> HIDE DEF p, l, t
  <2>3. ~ (p * l >= t) /\ p * l \in Nat
    BY <2>1, <2>2, CeilingOfPages, SkipIsNat
  <2>4. p * l <= Cardinality(ListedRows)
    BY <1>0, <2>1, <2>3
  <2>5. QED
    BY <2>4 DEF p, l
<1>3. QED
  BY <1>1, <1>2

LEMMA AnswerStep ==
  ASSUME ListsInv, Answer
  PROVE  ListsInv'
<1>0. /\ ListTypes /\ NoTies /\ reader.step = "page" /\ reader.items # Unset
      /\ reader.page \in Nat \ {0} /\ reader.limit \in Nat \ {0} /\ reader.limit \in Limits
      /\ Skip(reader.page, reader.limit) <= Cardinality(ListedRows)
      /\ DOMAIN reader = ReaderFields
  BY ListsAssumption DEF ListsInv, Answer, PagesInv, ListTypes, ReaderFields
<1>1. /\ reader' = [reader EXCEPT !.step = IF IsLastPage THEN "done" ELSE "page",
                       !.page = @ + 1, !.items = Unset, !.total = Unset,
                       !.seen = @ \cup reader.items]
      /\ UNCHANGED <<list, bustle, given, trusting, table>>
  BY DEF Answer
<1>2. /\ DOMAIN reader' = ReaderFields /\ reader'.items = Unset /\ reader'.total = Unset
      /\ reader'.step = IF IsLastPage THEN "done" ELSE "page"
      /\ reader'.page = reader.page + 1 /\ reader'.limit = reader.limit
      /\ reader'.seen = reader.seen \cup reader.items /\ reader'.due = reader.due
  BY <1>0, <1>1 DEF ReaderFields
<1>3. ListTypes'
  <2>1. reader.items \subseteq ListedRows /\ reader.seen \subseteq ListedRows
        /\ reader.due \subseteq ListedRows
    BY <1>0 DEF ListTypes
  <2>2. QED
    BY <1>0, <1>1, <1>2, <2>1, TypesStay DEF ReaderFields
<1>4. Where' = Where /\ (Promised' <=> Promised) /\ \A r : Rank(r)' = Rank(r)
  BY <1>1, TableStays
<1> DEFINE p == reader.page
           l == reader.limit
           n == Cardinality(ListedRows)
<1>5. /\ Skip(p, l) \in Nat /\ p - 1 <= Skip(p, l) /\ Skip(p + 1, l) = p * l
      /\ p + 1 \in Nat \ {0} /\ n \in Nat
  <2>1. p \in Nat \ {0} /\ l \in Nat \ {0} /\ n \in Nat
    BY <1>0, ListsAssumption, FS_CardinalityType
  <2> HIDE DEF p, l, n
  <2>2. QED
    BY <2>1, SkipIsNat
<1>6. CASE IsLastPage
  <2>1. reader'.step = "done"
    BY <1>2, <1>6
  <2>2. PagesInv'
    <3>1. p - 1 <= n /\ p \in Nat
      BY <1>0, <1>5
    <3>2. p + 1 \in 0 .. n + 2
      BY <1>5, <3>1
    <3>3. QED
      BY <1>2, <2>1, <3>2 DEF PagesInv
  <2>3. Promised => reader.due \subseteq reader.seen \cup reader.items
    BY <1>6, LastPageSeesAll
  <2>4. NothingIsMissed'
    BY <1>2, <1>4, <2>3 DEF NothingIsMissed, Promised
  <2>5. DueInv'
    BY <2>1, <2>4 DEF DueInv
  <2>6. QED
    BY <1>0, <1>1, <1>3, <2>2, <2>5, TableStays DEF ListsInv
<1>7. CASE ~ IsLastPage
  <2>1. reader'.step = "page"
    BY <1>2, <1>7
  <2>2. Skip(p + 1, l) <= n
    BY <1>5, <1>7, NextPageExists
  <2>3. PagesInv'
    BY <1>0, <1>2, <1>5, <2>1, <2>2 DEF PagesInv, Skip
  <2>4. ASSUME Promised
        PROVE  /\ reader.due \subseteq Where
               /\ \A r \in reader.due :
                    r \in reader.seen \cup reader.items \/ Rank(r) > Skip(p + 1, l)
    BY <1>0, <1>5, <2>4 DEF ListsInv, DueInv
  <2>5. NothingIsMissed'
    BY <2>1 DEF NothingIsMissed
  <2>6. DueInv'
    BY <1>2, <1>4, <2>1, <2>4, <2>5 DEF DueInv, Skip
  <2>7. QED
    BY <1>0, <1>1, <1>3, <2>3, <2>6, TableStays DEF ListsInv
<1>8. QED
  BY <1>6, <1>7

LEMMA ListsStep ==
  ASSUME ListsInv, [ListsNext]_listVars
  PROVE  ListsInv'
<1>1. CASE ListsNext
  BY <1>1, RowsAppear, StartStep, FindStep, CountStep, AnswerStep DEF ListsNext, Reading
<1>2. CASE UNCHANGED listVars
  <2>1. UNCHANGED <<list, bustle, given, trusting, table>> /\ reader' = reader
    BY <1>2 DEF listVars
  <2>2. ListTypes'
    BY <2>1, TypesStay DEF ListsInv, ListTypes
  <2>3. PagesInv'
    BY <2>1 DEF ListsInv, PagesInv
  <2>4. DueInv'
    BY <2>1, TableStays DEF ListsInv, DueInv, NothingIsMissed
  <2>5. QED
    BY <2>1, <2>2, <2>3, <2>4, TableStays DEF ListsInv
<1>3. QED
  BY <1>1, <1>2

LEMMA ListsStart ==
  ASSUME ListsInit
  PROVE  ListsInv
<1>1. reader = NotReading /\ reader.step = "start"
  BY DEF ListsInit, NotReading
<1>2. ListTypes
  BY <1>1 DEF ListsInit, ListTypes, NotReading, TableRows
<1>3. NoTies
  BY DEF ListsInit, NoTies
<1>4. PagesInv
  BY <1>1 DEF PagesInv
<1>5. DueInv
  BY <1>1 DEF DueInv, NothingIsMissed
<1>6. QED
  BY <1>2, <1>3, <1>4, <1>5 DEF ListsInv

LEMMA ListsImplied ==
  ASSUME ListsInv
  PROVE  ListsTypeOK /\ NothingIsMissed
<1> DEFINE n == Cardinality(ListedRows)
<1>1. n \in Nat
  BY ListsAssumption, FS_CardinalityType
<1>2. reader.page \in 0 .. n + 2
  <2>1. CASE reader.step = "start"
    BY <1>1, <2>1 DEF ListsInv, PagesInv, NotReading
  <2>2. CASE reader.step = "page"
    <3> DEFINE p == reader.page
               l == reader.limit
    <3>1. p \in Nat \ {0} /\ l \in Nat \ {0} /\ Skip(p, l) <= n
      BY <2>2, ListsAssumption DEF ListsInv, PagesInv
    <3> HIDE DEF p, l, n
    <3>2. Skip(p, l) \in Nat /\ p - 1 <= Skip(p, l)
      BY <3>1, SkipIsNat
    <3>3. p \in 0 .. n + 2
      BY <1>1, <3>1, <3>2
    <3>4. QED
      BY <3>3 DEF p, n
  <2>3. CASE reader.step = "done"
    BY <2>3 DEF ListsInv, PagesInv
  <2>4. QED
    BY <2>1, <2>2, <2>3 DEF ListsInv, ListTypes
<1>3. ListsTypeOK
  BY <1>2 DEF ListsInv, ListTypes, ListsTypeOK, TableRows
<1>4. QED
  BY <1>3 DEF ListsInv, DueInv

(* However rows appear and change while a client reads a list page after   *)
(* page, and whatever page size and optional parameters it chooses: under  *)
(* the premises that NothingIsMissed names it misses no row that was there *)
(* when it began.                                                          *)
THEOREM NothingMissed == ListsSpec => [](ListsTypeOK /\ NothingIsMissed)
BY ListsStart, ListsStep, ListsImplied, PTL DEF ListsSpec

(***************************************************************************)
(* Reports: the key figures.  Nobody becomes active again, so that, while  *)
(* nobody is registered, the difference of the two counts is the number of *)
(* inactive workers at the time of the second one.                         *)
(***************************************************************************)
KpiFields == {"step", "total", "active", "before", "hired"}

FiguresInv ==
  /\ DOMAIN kpis = KpiFields
  /\ kpis.step # "idle" => kpis.before <= Cardinality(Inactive)
  /\ kpis.step = "done" => kpis.total # Unset /\ kpis.active # Unset
  /\ ~ kpis.hired =>
       /\ kpis.total # Unset => kpis.total = Cardinality(Registered)
       /\ kpis.active # Unset =>
            Cardinality(Registered) - kpis.active \in kpis.before .. Cardinality(Inactive)

ReportsInv == ReportsTypeOK /\ FiguresInv

LEMMA Headcounts ==
  /\ IsFiniteSet(Registered) /\ IsFiniteSet(Inactive)
  /\ Cardinality(Registered) \in 0 .. Cardinality(People)
  /\ Cardinality(Inactive) \in 0 .. Cardinality(People)
  /\ Cardinality(Registered \ Inactive) \in 0 .. Cardinality(People)
  /\ Cardinality(Registered) - Cardinality(Registered \ Inactive) = Cardinality(Inactive)
<1>1. Registered \subseteq People /\ Inactive \subseteq Registered
  BY DEF Registered, Inactive
<1>2. /\ IsFiniteSet(Registered) /\ IsFiniteSet(Inactive) /\ IsFiniteSet(Registered \ Inactive)
      /\ Cardinality(Registered) <= Cardinality(People)
      /\ Cardinality(Inactive) <= Cardinality(People)
  BY <1>1, ReportsAssumption, FS_Subset
<1>3. /\ Cardinality(Registered) \in Nat /\ Cardinality(Inactive) \in Nat
      /\ Cardinality(Registered \ Inactive) \in Nat /\ Cardinality(People) \in Nat
  BY <1>2, ReportsAssumption, FS_CardinalityType
<1>4. Cardinality(Registered \ Inactive) = Cardinality(Registered) - Cardinality(Registered \cap Inactive)
  BY <1>2, FS_Difference
<1>5. Registered \cap Inactive = Inactive
  BY <1>1
<1> DEFINE r == Cardinality(Registered)
           i == Cardinality(Inactive)
           a == Cardinality(Registered \ Inactive)
           n == Cardinality(People)
<1>6. a = r - i
  BY <1>4, <1>5
<1>7. r \in Nat /\ i \in Nat /\ a \in Nat /\ n \in Nat /\ r <= n /\ i <= n
  BY <1>2, <1>3
<1> HIDE DEF r, i, a, n
<1>8. r \in 0 .. n /\ i \in 0 .. n /\ a \in 0 .. n /\ r - a = i
  BY <1>6, <1>7
<1>9. QED
  BY <1>2, <1>8 DEF r, i, a, n

LEMMA CountsStay ==
  ASSUME person' = person
  PROVE  Registered' = Registered /\ Inactive' = Inactive
BY DEF Registered, Inactive

LEMMA RegisterStep ==
  ASSUME ReportsInv, NEW p \in People, RegisterPerson(p)
  PROVE  ReportsInv'
<1>1. /\ person[p] = "ABSENT" /\ person' = [person EXCEPT ![p] = "ACTIVE"]
      /\ kpis' = [kpis EXCEPT !.hired = TRUE] /\ zone' = zone /\ entry' = entry
  BY DEF RegisterPerson
<1>2. DOMAIN kpis = KpiFields /\ person \in [People -> {"ABSENT", "ACTIVE", "INACTIVE"}]
  BY DEF ReportsInv, FiguresInv, ReportsTypeOK
<1>3. /\ DOMAIN kpis' = KpiFields /\ kpis'.hired = TRUE /\ kpis'.step = kpis.step
      /\ kpis'.total = kpis.total /\ kpis'.active = kpis.active /\ kpis'.before = kpis.before
  BY <1>1, <1>2 DEF KpiFields
<1>4. Inactive' = Inactive
  BY <1>1, <1>2 DEF Inactive
<1>5. ReportsTypeOK'
  BY <1>1, <1>2, <1>3 DEF ReportsInv, ReportsTypeOK
<1>6. FiguresInv'
  BY <1>3, <1>4 DEF ReportsInv, FiguresInv
<1>7. QED
  BY <1>5, <1>6 DEF ReportsInv

LEMMA DeactivateStep ==
  ASSUME ReportsInv, NEW p \in People, DeactivatePerson(p)
  PROVE  ReportsInv'
<1>1. /\ person[p] = "ACTIVE" /\ person' = [person EXCEPT ![p] = "INACTIVE"]
      /\ kpis' = kpis /\ zone' = zone /\ entry' = entry
  BY DEF DeactivatePerson
<1>2. person \in [People -> {"ABSENT", "ACTIVE", "INACTIVE"}]
  BY DEF ReportsInv, ReportsTypeOK
<1>3. Registered' = Registered /\ Inactive' = Inactive \cup {p} /\ p \notin Inactive
  BY <1>1, <1>2 DEF Inactive, Registered
<1>4. Cardinality(Inactive') = Cardinality(Inactive) + 1
  BY <1>3, Headcounts, FS_AddElement
<1>5. ReportsTypeOK'
  BY <1>1, <1>2 DEF ReportsInv, ReportsTypeOK
<1>6. kpis.before \in Int /\ Cardinality(Inactive) \in Int /\ Cardinality(People) \in Nat
  BY Headcounts, ReportsAssumption, FS_CardinalityType DEF ReportsInv, ReportsTypeOK
<1>7. FiguresInv'
  <2>1. kpis.step # "idle" => kpis.before <= Cardinality(Inactive')
    BY <1>4, <1>6 DEF ReportsInv, FiguresInv
  <2>2. kpis.before .. Cardinality(Inactive) \subseteq kpis.before .. Cardinality(Inactive')
    BY <1>4, <1>6
  <2>3. QED
    BY <1>1, <1>3, <2>1, <2>2 DEF ReportsInv, FiguresInv
<1>8. QED
  BY <1>5, <1>7 DEF ReportsInv

LEMMA EntryStep ==
  ASSUME ReportsInv, NEW e \in Entries, NEW t \in Clock, PutEntry(e, t)
  PROVE  ReportsInv'
<1>1. entry' = [entry EXCEPT ![e] = t] /\ person' = person /\ kpis' = kpis /\ zone' = zone
  BY DEF PutEntry
<1>2. ReportsTypeOK'
  BY <1>1 DEF ReportsInv, ReportsTypeOK
<1>3. FiguresInv'
  BY <1>1, CountsStay DEF ReportsInv, FiguresInv
<1>4. QED
  BY <1>2, <1>3 DEF ReportsInv

LEMMA AskStep ==
  ASSUME ReportsInv, AskFigures
  PROVE  ReportsInv'
<1>1. /\ kpis' = [step |-> "count", total |-> Unset, active |-> Unset,
                  before |-> Cardinality(Inactive), hired |-> FALSE]
      /\ UNCHANGED <<zone, person, entry>>
  BY DEF AskFigures, NoFigures
<1> DEFINE inactive == Cardinality(Inactive)
<1>2. inactive \in 0 .. Cardinality(People) /\ inactive <= inactive
  BY Headcounts
<1>3. Inactive' = Inactive
  BY <1>1, CountsStay
<1>4. /\ DOMAIN kpis' = KpiFields /\ kpis'.step = "count" /\ kpis'.total = Unset
      /\ kpis'.active = Unset /\ kpis'.before = inactive /\ kpis'.hired = FALSE
  BY <1>1 DEF KpiFields
<1>5. ReportsTypeOK'
  BY <1>1, <1>2, <1>4 DEF ReportsInv, ReportsTypeOK
<1>6. FiguresInv'
  BY <1>2, <1>3, <1>4 DEF FiguresInv
<1>7. QED
  BY <1>5, <1>6 DEF ReportsInv

LEMMA CountWorkersStep ==
  ASSUME ReportsInv, CountWorkers
  PROVE  ReportsInv'
<1> DEFINE n == Cardinality(Registered)
<1>1. /\ kpis.step = "count" /\ kpis' = [kpis EXCEPT !.total = n]
      /\ UNCHANGED <<zone, person, entry>>
  BY DEF CountWorkers
<1>2. Registered' = Registered /\ Inactive' = Inactive
  BY <1>1, CountsStay
<1>3. n \in 0 .. Cardinality(People)
  BY Headcounts
<1>4. DOMAIN kpis = KpiFields
  BY DEF ReportsInv, FiguresInv
<1>5. /\ DOMAIN kpis' = KpiFields /\ kpis'.hired = kpis.hired /\ kpis'.step = kpis.step
      /\ kpis'.total = n /\ kpis'.active = kpis.active /\ kpis'.before = kpis.before
  BY <1>1, <1>4 DEF KpiFields
<1>6. ReportsTypeOK'
  BY <1>1, <1>3, <1>5 DEF ReportsInv, ReportsTypeOK
<1>7. FiguresInv'
  BY <1>1, <1>2, <1>5 DEF ReportsInv, FiguresInv
<1>8. QED
  BY <1>6, <1>7 DEF ReportsInv

LEMMA CountActiveStep ==
  ASSUME ReportsInv, CountActive
  PROVE  ReportsInv'
<1> DEFINE n == Cardinality(Registered \ Inactive)
<1>1. /\ kpis.step = "count" /\ kpis' = [kpis EXCEPT !.active = n]
      /\ UNCHANGED <<zone, person, entry>>
  BY DEF CountActive
<1>2. Registered' = Registered /\ Inactive' = Inactive
  BY <1>1, CountsStay
<1>3. n \in 0 .. Cardinality(People) /\ Cardinality(Registered) - n = Cardinality(Inactive)
  BY Headcounts
<1>4. DOMAIN kpis = KpiFields /\ kpis.before <= Cardinality(Inactive)
  BY <1>1 DEF ReportsInv, FiguresInv
<1>5. /\ DOMAIN kpis' = KpiFields /\ kpis'.hired = kpis.hired /\ kpis'.step = kpis.step
      /\ kpis'.total = kpis.total /\ kpis'.active = n /\ kpis'.before = kpis.before
  BY <1>1, <1>4 DEF KpiFields
<1>6. ReportsTypeOK'
  BY <1>1, <1>3, <1>5 DEF ReportsInv, ReportsTypeOK
<1>7. Cardinality(Inactive) \in kpis.before .. Cardinality(Inactive)
  BY <1>4, Headcounts DEF ReportsInv, ReportsTypeOK
<1> HIDE DEF n
<1>8. FiguresInv'
  BY <1>1, <1>2, <1>3, <1>4, <1>5, <1>7 DEF ReportsInv, FiguresInv
<1>9. QED
  BY <1>6, <1>8 DEF ReportsInv

LEMMA TellStep ==
  ASSUME ReportsInv, TellFigures
  PROVE  ReportsInv'
<1>1. /\ kpis.step = "count" /\ kpis.total # Unset /\ kpis.active # Unset
      /\ kpis' = [kpis EXCEPT !.step = "done"] /\ UNCHANGED <<zone, person, entry>>
  BY DEF TellFigures
<1>2. DOMAIN kpis = KpiFields
  BY DEF ReportsInv, FiguresInv
<1>3. /\ DOMAIN kpis' = KpiFields /\ kpis'.hired = kpis.hired /\ kpis'.step = "done"
      /\ kpis'.total = kpis.total /\ kpis'.active = kpis.active /\ kpis'.before = kpis.before
  BY <1>1, <1>2 DEF KpiFields
<1>4. ReportsTypeOK'
  BY <1>1, <1>3 DEF ReportsInv, ReportsTypeOK
<1>5. FiguresInv'
  BY <1>1, <1>3, CountsStay DEF ReportsInv, FiguresInv
<1>6. QED
  BY <1>4, <1>5 DEF ReportsInv

LEMMA ReportsStep ==
  ASSUME ReportsInv, [ReportsNext]_reportVars
  PROVE  ReportsInv'
<1>1. CASE ReportsNext
  BY <1>1, RegisterStep, DeactivateStep, EntryStep, AskStep, CountWorkersStep, CountActiveStep,
     TellStep DEF ReportsNext
<1>2. CASE UNCHANGED reportVars
  BY <1>2, CountsStay DEF reportVars, ReportsInv, ReportsTypeOK, FiguresInv
<1>3. QED
  BY <1>1, <1>2

LEMMA ReportsStart ==
  ASSUME ReportsInit
  PROVE  ReportsInv
<1>1. kpis = NoFigures /\ kpis.step = "idle"
  BY DEF ReportsInit, NoFigures
<1>2. 0 \in 0 .. Cardinality(People)
  BY ReportsAssumption, FS_CardinalityType
<1>3. ReportsTypeOK
  BY <1>1, <1>2 DEF ReportsInit, ReportsTypeOK, NoFigures
<1>4. FiguresInv
  BY <1>1 DEF FiguresInv, NoFigures, KpiFields
<1>5. QED
  BY <1>3, <1>4 DEF ReportsInv

LEMMA FiguresImplied ==
  ASSUME ReportsInv
  PROVE  FiguresAgree
BY DEF ReportsInv, FiguresInv, FiguresAgree

(***************************************************************************)
(* Reports: the attendance of a day.  The days that the handler lays       *)
(* around the dates are the days of a clock that is ahead by less than one *)
(* day, so that every moment is of exactly one.                            *)
(***************************************************************************)
Ahead == IF zone < 0 THEN DAY + zone ELSE zone

LEMMA DayContains ==
  ASSUME NEW d \in Int, NEW t \in Int
  PROVE  t \div DAY = d <=> d * DAY <= t /\ t <= d * DAY + DAY - 1
<1> DEFINE q == t \div DAY
           r == t % DAY
<1>0. DAY \in Nat \ {0}
  BY ReportsAssumption
<1>1. q \in Int /\ r \in 0 .. DAY - 1 /\ t = DAY * q + r
  BY <1>0
<1> HIDE DEF q, r
<1>2. d * DAY \in Int /\ DAY * q \in Int
  BY <1>0, <1>1
<1>3. CASE q = d
  <2>1. d * DAY = DAY * q
    BY <1>0, <1>1, <1>3
  <2>2. QED
    BY <1>0, <1>1, <1>2, <1>3, <2>1 DEF q
<1>4. CASE q < d
  <2>1. d * DAY = DAY * q + DAY + DAY * (d - q - 1) /\ d - q - 1 \in Nat
    BY <1>0, <1>1, <1>4
  <2>2. DAY * (d - q - 1) \in Nat
    BY <1>0, <2>1
  <2>3. d * DAY >= DAY * q + DAY
    BY <1>0, <1>2, <2>1, <2>2
  <2>4. QED
    BY <1>0, <1>1, <1>2, <1>4, <2>3 DEF q
<1>5. CASE q > d
  <2>1. DAY * q = d * DAY + DAY + DAY * (q - d - 1) /\ q - d - 1 \in Nat
    BY <1>0, <1>1, <1>5
  <2>2. DAY * (q - d - 1) \in Nat
    BY <1>0, <2>1
  <2>3. DAY * q >= d * DAY + DAY
    BY <1>0, <1>2, <2>1, <2>2
  <2>4. QED
    BY <1>0, <1>1, <1>2, <1>5, <2>3 DEF q
<1>6. QED
  BY <1>1, <1>3, <1>4, <1>5

LEMMA DaysBegin ==
  ASSUME ReportsTypeOK, NEW d \in Int
  PROVE  /\ Ahead \in 0 .. DAY - 1
         /\ DayStart(d) = d * DAY - Ahead
         /\ zone = 0 => DayStart(d) = d * DAY
<1>0. DAY \in Nat \ {0} /\ zone \in (1 - DAY) .. (DAY - 1)
  BY ReportsAssumption DEF ReportsTypeOK
<1>1. Ahead \in 0 .. DAY - 1
  BY <1>0 DEF Ahead
<1> DEFINE m == d * DAY
<1>2. m \in Int
  BY <1>0
<1>3. CASE zone < 0
  <2>1. d - 1 \in Int /\ m + zone \in Int /\ (d - 1) * DAY = m - DAY
    BY <1>0
  <2>2. (m + zone) \div DAY = d - 1
    <3>1. (d - 1) * DAY <= m + zone /\ m + zone <= (d - 1) * DAY + DAY - 1
      BY <1>0, <1>2, <1>3, <2>1
    <3>2. QED
      BY <2>1, <3>1, DayContains
  <2>3. DayStart(d) = m - DAY - zone
    BY <2>1, <2>2 DEF DayStart, LocalDay
  <2>4. QED
    BY <1>0, <1>1, <1>2, <1>3, <2>3 DEF Ahead
<1>4. CASE ~ (zone < 0)
  <2>1. m + zone \in Int
    BY <1>0, <1>2
  <2>2. (m + zone) \div DAY = d
    <3>1. d * DAY <= m + zone /\ m + zone <= d * DAY + DAY - 1
      BY <1>0, <1>2, <1>4
    <3>2. QED
      BY <2>1, <3>1, DayContains
  <2>3. DayStart(d) = m - zone
    BY <2>2 DEF DayStart, LocalDay
  <2>4. QED
    BY <1>0, <1>1, <1>2, <1>4, <2>3 DEF Ahead
<1>5. QED
  BY <1>3, <1>4

LEMMA EntryIsNat ==
  ASSUME ReportsTypeOK, NEW e \in Entries, entry[e] # Unset
  PROVE  entry[e] \in Nat /\ entry[e] \in Clock
BY ReportsAssumption DEF ReportsTypeOK

LEMMA DateOfEntry ==
  ASSUME ReportsTypeOK, NEW e \in Entries, entry[e] # Unset, NEW d \in Int
  PROVE  e \in DailyAttendance(d) <=> d = (entry[e] + Ahead) \div DAY
<1> DEFINE t == entry[e]
           m == d * DAY
<1>0. DAY \in Nat \ {0} /\ t \in Nat /\ Ahead \in 0 .. DAY - 1 /\ m \in Int
  BY ReportsAssumption, EntryIsNat, DaysBegin
<1>1. DayStart(d) = m - Ahead
  BY DaysBegin
<1>2. e \in DailyAttendance(d) <=> m - Ahead <= t /\ t <= m - Ahead + DAY - 1
  BY <1>1 DEF DailyAttendance, Between, DayEnd
<1>3. t + Ahead \in Int
  BY <1>0
<1>4. (t + Ahead) \div DAY = d <=> m <= t + Ahead /\ t + Ahead <= m + DAY - 1
  BY <1>3, DayContains
<1> HIDE DEF t, m
<1>5. QED
  BY <1>0, <1>2, <1>4 DEF t

LEMMA DatesImplied ==
  ASSUME ReportsTypeOK
  PROVE  EveryEntryOnce
<1>0. DAY \in Nat \ {0} /\ Ahead \in 0 .. DAY - 1
  BY ReportsAssumption, DaysBegin
<1>1. ASSUME NEW e \in Entries, entry[e] # Unset
      PROVE  Cardinality({date \in AndAround : e \in DailyAttendance(date)}) = 1
  <2> DEFINE t == entry[e]
             k == t \div DAY
             d == (t + Ahead) \div DAY
  <2>1. t \in Nat /\ t \in Clock
    BY <1>1, EntryIsNat
  <2>2. k \in Int /\ d \in Int /\ t + Ahead \in Int /\ t \in Int
    BY <1>0, <2>1
  <2>3. d = k \/ d = k + 1
    <3>1. k * DAY <= t /\ t <= k * DAY + DAY - 1 /\ k * DAY \in Int
      <4>1. t \div DAY = k
        OBVIOUS
      <4> HIDE DEF k
      <4>2. k * DAY \in Int
        BY <1>0, <2>2
      <4> HIDE DEF t
      <4>3. QED
        BY <2>2, <4>1, <4>2, DayContains
    <3>2. k + 1 \in Int /\ (k + 1) * DAY = k * DAY + DAY
      BY <1>0, <2>2
    <3> DEFINE m == k * DAY
    <3>3. d = k <=> m <= t + Ahead /\ t + Ahead <= m + DAY - 1
      BY <2>2, DayContains
    <3>4. d = k + 1 <=> m + DAY <= t + Ahead /\ t + Ahead <= m + DAY + DAY - 1
      BY <2>2, <3>2, DayContains
    <3> HIDE DEF m, d
    <3>5. m \in Int /\ m <= t /\ t <= m + DAY - 1
      BY <3>1 DEF m
    <3>6. QED
      BY <1>0, <2>1, <3>3, <3>4, <3>5
  <2>4. d \in AndAround /\ \A date \in AndAround : date \in Int
    <3>1. k \in Calendar
      BY <2>1 DEF Calendar
    <3>2. \A c \in Calendar : c \in Int
      BY <1>0, ReportsAssumption DEF Calendar
    <3> HIDE DEF d, k
    <3>3. d \in k - 1 .. k + 1
      BY <2>2, <2>3
    <3>4. d \in AndAround
      BY <3>1, <3>3 DEF AndAround
    <3>5. \A date \in AndAround : date \in Int
      BY <3>2 DEF AndAround
    <3>6. QED
      BY <3>4, <3>5
  <2>5. \A date \in AndAround : e \in DailyAttendance(date) <=> date = d
    BY <1>1, <2>4, DateOfEntry
  <2> HIDE DEF d
  <2>6. {date \in AndAround : e \in DailyAttendance(date)} = {d}
    BY <2>4, <2>5
  <2>7. QED
    BY <2>6, FS_Singleton
<1>2. ASSUME zone = 0, NEW date \in Calendar
      PROVE  Cardinality(DailyAttendance(date))
               = Headcount(date * DAY, date * DAY + DAY - 1, date)
  <2>1. date \in Int
    BY <1>0, ReportsAssumption DEF Calendar
  <2>2. DayStart(date) = date * DAY
    BY <1>2, <2>1, DaysBegin
  <2>3. DailyAttendance(date) = Between(date * DAY, date * DAY + DAY - 1)
    BY <2>2 DEF DailyAttendance, DayEnd
  <2>4. ASSUME NEW e \in Between(date * DAY, date * DAY + DAY - 1)
        PROVE  TrendKey(e) = date
    <3>1. /\ e \in Entries /\ entry[e] # Unset
          /\ date * DAY <= entry[e] /\ entry[e] <= date * DAY + DAY - 1
      BY DEF Between
    <3>2. entry[e] \in Int
      BY <3>1, EntryIsNat
    <3>3. QED
      BY <2>1, <3>1, <3>2, DayContains DEF TrendKey
  <2>5. DailyAttendance(date) =
          {e \in Between(date * DAY, date * DAY + DAY - 1) : TrendKey(e) = date}
    BY <2>3, <2>4
  <2>6. QED
    BY <2>5 DEF Headcount
<1>3. QED
  BY <1>1, <1>2 DEF EveryEntryOnce

(* Whatever happens between the two counts of workers, and wherever the    *)
(* server is: the figures told are those of some moment of the request     *)
(* unless somebody was registered, and every attendance record belongs to  *)
(* exactly one date.                                                       *)
THEOREM ReportsAreTrue == ReportsSpec => [](ReportsTypeOK /\ FiguresAgree /\ EveryEntryOnce)
<1>1. ReportsInv => ReportsTypeOK
  BY DEF ReportsInv
<1>2. ReportsInv => EveryEntryOnce
  BY DatesImplied DEF ReportsInv
<1>3. QED
  BY <1>1, <1>2, ReportsStart, ReportsStep, FiguresImplied, PTL DEF ReportsSpec

(***************************************************************************)
(* The parts together.                                                     *)
(***************************************************************************)
DeskInv ==
  /\ SeedTypeInv /\ WholeInv /\ EventInv /\ SeedInv
  /\ NoticesInv
  /\ SchedulingInv
  /\ ListsInv /\ ReportsInv

LEMMA DeskStarts ==
  ASSUME DeskInit
  PROVE  DeskInv
<1>1. SeedInit /\ NoticesInit /\ SchedulingInit /\ ListsInit /\ ReportsInit
  BY DEF DeskInit
<1>2. QED
  BY <1>1, SeedInitType, SeedInitInv, NoticesInitInv, SchedulingInitInv, ListsStart, ReportsStart
     DEF DeskInv

(* A step of one part is a step, or no step, of every part. *)
LEMMA PartsStep ==
  ASSUME [DeskNext]_deskVars
  PROVE  /\ [SeedNext]_tenancyVars /\ [NoticesNext]_noticeVars
         /\ [SchedulingNext]_schedulingVars
         /\ [ListsNext]_listVars /\ [ReportsNext]_reportVars
BY DEF DeskNext, deskVars, TenancyWorks, NotificationsWork, SchedulingWorks, ListsWork, ReportsWork

LEMMA DeskStep == DeskInv /\ [DeskNext]_deskVars => DeskInv'
<1> SUFFICES ASSUME DeskInv, [DeskNext]_deskVars PROVE DeskInv'
  OBVIOUS
<1>1. /\ [SeedNext]_tenancyVars /\ [NoticesNext]_noticeVars
      /\ [SchedulingNext]_schedulingVars
      /\ [ListsNext]_listVars /\ [ReportsNext]_reportVars
  BY PartsStep
<1>2. SeedTypeInv' /\ WholeInv' /\ EventInv' /\ SeedInv'
  BY <1>1, SeedTypeStep, WholeStep, EventStep, SeedStepInv DEF DeskInv
<1>3. NoticesInv' /\ SchedulingInv'
  BY <1>1, NoticesStep, SchedulingStep DEF DeskInv
<1>4. ListsInv' /\ ReportsInv'
  BY <1>1, ListsStep, ReportsStep DEF DeskInv
<1>5. QED
  BY <1>2, <1>3, <1>4 DEF DeskInv

(* The variables of all parts keep their types; in particular a reader     *)
(* turns over no more pages than there can be rows.                        *)
THEOREM DeskTypeCorrect == DeskSpec => []DeskTypeOK
<1>1. DeskInv => DeskTypeOK
  BY NoticesImplied, ListsImplied
     DEF DeskInv, DeskTypeOK, SeedTypeInv, SchedulingInv, ReportsInv
<1>2. DeskInit => DeskInv
  BY DeskStarts
<1>3. QED
  BY <1>1, <1>2, DeskStep, PTL DEF DeskSpec

(* The answers of the reading half of the API: readers of lists miss       *)
(* nothing, key figures are those of some moment, and every attendance     *)
(* record belongs to exactly one date.                                     *)
THEOREM AnswersAreTrue == DeskSpec => []AnswersAgree
<1>1. DeskInv => AnswersAgree
  BY ListsImplied, FiguresImplied, DatesImplied DEF DeskInv, AnswersAgree, ReportsInv
<1>2. DeskInit => DeskInv
  BY DeskStarts
<1>3. QED
  BY <1>1, <1>2, DeskStep, PTL DEF DeskSpec

=============================================================================

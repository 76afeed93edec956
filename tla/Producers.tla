------------------------------ MODULE Producers ------------------------------
(***************************************************************************)
(* The two components that record events in the outbox: tenancy, which     *)
(* creates a tenant with its first rows, and emergency, which reports and  *)
(* resolves incidents.  Both write their rows first and call               *)
(* OutboxService.publish in a statement of its own afterwards.             *)
(*                                                                         *)
(* Of the outbox they know what EventDelivery promises.  The event of a    *)
(* tenant is named for its slug, that of an incident for its id: there is  *)
(* at most one of each.                                                    *)
(***************************************************************************)
EXTENDS EventDelivery

CONSTANTS Handlers,    \* requests that are handled at the same time
          Slugs,       \* slugs, which are unique among tenants
          Emails,      \* addresses, which are unique among users
          Incidents,   \* ids of incidents
          Nobody,      \* null
          Environments   \* sets of may that may occur together

ASSUME ProducersAssumption ==
  /\ Slugs \cup Incidents = Events
  /\ Slugs \cap Incidents = {}
  /\ Nobody \notin Events /\ Nobody \notin Emails
  /\ MaxSends \in Nat
  /\ Environments \subseteq SUBSET {"overlap", "incidents", "script", "relay", "database", "crash"}

VARIABLES may,         \* the environment, the same in every state: requests
                       \* overlap, incidents are reported, the script of Seed
                       \* is started, the relay works, statements fail,
                       \* processes die
          tenant,      \* tenant[s]: the row with slug s, and the rows of the
                       \* other tables that belong to it
          account,     \* account[m]: the user with address m
          incident,    \* incident[i]: the status column, "ABSENT" without row
          call         \* call[h]: the request that h handles

rows == <<tenant, account, incident>>
producersVars == <<may, rows, call, deliveryVars>>

LeaveCodes == {"ANNUAL", "SICK", "MATERNITY", "UNPAID"}
OwnLeaveCodes == {"ANNUAL", "SICK", "MATERNITY"}

TenantRows ==
  [status : {"ABSENT", "PROVISIONING", "ACTIVE"}, subscribed : BOOLEAN,
   leaveTypes : SUBSET LeaveCodes]
NoTenant == [status |-> "ABSENT", subscribed |-> FALSE, leaveTypes |-> {}]

Accounts == [tenant : Slugs, role : {"OWNER", "ADMIN"}]
NoAccount == [tenant |-> Nobody, role |-> "none"]

Requests ==
  [step : {"idle", "email", "create", "record", "resolve"},
   subject : Events \cup {Nobody}, email : Emails \cup {Nobody}]
NoRequest == [step |-> "idle", subject |-> Nobody, email |-> Nobody]

ProducersInit ==
  /\ may \in Environments
  /\ tenant = [s \in Slugs |-> NoTenant]
  /\ account = [m \in Emails |-> NoAccount]
  /\ incident = [i \in Incidents |-> "ABSENT"]
  /\ call = [h \in Handlers |-> NoRequest]
  /\ DeliveryInit

Goto(h, step) == call' = [call EXCEPT ![h].step = step]
Finish(h) == call' = [call EXCEPT ![h] = NoRequest]
Idle(h) == call[h].step = "idle"
StatementFails == "database" \in may
Calm == may \cap {"database", "crash"} = {}

-----------------------------------------------------------------------------
(* CreateTenantHandler.                                                    *)

Exists(s) == tenant[s].status # "ABSENT"

(* findUnique by slug; a slug that is taken is refused. *)
FindSlug(h, s, m) ==
  /\ Idle(h)
  /\ ~ Exists(s)
  /\ call' = [call EXCEPT ![h] = [step |-> "email", subject |-> s, email |-> m]]
  /\ UNCHANGED <<may, rows, deliveryVars>>

(* findUnique by the owner's address, then the hash of a new password. *)
FindEmail(h) ==
  /\ call[h].step = "email"
  /\ \/ account[call[h].email] = NoAccount /\ Goto(h, "create")
     \/ (account[call[h].email] # NoAccount \/ StatementFails) /\ Finish(h)
  /\ UNCHANGED <<may, rows, deliveryVars>>

Provisioned ==
  [status |-> "PROVISIONING", subscribed |-> TRUE, leaveTypes |-> OwnLeaveCodes]

SlugIsFree(h) ==  \* mutant: the second owner with an address replaces the first
  ~ Exists(call[h].subject)

(* The unique indexes, on which the transaction fails as a whole. *)
NoConflict(h) == ~ Exists(call[h].subject) /\ account[call[h].email] = NoAccount

(* The transaction: tenant, owner, subscription and leave types. *)
CreateTenant(h) ==
  /\ call[h].step = "create"
  /\ \/ /\ NoConflict(h)
        /\ tenant' = [tenant EXCEPT ![call[h].subject] = Provisioned]
        /\ account' = [account EXCEPT ![call[h].email] =
                         [tenant |-> call[h].subject, role |-> "OWNER"]]
        /\ Goto(h, "record") \/ (StatementFails /\ Finish(h))
     \/ /\ ~ NoConflict(h) \/ StatementFails
        /\ Finish(h)
        /\ UNCHANGED <<tenant, account>>
  /\ UNCHANGED <<may, incident, deliveryVars>>

-----------------------------------------------------------------------------
(* ReportIncidentHandler and ResolveIncidentHandler.                       *)

InsertIncident(h, i) ==
  /\ "incidents" \in may
  /\ Idle(h)
  /\ incident[i] = "ABSENT"
  /\ incident' = [incident EXCEPT ![i] = "OPEN"]
  /\ \/ call' = [call EXCEPT ![h] = [NoRequest EXCEPT !.step = "record", !.subject = i]]
     \/ StatementFails /\ UNCHANGED call
  /\ UNCHANGED <<may, tenant, account, deliveryVars>>

(* An incident is resolved by whoever finds it, resolved already or not. *)
FindIncident(h, i) ==
  /\ Idle(h)
  /\ incident[i] # "ABSENT"
  /\ call' = [call EXCEPT ![h] = [NoRequest EXCEPT !.step = "resolve", !.subject = i]]
  /\ UNCHANGED <<may, rows, deliveryVars>>

UpdateIncident(h) ==
  /\ call[h].step = "resolve"
  /\ \/ incident' = [incident EXCEPT ![call[h].subject] = "RESOLVED"]
     \/ StatementFails /\ UNCHANGED incident
  /\ Finish(h)
  /\ UNCHANGED <<may, tenant, account, deliveryVars>>

-----------------------------------------------------------------------------
(* OutboxService.publish, the last statement of both handlers that create. *)

Unpublished(h) ==  \* mutant: nothing is published
  /\ call[h].step = "record"
  /\ Finish(h)
  /\ UNCHANGED <<may, rows, deliveryVars>>

PublishSubject(h) ==
  /\ call[h].step = "record"
  /\ Accept(call[h].subject) \/ (StatementFails /\ UNCHANGED deliveryVars)
  /\ Finish(h)
  /\ UNCHANGED <<may, rows>>

RecordTenant(h) == call[h].subject \in Slugs /\ PublishSubject(h)
RecordIncident(h) == call[h].subject \in Incidents /\ PublishSubject(h)

(* The process dies: the rest of the request is never executed. *)
Die(h) ==
  /\ "crash" \in may
  /\ ~ Idle(h)
  /\ Finish(h)
  /\ UNCHANGED <<may, rows, deliveryVars>>

(* What the outbox does with an event that it has accepted. *)
Relay(e) ==
  /\ "relay" \in may
  /\ Deliver(e) \/ Confirm(e) \/ GiveUp(e)
  /\ UNCHANGED <<may, rows, call>>

-----------------------------------------------------------------------------
Continue(h) ==
  \/ FindEmail(h) \/ CreateTenant(h) \/ RecordTenant(h)
  \/ RecordIncident(h) \/ UpdateIncident(h)

Begin(h) ==
  /\ "overlap" \in may \/ \A g \in Handlers : Idle(g)
  /\ \/ \E s \in Slugs, m \in Emails : FindSlug(h, s, m)
     \/ \E i \in Incidents : InsertIncident(h, i) \/ FindIncident(h, i)

ProducersNext ==
  \/ \E h \in Handlers : Begin(h) \/ Continue(h) \/ Die(h)
  \/ \E e \in Events : Relay(e)

ProducersSpec == ProducersInit /\ [][ProducersNext]_producersVars

-----------------------------------------------------------------------------
ProducersTypeOK ==
  /\ may \in Environments
  /\ tenant \in [Slugs -> TenantRows]
  /\ account \in [Emails -> Accounts \cup {NoAccount}]
  /\ incident \in [Incidents -> {"ABSENT", "OPEN", "RESOLVED"}]
  /\ call \in [Handlers -> Requests]
  /\ outcome \in [Events -> {"none", "queued", "published", "failed"}]
  /\ sent \in [Events -> 0 .. MaxSends]

OwnersOf(s) == {m \in Emails : account[m] = [tenant |-> s, role |-> "OWNER"]}

(* A tenant made by a request is never half made, whichever requests race  *)
(* for its slug or for the address of its owner and whatever fails: it has *)
(* one owner, a subscription and its leave types.                          *)
TenantsAreWhole ==
  \A s \in Slugs : tenant[s].status = "PROVISIONING" =>
    /\ \E m \in Emails : OwnersOf(s) = {m}
    /\ tenant[s].subscribed
    /\ OwnLeaveCodes \subseteq tenant[s].leaveTypes

Committed(e) ==
  IF e \in Slugs THEN tenant[e].status = "PROVISIONING" ELSE incident[e] # "ABSENT"

(* No event is recorded for a tenant or an incident that was not committed. *)
EventsAreTrue ==
  \A e \in Events : outcome[e] # "none" => Committed(e)

(* As long as no process dies, no statement fails and the relay is at      *)
(* work, whatever is committed is announced: the event of every tenant     *)
(* made by a request and of every incident is recorded by the statement    *)
(* that follows, and the outbox settles it.  There are finitely many, so   *)
(* that sooner or later none is left.                                      *)
Announced ==
  <>[] \A e \in Events :
    Committed(e) /\ Calm /\ "relay" \in may => Settled(e)

=============================================================================

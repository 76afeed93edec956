------------------------------- MODULE Outbox -------------------------------
(***************************************************************************)
(* The transactional-outbox relay: the outbox_events table, the Redis lock *)
(* and the runs of OutboxProcessor.processOutboxEvents, which a cron job   *)
(* starts every five seconds in every instance of the API without waiting  *)
(* for the previous run of the same instance to end.                       *)
(*                                                                         *)
(* A run is one call of processOutboxEvents; its control state is the      *)
(* await it is about to execute.  Every awaited Redis command, SQL         *)
(* statement and Kafka send is one atomic step, and other runs may take    *)
(* steps between any two of them.                                          *)
(*                                                                         *)
(* What may go wrong is a set of faults, chosen once from the constant     *)
(* Environments:                                                           *)
(*   "slow"      a run may still be working when its lock times out        *)
(*   "redis"     a Redis command may fail                                  *)
(*   "kafka"     a send may fail, before or after the broker stored it     *)
(*   "database"  a statement may fail, before or after it took effect      *)
(*   "crash"     the process that hosts a run may die                      *)
(***************************************************************************)
EXTENDS Integers, FiniteSets, Functions

CONSTANTS Runs,           \* concurrent calls of processOutboxEvents
          NoRun,          \* nobody
          Events,         \* the rows, numbered in the order of createdAt,
                          \* which need not be the order they appear in
          BATCH_SIZE,
          MAX_ATTEMPTS,
          MaxDeliveries,  \* bound on the copies of one event in Kafka
          Environments    \* sets of faults that may occur together

ASSUME RunsAssumption == NoRun \notin Runs
ASSUME EventsAssumption == Events \subseteq Nat
ASSUME LimitsAssumption ==
  /\ BATCH_SIZE \in Nat \ {0}
  /\ MAX_ATTEMPTS \in Nat \ {0}
  /\ MaxDeliveries \in Nat
ASSUME FaultsAssumption ==
  Environments \subseteq SUBSET {"slow", "redis", "kafka", "database", "crash"}

VARIABLES faults,     \* what may go wrong, the same in every state
          status,     \* status[e]: the status column, "ABSENT" without a row
          attempts,   \* attempts[e]: the attempts column
          delivered,  \* delivered[e]: copies of e that the broker stored
          holder,     \* the run whose SETNX made the lock key, NoRun without key
          ttl,        \* does the lock key have an expiry?
          pc,         \* pc[r]: the await that r is about to execute
          batch       \* batch[r]: the events r has still to handle, each with
                      \* the attempts that r read for it

vars == <<faults, status, attempts, delivered, holder, ttl, pc, batch>>
table == <<status, attempts>>
lock == <<holder, ttl>>

Statuses == {"ABSENT", "PENDING", "PROCESSING", "PUBLISHED", "FAILED"}
Steps == {"idle", "expire", "find", "mark", "send", "settle", "retry", "release"}
Batches == UNION {[B -> 0 .. MAX_ATTEMPTS - 1] : B \in SUBSET Events}
NoBatch == [e \in {} |-> 0]

Init ==
  /\ faults \in Environments
  /\ status = [e \in Events |-> "ABSENT"]
  /\ attempts = [e \in Events |-> 0]
  /\ delivered = [e \in Events |-> 0]
  /\ holder = NoRun
  /\ ttl = FALSE
  /\ pc = [r \in Runs |-> "idle"]
  /\ batch = [r \in Runs |-> NoBatch]

Goto(r, step) == pc' = [pc EXCEPT ![r] = step]

Write(e, newStatus, newAttempts) ==
  /\ status' = [status EXCEPT ![e] = newStatus]
  /\ attempts' = [attempts EXCEPT ![e] = newAttempts]

-----------------------------------------------------------------------------
(* OutboxService.publish: one INSERT, with the defaults of a new row.  Any *)
(* instance of the API inserts, and createdAt is fixed before the row can  *)
(* be seen: a row may appear after younger ones, even after they are sent. *)

Publish(e) ==
  /\ status[e] = "ABSENT"
  /\ Write(e, "PENDING", 0)
  /\ UNCHANGED <<faults, delivered, lock, pc, batch>>

-----------------------------------------------------------------------------
(* acquireLock: SETNX, then EXPIRE in a second command.  A run that finds  *)
(* the key returns and changes nothing.  Any Redis error lets the run go   *)
(* on without the lock, whether or not the failed command took effect; and *)
(* the client repeats a command whose answer a broken connection has lost. *)

KeyIgnored == TRUE  \* mutant: SET where SETNX is meant

KeyAbsent == holder = NoRun

AcquireLock(r) ==
  /\ pc[r] = "idle"
  /\ \/ /\ KeyAbsent
        /\ holder' = r
        /\ ttl' = FALSE
        /\ Goto(r, "expire")
     \/ /\ "redis" \in faults
        /\ \/ UNCHANGED lock
           \/ KeyAbsent /\ holder' = r /\ ttl' = FALSE
        /\ Goto(r, "find")
     \/ /\ "redis" \in faults   \* the SETNX is sent again and finds its own key
        /\ KeyAbsent
        /\ holder' = r
        /\ ttl' = FALSE
        /\ UNCHANGED pc
  /\ UNCHANGED <<faults, table, delivered, batch>>

ForgetLockTTL(r) ==  \* mutant: no EXPIRE after SETNX
  /\ pc[r] = "expire"
  /\ Goto(r, "find")
  /\ UNCHANGED <<faults, table, delivered, lock, batch>>

SetLockTTL(r) ==
  /\ pc[r] = "expire"
  /\ \/ ttl' = (holder # NoRun)
     \/ "redis" \in faults /\ UNCHANGED ttl
  /\ Goto(r, "find")
  /\ UNCHANGED <<faults, table, delivered, holder, batch>>

(* Redis drops the key OUTBOX_LOCK_TTL seconds after EXPIRE.  Unless runs  *)
(* are slow that is only after the run that took the lock has ended.       *)
LockTimeout ==
  /\ ttl
  /\ "slow" \in faults \/ pc[holder] = "idle"
  /\ holder' = NoRun
  /\ ttl' = FALSE
  /\ UNCHANGED <<faults, table, delivered, pc, batch>>

-----------------------------------------------------------------------------
(* The body of processOutboxEvents.                                        *)

(* The outer catch: the rest of the batch is dropped as it is. *)
GiveUpBatch(r) ==
  /\ Goto(r, "release")
  /\ batch' = [batch EXCEPT ![r] = NoBatch]

(* findMany: the oldest BATCH_SIZE events among those still to be sent. *)
AnyStatus == {e \in Events : status[e] # "ABSENT" /\ attempts[e] < MAX_ATTEMPTS}
                             \* mutant: the query does not ask for the status
FailedToo == {e \in Events : status[e] \in {"PENDING", "FAILED"}}
                             \* mutant: the query retries what has failed

Sendable == {e \in Events : status[e] = "PENDING" /\ attempts[e] < MAX_ATTEMPTS}

SomeOf(S, B) ==  \* mutant: the query has no orderBy
  \/ B = S /\ Cardinality(B) <= BATCH_SIZE
  \/ Cardinality(B) = BATCH_SIZE

OldestOf(S, B) ==
  /\ \A e \in B, f \in S \ B : e < f
  /\ \/ B = S /\ Cardinality(B) <= BATCH_SIZE
     \/ Cardinality(B) = BATCH_SIZE

FindPending(r) ==
  /\ pc[r] = "find"
  /\ \/ /\ Sendable # {}
        /\ \E B \in SUBSET Sendable :
             /\ OldestOf(Sendable, B)
             /\ batch' = [batch EXCEPT ![r] = Restrict(attempts, B)]
        /\ Goto(r, "mark")
     \/ (Sendable = {} \/ "database" \in faults) /\ GiveUpBatch(r)
  /\ UNCHANGED <<faults, table, delivered, lock>>

PublishedUpFront(r) ==  \* mutant: the batch is marked as published first
  [e \in Events |-> IF e \in DOMAIN batch[r] THEN "PUBLISHED" ELSE status[e]]

(* updateMany: by id, whatever the status has become since findMany. *)
Marked(r) ==
  [e \in Events |-> IF e \in DOMAIN batch[r] THEN "PROCESSING" ELSE status[e]]

MarkProcessing(r) ==
  /\ pc[r] = "mark"
  /\ \/ status' = Marked(r) /\ Goto(r, "send") /\ UNCHANGED batch
     \/ /\ "database" \in faults
        /\ status' \in {status, Marked(r)}
        /\ GiveUpBatch(r)
  /\ UNCHANGED <<faults, attempts, delivered, lock>>

(* The loop handles the batch in the order of createdAt. *)
IsCurrent(r, e) ==
  /\ e \in DOMAIN batch[r]
  /\ \A f \in DOMAIN batch[r] : e <= f

Advance(r, e) ==
  /\ batch' = [batch EXCEPT ![r] = Restrict(batch[r], DOMAIN batch[r] \ {e})]
  /\ Goto(r, IF DOMAIN batch[r] = {e} THEN "release" ELSE "send")

(* KafkaProducer.publish: the broker gets one more copy. *)
BrokerStores(e) ==
  /\ delivered[e] < MaxDeliveries
  /\ delivered' = [delivered EXCEPT ![e] = @ + 1]

(* An error may reach the caller although the broker has stored the message. *)
KafkaPublish(r) ==
  /\ pc[r] = "send"
  /\ \E e \in DOMAIN batch[r] :
       /\ IsCurrent(r, e)
       /\ \/ BrokerStores(e) /\ Goto(r, "settle")
          \/ /\ "kafka" \in faults
             /\ BrokerStores(e) \/ UNCHANGED delivered
             /\ Goto(r, "retry")
  /\ UNCHANGED <<faults, table, lock, batch>>

(* Computed from the value that findMany returned. *)
AttemptsAfter(r, e) == batch[r][e] + 1

(* The update after the send; when it fails the catch below runs. *)
MarkPublished(r) ==
  /\ pc[r] = "settle"
  /\ \E e \in DOMAIN batch[r] :
       /\ IsCurrent(r, e)
       /\ \/ Write(e, "PUBLISHED", AttemptsAfter(r, e)) /\ Advance(r, e)
          \/ /\ "database" \in faults
             /\ Write(e, "PUBLISHED", AttemptsAfter(r, e)) \/ UNCHANGED table
             /\ Goto(r, "retry")
             /\ UNCHANGED batch
  /\ UNCHANGED <<faults, delivered, lock>>

OneTooMany(n) == IF n > MAX_ATTEMPTS THEN "FAILED" ELSE "PENDING"        \* mutant
NotReset(n) == IF n >= MAX_ATTEMPTS THEN "FAILED" ELSE "PROCESSING"      \* mutant

StatusAfterFailure(n) == IF n >= MAX_ATTEMPTS THEN "FAILED" ELSE "PENDING"

(* The update in the catch of the loop.  An error here leaves the loop. *)
RecordFailure(r) ==
  /\ pc[r] = "retry"
  /\ \E e \in DOMAIN batch[r] :
       LET n == AttemptsAfter(r, e)
       IN  /\ IsCurrent(r, e)
           /\ \/ Write(e, StatusAfterFailure(n), n) /\ Advance(r, e)
              \/ /\ "database" \in faults
                 /\ Write(e, StatusAfterFailure(n), n) \/ UNCHANGED table
                 /\ GiveUpBatch(r)
  /\ UNCHANGED <<faults, delivered, lock>>

(* releaseLock: DEL of the key, whoever made it; errors are ignored. *)
ReleaseLock(r) ==
  /\ pc[r] = "release"
  /\ \/ holder' = NoRun /\ ttl' = FALSE
     \/ "redis" \in faults /\ UNCHANGED lock
  /\ Goto(r, "idle")
  /\ UNCHANGED <<faults, table, delivered, batch>>

Crash(r) ==
  /\ "crash" \in faults
  /\ pc[r] # "idle"
  /\ Goto(r, "idle")
  /\ batch' = [batch EXCEPT ![r] = NoBatch]
  /\ UNCHANGED <<faults, table, delivered, lock>>

-----------------------------------------------------------------------------
Continue(r) ==
  \/ SetLockTTL(r)
  \/ FindPending(r)
  \/ MarkProcessing(r)
  \/ KafkaPublish(r)
  \/ MarkPublished(r)
  \/ RecordFailure(r)
  \/ ReleaseLock(r)

Next ==
  \/ \E e \in Events : Publish(e)
  \/ \E r \in Runs : AcquireLock(r) \/ Continue(r) \/ Crash(r)
  \/ LockTimeout

Spec == Init /\ [][Next]_vars

(* The event loop resumes every pending await, the cron job keeps starting *)
(* runs, and Redis drops a key whose time is up.  Nothing obliges the      *)
(* program to record an event.                                             *)
Fairness ==
  /\ \A r \in Runs : WF_vars(Continue(r))
  /\ WF_vars(\E r \in Runs : AcquireLock(r))
  /\ WF_vars(LockTimeout)

FairSpec == Spec /\ Fairness

-----------------------------------------------------------------------------
TypeOK ==
  /\ faults \in Environments
  /\ status \in [Events -> Statuses]
  /\ attempts \in [Events -> 0 .. MAX_ATTEMPTS]
  /\ delivered \in [Events -> Nat]
  /\ holder \in Runs \cup {NoRun}
  /\ ttl \in BOOLEAN
  /\ pc \in [Runs -> Steps]
  /\ batch \in [Runs -> Batches]

(* A row that says PUBLISHED is not lying: the broker has the event.       *)
PublishedIsDelivered ==
  \A e \in Events : status[e] = "PUBLISHED" => delivered[e] > 0

(* Status and attempts columns never drift apart, although updates         *)
(* overwrite both from stale reads: an event is FAILED only once its       *)
(* attempts are used up, and a PENDING event always has an attempt left,   *)
(* because findMany would never return it again.                           *)
AttemptsAgree ==
  \A e \in Events :
    /\ status[e] = "FAILED" => attempts[e] = MAX_ATTEMPTS
    /\ status[e] = "PENDING" => attempts[e] < MAX_ATTEMPTS

(* A row's columns can be believed whatever fails and however many runs    *)
(* overlap: PUBLISHED events are in Kafka, FAILED ones have used up their  *)
(* attempts, PENDING ones have not.                                        *)
RowsAreHonest == PublishedIsDelivered /\ AttemptsAgree

(* As long as no process dies and no statement fails, a row marked         *)
(* PROCESSING is in the batch of a run that will still settle it: nothing  *)
(* else ever looks at such a row again.  Overlapping runs do not break it. *)
NoStranding ==
  faults \cap {"crash", "database"} = {} =>
    \A e \in Events :
      status[e] = "PROCESSING" => \E r \in Runs : e \in DOMAIN batch[r]

(* The lock does what it is for while Redis answers and runs are quicker   *)
(* than its expiry: at most one run is past acquireLock, crashes or not.   *)
MutualExclusion ==
  \A r, s \in Runs : pc[r] # "idle" /\ pc[s] # "idle" => r = s

(* Under an exclusive lock a retry never costs more copies than attempts:  *)
(* even with failing sends, failing statements and crashes an event is in  *)
(* Kafka at most MAX_ATTEMPTS times.                                       *)
DeliveriesBounded == \A e \in Events : delivered[e] <= MAX_ATTEMPTS

(* While statements and Redis commands succeed and no process dies, every  *)
(* recorded event is settled in the end, published or given up after       *)
(* MAX_ATTEMPTS, although sends fail and overlapping runs overwrite each   *)
(* other's attempts.                                                       *)
EventuallySettled ==
  \A e \in Events :
    (status[e] = "PENDING" /\ faults \subseteq {"slow", "kafka"})
      ~> status[e] \in {"PUBLISHED", "FAILED"}

(* Once past acquireLock a run never blocks the outbox for good: the lock  *)
(* it took goes away, by releaseLock or, if the process dies, by itself.   *)
LockIsFreed ==
  \A r \in Runs : (pc[r] = "find" /\ holder = r) ~> (holder = NoRun)

(* What "Distributed lock to prevent duplicate processing" at the head of  *)
(* processOutboxEvents says: no event is in the hands of two runs.         *)
NoDuplicateProcessing ==
  \A r, s \in Runs : r # s => DOMAIN batch[r] \cap DOMAIN batch[s] = {}

-----------------------------------------------------------------------------
(* What the outbox promises, with PENDING and PROCESSING rows both "queued". *)

Outcome(s) == CASE s = "ABSENT" -> "none"
                [] s \in {"PENDING", "PROCESSING"} -> "queued"
                [] s = "PUBLISHED" -> "published"
                [] s = "FAILED" -> "failed"

Delivery == INSTANCE EventDelivery
              WITH MaxSends <- MAX_ATTEMPTS,
                   outcome <- [e \in Events |-> Outcome(status[e])],
                   sent <- delivered

(* While the lock is exclusive and statements do not fail, the relay       *)
(* implements EventDelivery: sends are bounded, PUBLISHED needs a send,    *)
(* and a settled event is never touched again.                             *)
ImplementsDelivery == Delivery!DeliverySpec

=============================================================================

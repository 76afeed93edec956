---------------------------- MODULE OutboxProofs ----------------------------
(***************************************************************************)
(* Theorems about Outbox.tla and OutboxOrder.tla, for every set of runs    *)
(* and events, every batch size and attempt limit, and every combination   *)
(* of faults that the statement allows.                                    *)
(***************************************************************************)
EXTENDS OutboxOrder, TLAPS

(* A batch is a function from some events to the attempts read for them.   *)
LEMMA BatchType ==
  ASSUME NEW b \in Batches
  PROVE  /\ DOMAIN b \subseteq Events
         /\ \A e \in DOMAIN b : b[e] \in 0 .. MAX_ATTEMPTS - 1
BY DEF Batches

LEMMA NoBatchType == NoBatch \in Batches /\ DOMAIN NoBatch = {}
<1>1. NoBatch \in [{} -> 0 .. MAX_ATTEMPTS - 1]
  BY DEF NoBatch
<1>2. QED
  BY <1>1 DEF Batches, NoBatch

(* Dropping events from a batch leaves a batch, of the others.             *)
LEMMA RestrictBatch ==
  ASSUME NEW b \in Batches, NEW S \in SUBSET DOMAIN b
  PROVE  /\ Restrict(b, S) \in Batches
         /\ DOMAIN Restrict(b, S) = S
         /\ \A e \in S : Restrict(b, S)[e] = b[e]
<1>1. PICK B \in SUBSET Events : b \in [B -> 0 .. MAX_ATTEMPTS - 1]
  BY DEF Batches
<1>2. Restrict(b, S) \in [S -> 0 .. MAX_ATTEMPTS - 1]
  BY <1>1 DEF Restrict
<1>3. S \in SUBSET Events
  BY <1>1
<1>4. QED
  BY <1>2, <1>3 DEF Batches, Restrict

(* findMany returns events that still have an attempt left.                *)
LEMMA FetchedIsBatch ==
  ASSUME TypeOK, NEW B \in SUBSET Sendable
  PROVE  /\ Restrict(attempts, B) \in Batches
         /\ DOMAIN Restrict(attempts, B) = B
         /\ \A e \in B : Restrict(attempts, B)[e] = attempts[e]
<1>1. \A e \in B : attempts[e] \in 0 .. MAX_ATTEMPTS - 1
  BY LimitsAssumption DEF TypeOK, Sendable
<1>2. Restrict(attempts, B) \in [B -> 0 .. MAX_ATTEMPTS - 1]
  BY <1>1 DEF Restrict
<1>3. B \in SUBSET Events
  BY DEF Sendable
<1>4. QED
  BY <1>2, <1>3 DEF Batches, Restrict

(* The two ways in which a run shortens its batch.                         *)
LEMMA AdvanceEffect ==
  ASSUME TypeOK, NEW r \in Runs, NEW e \in DOMAIN batch[r], Advance(r, e)
  PROVE  /\ batch' \in [Runs -> Batches]
         /\ pc' \in [Runs -> Steps]
         /\ \A s \in Runs : s # r => batch'[s] = batch[s] /\ pc'[s] = pc[s]
         /\ DOMAIN batch'[r] = DOMAIN batch[r] \ {e}
         /\ \A f \in DOMAIN batch'[r] : batch'[r][f] = batch[r][f]
         /\ \/ pc'[r] = "release" /\ DOMAIN batch'[r] = {}
            \/ pc'[r] = "send"
<1> DEFINE rest == Restrict(batch[r], DOMAIN batch[r] \ {e})
<1>1. batch[r] \in Batches
  BY DEF TypeOK
<1>2. /\ rest \in Batches
      /\ DOMAIN rest = DOMAIN batch[r] \ {e}
      /\ \A f \in DOMAIN rest : rest[f] = batch[r][f]
  BY <1>1, RestrictBatch
<1>3. batch' = [batch EXCEPT ![r] = rest]
  BY DEF Advance
<1> HIDE DEF rest
<1>4. batch' \in [Runs -> Batches] /\ batch'[r] = rest
  BY <1>2, <1>3 DEF TypeOK
<1>5. \A s \in Runs : s # r => batch'[s] = batch[s]
  BY <1>3 DEF TypeOK
<1>6. /\ pc' \in [Runs -> Steps]
      /\ \A s \in Runs : s # r => pc'[s] = pc[s]
      /\ pc'[r] = IF DOMAIN batch[r] = {e} THEN "release" ELSE "send"
  BY DEF Advance, Goto, TypeOK, Steps
<1>7. QED
  BY <1>2, <1>4, <1>5, <1>6

LEMMA GiveUpEffect ==
  ASSUME TypeOK, NEW r \in Runs, GiveUpBatch(r)
  PROVE  /\ batch' \in [Runs -> Batches]
         /\ pc' \in [Runs -> Steps]
         /\ \A s \in Runs : s # r => batch'[s] = batch[s] /\ pc'[s] = pc[s]
         /\ DOMAIN batch'[r] = {}
         /\ pc'[r] = "release"
BY NoBatchType DEF GiveUpBatch, Goto, TypeOK, Steps

LEMMA FindEffect ==
  ASSUME NEW r \in Runs, FindPending(r)
  PROVE  \/ GiveUpBatch(r)
         \/ \E B \in SUBSET Sendable :
               /\ batch' = [batch EXCEPT ![r] = Restrict(attempts, B)]
               /\ pc' = [pc EXCEPT ![r] = "mark"]
BY DEF FindPending, Goto

(* The values of the variables are always of their types: in particular no *)
(* sequence of stale updates writes more than MAX_ATTEMPTS attempts.       *)
THEOREM TypeCorrect == Spec => []TypeOK
<1>1. Init => TypeOK
  <2> SUFFICES ASSUME Init
               PROVE  TypeOK
    OBVIOUS
  <2>1. 0 \in 0 .. MAX_ATTEMPTS
    BY LimitsAssumption
  <2>2. batch \in [Runs -> Batches]
    BY NoBatchType DEF Init
  <2>3. QED
    BY <2>1, <2>2 DEF Init, TypeOK, Statuses, Steps
<1>2. TypeOK /\ [Next]_vars => TypeOK'
  <2> SUFFICES ASSUME TypeOK, [Next]_vars
               PROVE  TypeOK'
    OBVIOUS
  <2> USE LimitsAssumption
      DEF TypeOK, Statuses, Steps, Goto, Write, lock, table
  <2>1. ASSUME NEW e \in Events, Publish(e)
        PROVE  TypeOK'
    BY <2>1 DEF Publish
  <2>2. ASSUME NEW r \in Runs, AcquireLock(r)
        PROVE  TypeOK'
    BY <2>2 DEF AcquireLock
  <2>3. ASSUME NEW r \in Runs, SetLockTTL(r)
        PROVE  TypeOK'
    BY <2>3 DEF SetLockTTL
  <2>4. ASSUME NEW r \in Runs, FindPending(r)
        PROVE  TypeOK'
    <3>1. UNCHANGED <<faults, status, attempts, delivered, holder, ttl>>
      BY <2>4 DEF FindPending
    <3>2. CASE GiveUpBatch(r)
      <4>1. batch' \in [Runs -> Batches] /\ pc' \in [Runs -> Steps]
        BY <3>2, GiveUpEffect
      <4>2. QED
        BY <3>1, <4>1
    <3>3. CASE \E B \in SUBSET Sendable :
                 /\ batch' = [batch EXCEPT ![r] = Restrict(attempts, B)]
                 /\ pc' = [pc EXCEPT ![r] = "mark"]
      <4>1. PICK B \in SUBSET Sendable :
                /\ batch' = [batch EXCEPT ![r] = Restrict(attempts, B)]
                /\ pc' = [pc EXCEPT ![r] = "mark"]
        BY <3>3
      <4>2. Restrict(attempts, B) \in Batches
        BY FetchedIsBatch
      <4>3. batch' \in [Runs -> Batches] /\ pc' \in [Runs -> Steps]
        BY <4>1, <4>2
      <4>4. QED
        BY <3>1, <4>3
    <3>4. QED
      BY <2>4, <3>2, <3>3, FindEffect
  <2>5. ASSUME NEW r \in Runs, MarkProcessing(r)
        PROVE  TypeOK'
    BY <2>5, NoBatchType, SMTT(30) DEF MarkProcessing, Marked, GiveUpBatch
  <2>6. ASSUME NEW r \in Runs, KafkaPublish(r)
        PROVE  TypeOK'
    BY <2>6 DEF KafkaPublish, BrokerStores, IsCurrent
  <2>7. ASSUME NEW r \in Runs, MarkPublished(r)
        PROVE  TypeOK'
    BY <2>7, BatchType, RestrictBatch DEF MarkPublished, AttemptsAfter, IsCurrent, Advance
  <2>8. ASSUME NEW r \in Runs, RecordFailure(r)
        PROVE  TypeOK'
    <3>1. PICK e \in DOMAIN batch[r] :
              /\ IsCurrent(r, e)
              /\ \/ \E s \in {"PENDING", "FAILED"} : Write(e, s, batch[r][e] + 1)
                 \/ UNCHANGED table
              /\ Advance(r, e) \/ GiveUpBatch(r)
      BY <2>8 DEF RecordFailure, AttemptsAfter, StatusAfterFailure
    <3>2. e \in Events /\ batch[r][e] + 1 \in 0 .. MAX_ATTEMPTS
      BY BatchType
    <3>3. status' \in [Events -> Statuses] /\ attempts' \in [Events -> 0 .. MAX_ATTEMPTS]
      BY <3>1, <3>2
    <3>4. batch' \in [Runs -> Batches] /\ pc' \in [Runs -> Steps]
      BY <3>1, AdvanceEffect, GiveUpEffect
    <3>5. QED
      BY <2>8, <3>3, <3>4 DEF RecordFailure, AttemptsAfter, StatusAfterFailure
  <2>9. ASSUME NEW r \in Runs, ReleaseLock(r)
        PROVE  TypeOK'
    BY <2>9 DEF ReleaseLock
  <2>10. ASSUME NEW r \in Runs, Crash(r)
         PROVE  TypeOK'
    BY <2>10, NoBatchType DEF Crash
  <2>11. CASE LockTimeout
    BY <2>11 DEF LockTimeout
  <2>12. CASE UNCHANGED vars
    BY <2>12 DEF vars
  <2>13. QED
    BY <2>1, <2>2, <2>3, <2>4, <2>5, <2>6, <2>7, <2>8, <2>9, <2>10, <2>11, <2>12
       DEF Next, Continue
<1>3. QED
  BY <1>1, <1>2, PTL DEF Spec

-----------------------------------------------------------------------------
(* The environment is chosen once.                                         *)
LEMMA FaultsStay == [Next]_vars => faults' = faults
BY DEF Next, Publish, AcquireLock, Continue, SetLockTTL, FindPending, MarkProcessing,
       KafkaPublish, MarkPublished, RecordFailure, ReleaseLock, Crash, LockTimeout, vars

(* What the environment never does holds of the faults in every state.     *)
Exclusive ==  \* the lock does: Redis answers, and no run outlives its key
  \A F \in Environments : "slow" \notin F /\ "redis" \notin F

Durable == \A F \in Environments : "database" \notin F

-----------------------------------------------------------------------------
(* What the rows say about deliveries, under any faults.  A run about to   *)
(* write PUBLISHED has had its send stored, which is what makes            *)
(* PublishedIsDelivered inductive.                                         *)

SentBeforeSettle ==
  \A r \in Runs : pc[r] = "settle" =>
    \A e \in DOMAIN batch[r] : IsCurrent(r, e) => delivered[e] > 0

RowsInv == TypeOK /\ PublishedIsDelivered /\ AttemptsAgree /\ SentBeforeSettle

(* Steps that touch no row and no count of deliveries preserve RowsInv if  *)
(* they bring no run to the settling of an event.                          *)
LEMMA RowsUntouched ==
  ASSUME RowsInv, TypeOK', UNCHANGED <<status, attempts, delivered>>,
         \A r \in Runs : pc'[r] = "settle" => pc[r] = "settle" /\ batch'[r] = batch[r]
  PROVE  RowsInv'
BY DEF RowsInv, PublishedIsDelivered, AttemptsAgree, SentBeforeSettle, IsCurrent

LEMMA RowsStep == RowsInv /\ TypeOK' /\ [Next]_vars => RowsInv'
<1> SUFFICES ASSUME RowsInv, TypeOK', [Next]_vars
             PROVE  RowsInv'
  OBVIOUS
<1>0. TypeOK
  BY DEF RowsInv
<1> USE <1>0, LimitsAssumption DEF Goto
<1>1. ASSUME NEW e \in Events, Publish(e)
      PROVE  RowsInv'
  BY <1>1 DEF Publish, Write, RowsInv, TypeOK, PublishedIsDelivered, AttemptsAgree,
              SentBeforeSettle, IsCurrent
<1>2. ASSUME NEW r \in Runs, AcquireLock(r)
      PROVE  RowsInv'
  BY <1>2, RowsUntouched DEF AcquireLock, KeyAbsent, table, TypeOK
<1>3. ASSUME NEW r \in Runs, SetLockTTL(r)
      PROVE  RowsInv'
  BY <1>3, RowsUntouched DEF SetLockTTL, table, TypeOK
<1>4. ASSUME NEW r \in Runs, FindPending(r)
      PROVE  RowsInv'
  BY <1>4, RowsUntouched DEF FindPending, GiveUpBatch, table, TypeOK
<1>5. ASSUME NEW r \in Runs, MarkProcessing(r)
      PROVE  RowsInv'
  <2>1. /\ \A e \in Events : status'[e] \in {status[e], "PROCESSING"}
        /\ UNCHANGED <<attempts, delivered>>
    BY <1>5 DEF MarkProcessing, Marked, TypeOK
  <2>2. \A s \in Runs : pc'[s] = "settle" => pc[s] = "settle" /\ batch'[s] = batch[s]
    BY <1>5 DEF MarkProcessing, Marked, GiveUpBatch, TypeOK
  <2>3. QED
    BY <2>1, <2>2 DEF RowsInv, PublishedIsDelivered, AttemptsAgree, SentBeforeSettle, IsCurrent
<1>6. ASSUME NEW r \in Runs, KafkaPublish(r)
      PROVE  RowsInv'
  <2>1. PICK e \in DOMAIN batch[r] :
            /\ IsCurrent(r, e)
            /\ \/ delivered' = [delivered EXCEPT ![e] = @ + 1] /\ pc' = [pc EXCEPT ![r] = "settle"]
               \/ /\ delivered' \in {delivered, [delivered EXCEPT ![e] = @ + 1]}
                  /\ pc' = [pc EXCEPT ![r] = "retry"]
    BY <1>6 DEF KafkaPublish, BrokerStores
  <2>2. e \in Events
    BY BatchType DEF TypeOK
  <2>3. UNCHANGED <<status, attempts, batch>>
    BY <1>6 DEF KafkaPublish, BrokerStores, table
  <2>4. \A f \in Events : delivered'[f] >= delivered[f]
    BY <2>1, <2>2 DEF TypeOK
  <2>5. /\ \A s \in Runs : pc'[s] = "settle" => pc[s] = "settle" \/ s = r
        /\ pc'[r] = "settle" => delivered'[e] > 0
    <3>1. CASE /\ delivered' = [delivered EXCEPT ![e] = @ + 1]
               /\ pc' = [pc EXCEPT ![r] = "settle"]
      <4>1. delivered'[e] = delivered[e] + 1 /\ delivered[e] \in Nat
        BY <2>2, <3>1 DEF TypeOK
      <4>2. \A s \in Runs : s # r => pc'[s] = pc[s]
        BY <3>1 DEF TypeOK
      <4>3. QED
        BY <4>1, <4>2
    <3>2. CASE pc' = [pc EXCEPT ![r] = "retry"]
      <4>1. pc'[r] = "retry" /\ \A s \in Runs : s # r => pc'[s] = pc[s]
        BY <3>2 DEF TypeOK
      <4>2. QED
        BY <4>1
    <3>3. QED
      BY <2>1, <3>1, <3>2
  <2>6. \A f \in DOMAIN batch[r] : IsCurrent(r, f) => f = e
    <3>1. batch[r] \in Batches
      BY DEF TypeOK
    <3>2. DOMAIN batch[r] \subseteq Nat
      BY <3>1, BatchType, EventsAssumption
    <3>3. ASSUME NEW f \in DOMAIN batch[r], IsCurrent(r, f)
          PROVE  f = e
      <4>1. e <= f /\ f <= e
        BY <2>1, <3>3 DEF IsCurrent
      <4>2. QED
        BY <3>2, <4>1
    <3>4. QED
      BY <3>3
  <2>7. PublishedIsDelivered' /\ AttemptsAgree'
    BY <2>3, <2>4 DEF RowsInv, PublishedIsDelivered, AttemptsAgree, TypeOK
  <2>8. SentBeforeSettle'
    <3> SUFFICES ASSUME NEW s \in Runs, pc'[s] = "settle",
                        NEW f \in DOMAIN batch[s], IsCurrent(s, f)
                 PROVE  delivered'[f] > 0
      BY <2>3 DEF SentBeforeSettle, IsCurrent
    <3>1. f \in Events
      BY BatchType DEF TypeOK
    <3>2. QED
      BY <2>4, <2>5, <2>6, <3>1 DEF RowsInv, SentBeforeSettle, TypeOK
  <2>9. QED
    BY <2>7, <2>8 DEF RowsInv
<1>7. ASSUME NEW r \in Runs, MarkPublished(r)
      PROVE  RowsInv'
  <2>1. PICK e \in DOMAIN batch[r] :
            /\ IsCurrent(r, e)
            /\ Write(e, "PUBLISHED", batch[r][e] + 1) \/ UNCHANGED table
            /\ Advance(r, e) \/ (pc' = [pc EXCEPT ![r] = "retry"] /\ UNCHANGED batch)
    BY <1>7 DEF MarkPublished, AttemptsAfter
  <2>2. e \in Events /\ delivered[e] > 0
    BY <1>7, <2>1, BatchType DEF TypeOK, RowsInv, SentBeforeSettle, MarkPublished
  <2>3. UNCHANGED delivered
    BY <1>7 DEF MarkPublished, AttemptsAfter
  <2>4. \A s \in Runs : pc'[s] = "settle" => pc[s] = "settle" /\ batch'[s] = batch[s]
    BY <2>1, AdvanceEffect DEF TypeOK
  <2>5. PublishedIsDelivered' /\ AttemptsAgree'
    BY <2>1, <2>2, <2>3 DEF RowsInv, PublishedIsDelivered, AttemptsAgree, TypeOK, Write, table
  <2>6. SentBeforeSettle'
    BY <2>3, <2>4 DEF RowsInv, SentBeforeSettle, IsCurrent
  <2>7. QED
    BY <2>5, <2>6 DEF RowsInv
<1>8. ASSUME NEW r \in Runs, RecordFailure(r)
      PROVE  RowsInv'
  <2>1. PICK e \in DOMAIN batch[r] :
            /\ \/ Write(e, IF batch[r][e] + 1 >= MAX_ATTEMPTS THEN "FAILED" ELSE "PENDING",
                        batch[r][e] + 1)
               \/ UNCHANGED table
            /\ Advance(r, e) \/ GiveUpBatch(r)
    BY <1>8 DEF RecordFailure, AttemptsAfter, StatusAfterFailure
  <2>2. e \in Events /\ batch[r][e] \in 0 .. MAX_ATTEMPTS - 1
    BY BatchType DEF TypeOK
  <2>3. UNCHANGED delivered
    BY <1>8 DEF RecordFailure, AttemptsAfter, StatusAfterFailure
  <2>4. \A s \in Runs : pc'[s] = "settle" => pc[s] = "settle" /\ batch'[s] = batch[s]
    BY <2>1, AdvanceEffect, GiveUpEffect DEF TypeOK
  <2>5. PublishedIsDelivered'
    BY <2>1, <2>2, <2>3 DEF RowsInv, PublishedIsDelivered, TypeOK, Write, table
  <2>6. AttemptsAgree'
    BY <2>1, <2>2 DEF RowsInv, AttemptsAgree, TypeOK, Write, table
  <2>7. SentBeforeSettle'
    BY <2>3, <2>4 DEF RowsInv, SentBeforeSettle, IsCurrent
  <2>8. QED
    BY <2>5, <2>6, <2>7 DEF RowsInv
<1>9. ASSUME NEW r \in Runs, ReleaseLock(r)
      PROVE  RowsInv'
  BY <1>9, RowsUntouched DEF ReleaseLock, table, TypeOK
<1>10. ASSUME NEW r \in Runs, Crash(r)
       PROVE  RowsInv'
  BY <1>10, RowsUntouched DEF Crash, table, TypeOK
<1>11. CASE LockTimeout
  BY <1>11, RowsUntouched DEF LockTimeout, table
<1>12. CASE UNCHANGED vars
  BY <1>12, RowsUntouched DEF vars
<1>13. QED
  BY <1>1, <1>2, <1>3, <1>4, <1>5, <1>6, <1>7, <1>8, <1>9, <1>10, <1>11, <1>12
     DEF Next, Continue

LEMMA RowsInvariant == Spec => []RowsInv
<1>1. Init => PublishedIsDelivered /\ AttemptsAgree /\ SentBeforeSettle
  BY DEF Init, PublishedIsDelivered, AttemptsAgree, SentBeforeSettle
<1>2. Init /\ TypeOK => RowsInv
  BY <1>1 DEF RowsInv
<1>3. QED
  BY <1>2, TypeCorrect, RowsStep, PTL DEF Spec

(* Whatever fails and however many runs overlap: a row marked PUBLISHED    *)
(* has reached the broker, no event waits as PENDING where findMany cannot *)
(* see it, and only an event without attempts left is FAILED.              *)
THEOREM RowsTellTheTruth == Spec => []RowsAreHonest
<1>1. RowsInv => RowsAreHonest
  BY DEF RowsInv, RowsAreHonest
<1>2. QED
  BY <1>1, RowsInvariant, PTL

-----------------------------------------------------------------------------
(* A run that is not working on events has no batch left.                  *)

EmptyUnlessWorking ==
  \A r \in Runs : pc[r] \notin {"mark", "send", "settle", "retry"} => DOMAIN batch[r] = {}

LEMMA EmptyStep == TypeOK /\ EmptyUnlessWorking /\ [Next]_vars => EmptyUnlessWorking'
<1> SUFFICES ASSUME TypeOK, EmptyUnlessWorking, [Next]_vars
             PROVE  EmptyUnlessWorking'
  OBVIOUS
<1> USE DEF Goto
<1>1. ASSUME NEW r \in Runs, FindPending(r)
      PROVE  EmptyUnlessWorking'
  BY <1>1, GiveUpEffect DEF FindPending, EmptyUnlessWorking, TypeOK
<1>2. ASSUME NEW r \in Runs, MarkProcessing(r)
      PROVE  EmptyUnlessWorking'
  BY <1>2, GiveUpEffect DEF MarkProcessing, Marked, EmptyUnlessWorking, TypeOK
<1>3. ASSUME NEW r \in Runs, KafkaPublish(r)
      PROVE  EmptyUnlessWorking'
  BY <1>3 DEF KafkaPublish, BrokerStores, EmptyUnlessWorking, TypeOK
<1>4. ASSUME NEW r \in Runs, MarkPublished(r)
      PROVE  EmptyUnlessWorking'
  BY <1>4, AdvanceEffect DEF MarkPublished, AttemptsAfter, EmptyUnlessWorking, TypeOK
<1>5. ASSUME NEW r \in Runs, RecordFailure(r)
      PROVE  EmptyUnlessWorking'
  BY <1>5, AdvanceEffect, GiveUpEffect DEF RecordFailure, AttemptsAfter, StatusAfterFailure, EmptyUnlessWorking, TypeOK
<1>6. ASSUME NEW r \in Runs,
             AcquireLock(r) \/ SetLockTTL(r) \/ ReleaseLock(r) \/ Crash(r)
      PROVE  EmptyUnlessWorking'
  BY <1>6, NoBatchType
     DEF AcquireLock, KeyAbsent, SetLockTTL, ReleaseLock, Crash, EmptyUnlessWorking, TypeOK
<1>7. CASE (\E e \in Events : Publish(e)) \/ LockTimeout \/ UNCHANGED vars
  BY <1>7 DEF Publish, LockTimeout, vars, EmptyUnlessWorking
<1>8. QED
  BY <1>1, <1>2, <1>3, <1>4, <1>5, <1>6, <1>7 DEF Next, Continue

LEMMA EmptyInvariant == Spec => [](TypeOK /\ EmptyUnlessWorking)
<1>1. Init => EmptyUnlessWorking
  BY NoBatchType DEF Init, EmptyUnlessWorking
<1>2. QED
  BY <1>1, TypeCorrect, EmptyStep, PTL DEF Spec

-----------------------------------------------------------------------------
(* Nothing is stranded.  Only the outer catch and a crash drop a batch     *)
(* before its rows are written; without failing statements and crashes a   *)
(* row leaves a batch in the very step that takes it out of PROCESSING.    *)

NoneStranded ==
  \A e \in Events :
    status[e] = "PROCESSING" => \E r \in Runs : e \in DOMAIN batch[r]

LEMMA StrandingStep ==
  TypeOK /\ EmptyUnlessWorking /\ NoStranding /\ [Next]_vars => NoStranding'
<1> SUFFICES ASSUME TypeOK, EmptyUnlessWorking, [Next]_vars,
                    "crash" \notin faults, "database" \notin faults, NoneStranded
             PROVE  NoneStranded'
  BY FaultsStay DEF NoStranding, NoneStranded
<1> USE DEF Goto
<1>1. ASSUME UNCHANGED status,
             \A s \in Runs : DOMAIN batch[s] \subseteq DOMAIN batch'[s]
      PROVE  NoneStranded'
  BY <1>1 DEF NoneStranded
<1>2. ASSUME NEW e \in Events, Publish(e)
      PROVE  NoneStranded'
  BY <1>2 DEF Publish, Write, NoneStranded, TypeOK
<1>3. ASSUME NEW r \in Runs, FindPending(r)
      PROVE  NoneStranded'
  <2>1. DOMAIN batch[r] = {}
    BY <1>3 DEF FindPending, EmptyUnlessWorking
  <2>2. UNCHANGED status /\ \A s \in Runs : s # r => batch'[s] = batch[s]
    BY <1>3 DEF FindPending, GiveUpBatch, table, TypeOK
  <2>3. QED
    BY <1>1, <2>1, <2>2
<1>4. ASSUME NEW r \in Runs, MarkProcessing(r)
      PROVE  NoneStranded'
  <2>1. /\ UNCHANGED batch
        /\ \A e \in Events : status'[e] = IF e \in DOMAIN batch[r] THEN "PROCESSING"
                                                                   ELSE status[e]
    BY <1>4 DEF MarkProcessing, Marked
  <2>2. QED
    BY <2>1 DEF NoneStranded
<1>5. ASSUME NEW r \in Runs, KafkaPublish(r)
      PROVE  NoneStranded'
  BY <1>1, <1>5 DEF KafkaPublish, BrokerStores, table
<1>6. ASSUME NEW r \in Runs, MarkPublished(r) \/ RecordFailure(r)
      PROVE  NoneStranded'
  <2>1. PICK e \in DOMAIN batch[r] :
            /\ Advance(r, e)
            /\ \E s \in {"PUBLISHED", "PENDING", "FAILED"} : Write(e, s, batch[r][e] + 1)
    <3>1. CASE MarkPublished(r)
      BY <3>1 DEF MarkPublished, AttemptsAfter
    <3>2. CASE RecordFailure(r)
      BY <3>2 DEF RecordFailure, AttemptsAfter, StatusAfterFailure
    <3>3. QED
      BY <1>6, <3>1, <3>2
  <2>2. e \in Events
    BY BatchType DEF TypeOK
  <2>3. status'[e] # "PROCESSING" /\ \A f \in Events : f # e => status'[f] = status[f]
    BY <2>1, <2>2 DEF Write, TypeOK
  <2>4. \A s \in Runs : DOMAIN batch[s] \ {e} \subseteq DOMAIN batch'[s]
    BY <2>1, AdvanceEffect
  <2>5. QED
    BY <2>3, <2>4 DEF NoneStranded
<1>7. ASSUME NEW r \in Runs, AcquireLock(r) \/ SetLockTTL(r) \/ ReleaseLock(r)
      PROVE  NoneStranded'
  BY <1>1, <1>7 DEF AcquireLock, KeyAbsent, SetLockTTL, ReleaseLock, table
<1>8. CASE LockTimeout \/ UNCHANGED vars
  BY <1>1, <1>8 DEF LockTimeout, table, vars
<1>9. QED
  BY <1>2, <1>3, <1>4, <1>5, <1>6, <1>7, <1>8 DEF Next, Continue, Crash

(* If no process dies and no statement fails, every row in PROCESSING is   *)
(* in the batch of some run, even when the lock excludes nobody.           *)
THEOREM NothingStranded == Spec => []NoStranding
<1>1. Init => NoStranding
  BY DEF Init, NoStranding
<1>2. QED
  BY <1>1, EmptyInvariant, StrandingStep, PTL DEF Spec

-----------------------------------------------------------------------------
(* The lock excludes.  A run past acquireLock holds the key: that is       *)
(* preserved because the key only goes when its holder releases it or has  *)
(* ended.                                                                  *)

HolderRuns == \A r \in Runs : pc[r] # "idle" => holder = r

LEMMA HolderStep ==
  ASSUME Exclusive
  PROVE  TypeOK /\ HolderRuns /\ [Next]_vars => HolderRuns'
<1> SUFFICES ASSUME TypeOK, HolderRuns, [Next]_vars
             PROVE  HolderRuns'
  OBVIOUS
<1>f. "slow" \notin faults /\ "redis" \notin faults
  BY DEF TypeOK, Exclusive
<1> USE <1>f
<1> USE RunsAssumption DEF Goto, lock
<1>1. ASSUME NEW r \in Runs, AcquireLock(r)
      PROVE  HolderRuns'
  BY <1>1 DEF AcquireLock, KeyAbsent, HolderRuns, TypeOK
<1>2. ASSUME NEW r \in Runs, ReleaseLock(r)
      PROVE  HolderRuns'
  BY <1>2 DEF ReleaseLock, HolderRuns, TypeOK
<1>3. ASSUME NEW r \in Runs,
             SetLockTTL(r) \/ KafkaPublish(r) \/ Crash(r)
      PROVE  HolderRuns'
  BY <1>3 DEF SetLockTTL, KafkaPublish, BrokerStores, Crash, HolderRuns, TypeOK
<1>4. ASSUME NEW r \in Runs, FindPending(r) \/ MarkProcessing(r)
      PROVE  HolderRuns'
  BY <1>4 DEF FindPending, MarkProcessing, GiveUpBatch, HolderRuns, TypeOK
<1>5. ASSUME NEW r \in Runs, MarkPublished(r) \/ RecordFailure(r)
      PROVE  HolderRuns'
  BY <1>5 DEF MarkPublished, AttemptsAfter, RecordFailure, Advance, GiveUpBatch, HolderRuns, TypeOK
<1>6. CASE LockTimeout
  BY <1>6 DEF LockTimeout, HolderRuns, TypeOK
<1>7. CASE (\E e \in Events : Publish(e)) \/ UNCHANGED vars
  BY <1>7 DEF Publish, vars, HolderRuns
<1>8. QED
  BY <1>1, <1>2, <1>3, <1>4, <1>5, <1>6, <1>7 DEF Next, Continue

LEMMA HolderInvariant ==
  ASSUME Exclusive
  PROVE  Spec => []HolderRuns
<1>1. Init => HolderRuns
  BY DEF Init, HolderRuns
<1>2. QED
  BY <1>1, TypeCorrect, HolderStep, PTL DEF Spec

(* While Redis answers and no run outlives its lock, at most one run is at *)
(* work, whatever else fails: sends, statements or whole processes.        *)
THEOREM LockExcludes ==
  ASSUME Exclusive
  PROVE  Spec => []MutualExclusion
<1>1. HolderRuns => MutualExclusion
  BY DEF HolderRuns, MutualExclusion
<1>2. QED
  BY <1>1, HolderInvariant, PTL

-----------------------------------------------------------------------------
(* Copies are paid for by attempts.  A row in a batch has at most as many  *)
(* copies as the attempts read for it, one more while the answer to its    *)
(* send is not yet recorded; a row that could be fetched again has no more *)
(* copies than attempts.  This needs an exclusive lock: a second run would *)
(* send an event whose attempts the first has not yet written.             *)

Unrecorded(r, e) == pc[r] \in {"settle", "retry"} /\ IsCurrent(r, e)

BatchRows ==
  \A r \in Runs : \A e \in DOMAIN batch[r] :
    /\ status[e] # "ABSENT"
    /\ status[e] = "PENDING" <=> pc[r] = "mark"
    /\ Durable => status[e] \in {"PENDING", "PROCESSING"}

BatchCopies ==
  \A r \in Runs : \A e \in DOMAIN batch[r] :
    delivered[e] <= IF Unrecorded(r, e) THEN batch[r][e] + 1 ELSE batch[r][e]

RowCopies ==
  \A e \in Events :
    /\ status[e] = "ABSENT" => delivered[e] = 0
    /\ status[e] = "PENDING" => delivered[e] <= attempts[e]
    /\ delivered[e] <= MAX_ATTEMPTS

CopyInv == BatchRows /\ BatchCopies /\ RowCopies

ExclusiveInv == TypeOK /\ EmptyUnlessWorking /\ HolderRuns /\ CopyInv

LEMMA CopyStep ==
  ASSUME Exclusive
  PROVE  ExclusiveInv /\ TypeOK' /\ [Next]_vars => CopyInv'
<1> SUFFICES ASSUME ExclusiveInv, TypeOK', [Next]_vars
             PROVE  CopyInv'
  OBVIOUS
<1>f. /\ "slow" \notin faults /\ "redis" \notin faults
      /\ Durable => "database" \notin faults
  BY DEF ExclusiveInv, TypeOK, Exclusive, Durable
<1> USE <1>f
<1> USE LimitsAssumption DEF Goto
<1>0. /\ TypeOK /\ EmptyUnlessWorking
      /\ BatchRows /\ BatchCopies /\ RowCopies
      /\ \A r, s \in Runs : pc[r] # "idle" /\ s # r => pc[s] = "idle" /\ DOMAIN batch[s] = {}
  BY DEF ExclusiveInv, CopyInv, HolderRuns, EmptyUnlessWorking
(* Steps of the lock, and failed ones: batches only get dropped. *)
<1>a. ASSUME UNCHANGED <<status, attempts, delivered>>,
             \A r \in Runs : \/ DOMAIN batch'[r] = {}
                             \/ batch'[r] = batch[r] /\ pc'[r] = pc[r]
      PROVE  CopyInv'
  BY <1>0, <1>a DEF CopyInv, BatchRows, BatchCopies, RowCopies, Unrecorded, IsCurrent
<1>1. ASSUME NEW e \in Events, Publish(e)
      PROVE  CopyInv'
  <2>1. /\ status[e] = "ABSENT" /\ delivered[e] = 0
        /\ \A r \in Runs : e \notin DOMAIN batch[r]
    BY <1>0, <1>1 DEF Publish, BatchRows, RowCopies
  <2>2. /\ status' = [status EXCEPT ![e] = "PENDING"]
        /\ attempts' = [attempts EXCEPT ![e] = 0]
        /\ UNCHANGED <<delivered, pc, batch>>
    BY <1>1 DEF Publish, Write
  <2>3. BatchRows' /\ BatchCopies'
    <3>1. \A r \in Runs : \A f \in DOMAIN batch[r] : status'[f] = status[f]
      BY <1>0, <2>1, <2>2, BatchType DEF TypeOK
    <3>2. QED
      BY <1>0, <2>2, <3>1 DEF BatchRows, BatchCopies, Unrecorded, IsCurrent
  <2>4. RowCopies'
    BY <1>0, <2>1, <2>2 DEF RowCopies, TypeOK
  <2>5. QED
    BY <2>3, <2>4 DEF CopyInv
<1>2. ASSUME NEW r \in Runs, AcquireLock(r) \/ SetLockTTL(r) \/ ReleaseLock(r) \/ Crash(r)
      PROVE  CopyInv'
  <2>1. UNCHANGED <<status, attempts, delivered>>
    BY <1>2 DEF AcquireLock, KeyAbsent, SetLockTTL, ReleaseLock, Crash, table
  <2>2. \A s \in Runs : \/ DOMAIN batch'[s] = {}
                        \/ batch'[s] = batch[s] /\ pc'[s] = pc[s]
    <3>1. CASE Crash(r)
      BY <1>0, <3>1, NoBatchType DEF Crash, TypeOK
    <3>2. CASE AcquireLock(r) \/ SetLockTTL(r) \/ ReleaseLock(r)
      <4>1. DOMAIN batch[r] = {} /\ UNCHANGED batch
        BY <1>0, <3>2 DEF AcquireLock, KeyAbsent, SetLockTTL, ReleaseLock, EmptyUnlessWorking
      <4>2. \A s \in Runs : s # r => pc'[s] = pc[s]
        BY <1>0, <3>2 DEF AcquireLock, KeyAbsent, SetLockTTL, ReleaseLock, TypeOK
      <4>3. QED
        BY <4>1, <4>2
    <3>3. QED
      BY <1>2, <3>1, <3>2
  <2>3. QED
    BY <1>a, <2>1, <2>2
<1>3. ASSUME NEW r \in Runs, FindPending(r)
      PROVE  CopyInv'
  <2>1. CASE GiveUpBatch(r)
    BY <1>a, <1>0, <1>3, <2>1, GiveUpEffect DEF FindPending, table
  <2>2. CASE \E B \in SUBSET Sendable :
               /\ batch' = [batch EXCEPT ![r] = Restrict(attempts, B)]
               /\ pc' = [pc EXCEPT ![r] = "mark"]
    <3>1. PICK B \in SUBSET Sendable :
              /\ batch' = [batch EXCEPT ![r] = Restrict(attempts, B)]
              /\ pc' = [pc EXCEPT ![r] = "mark"]
      BY <2>2
    <3>2. /\ DOMAIN batch'[r] = B
          /\ \A e \in B : batch'[r][e] = attempts[e]
          /\ pc'[r] = "mark"
      BY <1>0, <3>1, FetchedIsBatch DEF TypeOK
    <3>3. \A s \in Runs : s # r => DOMAIN batch'[s] = {}
      BY <1>0, <1>3, <3>1 DEF FindPending, TypeOK
    <3>4. \A e \in B : e \in Events /\ status[e] = "PENDING" /\ delivered[e] <= attempts[e]
      BY <1>0 DEF Sendable, RowCopies
    <3>5. UNCHANGED <<status, attempts, delivered>>
      BY <1>3 DEF FindPending, table
    <3>6. BatchRows'
      BY <3>2, <3>3, <3>4, <3>5 DEF BatchRows
    <3>7. BatchCopies'
      BY <3>2, <3>3, <3>4, <3>5 DEF BatchCopies, Unrecorded
    <3>8. QED
      BY <1>0, <3>5, <3>6, <3>7 DEF CopyInv, RowCopies
  <2>3. QED
    BY <1>3, <2>1, <2>2 DEF FindPending
<1>4. ASSUME NEW r \in Runs, MarkProcessing(r)
      PROVE  CopyInv'
  <2>1. /\ \A e \in Events : \/ status'[e] = status[e]
                             \/ status'[e] = "PROCESSING" /\ e \in DOMAIN batch[r]
        /\ UNCHANGED <<attempts, delivered>>
    BY <1>4 DEF MarkProcessing, Marked
  <2>2. RowCopies'
    BY <1>0, <2>1 DEF RowCopies, BatchRows
  <2>3. \A s \in Runs : s # r => DOMAIN batch'[s] = {}
    BY <1>0, <1>4 DEF MarkProcessing, Marked, GiveUpBatch, TypeOK
  <2>4. BatchRows' /\ BatchCopies'
    <3>1. CASE GiveUpBatch(r)
      BY <1>0, <2>3, <3>1, GiveUpEffect DEF BatchRows, BatchCopies
    <3>2. CASE /\ \A e \in DOMAIN batch[r] : e \in Events => status'[e] = "PROCESSING"
               /\ pc' = [pc EXCEPT ![r] = "send"]
               /\ UNCHANGED batch
      <4>1. DOMAIN batch[r] \subseteq Events
        BY <1>0, BatchType DEF TypeOK
      <4>2. pc'[r] = "send" /\ pc[r] = "mark"
        BY <1>0, <1>4, <3>2 DEF TypeOK, MarkProcessing
      <4>3. BatchRows'
        BY <2>3, <3>2, <4>1, <4>2 DEF BatchRows
      <4>4. BatchCopies'
        BY <1>0, <2>1, <2>3, <3>2, <4>2 DEF BatchCopies, Unrecorded
      <4>5. QED
        BY <4>3, <4>4
    <3>3. QED
      BY <1>4, <3>1, <3>2 DEF MarkProcessing, Marked
  <2>5. QED
    BY <2>2, <2>4 DEF CopyInv
<1>5. ASSUME NEW r \in Runs, KafkaPublish(r)
      PROVE  CopyInv'
  <2>1. PICK e \in DOMAIN batch[r] :
            /\ IsCurrent(r, e)
            /\ delivered' \in {delivered, [delivered EXCEPT ![e] = @ + 1]}
            /\ \E step \in {"settle", "retry"} : pc' = [pc EXCEPT ![r] = step]
    BY <1>5 DEF KafkaPublish, BrokerStores
  <2>2. UNCHANGED <<status, attempts, batch>> /\ pc[r] = "send"
    BY <1>5 DEF KafkaPublish, BrokerStores, table
  <2>3. e \in Events /\ batch[r][e] \in 0 .. MAX_ATTEMPTS - 1
    BY <1>0, BatchType DEF TypeOK
  <2>4. /\ delivered[e] \in Nat /\ delivered[e] <= batch[r][e]
        /\ delivered'[e] \in {delivered[e], delivered[e] + 1}
        /\ \A f \in Events : f # e => delivered'[f] = delivered[f]
    BY <1>0, <2>1, <2>2, <2>3 DEF TypeOK, BatchCopies, Unrecorded
  <2>5. /\ pc'[r] \in {"settle", "retry"}
        /\ \A s \in Runs : s # r => DOMAIN batch[s] = {}
    BY <1>0, <2>1, <2>2 DEF TypeOK
  <2>6. BatchRows'
    BY <1>0, <2>2, <2>5 DEF BatchRows
  <2>7. BatchCopies'
    <3> SUFFICES ASSUME NEW f \in DOMAIN batch[r]
                 PROVE  delivered'[f] <= IF Unrecorded(r, f)' THEN batch[r][f] + 1
                                                              ELSE batch[r][f]
      BY <2>2, <2>5 DEF BatchCopies
    <3>1. f \in Events /\ batch[r][f] \in Nat
      BY <1>0, BatchType DEF TypeOK
    <3>2. CASE f = e
      BY <2>1, <2>2, <2>3, <2>4, <2>5, <3>2 DEF Unrecorded, IsCurrent
    <3>3. CASE f # e
      <4>1. delivered'[f] <= batch[r][f] /\ delivered'[f] \in Nat
        BY <1>0, <2>2, <2>4, <3>1, <3>3 DEF BatchCopies, Unrecorded, TypeOK
      <4>2. QED
        BY <3>1, <4>1
    <3>4. QED
      BY <3>2, <3>3
  <2>8. RowCopies'
    BY <1>0, <2>2, <2>3, <2>4 DEF RowCopies, BatchRows
  <2>9. QED
    BY <2>6, <2>7, <2>8 DEF CopyInv
<1>6. ASSUME NEW r \in Runs, MarkPublished(r) \/ RecordFailure(r)
      PROVE  CopyInv'
  <2>0. /\ pc[r] \in {"settle", "retry"}
        /\ UNCHANGED delivered
    BY <1>6 DEF MarkPublished, AttemptsAfter, RecordFailure
  <2>1. PICK e \in DOMAIN batch[r] :
            /\ IsCurrent(r, e)
            /\ \/ /\ \E s \in {"PUBLISHED", "PENDING", "FAILED"} : Write(e, s, batch[r][e] + 1)
                  /\ Advance(r, e) \/ GiveUpBatch(r)
               \/ UNCHANGED table /\ GiveUpBatch(r)
               \/ /\ UNCHANGED table \/ Write(e, "PUBLISHED", batch[r][e] + 1)
                  /\ "database" \in faults
                  /\ UNCHANGED batch
                  /\ pc' = [pc EXCEPT ![r] = "retry"]
    <3>1. CASE MarkPublished(r)
      BY <3>1 DEF MarkPublished, AttemptsAfter
    <3>2. CASE RecordFailure(r)
      BY <3>2 DEF RecordFailure, AttemptsAfter, StatusAfterFailure
    <3>3. QED
      BY <1>6, <3>1, <3>2
  <2>2. e \in Events /\ batch[r][e] \in 0 .. MAX_ATTEMPTS - 1
    BY <1>0, BatchType DEF TypeOK
  <2>3. delivered[e] <= batch[r][e] + 1
    BY <1>0, <2>0, <2>1 DEF BatchCopies, Unrecorded
  <2>4. \A s \in Runs : s # r => DOMAIN batch[s] = {}
    BY <1>0, <2>0
  <2>5. ASSUME UNCHANGED table \/ \E s \in {"PUBLISHED", "PENDING", "FAILED"} :
                                      Write(e, s, batch[r][e] + 1)
        PROVE  RowCopies'
    BY <1>0, <2>0, <2>2, <2>3, <2>5 DEF RowCopies, Write, table, TypeOK
  <2>6. CASE Advance(r, e) /\ \E s \in {"PUBLISHED", "PENDING", "FAILED"} :
                                  Write(e, s, batch[r][e] + 1)
    <3>1. /\ \A s \in Runs : s # r => DOMAIN batch'[s] = {}
          /\ DOMAIN batch'[r] = DOMAIN batch[r] \ {e}
          /\ \A f \in DOMAIN batch'[r] : batch'[r][f] = batch[r][f]
          /\ DOMAIN batch'[r] = {} \/ pc'[r] = "send"
      BY <1>0, <2>4, <2>6, AdvanceEffect
    <3>2. \A f \in DOMAIN batch'[r] : f \in Events /\ f # e /\ status'[f] = status[f]
      BY <1>0, <2>2, <2>6, <3>1, BatchType DEF Write, TypeOK
    <3>3. BatchRows'
      BY <1>0, <2>0, <3>1, <3>2 DEF BatchRows
    <3>4. \A f \in DOMAIN batch'[r] : ~ IsCurrent(r, f)
      <4> SUFFICES ASSUME NEW f \in DOMAIN batch'[r], IsCurrent(r, f)
                   PROVE  FALSE
        OBVIOUS
      <4>1. e <= f /\ f <= e
        BY <2>1 DEF IsCurrent
      <4>2. e \in Nat /\ f \in Nat /\ e # f
        BY <2>2, <3>2, EventsAssumption
      <4>3. QED
        BY <4>1, <4>2
    <3>5. BatchCopies'
      BY <1>0, <2>0, <3>1, <3>4 DEF BatchCopies, Unrecorded
    <3>6. QED
      BY <2>5, <2>6, <3>3, <3>5 DEF CopyInv
  <2>7. CASE /\ GiveUpBatch(r)
             /\ UNCHANGED table \/ \E s \in {"PUBLISHED", "PENDING", "FAILED"} :
                                       Write(e, s, batch[r][e] + 1)
    <3>1. \A s \in Runs : DOMAIN batch'[s] = {}
      BY <1>0, <2>4, <2>7, GiveUpEffect
    <3>2. QED
      BY <2>5, <2>7, <3>1 DEF CopyInv, BatchRows, BatchCopies
  <2>8. CASE /\ UNCHANGED table \/ Write(e, "PUBLISHED", batch[r][e] + 1)
             /\ "database" \in faults
             /\ UNCHANGED batch
             /\ pc' = [pc EXCEPT ![r] = "retry"]
    <3>1. pc'[r] = "retry" /\ \A s \in Runs : s # r => DOMAIN batch'[s] = {}
      BY <1>0, <2>4, <2>8 DEF TypeOK
    <3>2. \A f \in DOMAIN batch[r] : /\ status'[f] # "ABSENT"
                                     /\ status'[f] # "PENDING"
      <4>1. \A f \in DOMAIN batch[r] : status[f] # "ABSENT" /\ status[f] # "PENDING"
        BY <1>0, <2>0 DEF BatchRows
      <4>2. \A f \in Events : status'[f] = status[f] \/ status'[f] = "PUBLISHED"
        BY <1>0, <2>2, <2>8 DEF Write, table, TypeOK
      <4>3. DOMAIN batch[r] \subseteq Events
        BY <1>0, BatchType DEF TypeOK
      <4>4. QED
        BY <4>1, <4>2, <4>3
    <3>3. BatchRows'
      BY <2>8, <3>1, <3>2 DEF BatchRows
    <3>4. BatchCopies'
      BY <1>0, <2>0, <2>8, <3>1 DEF BatchCopies, Unrecorded, IsCurrent
    <3>5. RowCopies'
      BY <2>5, <2>8
    <3>6. QED
      BY <3>3, <3>4, <3>5 DEF CopyInv
  <2>9. QED
    BY <2>1, <2>6, <2>7, <2>8
<1>7. CASE LockTimeout \/ UNCHANGED vars
  BY <1>a, <1>7 DEF LockTimeout, table, vars
<1>8. QED
  BY <1>1, <1>2, <1>3, <1>4, <1>5, <1>6, <1>7 DEF Next, Continue

LEMMA ExclusiveInvariant ==
  ASSUME Exclusive
  PROVE  Spec => []ExclusiveInv
<1>1. Init => CopyInv
  BY NoBatchType, LimitsAssumption DEF Init, CopyInv, BatchRows, BatchCopies, RowCopies
<1>2. TypeOK /\ EmptyUnlessWorking /\ HolderRuns /\ CopyInv <=> ExclusiveInv
  BY DEF ExclusiveInv
<1>3. QED
  BY <1>1, <1>2, EmptyInvariant, HolderInvariant, CopyStep, PTL DEF Spec

(* While the lock excludes, retries, failing statements and crashes never  *)
(* put more than MAX_ATTEMPTS copies of an event into Kafka.               *)
THEOREM CopiesAreBounded ==
  ASSUME Exclusive
  PROVE  Spec => []DeliveriesBounded
<1>1. ExclusiveInv => DeliveriesBounded
  BY DEF ExclusiveInv, CopyInv, RowCopies, DeliveriesBounded
<1>2. QED
  BY <1>1, ExclusiveInvariant, PTL

-----------------------------------------------------------------------------
(* The relay implements EventDelivery: the steps of the lock, findMany and *)
(* updateMany are stutters there, Publish accepts an event, a stored send  *)
(* delivers it, and the write after the send confirms it or gives it up.   *)

outcomeBar == [e \in Events |-> Outcome(status[e])]

LEMMA OutcomeOf ==
  ASSUME TypeOK, TypeOK', NEW e \in Events, NEW s \in Statuses,
         status' = [status EXCEPT ![e] = s]
  PROVE  outcomeBar' = [outcomeBar EXCEPT ![e] = Outcome(s)]
<1>1. \A f \in Events : status'[f] = IF f = e THEN s ELSE status[f]
  BY DEF TypeOK
<1>2. \A f \in Events : Outcome(status'[f]) = IF f = e THEN Outcome(s) ELSE Outcome(status[f])
  <2> TAKE f \in Events
  <2>1. CASE f = e
    <3>1. status'[f] = s
      BY <1>1, <2>1
    <3>2. QED
      BY <2>1, <3>1
  <2>2. CASE f # e
    <3>1. status'[f] = status[f]
      BY <1>1, <2>2
    <3>2. QED
      BY <2>2, <3>1
  <2>3. QED
    BY <2>1, <2>2
<1>3. QED
  BY <1>2 DEF outcomeBar

LEMMA SameOutcome ==
  ASSUME \A e \in Events : \/ status'[e] = status[e]
                           \/ status[e] = "PENDING" /\ status'[e] = "PROCESSING"
                           \/ status[e] = "PROCESSING" /\ status'[e] = "PENDING"
  PROVE  outcomeBar' = outcomeBar
<1>1. Outcome("PENDING") = "queued" /\ Outcome("PROCESSING") = "queued"
  BY DEF Outcome
<1>2. \A e \in Events : Outcome(status'[e]) = Outcome(status[e])
  <2> TAKE e \in Events
  <2>1. CASE status'[e] = status[e]
    BY <2>1
  <2>2. CASE status[e] = "PENDING" /\ status'[e] = "PROCESSING"
    BY <1>1, <2>2
  <2>3. CASE status[e] = "PROCESSING" /\ status'[e] = "PENDING"
    BY <1>1, <2>3
  <2>4. QED
    BY <2>1, <2>2, <2>3
<1>3. QED
  BY <1>2 DEF outcomeBar

LEMMA DeliveryStep ==
  ASSUME Exclusive, Durable
  PROVE  ExclusiveInv /\ RowsInv /\ TypeOK' /\ [Next]_vars =>
           [Delivery!DeliveryNext]_(Delivery!deliveryVars)
<1> SUFFICES ASSUME ExclusiveInv, RowsInv, TypeOK', [Next]_vars
             PROVE  [Delivery!DeliveryNext]_(Delivery!deliveryVars)
  OBVIOUS
<1>0. TypeOK /\ BatchRows /\ BatchCopies
  BY DEF ExclusiveInv, CopyInv
<1>f. "slow" \notin faults /\ "redis" \notin faults /\ "database" \notin faults
  BY <1>0 DEF TypeOK, Exclusive, Durable
<1> USE <1>f
<1> USE LimitsAssumption DEF Goto
<1>a. ASSUME outcomeBar' = outcomeBar, UNCHANGED delivered
      PROVE  UNCHANGED Delivery!deliveryVars
  BY <1>a DEF Delivery!deliveryVars, outcomeBar
<1>1. ASSUME NEW e \in Events, Publish(e)
      PROVE  Delivery!Accept(e)
  <2>1. status[e] = "ABSENT" /\ status' = [status EXCEPT ![e] = "PENDING"] /\ UNCHANGED delivered
    BY <1>1 DEF Publish, Write
  <2>2. outcomeBar[e] = "none" /\ outcomeBar' = [outcomeBar EXCEPT ![e] = "queued"]
    BY <1>0, <2>1, OutcomeOf DEF Statuses, Outcome, outcomeBar
  <2>3. QED
    BY <2>1, <2>2 DEF Delivery!Accept, outcomeBar
<1>2. ASSUME NEW r \in Runs,
             \/ AcquireLock(r) \/ SetLockTTL(r) \/ FindPending(r)
             \/ ReleaseLock(r) \/ Crash(r)
      PROVE  UNCHANGED Delivery!deliveryVars
  <2>1. UNCHANGED <<status, delivered>>
    BY <1>2 DEF AcquireLock, KeyAbsent, SetLockTTL, FindPending, ReleaseLock, Crash, table
  <2>2. QED
    BY <1>a, <2>1 DEF outcomeBar
<1>3. ASSUME NEW r \in Runs, MarkProcessing(r)
      PROVE  UNCHANGED Delivery!deliveryVars
  <2>1. /\ \A e \in Events : \/ status'[e] = status[e]
                             \/ status'[e] = "PROCESSING" /\ e \in DOMAIN batch[r]
        /\ UNCHANGED delivered
        /\ pc[r] = "mark"
    BY <1>3 DEF MarkProcessing, Marked
  <2>2. \A e \in DOMAIN batch[r] : status[e] = "PENDING"
    BY <1>0, <2>1 DEF BatchRows
  <2>3. QED
    BY <1>a, <2>1, <2>2, SameOutcome
<1>4. ASSUME NEW r \in Runs, KafkaPublish(r)
      PROVE  (\E e \in Events : Delivery!Deliver(e)) \/ UNCHANGED Delivery!deliveryVars
  <2>1. UNCHANGED status /\ pc[r] = "send"
    BY <1>4 DEF KafkaPublish, BrokerStores, table
  <2>2. PICK e \in DOMAIN batch[r] :
            delivered' \in {delivered, [delivered EXCEPT ![e] = @ + 1]}
    BY <1>4 DEF KafkaPublish, BrokerStores
  <2>3. e \in Events /\ batch[r][e] \in 0 .. MAX_ATTEMPTS - 1
    BY <1>0, BatchType DEF TypeOK
  <2>4. /\ status[e] \in {"PENDING", "PROCESSING"}
        /\ delivered[e] < MAX_ATTEMPTS
    BY <1>0, <2>1, <2>3 DEF BatchRows, BatchCopies, Unrecorded, TypeOK
  <2>5. outcomeBar[e] = "queued" /\ outcomeBar' = outcomeBar
    BY <2>1, <2>3, <2>4 DEF outcomeBar, Outcome
  <2>6. CASE delivered' = [delivered EXCEPT ![e] = @ + 1]
    BY <2>3, <2>4, <2>5, <2>6 DEF Delivery!Deliver, outcomeBar
  <2>7. CASE delivered' = delivered
    BY <1>a, <2>5, <2>7
  <2>8. QED
    BY <2>2, <2>3, <2>6, <2>7
<1>5. ASSUME NEW r \in Runs, MarkPublished(r)
      PROVE  \E e \in Events : Delivery!Confirm(e)
  <2>1. PICK e \in DOMAIN batch[r] :
            IsCurrent(r, e) /\ Write(e, "PUBLISHED", batch[r][e] + 1)
    BY <1>5 DEF MarkPublished, AttemptsAfter
  <2>2. e \in Events /\ UNCHANGED delivered /\ pc[r] = "settle"
    BY <1>0, <1>5, BatchType DEF TypeOK, MarkPublished
  <2>3. delivered[e] > 0 /\ status[e] \in {"PENDING", "PROCESSING"}
    BY <1>0, <2>1, <2>2 DEF RowsInv, SentBeforeSettle, BatchRows
  <2>4. outcomeBar[e] = "queued" /\ outcomeBar' = [outcomeBar EXCEPT ![e] = "published"]
    BY <1>0, <2>1, <2>2, <2>3, OutcomeOf DEF Statuses, Outcome, outcomeBar, Write
  <2>5. QED
    BY <2>2, <2>3, <2>4 DEF Delivery!Confirm, outcomeBar
<1>6. ASSUME NEW r \in Runs, RecordFailure(r)
      PROVE  (\E e \in Events : Delivery!GiveUp(e)) \/ UNCHANGED Delivery!deliveryVars
  <2>1. PICK e \in DOMAIN batch[r] :
            \E s \in {"FAILED", "PENDING"} : Write(e, s, batch[r][e] + 1)
    BY <1>6 DEF RecordFailure, AttemptsAfter, StatusAfterFailure
  <2>2. e \in Events /\ UNCHANGED delivered /\ pc[r] = "retry"
    BY <1>0, <1>6, BatchType DEF TypeOK, RecordFailure
  <2>3. status[e] = "PROCESSING"
    BY <1>0, <2>1, <2>2 DEF BatchRows
  <2>4. CASE status' = [status EXCEPT ![e] = "PENDING"]
    <3>1. outcomeBar' = outcomeBar
      BY <1>0, <2>2, <2>3, <2>4, SameOutcome DEF TypeOK
    <3>2. QED
      BY <1>a, <2>2, <3>1
  <2>5. CASE status' = [status EXCEPT ![e] = "FAILED"]
    <3>1. outcomeBar[e] = "queued" /\ outcomeBar' = [outcomeBar EXCEPT ![e] = "failed"]
      BY <1>0, <2>2, <2>3, <2>5, OutcomeOf DEF Statuses, Outcome, outcomeBar
    <3>2. QED
      BY <2>2, <3>1 DEF Delivery!GiveUp, outcomeBar
  <2>6. QED
    BY <2>1, <2>4, <2>5 DEF Write
<1>7. CASE LockTimeout \/ UNCHANGED vars
  BY <1>a, <1>7 DEF LockTimeout, table, vars, outcomeBar
<1>8. QED
  BY <1>1, <1>2, <1>3, <1>4, <1>5, <1>6, <1>7 DEF Next, Continue, Delivery!DeliveryNext

(* While the lock excludes and statements do not fail, the relay keeps the *)
(* promise of EventDelivery, with failing sends and crashing processes:    *)
(* an event is sent a bounded number of times, it is published only after  *)
(* a send, and once settled it is left alone.                              *)
THEOREM RelayImplementsDelivery ==
  ASSUME Exclusive, Durable
  PROVE  Spec => ImplementsDelivery
<1>1. Init => Delivery!DeliveryInit
  BY DEF Init, Delivery!DeliveryInit, Outcome
<1>2. QED
  BY <1>1, ExclusiveInvariant, RowsInvariant, TypeCorrect, DeliveryStep, PTL
     DEF Spec, ImplementsDelivery, Delivery!DeliverySpec

-----------------------------------------------------------------------------
(* Order.  A batch has everything that one of its events found ahead of it *)
(* and that still waits for a first attempt.                               *)

Untried(f) == status[f] = "PENDING" /\ attempts[f] = 0

AheadAreRows ==
  /\ ahead \in [Events -> SUBSET Events]
  /\ \A e \in Events : \A f \in ahead[e] : f < e /\ status[f] # "ABSENT"

BatchesAreRows == \A r \in Runs : \A e \in DOMAIN batch[r] : status[e] # "ABSENT"

NoneOvertaken ==
  \A r \in Runs : \A e \in DOMAIN batch[r] : \A f \in ahead[e] :
    Untried(f) => f \in DOMAIN batch[r]

OrderInv == AheadAreRows /\ BatchesAreRows /\ NoneOvertaken

(* The history changes only when a row appears. *)
LEMMA AheadKept ==
  ASSUME AheadAreRows, [OrderNext]_historyVars,
         \A e \in Events : status'[e] = "ABSENT" <=> status[e] = "ABSENT"
  PROVE  ahead' = ahead
<1>1. Recorded' = Recorded
  BY DEF Recorded
<1>2. CASE OrderNext
  <2>1. \A e \in Events : e \notin Recorded' \ Recorded
    BY <1>1
  <2>2. ahead' = [e \in Events |-> ahead[e]]
    BY <1>2, <2>1 DEF OrderNext
  <2>3. QED
    BY <2>2 DEF AheadAreRows
<1>3. QED
  BY <1>2 DEF historyVars

(* Steps that record nothing and fetch nothing. *)
LEMMA OrderKept ==
  ASSUME OrderInv, TypeOK, [OrderNext]_historyVars,
         \A e \in Events : status'[e] = "ABSENT" <=> status[e] = "ABSENT",
         \A e \in Events : Untried(e)' => Untried(e),
         \A r \in Runs : /\ DOMAIN batch'[r] \subseteq DOMAIN batch[r]
                         /\ DOMAIN batch'[r] = {} \/
                              \A e \in DOMAIN batch[r] \ DOMAIN batch'[r] : ~ Untried(e)'
  PROVE  OrderInv'
<1>1. \A r \in Runs : DOMAIN batch[r] \subseteq Events
  BY BatchType DEF TypeOK
<1>2. ahead' = ahead /\ AheadAreRows'
  BY AheadKept DEF OrderInv, AheadAreRows
<1>3. BatchesAreRows'
  BY <1>1 DEF OrderInv, BatchesAreRows
<1>4. NoneOvertaken'
  BY <1>1, <1>2 DEF OrderInv, NoneOvertaken, AheadAreRows
<1>5. QED
  BY <1>2, <1>3, <1>4 DEF OrderInv

LEMMA OrderStep == TypeOK /\ OrderInv /\ [OrderNext]_historyVars => OrderInv'
<1> SUFFICES ASSUME TypeOK, OrderInv, [OrderNext]_historyVars
             PROVE  OrderInv'
  OBVIOUS
<1>0. \A r \in Runs : DOMAIN batch[r] \subseteq Events
  BY BatchType DEF TypeOK
<1>1. ASSUME NEW e \in Events, Publish(e)
      PROVE  OrderInv'
  <2>1. /\ status[e] = "ABSENT" /\ status'[e] = "PENDING" /\ UNCHANGED batch
        /\ \A f \in Events : f # e => status'[f] = status[f] /\ attempts'[f] = attempts[f]
    BY <1>1 DEF Publish, Write, TypeOK
  <2>2. status' # status
    BY <2>1
  <2>3. ahead' = [g \in Events |-> IF g \in Recorded' \ Recorded
                                   THEN {f \in Recorded : f < g} ELSE ahead[g]]
    BY <2>2 DEF OrderNext, historyVars, vars
  <2>4. Recorded' \ Recorded = {e}
    BY <2>1 DEF Recorded
  <2>5. /\ ahead'[e] = {f \in Recorded : f < e}
        /\ \A g \in Events : g # e => ahead'[g] = ahead[g]
    BY <2>3, <2>4
  <2>6. ahead' \in [Events -> SUBSET Events]
    BY <2>3 DEF OrderInv, AheadAreRows, Recorded
  <2>7. AheadAreRows'
    BY <2>1, <2>5, <2>6 DEF OrderInv, AheadAreRows, Recorded
  <2>8. BatchesAreRows'
    BY <1>0, <2>1 DEF OrderInv, BatchesAreRows
  <2>9. \A r \in Runs : \A g \in DOMAIN batch[r] : g # e /\ e \notin ahead[g]
    BY <1>0, <2>1 DEF OrderInv, AheadAreRows, BatchesAreRows
  <2>10. NoneOvertaken'
    BY <1>0, <2>1, <2>5, <2>9 DEF OrderInv, NoneOvertaken, AheadAreRows, Untried
  <2>11. QED
    BY <2>7, <2>8, <2>10 DEF OrderInv
<1>2. ASSUME NEW r \in Runs,
             AcquireLock(r) \/ SetLockTTL(r) \/ KafkaPublish(r) \/ ReleaseLock(r) \/ Crash(r)
      PROVE  OrderInv'
  <2>1. UNCHANGED <<status, attempts>>
    BY <1>2 DEF AcquireLock, SetLockTTL, KafkaPublish, ReleaseLock, Crash, table
  <2>2. UNCHANGED batch \/ batch' = [batch EXCEPT ![r] = NoBatch]
    BY <1>2 DEF AcquireLock, SetLockTTL, KafkaPublish, ReleaseLock, Crash
  <2>3. QED
    BY <2>1, <2>2, NoBatchType, OrderKept DEF Untried, TypeOK
<1>3. ASSUME NEW r \in Runs, FindPending(r)
      PROVE  OrderInv'
  <2>1. UNCHANGED <<status, attempts>>
    BY <1>3 DEF FindPending, table
  <2>2. CASE GiveUpBatch(r)
    <3>1. DOMAIN batch'[r] = {} /\ \A s \in Runs : s # r => batch'[s] = batch[s]
      BY <2>2, GiveUpEffect
    <3>2. QED
      BY <2>1, <3>1, OrderKept DEF Untried
  <2>3. CASE \E B \in SUBSET Sendable :
               OldestOf(Sendable, B) /\ batch' = [batch EXCEPT ![r] = Restrict(attempts, B)]
    <3>1. PICK B \in SUBSET Sendable :
            OldestOf(Sendable, B) /\ batch' = [batch EXCEPT ![r] = Restrict(attempts, B)]
      BY <2>3
    <3>2. /\ DOMAIN batch'[r] = B /\ \A s \in Runs : s # r => batch'[s] = batch[s]
          /\ B \subseteq Events
      BY <3>1, FetchedIsBatch DEF TypeOK, Sendable
    <3>3. ahead' = ahead /\ AheadAreRows'
      BY <2>1, AheadKept DEF OrderInv, AheadAreRows
    <3>4. BatchesAreRows'
      BY <2>1, <3>1, <3>2 DEF OrderInv, BatchesAreRows, Sendable
    <3>5. \A f \in Events : Untried(f) => f \in Sendable
      BY LimitsAssumption DEF Untried, Sendable
    <3>6. \A e \in B, f \in Events : f < e /\ Untried(f) => f \in B
      <4>1. ASSUME NEW e \in B, NEW f \in Sendable \ B, f < e PROVE FALSE
        <5>1. e < f
          BY <3>1, <4>1 DEF OldestOf
        <5>2. e \in Nat /\ f \in Nat
          BY <3>2, EventsAssumption DEF Sendable
        <5>3. QED
          BY <4>1, <5>1, <5>2
      <4>2. QED
        BY <3>5, <4>1
    <3>7. NoneOvertaken'
      BY <2>1, <3>2, <3>3, <3>6 DEF OrderInv, NoneOvertaken, AheadAreRows, Untried
    <3>8. QED
      BY <3>3, <3>4, <3>7 DEF OrderInv
  <2>4. QED
    BY <1>3, <2>2, <2>3 DEF FindPending
<1>4. ASSUME NEW r \in Runs, MarkProcessing(r)
      PROVE  OrderInv'
  <2>1. /\ \A e \in Events : status'[e] = status[e] \/
                             (status'[e] = "PROCESSING" /\ e \in DOMAIN batch[r])
        /\ UNCHANGED attempts
    BY <1>4 DEF MarkProcessing, Marked, TypeOK
  <2>2. UNCHANGED batch \/ batch' = [batch EXCEPT ![r] = NoBatch]
    BY <1>4 DEF MarkProcessing, GiveUpBatch
  <2>3. \A e \in Events : status'[e] = "ABSENT" <=> status[e] = "ABSENT"
    BY <2>1 DEF OrderInv, BatchesAreRows
  <2>4. QED
    BY <2>1, <2>2, <2>3, NoBatchType, OrderKept DEF Untried, TypeOK
<1>5. ASSUME NEW r \in Runs, MarkPublished(r) \/ RecordFailure(r)
      PROVE  OrderInv'
  <2>1. PICK e \in DOMAIN batch[r] :
          \/ /\ \E s \in {"PUBLISHED", "FAILED", "PENDING"} : Write(e, s, batch[r][e] + 1)
             /\ Advance(r, e) \/ GiveUpBatch(r) \/ UNCHANGED batch
          \/ UNCHANGED table /\ (GiveUpBatch(r) \/ UNCHANGED batch)
    BY <1>5 DEF MarkPublished, RecordFailure, AttemptsAfter, StatusAfterFailure
  <2>2. e \in Events /\ status[e] # "ABSENT" /\ batch[r][e] + 1 # 0
    BY BatchType DEF TypeOK, OrderInv, BatchesAreRows
  <2>3. CASE UNCHANGED table /\ (GiveUpBatch(r) \/ UNCHANGED batch)
    BY <2>3, GiveUpEffect, OrderKept DEF table, Untried
  <2>4. CASE /\ \E s \in {"PUBLISHED", "FAILED", "PENDING"} : Write(e, s, batch[r][e] + 1)
             /\ Advance(r, e) \/ GiveUpBatch(r) \/ UNCHANGED batch
    <3>1. /\ \A f \in Events : f # e => status'[f] = status[f] /\ attempts'[f] = attempts[f]
          /\ status'[e] # "ABSENT" /\ attempts'[e] # 0
      BY <2>2, <2>4 DEF Write, TypeOK
    <3>2. \A s \in Runs : /\ DOMAIN batch'[s] \subseteq DOMAIN batch[s]
                          /\ DOMAIN batch'[s] = {} \/ DOMAIN batch[s] \ DOMAIN batch'[s] \subseteq {e}
      BY <2>4, AdvanceEffect, GiveUpEffect
    <3>3. QED
      BY <2>2, <3>1, <3>2, OrderKept DEF Untried
  <2>5. QED
    BY <2>1, <2>3, <2>4
<1>6. CASE LockTimeout \/ UNCHANGED vars
  BY <1>6, OrderKept DEF LockTimeout, table, vars, Untried
<1>7. QED
  BY <1>1, <1>2, <1>3, <1>4, <1>5, <1>6 DEF OrderNext, historyVars, Next, Continue

(* No event is sent while an older one that was there before it waits for  *)
(* its first attempt: with any faults, overlapping runs, any size of the   *)
(* batches and rows that appear in any order.                              *)
THEOREM EventsGoInOrder == OrderSpec => OldestFirst
<1>1. OrderInit => Init /\ OrderInv
  BY NoBatchType DEF Init, OrderInit, OrderInv, AheadAreRows, BatchesAreRows, NoneOvertaken
<1> DEFINE Ordered == \A e \in Events : delivered'[e] > delivered[e] =>
                        \A f \in ahead[e] : status[f] = "PENDING" => attempts[f] > 0
<1>2. TypeOK /\ OrderInv /\ [OrderNext]_historyVars => [Ordered]_historyVars
  <2> SUFFICES ASSUME TypeOK, OrderInv, [OrderNext]_historyVars,
                      NEW e \in Events, delivered'[e] > delivered[e],
                      NEW f \in ahead[e], status[f] = "PENDING"
               PROVE  attempts[f] > 0
    OBVIOUS
  <2>0. delivered[e] \in Nat /\ attempts[f] \in Nat /\ f \in Events /\ f < e /\ e \in Nat /\ f \in Nat
    BY EventsAssumption DEF TypeOK, OrderInv, AheadAreRows
  <2>1. delivered' # delivered
    BY <2>0
  <2>2. PICK r \in Runs : KafkaPublish(r)
    BY <2>1 DEF OrderNext, historyVars, Next, Continue, Publish, AcquireLock, SetLockTTL, FindPending, MarkProcessing,
       MarkPublished, RecordFailure, ReleaseLock, Crash, LockTimeout, vars
  <2>3. PICK g \in DOMAIN batch[r] :
          IsCurrent(r, g) /\ delivered' \in {delivered, [delivered EXCEPT ![g] = @ + 1]}
    BY <2>2 DEF KafkaPublish, BrokerStores
  <2>4. g = e
    BY <2>0, <2>1, <2>3 DEF TypeOK
  <2>5. f \notin DOMAIN batch[r]
    BY <2>0, <2>3, <2>4 DEF IsCurrent
  <2>6. ~ Untried(f)
    BY <2>3, <2>4, <2>5 DEF OrderInv, NoneOvertaken
  <2>7. QED
    BY <2>0, <2>6 DEF Untried
<1>3. [OrderNext]_historyVars => [Next]_vars
  BY DEF OrderNext, historyVars
<1>4. OrderSpec => Spec
  BY <1>1, <1>3, PTL DEF OrderSpec, Spec
<1>5. [][Ordered]_historyVars <=> OldestFirst
  BY PTL DEF OldestFirst
<1>6. QED
  BY <1>1, <1>2, <1>4, <1>5, TypeCorrect, OrderStep, PTL DEF OrderSpec

=============================================================================

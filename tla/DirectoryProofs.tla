-------------------------- MODULE DirectoryProofs --------------------------
(***************************************************************************)
(* Theorems about Directory.tla, for every set of calls, workers, cards,   *)
(* kiosks and environments.                                                *)
(***************************************************************************)
EXTENDS Directory, TLAPS

ForWorker == {"check card", "insert", "update", "deactivate", "anonymize"}
ForKiosk == {"register", "approve", "sync", "record"}

(* What a call works on at its steps. *)
CallOK(r) ==
  /\ r.step \in ForWorker => r.row \in Workers
  /\ r.step \in ForKiosk => r.row \in Kiosks
  /\ r.step = "idle" => r.row = Null
  /\ r.step = "check card" => r.card \in Cards
  /\ r.step = "insert" => r.card \in Cards \cup {Null}
  /\ r.step = "anonymize" => r.card = Null
  /\ r.step \in {"deactivate"} \cup ForKiosk => r.card = Keep
  /\ r.step = "deactivate" => r.set \in Left
  /\ r.step = "record" => r.set \in Workers /\ r.tap \in r.todo
  /\ r.todo # {} => r.step \in {"sync", "record"}

TypeInv ==
  /\ TypeOK
  /\ \A c \in Calls : CallOK(call[c])
  /\ \A w \in Workers : worker[w].status = "ABSENT" => worker[w].card = Null
  /\ \A w \in erased : Exists(w)
  /\ \A c \in Calls : call[c].step \in {"update", "deactivate", "anonymize"} => Exists(call[c].row)

-----------------------------------------------------------------------------
(* Steps of a call *)

LEMMA IdleType == Idle \in CallType /\ CallOK(Idle)
BY DEF Idle, CallType, CallOK, Steps, ForWorker, ForKiosk

LEMMA BeginEffect ==
  ASSUME call \in [Calls -> CallType], NEW c \in Calls, NEW step \in Steps,
         NEW row \in Workers \cup Kiosks, NEW card \in Cards \cup {Null, Keep},
         NEW set \in Left \cup {"personal", "other", Null},
         Begin(c, step, row, card, set)
  PROVE  /\ call' \in [Calls -> CallType]
         /\ call[c] = Idle
         /\ call'[c].step = step /\ call'[c].row = row
         /\ call'[c].card = card /\ call'[c].set = set
         /\ call'[c].batch = {} /\ call'[c].todo = {} /\ call'[c].tap = Null
         /\ \A d \in Calls : d # c => call'[d] = call[d]
<1>1. call'[c] = [Idle EXCEPT !.step = step, !.row = row, !.card = card, !.set = set]
  BY DEF Begin
<1>2. call'[c] \in CallType
  BY <1>1 DEF Idle, CallType
<1>3. QED
  BY <1>1, <1>2 DEF Begin, Idle

LEMMA EndEffect ==
  ASSUME call \in [Calls -> CallType], NEW c \in Calls, End(c)
  PROVE  /\ call' \in [Calls -> CallType]
         /\ call'[c] = Idle
         /\ \A d \in Calls : d # c => call'[d] = call[d]
BY IdleType DEF End

LEMMA GotoEffect ==
  ASSUME call \in [Calls -> CallType], NEW c \in Calls, NEW step \in Steps, Goto(c, step)
  PROVE  /\ call' \in [Calls -> CallType]
         /\ call'[c] = [call[c] EXCEPT !.step = step]
         /\ \A d \in Calls : d # c => call'[d] = call[d]
<1>1. call[c] \in CallType
  OBVIOUS
<1>2. call'[c] = [call[c] EXCEPT !.step = step]
  BY DEF Goto
<1>3. call'[c] \in CallType
  BY <1>1, <1>2 DEF CallType
<1>4. QED
  BY <1>2, <1>3 DEF Goto

LEMMA SyncEffect ==
  ASSUME call \in [Calls -> CallType], offline \in [Kiosks -> SUBSET Taps],
         NEW c \in Calls, NEW d \in Kiosks, StartSync(c, d)
  PROVE  /\ call' \in [Calls -> CallType]
         /\ call'[c].step = "sync" /\ call'[c].row = d /\ call'[c].card = Keep
         /\ call'[c].todo = offline[d]
         /\ \A e \in Calls : e # c => call'[e] = call[e]
<1>1. call'[c] = [Idle EXCEPT !.step = "sync", !.row = d, !.batch = offline[d],
                              !.todo = offline[d]]
  BY DEF StartSync
<1>2. call'[c] = [step |-> "sync", row |-> d, card |-> Keep, set |-> Null,
                  batch |-> offline[d], todo |-> offline[d], tap |-> Null]
  BY <1>1 DEF Idle
<1>3. "sync" \in Steps /\ offline[d] \in SUBSET Taps
  BY DEF Steps
<1>4. call'[c] \in CallType
  BY <1>2, <1>3 DEF CallType
<1>5. QED
  BY <1>2, <1>4 DEF StartSync

(* Calls that read and begin. *)
Starts(c) ==
  \/ \E w \in Workers :
       \/ \E k \in Cards \cup {Null} : StartCreate(c, w, k)
       \/ \E k \in Cards \cup {Null, Keep}, set \in {"personal", "other"} :
            StartUpdate(c, w, k, set)
       \/ \E status \in Left : StartDeactivate(c, w, status)
       \/ StartAnonymize(c, w)
  \/ \E d \in Kiosks : StartRegister(c, d) \/ StartApprove(c, d) \/ StartSync(c, d)

tables == <<worker, erased, kiosk, offline>>

LEMMA StartsType ==
  ASSUME TypeInv, NEW c \in Calls, Starts(c)
  PROVE  /\ call' \in [Calls -> CallType] /\ CallOK(call'[c])
         /\ \A d \in Calls : d # c => call'[d] = call[d]
         /\ UNCHANGED tables
<1>1. call \in [Calls -> CallType] /\ offline \in [Kiosks -> SUBSET Taps]
  BY DEF TypeInv, TypeOK
<1>2. CASE \E w \in Workers, k \in Cards \cup {Null} : StartCreate(c, w, k)
  <2>1. PICK w \in Workers, k \in Cards \cup {Null} : StartCreate(c, w, k)
    BY <1>2
  <2> DEFINE step == IF k = Null THEN "insert" ELSE "check card"
  <2>2. step \in Steps
    BY DEF Steps
  <2>3. Begin(c, step, w, k, Null)
    BY <2>1 DEF StartCreate
  <2>4. /\ call' \in [Calls -> CallType] /\ call'[c].step = step /\ call'[c].row = w
        /\ call'[c].card = k /\ call'[c].todo = {}
        /\ \A d \in Calls : d # c => call'[d] = call[d]
    <3> HIDE DEF step
    <3> QED
      BY <1>1, <2>2, <2>3, BeginEffect
  <2>5. CallOK(call'[c])
    BY <2>4, NamesAssumption DEF CallOK, ForWorker, ForKiosk
  <2>6. QED
    BY <2>1, <2>4, <2>5 DEF StartCreate, tables
<1>3. CASE \E w \in Workers, k \in Cards \cup {Null, Keep}, set \in {"personal", "other"} :
             StartUpdate(c, w, k, set)
  <2>1. PICK w \in Workers, k \in Cards \cup {Null, Keep}, set \in {"personal", "other"} :
          StartUpdate(c, w, k, set)
    BY <1>3
  <2>2. /\ call' \in [Calls -> CallType] /\ call'[c].step = "update" /\ call'[c].row = w
        /\ call'[c].todo = {}
        /\ \A d \in Calls : d # c => call'[d] = call[d]
    <3>0. /\ "update" \in Steps /\ w \in Workers \cup Kiosks
          /\ set \in Left \cup {"personal", "other", Null}
      BY DEF Steps
    <3>1. Begin(c, "update", w, k, set)
      BY <2>1 DEF StartUpdate
    <3>2. QED
      BY <1>1, <3>0, <3>1, BeginEffect
  <2>3. QED
    BY <2>1, <2>2 DEF StartUpdate, tables, CallOK, ForWorker, ForKiosk
<1>4. CASE \E w \in Workers, status \in Left : StartDeactivate(c, w, status)
  <2>1. PICK w \in Workers, status \in Left : StartDeactivate(c, w, status)
    BY <1>4
  <2>2. /\ call' \in [Calls -> CallType] /\ call'[c].step = "deactivate" /\ call'[c].row = w
        /\ call'[c].set = status /\ call'[c].card = Keep /\ call'[c].todo = {}
        /\ \A d \in Calls : d # c => call'[d] = call[d]
    <3>0. /\ "deactivate" \in Steps /\ w \in Workers \cup Kiosks
          /\ Keep \in Cards \cup {Null, Keep}
          /\ status \in Left \cup {"personal", "other", Null}
      BY DEF Steps
    <3>1. Begin(c, "deactivate", w, Keep, status)
      BY <2>1 DEF StartDeactivate
    <3>2. QED
      BY <1>1, <3>0, <3>1, BeginEffect
  <2>3. QED
    BY <2>1, <2>2 DEF StartDeactivate, tables, CallOK, ForWorker, ForKiosk
<1>5. CASE \E w \in Workers : StartAnonymize(c, w)
  <2>1. PICK w \in Workers : StartAnonymize(c, w)
    BY <1>5
  <2>2. /\ call' \in [Calls -> CallType] /\ call'[c].step = "anonymize" /\ call'[c].row = w
        /\ call'[c].card = Null /\ call'[c].todo = {}
        /\ \A d \in Calls : d # c => call'[d] = call[d]
    <3>0. /\ "anonymize" \in Steps /\ w \in Workers \cup Kiosks
          /\ Null \in Cards \cup {Null, Keep}
          /\ Null \in Left \cup {"personal", "other", Null}
      BY DEF Steps
    <3>1. Begin(c, "anonymize", w, Null, Null)
      BY <2>1 DEF StartAnonymize
    <3>2. QED
      BY <1>1, <3>0, <3>1, BeginEffect
  <2>3. QED
    BY <2>1, <2>2 DEF StartAnonymize, tables, CallOK, ForWorker, ForKiosk
<1>6. CASE \E d \in Kiosks : StartRegister(c, d) \/ StartApprove(c, d)
  <2>1. PICK d \in Kiosks : StartRegister(c, d) \/ StartApprove(c, d)
    BY <1>6
  <2>2. /\ call' \in [Calls -> CallType] /\ call'[c].step \in {"register", "approve"}
        /\ call'[c].row = d /\ call'[c].card = Keep /\ call'[c].todo = {}
        /\ \A e \in Calls : e # c => call'[e] = call[e]
    <3>1. CASE StartRegister(c, d)
      <4>0. /\ "register" \in Steps /\ d \in Workers \cup Kiosks
            /\ Keep \in Cards \cup {Null, Keep}
            /\ Null \in Left \cup {"personal", "other", Null}
        BY DEF Steps
      <4>1. Begin(c, "register", d, Keep, Null)
        BY <3>1 DEF StartRegister
      <4>2. QED
        BY <1>1, <4>0, <4>1, BeginEffect
    <3>2. CASE StartApprove(c, d)
      <4>0. /\ "approve" \in Steps /\ d \in Workers \cup Kiosks
            /\ Keep \in Cards \cup {Null, Keep}
            /\ Null \in Left \cup {"personal", "other", Null}
        BY DEF Steps
      <4>1. Begin(c, "approve", d, Keep, Null)
        BY <3>2 DEF StartApprove
      <4>2. QED
        BY <1>1, <4>0, <4>1, BeginEffect
    <3>3. QED
      BY <2>1, <3>1, <3>2
  <2>3. QED
    BY <2>1, <2>2 DEF StartRegister, StartApprove, tables, CallOK, ForWorker, ForKiosk
<1>7. CASE \E d \in Kiosks : StartSync(c, d)
  <2>1. PICK d \in Kiosks : StartSync(c, d)
    BY <1>7
  <2>2. /\ call' \in [Calls -> CallType]
        /\ call'[c].step = "sync" /\ call'[c].row = d /\ call'[c].card = Keep
        /\ \A e \in Calls : e # c => call'[e] = call[e]
    BY <1>1, <2>1, SyncEffect
  <2>3. CallOK(call'[c])
    BY <2>2 DEF CallOK, ForWorker, ForKiosk
  <2>4. QED
    BY <2>1, <2>2, <2>3 DEF StartSync, tables
<1>8. QED
  BY <1>2, <1>3, <1>4, <1>5, <1>6, <1>7 DEF Starts

(* The row that a handler writes, as it is written. *)
Written(c) ==
  LET r == worker[call[c].row]
  IN  CASE call[c].step = "insert" ->
             [status |-> "ACTIVE", card |-> call[c].card, personal |-> TRUE]
        [] call[c].step = "update" ->
             [status |-> r.status,
              card |-> IF call[c].card = Keep THEN r.card ELSE call[c].card,
              personal |-> r.personal \/ call[c].set = "personal"]
        [] call[c].step = "deactivate" -> [r EXCEPT !.status = call[c].set]
        [] OTHER -> [status |-> "TERMINATED", card |-> Null, personal |-> FALSE]

Writes(c) == InsertWorker(c) \/ UpdateWorker(c) \/ DeactivateWorker(c) \/ AnonymizeWorker(c)

LEMMA WritesEffect ==
  ASSUME TypeInv, NEW c \in Calls, Writes(c)
  PROVE  /\ call' \in [Calls -> CallType] /\ call'[c] = Idle
         /\ \A d \in Calls : d # c => call'[d] = call[d]
         /\ call[c].step \in ForWorker \ {"check card"} /\ call[c].row \in Workers
         /\ worker' \in [Workers -> WorkerType]
         /\ \A w \in Workers : w # call[c].row => worker'[w] = worker[w]
         /\ \/ worker' = worker /\ call[c].step = "insert" /\ Exists(call[c].row)
            \/ /\ worker'[call[c].row] = Written(c)
               /\ call[c].step = "insert" <=> ~ Exists(call[c].row)
         /\ UNCHANGED <<kiosk, offline>>
         /\ erased' = IF call[c].step = "anonymize" THEN erased \cup {call[c].row} ELSE erased
<1> DEFINE w == call[c].row
<1>1. /\ call \in [Calls -> CallType] /\ worker \in [Workers -> WorkerType]
      /\ CallOK(call[c]) /\ call[c] \in CallType
  BY DEF TypeInv, TypeOK
<1>2. CASE InsertWorker(c)
  <2>1. /\ call[c].step = "insert" /\ w \in Workers /\ call[c].card \in Cards \cup {Null}
        /\ End(c) /\ UNCHANGED <<erased, kiosk, offline>>
    BY <1>1, <1>2 DEF InsertWorker, CallOK, ForWorker
  <2>2. Written(c) = [status |-> "ACTIVE", card |-> call[c].card, personal |-> TRUE]
    BY <2>1 DEF Written
  <2>3. Written(c) \in WorkerType
    BY <2>1, <2>2 DEF WorkerType
  <2>4. worker' = IF Exists(w) THEN worker ELSE [worker EXCEPT ![w] = Written(c)]
    BY <1>2, <2>2 DEF InsertWorker
  <2>5. QED
    BY <1>1, <2>1, <2>3, <2>4, EndEffect DEF ForWorker
<1>3. CASE UpdateWorker(c)
  <2>1. /\ call[c].step = "update" /\ w \in Workers /\ Exists(w)
        /\ End(c) /\ UNCHANGED <<erased, kiosk, offline>>
    BY <1>1, <1>3 DEF UpdateWorker, CallOK, ForWorker, TypeInv
  <2>2. Written(c) = [status |-> worker[w].status,
                      card |-> IF call[c].card = Keep THEN worker[w].card ELSE call[c].card,
                      personal |-> worker[w].personal \/ call[c].set = "personal"]
    BY <2>1 DEF Written
  <2>3. worker[w] \in WorkerType
    BY <1>1, <2>1
  <2>4. Written(c) \in WorkerType
    BY <1>1, <2>2, <2>3 DEF WorkerType, CallType
  <2>5. worker' = [worker EXCEPT ![w] = Written(c)]
    BY <1>3, <2>2 DEF UpdateWorker
  <2>6. QED
    BY <1>1, <2>1, <2>4, <2>5, EndEffect DEF ForWorker
<1>4. CASE DeactivateWorker(c)
  <2>1. /\ call[c].step = "deactivate" /\ w \in Workers /\ Exists(w) /\ call[c].set \in Left
        /\ End(c) /\ UNCHANGED <<erased, kiosk, offline>>
    BY <1>1, <1>4 DEF DeactivateWorker, CallOK, ForWorker, TypeInv
  <2>2. Written(c) = [worker[w] EXCEPT !.status = call[c].set]
    BY <2>1 DEF Written
  <2>3. Written(c) \in WorkerType
    BY <1>1, <2>1, <2>2 DEF WorkerType
  <2>4. worker' = [worker EXCEPT ![w] = Written(c)]
    BY <1>4, <2>2 DEF DeactivateWorker
  <2>5. QED
    BY <1>1, <2>1, <2>3, <2>4, EndEffect DEF ForWorker
<1>5. CASE AnonymizeWorker(c)
  <2>1. /\ call[c].step = "anonymize" /\ w \in Workers /\ Exists(w)
        /\ End(c) /\ UNCHANGED <<kiosk, offline>> /\ erased' = erased \cup {w}
    BY <1>1, <1>5 DEF AnonymizeWorker, CallOK, ForWorker, TypeInv
  <2>2. Written(c) = [status |-> "TERMINATED", card |-> Null, personal |-> FALSE]
    BY <2>1 DEF Written
  <2>3. Written(c) \in WorkerType
    BY <2>2, StatusesAssumption DEF WorkerType
  <2>4. worker' = [worker EXCEPT ![w] = Written(c)]
    BY <1>5, <2>2 DEF AnonymizeWorker
  <2>5. QED
    BY <1>1, <2>1, <2>3, <2>4, EndEffect DEF ForWorker
<1>6. QED
  BY <1>2, <1>3, <1>4, <1>5 DEF Writes

(* The steps that leave workers alone, and what they do to a call. *)
Moves(c) ==
  \/ CheckCard(c) \/ RegisterKiosk(c) \/ ApproveKiosk(c)
  \/ ResolveTap(c) \/ RecordTap(c) \/ EndSync(c)

LEMMA MovesEffect ==
  ASSUME TypeInv, NEW c \in Calls, Moves(c)
  PROVE  /\ call' \in [Calls -> CallType] /\ CallOK(call'[c])
         /\ \A d \in Calls : d # c => call'[d] = call[d]
         /\ call'[c].todo \subseteq call[c].todo
         /\ \/ call'[c] = Idle
            \/ /\ call[c].step = "check card" /\ call'[c] = [call[c] EXCEPT !.step = "insert"]
               /\ Holders(call[c].card) = {}
            \/ /\ call'[c].step = "record" /\ call'[c].set \in Holders(call'[c].tap.card)
               /\ call'[c].tap \in call[c].todo /\ call'[c].row = call[c].row
               /\ call'[c].row \in Kiosks /\ call'[c].card = Keep
            \/ /\ call'[c].step = "sync" /\ call'[c].row = call[c].row
               /\ call'[c].row \in Kiosks /\ call'[c].card = Keep
         /\ kiosk' \in [Kiosks -> {"ABSENT", "PENDING", "ACTIVE"}]
         /\ \A d \in Kiosks : kiosk[d] = "ACTIVE" => kiosk'[d] = "ACTIVE"
         /\ offline' \in [Kiosks -> SUBSET Taps]
         /\ \A d \in Kiosks : offline'[d] \subseteq offline[d]
         /\ UNCHANGED <<worker, erased>>
<1>1. /\ call \in [Calls -> CallType] /\ CallOK(call[c]) /\ call[c] \in CallType
      /\ kiosk \in [Kiosks -> {"ABSENT", "PENDING", "ACTIVE"}]
      /\ offline \in [Kiosks -> SUBSET Taps]
  BY DEF TypeInv, TypeOK
<1>2. Idle.todo = {} /\ CallOK(Idle)
  BY IdleType DEF Idle
<1>3. CASE CheckCard(c)
  <2>1. call[c].step = "check card" /\ UNCHANGED tables
    BY <1>3 DEF CheckCard, tables
  <2>2. CASE End(c)
    BY <1>1, <1>2, <2>1, <2>2, EndEffect DEF tables
  <2>3. CASE Holders(call[c].card) = {} /\ Goto(c, "insert")
    <3>1. call' \in [Calls -> CallType] /\ call'[c] = [call[c] EXCEPT !.step = "insert"]
          /\ \A d \in Calls : d # c => call'[d] = call[d]
      BY <1>1, <2>3, GotoEffect DEF Steps
    <3>2. /\ call'[c].step = "insert" /\ call'[c].row = call[c].row
          /\ call'[c].card = call[c].card /\ call'[c].todo = call[c].todo
      BY <1>1, <3>1 DEF CallType
    <3>3. CallOK(call'[c])
      BY <1>1, <2>1, <3>2 DEF CallOK, ForWorker, ForKiosk
    <3>4. QED
      BY <1>1, <2>1, <2>3, <3>1, <3>2, <3>3 DEF tables
  <2>4. QED
    BY <1>3, <2>2, <2>3 DEF CheckCard
<1>4. CASE RegisterKiosk(c) \/ ApproveKiosk(c)
  <2>1. End(c) /\ call[c].row \in Kiosks /\ UNCHANGED <<worker, erased, offline>>
    BY <1>1, <1>4 DEF RegisterKiosk, ApproveKiosk, CallOK, ForKiosk
  <2>2. /\ kiosk' \in [Kiosks -> {"ABSENT", "PENDING", "ACTIVE"}]
        /\ \A d \in Kiosks : kiosk[d] = "ACTIVE" => kiosk'[d] = "ACTIVE"
    BY <1>1, <1>4, <2>1 DEF RegisterKiosk, ApproveKiosk
  <2>3. QED
    BY <1>1, <1>2, <2>1, <2>2, EndEffect
<1>5. CASE ResolveTap(c)
  <2>1. /\ call[c].step = "sync" /\ call[c].row \in Kiosks /\ call[c].card = Keep
        /\ UNCHANGED tables
    BY <1>1, <1>5 DEF ResolveTap, CallOK, ForKiosk, tables
  <2>2. /\ kiosk' \in [Kiosks -> {"ABSENT", "PENDING", "ACTIVE"}]
        /\ \A d \in Kiosks : kiosk[d] = "ACTIVE" => kiosk'[d] = "ACTIVE"
        /\ offline' \in [Kiosks -> SUBSET Taps]
        /\ \A d \in Kiosks : offline'[d] \subseteq offline[d]
        /\ UNCHANGED <<worker, erased>>
    BY <1>1, <2>1 DEF tables
  <2>3. PICK t \in call[c].todo :
          \/ \E w \in Holders(t.card) :
               call' = [call EXCEPT ![c] = [@ EXCEPT !.step = "record", !.tap = t, !.set = w]]
          \/ call' = [call EXCEPT ![c] = [@ EXCEPT !.todo = call[c].todo \ {t}]]
    BY <1>5 DEF ResolveTap
  <2>4. t \in Taps
    BY <1>1, <2>3 DEF CallType
  <2>5. CASE \E w \in Holders(t.card) :
               call' = [call EXCEPT ![c] = [@ EXCEPT !.step = "record", !.tap = t, !.set = w]]
    <3>1. PICK w \in Holders(t.card) :
            call' = [call EXCEPT ![c] = [@ EXCEPT !.step = "record", !.tap = t, !.set = w]]
      BY <2>5
    <3>2. w \in Workers
      BY <3>1 DEF Holders
    <3>3. call'[c] = [call[c] EXCEPT !.step = "record", !.tap = t, !.set = w]
      BY <1>1, <3>1
    <3>4. /\ call'[c] \in CallType /\ call'[c].step = "record" /\ call'[c].tap = t
          /\ call'[c].set = w /\ call'[c].todo = call[c].todo /\ call'[c].row = call[c].row
          /\ call'[c].card = Keep
      BY <1>1, <2>1, <2>4, <3>2, <3>3 DEF CallType, Steps
    <3>5. CallOK(call'[c])
      BY <2>1, <2>3, <3>2, <3>4 DEF CallOK, ForWorker, ForKiosk
    <3>6. call' \in [Calls -> CallType] /\ \A d \in Calls : d # c => call'[d] = call[d]
      BY <1>1, <3>1, <3>3, <3>4
    <3>7. QED
      BY <1>1, <2>1, <2>3, <3>1, <3>4, <3>5, <3>6 DEF tables
  <2>6. CASE call' = [call EXCEPT ![c] = [@ EXCEPT !.todo = call[c].todo \ {t}]]
    <3>1. call'[c] = [call[c] EXCEPT !.todo = call[c].todo \ {t}]
      BY <1>1, <2>6 DEF CallType
    <3>2. /\ call'[c] \in CallType /\ call'[c].step = "sync" /\ call'[c].row = call[c].row
          /\ call'[c].card = Keep /\ call'[c].todo \subseteq call[c].todo
      BY <1>1, <2>1, <3>1 DEF CallType
    <3>3. CallOK(call'[c])
      BY <2>1, <3>2 DEF CallOK, ForWorker, ForKiosk
    <3>4. call' \in [Calls -> CallType] /\ \A d \in Calls : d # c => call'[d] = call[d]
      BY <1>1, <2>6, <3>1, <3>2
    <3>5. call'[c].row \in Kiosks
      BY <2>1, <3>2
    <3>6. QED
      BY <2>2, <3>2, <3>3, <3>4, <3>5
  <2>7. QED
    BY <2>3, <2>5, <2>6
<1>6. CASE RecordTap(c)
  <2>1. /\ call[c].step = "record" /\ call[c].row \in Kiosks /\ call[c].card = Keep
        /\ UNCHANGED tables
    BY <1>1, <1>6 DEF RecordTap, CallOK, ForKiosk, tables
  <2>2. call'[c] = [call[c] EXCEPT !.step = "sync", !.tap = Null, !.set = Null,
                                   !.todo = call[c].todo \ {call[c].tap}]
    BY <1>1, <1>6 DEF RecordTap
  <2>3. /\ call'[c].step = "sync" /\ call'[c].row = call[c].row
        /\ call'[c].card = Keep /\ call'[c].todo = call[c].todo \ {call[c].tap}
    BY <1>1, <2>1, <2>2 DEF CallType
  <2>4. "sync" \in Steps /\ call[c].todo \ {call[c].tap} \in SUBSET Taps
    BY <1>1 DEF CallType, Steps
  <2>5. call'[c] \in CallType
    BY <1>1, <2>2, <2>4 DEF CallType
  <2>6. /\ call'[c] \in CallType /\ call'[c].step = "sync" /\ call'[c].row = call[c].row
        /\ call'[c].card = Keep /\ call'[c].todo \subseteq call[c].todo
    BY <2>3, <2>5
  <2>7. CallOK(call'[c])
    BY <2>1, <2>6 DEF CallOK, ForWorker, ForKiosk
  <2>8. call' \in [Calls -> CallType] /\ \A d \in Calls : d # c => call'[d] = call[d]
    BY <1>1, <1>6, <2>2, <2>6 DEF RecordTap
  <2>9. /\ kiosk' \in [Kiosks -> {"ABSENT", "PENDING", "ACTIVE"}]
        /\ \A d \in Kiosks : kiosk[d] = "ACTIVE" => kiosk'[d] = "ACTIVE"
        /\ offline' \in [Kiosks -> SUBSET Taps]
        /\ \A d \in Kiosks : offline'[d] \subseteq offline[d]
        /\ UNCHANGED <<worker, erased>>
    BY <1>1, <2>1 DEF tables
  <2>10. call'[c].row \in Kiosks
    BY <2>1, <2>6
  <2>11. QED
    BY <2>6, <2>7, <2>8, <2>9, <2>10
<1>7. CASE EndSync(c)
  <2>1. End(c) /\ call[c].row \in Kiosks /\ UNCHANGED <<worker, erased, kiosk>>
    BY <1>1, <1>7 DEF EndSync, CallOK, ForKiosk
  <2>2. /\ offline' \in [Kiosks -> SUBSET Taps]
        /\ \A d \in Kiosks : offline'[d] \subseteq offline[d]
    BY <1>1, <1>7, <2>1 DEF EndSync
  <2>3. QED
    BY <1>1, <1>2, <2>1, <2>2, EndEffect
<1>8. QED
  BY <1>3, <1>4, <1>5, <1>6, <1>7 DEF Moves

LEMMA TapEffect ==
  ASSUME TypeInv, NEW d \in Kiosks, NEW w \in Workers, Tap(d, w)
  PROVE  /\ offline' \in [Kiosks -> SUBSET Taps]
         /\ \A e \in Kiosks : offline'[e] \subseteq
              offline[e] \cup {[card |-> worker[w].card, by |-> w]}
         /\ UNCHANGED <<worker, erased, kiosk, call>>
<1>1. [card |-> worker[w].card, by |-> w] \in Taps
  BY DEF Tap, Taps
<1>2. offline \in [Kiosks -> SUBSET Taps]
  BY DEF TypeInv, TypeOK
<1>3. QED
  BY <1>1, <1>2 DEF Tap

LEMMA NextCases ==
  ASSUME Next
  PROVE  /\ UNCHANGED may
         /\ \/ \E c \in Calls : Starts(c) \/ Writes(c) \/ Moves(c)
            \/ \E d \in Kiosks, w \in Workers : Tap(d, w)
BY DEF Next, Starts, Writes, Moves

-----------------------------------------------------------------------------
(* Types *)

LEMMA TypeInit == Init => TypeInv
<1> SUFFICES ASSUME Init PROVE TypeInv
  OBVIOUS
<1>1. NoWorker \in WorkerType /\ NoWorker.card = Null
  BY DEF NoWorker, WorkerType
<1>2. TypeOK
  BY <1>1, IdleType DEF Init, TypeOK
<1>3. \A c \in Calls : call[c] = Idle
  BY DEF Init
<1>4. Idle.step = "idle"
  BY DEF Idle
<1>5. \A c \in Calls : CallOK(call[c]) /\ call[c].step = "idle"
  BY <1>3, <1>4, IdleType
<1>6. QED
  BY <1>1, <1>2, <1>5 DEF Init, TypeInv

LEMMA TypeNext == TypeInv /\ [Next]_vars => TypeInv'
<1> SUFFICES ASSUME TypeInv, [Next]_vars PROVE TypeInv'
  OBVIOUS
<1>0. TypeOK /\ \A c \in Calls : CallOK(call[c])
  BY DEF TypeInv
<1>1. CASE UNCHANGED vars
  BY <1>1 DEF vars, TypeInv, TypeOK, Exists
<1>2. ASSUME NEW c \in Calls, Starts(c), UNCHANGED may PROVE TypeInv'
  <2>1. /\ call' \in [Calls -> CallType] /\ CallOK(call'[c])
        /\ \A d \in Calls : d # c => call'[d] = call[d]
        /\ UNCHANGED tables
    BY <1>2, StartsType
  <2>2. call'[c].step \in {"update", "deactivate", "anonymize"} => Exists(call'[c].row)
    <3>1. ASSUME NEW w \in Workers, NEW k, StartCreate(c, w, k)
          PROVE  call'[c].step \notin {"update", "deactivate", "anonymize"}
      BY <1>0, <3>1 DEF StartCreate, Begin, TypeOK, Idle
    <3>2. ASSUME NEW w \in Workers, NEW k, NEW set, StartUpdate(c, w, k, set)
          PROVE  call'[c].row = w /\ Exists(w)
      BY <1>0, <3>2 DEF StartUpdate, Begin, TypeOK, Idle
    <3>3. ASSUME NEW w \in Workers, NEW status, StartDeactivate(c, w, status)
          PROVE  call'[c].row = w /\ Exists(w)
      BY <1>0, <3>3 DEF StartDeactivate, Begin, TypeOK, Idle
    <3>4. ASSUME NEW w \in Workers, StartAnonymize(c, w)
          PROVE  call'[c].row = w /\ Exists(w)
      BY <1>0, <3>4 DEF StartAnonymize, Begin, TypeOK, Idle
    <3>5. ASSUME NEW d \in Kiosks, StartRegister(c, d) \/ StartApprove(c, d)
          PROVE  call'[c].step \notin {"update", "deactivate", "anonymize"}
      BY <1>0, <3>5 DEF StartRegister, StartApprove, Begin, TypeOK, Idle
    <3>6. ASSUME NEW d \in Kiosks, StartSync(c, d)
          PROVE  call'[c].step \notin {"update", "deactivate", "anonymize"}
      BY <1>0, <3>6, SyncEffect DEF TypeOK
    <3>7. QED
      BY <1>2, <3>1, <3>2, <3>3, <3>4, <3>5, <3>6 DEF Starts
  <2>3. QED
    BY <1>0, <1>2, <2>1, <2>2 DEF TypeInv, TypeOK, tables, Exists
<1>3. ASSUME NEW c \in Calls, Writes(c), UNCHANGED may PROVE TypeInv'
  <2> DEFINE row == call[c].row
  <2>1. /\ call' \in [Calls -> CallType] /\ call'[c] = Idle
        /\ \A d \in Calls : d # c => call'[d] = call[d]
        /\ call[c].step \in ForWorker \ {"check card"} /\ row \in Workers
        /\ worker' \in [Workers -> WorkerType]
        /\ \A w \in Workers : w # row => worker'[w] = worker[w]
        /\ \/ worker' = worker /\ call[c].step = "insert" /\ Exists(row)
           \/ /\ worker'[row] = Written(c)
              /\ call[c].step = "insert" <=> ~ Exists(row)
        /\ UNCHANGED <<kiosk, offline>>
        /\ erased' = IF call[c].step = "anonymize" THEN erased \cup {row} ELSE erased
    BY <1>3, WritesEffect
  <2>2. worker'[row].status # "ABSENT"
    <3>1. CASE worker' = worker /\ Exists(row)
      BY <3>1 DEF Exists
    <3>2. CASE worker'[row] = Written(c)
      <4>1. CASE call[c].step \in {"insert", "anonymize"}
        BY <3>2, <4>1, StatusesAssumption DEF Written
      <4>2. CASE call[c].step = "update"
        BY <2>1, <3>2, <4>2 DEF Written, Exists, TypeInv
      <4>3. CASE call[c].step = "deactivate"
        <5>1. call[c].set \in Left /\ worker[row] \in WorkerType
          BY <1>0, <2>1, <4>3 DEF CallOK, TypeOK
        <5>2. worker'[row].status = call[c].set
          BY <3>2, <4>3, <5>1 DEF Written, WorkerType
        <5>3. QED
          BY <5>1, <5>2, StatusesAssumption
      <4>4. QED
        BY <2>1, <4>1, <4>2, <4>3 DEF ForWorker
    <3>3. QED
      BY <2>1, <3>1, <3>2
  <2>3. \A w \in Workers : Exists(w) => Exists(w)'
    BY <2>1, <2>2 DEF Exists
  <2>4. \A w \in Workers : worker[w].status = "ABSENT" => worker[w].card = Null
    BY DEF TypeInv
  <2>5. \A w \in Workers : worker'[w].status = "ABSENT" => worker'[w].card = Null
    BY <2>1, <2>2, <2>4
  <2>6. \A w \in erased : w \in Workers /\ Exists(w)
    BY <1>0 DEF TypeInv, TypeOK
  <2>7. \A w \in erased' : Exists(w)'
    BY <2>1, <2>2, <2>3, <2>6 DEF Exists
  <2>8. /\ \A w \in Workers : worker'[w].status = "ABSENT" => worker'[w].card = Null
        /\ \A w \in erased' : Exists(w)'
    BY <2>5, <2>7
  <2>9. \A d \in Calls :
          call'[d].step \in {"update", "deactivate", "anonymize"} =>
            worker'[call'[d].row].status # "ABSENT"
    <3>1. call'[c] = Idle
      BY <2>1
    <3>2. call'[c].step = "idle"
      BY <3>1 DEF Idle
    <3>3. \A d \in Calls : call[d].step \in {"update", "deactivate", "anonymize"} =>
            call[d].row \in Workers /\ Exists(call[d].row)
      BY <1>0 DEF TypeInv, CallOK, ForWorker
    <3>4. QED
      BY <2>1, <2>3, <3>2, <3>3 DEF Exists
  <2>10. \A d \in Calls : CallOK(call'[d])
    BY <1>0, <2>1, IdleType
  <2>11. TypeOK'
    BY <1>0, <1>3, <2>1 DEF TypeOK
  <2>12. QED
    BY <2>8, <2>9, <2>10, <2>11 DEF TypeInv, Exists
<1>4. ASSUME NEW c \in Calls, Moves(c), UNCHANGED may PROVE TypeInv'
  <2>1. /\ call' \in [Calls -> CallType] /\ CallOK(call'[c])
        /\ \A d \in Calls : d # c => call'[d] = call[d]
        /\ call'[c].step \notin {"update", "deactivate", "anonymize"}
        /\ kiosk' \in [Kiosks -> {"ABSENT", "PENDING", "ACTIVE"}]
        /\ offline' \in [Kiosks -> SUBSET Taps]
        /\ UNCHANGED <<worker, erased>>
    <3>1. call[c] \in CallType
      BY <1>0 DEF TypeOK
    <3>2. [call[c] EXCEPT !.step = "insert"].step = "insert" /\ Idle.step = "idle"
      BY <3>1 DEF CallType, Idle
    <3>3. QED
      BY <1>4, <3>2, MovesEffect
  <2>2. TypeOK'
    BY <1>0, <1>4, <2>1 DEF TypeOK
  <2>3. \A d \in Calls : CallOK(call'[d])
    BY <1>0, <2>1
  <2>4. QED
    BY <2>1, <2>2, <2>3 DEF TypeInv, Exists
<1>5. ASSUME NEW d \in Kiosks, NEW w \in Workers, Tap(d, w), UNCHANGED may PROVE TypeInv'
  BY <1>0, <1>5, TapEffect DEF TypeInv, TypeOK, Exists
<1>6. QED
  BY <1>1, <1>2, <1>3, <1>4, <1>5, NextCases

(* Rows, taps and calls keep their types. *)
THEOREM TypeCorrect == Spec => []TypeOK
<1>1. TypeInv => TypeOK
  BY DEF TypeInv
<1>2. QED
  BY <1>1, TypeInit, TypeNext, PTL DEF Spec

LEMMA NoWayBackStep ==
  ASSUME TypeInv, [Next]_vars
  PROVE  /\ \A w \in Workers : worker[w].status \in Left => worker'[w].status \in Left
         /\ \A d \in Kiosks : kiosk[d] = "ACTIVE" => kiosk'[d] = "ACTIVE"
<1>0. TypeOK /\ \A c \in Calls : CallOK(call[c])
  BY DEF TypeInv
<1>1. CASE UNCHANGED vars
  BY <1>1 DEF vars
<1>2. ASSUME NEW c \in Calls, Starts(c)
      PROVE  UNCHANGED <<worker, kiosk>>
  BY <1>2, StartsType DEF tables
<1>3. ASSUME NEW c \in Calls, Writes(c)
      PROVE  /\ \A w \in Workers : worker[w].status \in Left => worker'[w].status \in Left
             /\ UNCHANGED kiosk
  <2> DEFINE row == call[c].row
  <2>1. /\ call[c].step \in ForWorker \ {"check card"} /\ row \in Workers
        /\ \A w \in Workers : w # row => worker'[w] = worker[w]
        /\ \/ worker' = worker
           \/ /\ worker'[row] = Written(c)
              /\ call[c].step = "insert" <=> ~ Exists(row)
        /\ UNCHANGED kiosk
    BY <1>3, WritesEffect
  <2>2. ASSUME worker[row].status \in Left, worker'[row] = Written(c), call[c].step # "insert"
        PROVE  worker'[row].status \in Left
    <3>1. CASE call[c].step = "update"
      BY <2>2, <3>1 DEF Written
    <3>2. CASE call[c].step = "deactivate"
      <4>1. call[c].set \in Left /\ worker[row] \in WorkerType
        BY <1>0, <2>1, <3>2 DEF CallOK, TypeOK
      <4>2. QED
        BY <2>2, <3>2, <4>1 DEF Written, WorkerType
    <3>3. CASE call[c].step = "anonymize"
      BY <2>2, <3>3, StatusesAssumption DEF Written
    <3>4. QED
      BY <2>1, <2>2, <3>1, <3>2, <3>3 DEF ForWorker
  <2>3. ~ Exists(row) => worker[row].status \notin Left
    BY StatusesAssumption DEF Exists
  <2>4. QED
    BY <2>1, <2>2, <2>3
<1>4. ASSUME NEW c \in Calls, Moves(c)
      PROVE  /\ \A d \in Kiosks : kiosk[d] = "ACTIVE" => kiosk'[d] = "ACTIVE"
             /\ UNCHANGED worker
  BY <1>4, MovesEffect
<1>5. ASSUME NEW d \in Kiosks, NEW w \in Workers, Tap(d, w)
      PROVE  UNCHANGED <<worker, kiosk>>
  BY <1>5, TapEffect
<1>6. QED
  BY <1>1, <1>2, <1>3, <1>4, <1>5, NextCases

(* Whatever overlaps, who was deactivated or anonymised is never active    *)
(* again, and an approved kiosk stays approved.                            *)
THEOREM NobodyComesBack == Spec => NoWayBack
<1>1. TypeInv /\ [Next]_vars =>
        [/\ \A w \in Workers : worker[w].status \in Left => worker'[w].status \in Left
         /\ \A d \in Kiosks : kiosk[d] = "ACTIVE" => kiosk'[d] = "ACTIVE"]_vars
  BY NoWayBackStep
<1>2. QED
  BY <1>1, TypeInit, TypeNext, PTL DEF Spec, NoWayBack

-----------------------------------------------------------------------------
(* Calls that do not overlap *)

(* What a call has seen to when it begins. *)
Begun(r) ==
  /\ r.row \in Workers => Alone(r.row, r.card)
  /\ r.card \in Cards => r.row \in Workers
  /\ r.step = "update" =>
       /\ "later" \in may \/ r.row \notin erased
       /\ "recards" \in may \/ r.card \notin Cards \/ Holders(r.card) \subseteq {r.row}
       /\ r.card # Keep => MayWithdraw(worker[r.row].card)
  /\ r.step = "anonymize" => MayWithdraw(worker[r.row].card)
  /\ r.step = "insert" => r.card \notin Cards
  /\ r.step # "record"
  /\ r.todo = {} \/ \E d \in Kiosks : r.todo = offline[d]

LEMMA StartsBegun ==
  ASSUME TypeInv, NEW c \in Calls, Starts(c)
  PROVE  Begun(call'[c])
<1>1. call \in [Calls -> CallType] /\ offline \in [Kiosks -> SUBSET Taps]
  BY DEF TypeInv, TypeOK
<1>2. ASSUME NEW w \in Workers, NEW k \in Cards \cup {Null}, StartCreate(c, w, k)
      PROVE  Begun(call'[c])
  <2>1. /\ call'[c].row = w /\ call'[c].card = k /\ call'[c].todo = {} /\ Alone(w, k)
        /\ call'[c].step = IF k = Null THEN "insert" ELSE "check card"
    BY <1>1, <1>2 DEF StartCreate, Begin, Idle
  <2>2. QED
    BY <2>1, NamesAssumption DEF Begun
<1>3. ASSUME NEW w \in Workers, NEW k \in Cards \cup {Null, Keep}, NEW set, StartUpdate(c, w, k, set)
      PROVE  Begun(call'[c])
  <2>1. /\ call'[c].row = w /\ call'[c].card = k /\ call'[c].todo = {} /\ Alone(w, k)
        /\ call'[c].step = "update"
    BY <1>1, <1>3 DEF StartUpdate, Begin, Idle
  <2>2. QED
    BY <1>3, <2>1 DEF Begun, StartUpdate
<1>4. ASSUME NEW w \in Workers, NEW status, StartDeactivate(c, w, status)
      PROVE  Begun(call'[c])
  <2>1. /\ call'[c].row = w /\ call'[c].card = Keep /\ call'[c].todo = {} /\ Alone(w, Keep)
        /\ call'[c].step = "deactivate"
    BY <1>1, <1>4 DEF StartDeactivate, Begin, Idle
  <2>2. QED
    BY <2>1, NamesAssumption DEF Begun
<1>5. ASSUME NEW w \in Workers, StartAnonymize(c, w)
      PROVE  Begun(call'[c])
  <2>1. /\ call'[c].row = w /\ call'[c].card = Null /\ call'[c].todo = {} /\ Alone(w, Keep)
        /\ call'[c].step = "anonymize" /\ MayWithdraw(worker[w].card)
    BY <1>1, <1>5 DEF StartAnonymize, Begin, Idle
  <2>2. Alone(w, Null)
    BY <2>1, NamesAssumption DEF Alone
  <2>3. QED
    BY <2>1, <2>2, NamesAssumption DEF Begun
<1>6. ASSUME NEW d \in Kiosks, StartRegister(c, d) \/ StartApprove(c, d) \/ StartSync(c, d)
      PROVE  Begun(call'[c])
  <2>1. /\ call'[c].row = d /\ call'[c].card = Keep /\ call'[c].todo \in {{}, offline[d]}
        /\ call'[c].step \in {"register", "approve", "sync"}
    <3>1. CASE StartRegister(c, d)
      BY <1>1, <3>1 DEF StartRegister, Begin, Idle
    <3>2. CASE StartApprove(c, d)
      BY <1>1, <3>2 DEF StartApprove, Begin, Idle
    <3>3. CASE StartSync(c, d)
      BY <1>1, <3>3, SyncEffect
    <3>4. QED
      BY <1>6, <3>1, <3>2, <3>3
  <2>2. QED
    BY <2>1, NamesAssumption DEF Begun
<1>7. QED
  BY <1>2, <1>3, <1>4, <1>5, <1>6 DEF Starts

(* One call at a time works on a worker, and one on a card. *)
AloneInv ==
  "overlap" \notin may =>
    \A c, d \in Calls :
      \/ c = d
      \/ /\ call[c].row = call[d].row => call[c].row \notin Workers
         /\ call[c].card = call[d].card => call[c].card \notin Cards

LEMMA IdleAlone == Idle.row \notin Workers /\ Idle.card \notin Cards
BY NamesAssumption DEF Idle

LEMMA MovesStay ==
  ASSUME TypeInv, NEW c \in Calls, Moves(c)
  PROVE  /\ call'[c].row \in {call[c].row, Idle.row}
         /\ call'[c].card \in {call[c].card, Idle.card}
<1>1. call[c] \in CallType
  BY DEF TypeInv, TypeOK
<1>2. Idle.card = Keep
  BY DEF Idle
<1>3. /\ [call[c] EXCEPT !.step = "insert"].row = call[c].row
      /\ [call[c] EXCEPT !.step = "insert"].card = call[c].card
  BY <1>1 DEF CallType
<1>4. QED
  BY <1>2, <1>3, MovesEffect

LEMMA AloneNext == TypeInv /\ AloneInv /\ [Next]_vars => AloneInv'
<1> SUFFICES ASSUME TypeInv, AloneInv, [Next]_vars PROVE AloneInv'
  OBVIOUS
<1>1. CASE UNCHANGED vars
  BY <1>1 DEF vars, AloneInv
<1>2. ASSUME NEW c \in Calls, Starts(c), UNCHANGED may PROVE AloneInv'
  <2>1. Begun(call'[c]) /\ \A d \in Calls : d # c => call'[d] = call[d]
    BY <1>2, StartsBegun, StartsType
  <2>2. ASSUME NEW d \in Calls, d # c, "overlap" \notin may
        PROVE  /\ call'[c].row = call[d].row => call'[c].row \notin Workers
               /\ call'[c].card = call[d].card => call'[c].card \notin Cards
    BY <2>1, <2>2 DEF Begun, Alone
  <2>3. QED
    BY <1>2, <2>1, <2>2 DEF AloneInv
<1>3. ASSUME NEW c \in Calls, Writes(c), UNCHANGED may PROVE AloneInv'
  <2>1. call'[c] = Idle /\ \A d \in Calls : d # c => call'[d] = call[d]
    BY <1>3, WritesEffect
  <2>2. QED
    BY <1>3, <2>1, IdleAlone DEF AloneInv
<1>4. ASSUME NEW c \in Calls, Moves(c), UNCHANGED may PROVE AloneInv'
  <2>1. /\ call'[c].row \in {call[c].row, Idle.row}
        /\ call'[c].card \in {call[c].card, Idle.card}
        /\ \A d \in Calls : d # c => call'[d] = call[d]
    BY <1>4, MovesStay, MovesEffect
  <2>2. QED
    BY <1>4, <2>1, IdleAlone DEF AloneInv
<1>5. ASSUME NEW d \in Kiosks, NEW w \in Workers, Tap(d, w), UNCHANGED may PROVE AloneInv'
  BY <1>5 DEF Tap, AloneInv
<1>6. QED
  BY <1>1, <1>2, <1>3, <1>4, <1>5, NextCases

LEMMA AloneInit == Init => AloneInv
BY IdleAlone DEF Init, AloneInv

-----------------------------------------------------------------------------
(* Erasure *)

(* An update that is about to write is not about an anonymised worker. *)
ErasureInv ==
  /\ ErasureStands
  /\ may \cap {"overlap", "later"} = {} =>
       \A c \in Calls : call[c].step = "update" => call[c].row \notin erased

LEMMA ErasureNext == TypeInv /\ AloneInv /\ ErasureInv /\ [Next]_vars => ErasureInv'
<1> SUFFICES ASSUME TypeInv, AloneInv, ErasureInv, [Next]_vars PROVE ErasureInv'
  OBVIOUS
<1>0. /\ worker \in [Workers -> WorkerType] /\ erased \subseteq Workers
      /\ \A w \in erased : Exists(w)
      /\ \A c \in Calls : CallOK(call[c]) /\ call[c] \in CallType
  BY DEF TypeInv, TypeOK
<1>1. CASE UNCHANGED vars
  BY <1>1 DEF vars, ErasureInv, ErasureStands
<1>2. ASSUME NEW c \in Calls, Starts(c), UNCHANGED may PROVE ErasureInv'
  <2>1. /\ Begun(call'[c]) /\ \A d \in Calls : d # c => call'[d] = call[d]
        /\ UNCHANGED <<worker, erased>>
    BY <1>2, StartsBegun, StartsType DEF tables
  <2>2. QED
    BY <1>2, <2>1 DEF ErasureInv, ErasureStands, Begun
<1>3. ASSUME NEW c \in Calls, Writes(c), UNCHANGED may PROVE ErasureInv'
  <2> DEFINE row == call[c].row
  <2>1. /\ call'[c] = Idle
        /\ \A d \in Calls : d # c => call'[d] = call[d]
        /\ call[c].step \in ForWorker \ {"check card"} /\ row \in Workers
        /\ \A w \in Workers : w # row => worker'[w] = worker[w]
        /\ \/ worker' = worker /\ call[c].step = "insert"
           \/ /\ worker'[row] = Written(c)
              /\ call[c].step = "insert" <=> ~ Exists(row)
        /\ erased' = IF call[c].step = "anonymize" THEN erased \cup {row} ELSE erased
    BY <1>3, WritesEffect
  <2> SUFFICES ASSUME may \cap {"overlap", "later"} = {}
               PROVE  /\ \A w \in erased' : ~ worker'[w].personal /\ worker'[w].card = Null
                      /\ \A d \in Calls : call'[d].step = "update" => call'[d].row \notin erased'
    BY <1>3 DEF ErasureInv, ErasureStands
  <2>2. /\ \A w \in erased : ~ worker[w].personal /\ worker[w].card = Null
        /\ \A d \in Calls : call[d].step = "update" => call[d].row \notin erased
        /\ \A d \in Calls : d # c => call[d].row # row
    BY <2>1 DEF ErasureInv, ErasureStands, AloneInv
  <2>3. Idle.step = "idle"
    BY DEF Idle
  <2>4. \A d \in Calls : call'[d].step = "update" => call'[d].row \notin erased'
    BY <2>1, <2>2, <2>3
  <2>5. row \in erased' => ~ worker'[row].personal /\ worker'[row].card = Null
    <3>1. CASE worker' = worker /\ call[c].step = "insert"
      BY <2>1, <2>2, <3>1
    <3>2. CASE worker'[row] = Written(c) /\ call[c].step = "insert"
      BY <1>0, <2>1, <2>2, <3>2
    <3>3. CASE worker'[row] = Written(c) /\ call[c].step = "update"
      BY <2>1, <2>2, <3>3
    <3>4. CASE worker'[row] = Written(c) /\ call[c].step = "deactivate"
      <4>1. Written(c).card = worker[row].card /\ Written(c).personal = worker[row].personal
        BY <1>0, <2>1, <3>4 DEF Written, WorkerType
      <4>2. QED
        BY <2>1, <2>2, <3>4, <4>1
    <3>5. CASE worker'[row] = Written(c) /\ call[c].step = "anonymize"
      BY <3>5 DEF Written
    <3>6. QED
      BY <2>1, <3>1, <3>2, <3>3, <3>4, <3>5 DEF ForWorker
  <2>6. \A w \in erased' : w # row => ~ worker'[w].personal /\ worker'[w].card = Null
    BY <1>0, <2>1, <2>2
  <2>7. QED
    BY <2>4, <2>5, <2>6
<1>4. ASSUME NEW c \in Calls, Moves(c), UNCHANGED may PROVE ErasureInv'
  <2>1. /\ call'[c].step # "update"
        /\ \A d \in Calls : d # c => call'[d] = call[d]
        /\ UNCHANGED <<worker, erased>>
    <3>1. [call[c] EXCEPT !.step = "insert"].step = "insert" /\ Idle.step = "idle"
      BY <1>0 DEF CallType, Idle
    <3>2. QED
      BY <1>4, <3>1, MovesEffect
  <2>2. QED
    BY <1>4, <2>1 DEF ErasureInv, ErasureStands
<1>5. ASSUME NEW d \in Kiosks, NEW w \in Workers, Tap(d, w), UNCHANGED may PROVE ErasureInv'
  BY <1>5 DEF Tap, ErasureInv, ErasureStands
<1>6. QED
  BY <1>1, <1>2, <1>3, <1>4, <1>5, NextCases

(* An anonymised worker stays anonymous, if updates of the worker neither  *)
(* overlap the request nor come after it.                                  *)
THEOREM AnonymousStaysAnonymous == Spec => []ErasureStands
<1>1. Init => ErasureInv
  <2>1. Idle.step = "idle"
    BY DEF Idle
  <2>2. QED
    BY <2>1 DEF Init, ErasureInv, ErasureStands
<1>2. ErasureInv => ErasureStands
  BY DEF ErasureInv
<1>3. QED
  BY <1>1, <1>2, TypeInit, TypeNext, AloneInit, AloneNext, ErasureNext, PTL DEF Spec

-----------------------------------------------------------------------------
(* Cards *)

Orderly == may \cap {"overlap", "recards", "late"} = {}

(* Nobody has the card of another, nor will when a call has written.       *)
CardsInv ==
  /\ \A v, w \in Workers : worker[v].card = worker[w].card /\ worker[v].card \in Cards => v = w
  /\ \A c \in Calls : /\ call[c].step = "insert" /\ call[c].card \in Cards =>
                           Holders(call[c].card) = {}
                      /\ call[c].step = "update" /\ call[c].card \in Cards =>
                           Holders(call[c].card) \subseteq {call[c].row}

(* A tap that is still to be recorded is of a card that its worker has, and *)
(* that no call is about to take away.                                      *)
Good(t) ==
  /\ worker[t.by].card = t.card
  /\ \A c \in Calls :
       call[c].step = "anonymize" \/ (call[c].step = "update" /\ call[c].card # Keep) =>
         call[c].row # t.by

TapsInv ==
  /\ \A d \in Kiosks : \A t \in offline[d] : Good(t)
  /\ \A c \in Calls : \A t \in call[c].todo : Good(t)
  /\ \A c \in Calls : call[c].step = "record" => call[c].set = call[c].tap.by

CardInv == Orderly => CardsInv /\ TapsInv

(* The card that a call leaves in the row it writes. *)
LEMMA WrittenCard ==
  ASSUME TypeInv, NEW c \in Calls, Writes(c)
  PROVE  /\ call[c].row \in Workers
         /\ \A w \in Workers : w # call[c].row => worker'[w].card = worker[w].card
         /\ worker'[call[c].row].card \in {worker[call[c].row].card, Null, call[c].card}
         /\ call[c].step = "deactivate" => worker'[call[c].row].card = worker[call[c].row].card
         /\ call[c].step = "update" /\ call[c].card = Keep =>
              worker'[call[c].row].card = worker[call[c].row].card
         /\ call[c].step = "insert" =>
              \/ worker'[call[c].row].card = worker[call[c].row].card
              \/ worker[call[c].row].card = Null
         /\ worker'[call[c].row].card # worker[call[c].row].card =>
              worker'[call[c].row].card \in {Null} \/ call[c].step \in {"insert", "update"}
         /\ worker'[call[c].row].card # Keep
<1> DEFINE row == call[c].row
<1>1. /\ call[c].step \in ForWorker \ {"check card"} /\ row \in Workers
      /\ \A w \in Workers : w # row => worker'[w] = worker[w]
      /\ \/ worker' = worker
         \/ /\ worker'[row] = Written(c)
            /\ call[c].step = "insert" <=> ~ Exists(row)
      /\ worker' \in [Workers -> WorkerType]
  BY WritesEffect
<1>2. worker[row] \in WorkerType /\ worker'[row].card \in Cards \cup {Null}
  BY <1>1 DEF TypeInv, TypeOK, WorkerType
<1>3. CASE worker' = worker
  BY <1>1, <1>2, <1>3, NamesAssumption
<1>4. CASE worker'[row] = Written(c) /\ call[c].step = "insert" /\ ~ Exists(row)
  <2>1. worker[row].card = Null
    BY <1>1, <1>4 DEF TypeInv, Exists
  <2>2. worker'[row].card = call[c].card
    BY <1>4 DEF Written
  <2>3. QED
    BY <1>1, <1>2, <1>4, <2>1, <2>2, NamesAssumption
<1>5. CASE worker'[row] = Written(c) /\ call[c].step = "update"
  <2>1. worker'[row].card = IF call[c].card = Keep THEN worker[row].card ELSE call[c].card
    BY <1>5 DEF Written
  <2>2. QED
    BY <1>1, <1>2, <1>5, <2>1, NamesAssumption
<1>6. CASE worker'[row] = Written(c) /\ call[c].step = "deactivate"
  <2>1. worker'[row].card = worker[row].card
    BY <1>2, <1>6 DEF Written, WorkerType
  <2>2. QED
    BY <1>1, <1>2, <1>6, <2>1, NamesAssumption
<1>7. CASE worker'[row] = Written(c) /\ call[c].step = "anonymize"
  <2>1. worker'[row].card = Null
    BY <1>7 DEF Written
  <2>2. QED
    BY <1>1, <1>2, <1>7, <2>1, NamesAssumption
<1>8. QED
  BY <1>1, <1>3, <1>4, <1>5, <1>6, <1>7 DEF ForWorker

LEMMA CardNextStarts ==
  ASSUME TypeInv, AloneInv, CardInv, Orderly, UNCHANGED may, NEW c \in Calls, Starts(c)
  PROVE  CardsInv' /\ TapsInv'
<1>0. /\ worker \in [Workers -> WorkerType] /\ offline \in [Kiosks -> SUBSET Taps]
      /\ \A d \in Calls : call[d] \in CallType /\ CallOK(call[d])
      /\ CardsInv /\ TapsInv
      /\ "overlap" \notin may /\ "recards" \notin may /\ "late" \notin may
  BY DEF TypeInv, TypeOK, CardInv, Orderly
<1>1. /\ Begun(call'[c]) /\ \A d \in Calls : d # c => call'[d] = call[d]
      /\ UNCHANGED <<worker, offline>> /\ CallOK(call'[c])
  BY StartsBegun, StartsType DEF tables
<1>2. CardsInv'
  BY <1>0, <1>1 DEF CardsInv, Begun, Holders
<1>3. ASSUME NEW t \in Taps, Good(t),
             \/ \E d \in Kiosks : t \in offline[d]
             \/ \E d \in Calls : t \in call[d].todo
      PROVE  Good(t)'
  <2>1. Outstanding(worker[t.by].card)
    BY <1>3 DEF Outstanding, Good
  <2>2. call'[c].step = "anonymize" \/ (call'[c].step = "update" /\ call'[c].card # Keep) =>
          call'[c].row # t.by
    BY <1>0, <1>1, <2>1 DEF Begun, MayWithdraw
  <2>3. QED
    BY <1>1, <1>3, <2>2 DEF Good
<1>4. \A d \in Kiosks : \A t \in offline'[d] : Good(t)'
  BY <1>0, <1>1, <1>3 DEF TapsInv
<1>5. \A d \in Calls : \A t \in call'[d].todo : Good(t)'
  <2>1. SUFFICES ASSUME NEW d \in Calls, NEW t \in call'[d].todo PROVE Good(t)'
    OBVIOUS
  <2>2. (\E e \in Kiosks : t \in offline[e]) \/ (\E e \in Calls : t \in call[e].todo)
    BY <1>1, <2>1 DEF Begun
  <2>3. t \in Taps /\ Good(t)
    BY <1>0, <2>2 DEF TapsInv, CallType
  <2>4. QED
    BY <1>3, <2>2, <2>3
<1>6. QED
  BY <1>0, <1>1, <1>2, <1>4, <1>5 DEF TapsInv, Begun

LEMMA CardNextWrites ==
  ASSUME TypeInv, AloneInv, CardInv, Orderly, UNCHANGED may, NEW c \in Calls, Writes(c)
  PROVE  CardsInv' /\ TapsInv'
<1> DEFINE row == call[c].row
<1> DEFINE old == worker[row].card
<1> DEFINE new == worker'[row].card
<1>0. /\ worker \in [Workers -> WorkerType] /\ offline \in [Kiosks -> SUBSET Taps]
      /\ \A d \in Calls : call[d] \in CallType /\ CallOK(call[d])
      /\ CardsInv /\ TapsInv /\ "overlap" \notin may
  BY DEF TypeInv, TypeOK, CardInv, Orderly
<1>1. /\ call'[c] = Idle /\ \A d \in Calls : d # c => call'[d] = call[d]
      /\ call[c].step \in ForWorker \ {"check card"} /\ UNCHANGED offline
  BY WritesEffect
<1>2. /\ row \in Workers
      /\ \A w \in Workers : w # row => worker'[w].card = worker[w].card
      /\ new \in {old, Null, call[c].card} /\ new # Keep
      /\ call[c].step = "deactivate" => new = old
      /\ call[c].step = "update" /\ call[c].card = Keep => new = old
      /\ call[c].step = "insert" => new = old \/ old = Null
      /\ new # old => new \in {Null} \/ call[c].step \in {"insert", "update"}
  BY WrittenCard
<1>3. Idle.step = "idle" /\ Idle.todo = {}
  BY DEF Idle
(* A card that the row gets nobody else has, or is about to get. *)
<1>4. ASSUME new # old, new \in Cards
      PROVE  /\ new = call[c].card /\ Holders(new) \subseteq {row}
             /\ \A d \in Calls : d # c => call[d].card # new
  <2>1. new = call[c].card /\ call[c].step \in {"insert", "update"}
    BY <1>2, <1>4, NamesAssumption
  <2>2. Holders(new) \subseteq {row}
    BY <1>0, <1>4, <2>1 DEF CardsInv
  <2>3. QED
    BY <1>0, <1>4, <2>1, <2>2 DEF AloneInv
<1>5. \A v, w \in Workers : worker'[v].card = worker'[w].card /\ worker'[v].card \in Cards => v = w
  <2>1. \A v, w \in Workers : worker[v].card = worker[w].card /\ worker[v].card \in Cards => v = w
    BY <1>0 DEF CardsInv
  <2>2. CASE new = old
    BY <1>2, <2>1, <2>2
  <2>3. CASE new # old /\ new \in Cards
    BY <1>2, <1>4, <2>1, <2>3 DEF Holders
  <2>4. CASE new # old /\ new \notin Cards
    BY <1>2, <2>1, <2>4
  <2>5. QED
    BY <2>2, <2>3, <2>4
<1>6. ASSUME NEW d \in Calls, call'[d].card \in Cards, call'[d].step \in {"insert", "update"}
      PROVE  d # c /\ call'[d] = call[d] /\ Holders(call[d].card)' \subseteq Holders(call[d].card)
  <2>1. d # c /\ call'[d] = call[d]
    BY <1>1, <1>3, <1>6
  <2>2. \A w \in Workers : worker'[w].card = call[d].card => worker[w].card = call[d].card
    BY <1>2, <1>4, <1>6, <2>1
  <2>3. QED
    BY <2>1, <2>2 DEF Holders
<1>7. CardsInv'
  BY <1>0, <1>5, <1>6 DEF CardsInv
<1>8. ASSUME NEW t \in Taps, Good(t) PROVE Good(t)'
  <2>1. t.by \in Workers /\ t.card \in Cards
    BY <1>8 DEF Taps
  <2>2. worker'[t.by].card = t.card
    <3>1. CASE t.by # row
      BY <1>2, <1>8, <2>1, <3>1 DEF Good
    <3>2. CASE t.by = row
      <4>1. call[c].step # "anonymize" /\ (call[c].step = "update" => call[c].card = Keep)
        BY <1>8, <3>2 DEF Good
      <4>2. old # Null
        BY <1>8, <2>1, <3>2, NamesAssumption DEF Good
      <4>3. new = old
        BY <1>1, <1>2, <4>1, <4>2 DEF ForWorker
      <4>4. QED
        BY <1>8, <3>2, <4>3 DEF Good
    <3>3. QED
      BY <3>1, <3>2
  <2>3. QED
    BY <1>1, <1>3, <1>8, <2>2 DEF Good
<1>9. TapsInv'
  BY <1>0, <1>1, <1>3, <1>8 DEF TapsInv, CallType
<1>10. QED
  BY <1>7, <1>9

LEMMA CardNextMoves ==
  ASSUME TypeInv, AloneInv, CardInv, Orderly, UNCHANGED may, NEW c \in Calls, Moves(c)
  PROVE  CardsInv' /\ TapsInv'
<1>0. /\ worker \in [Workers -> WorkerType] /\ offline \in [Kiosks -> SUBSET Taps]
      /\ call[c] \in CallType /\ CardsInv /\ TapsInv
      /\ \A d \in Calls : call[d].todo \subseteq Taps
  BY DEF TypeInv, TypeOK, CardInv, CallType
<1>1. /\ [call[c] EXCEPT !.step = "insert"].step = "insert"
      /\ [call[c] EXCEPT !.step = "insert"].card = call[c].card
      /\ Idle.step = "idle" /\ Idle.todo = {}
  BY <1>0 DEF CallType, Idle
<1>2. /\ \A d \in Calls : d # c => call'[d] = call[d]
      /\ call'[c].todo \subseteq call[c].todo
      /\ \A d \in Kiosks : offline'[d] \subseteq offline[d]
      /\ UNCHANGED worker
      /\ call'[c].step \in {"idle", "insert", "record", "sync"}
      /\ call'[c].step = "insert" => Holders(call'[c].card) = {}
      /\ call'[c].step = "record" =>
           call'[c].set \in Holders(call'[c].tap.card) /\ call'[c].tap \in call[c].todo
  BY <1>1, MovesEffect
<1>3. CardsInv'
  BY <1>0, <1>2 DEF CardsInv, Holders
<1>4. \A t : Good(t) => Good(t)'
  BY <1>2 DEF Good
<1>5. call'[c].step = "record" => call'[c].set = call'[c].tap.by
  <2>1. SUFFICES ASSUME call'[c].step = "record" PROVE call'[c].set = call'[c].tap.by
    OBVIOUS
  <2>2. /\ call'[c].set \in Workers /\ worker[call'[c].set].card = call'[c].tap.card
        /\ call'[c].tap \in Taps /\ Good(call'[c].tap)
    BY <1>0, <1>2, <2>1 DEF Holders, TapsInv
  <2>3. /\ call'[c].tap.by \in Workers /\ call'[c].tap.card \in Cards
        /\ worker[call'[c].tap.by].card = call'[c].tap.card
    BY <2>2 DEF Taps, Good
  <2>4. QED
    BY <1>0, <2>2, <2>3 DEF CardsInv
<1>6. TapsInv'
  BY <1>0, <1>2, <1>4, <1>5 DEF TapsInv
<1>7. QED
  BY <1>3, <1>6

LEMMA CardNextTap ==
  ASSUME TypeInv, CardInv, Orderly, UNCHANGED may, NEW d \in Kiosks, NEW w \in Workers, Tap(d, w)
  PROVE  CardsInv' /\ TapsInv'
<1> DEFINE t == [card |-> worker[w].card, by |-> w]
<1>0. /\ CardsInv /\ TapsInv /\ "late" \notin may
      /\ \A c \in Calls : CallOK(call[c])
  BY DEF TypeInv, CardInv, Orderly
<1>1. /\ \A e \in Kiosks : offline'[e] \subseteq offline[e] \cup {t}
      /\ UNCHANGED <<worker, call>>
  BY TapEffect
<1>2. \A c \in Calls : call[c].row = w => call[c].card = Keep
  BY <1>0 DEF Tap
<1>3. Good(t)
  <2>1. t.by = w /\ t.card = worker[w].card
    OBVIOUS
  <2>2. \A c \in Calls : call[c].step = "anonymize" => call[c].card # Keep
    BY <1>0, NamesAssumption DEF CallOK
  <2> HIDE DEF t
  <2>3. QED
    BY <1>2, <2>1, <2>2 DEF Good
<1>4. \A u : Good(u) => Good(u)'
  BY <1>1 DEF Good
<1>5. QED
  BY <1>0, <1>1, <1>3, <1>4 DEF CardsInv, TapsInv, Holders

LEMMA CardNext == TypeInv /\ AloneInv /\ CardInv /\ [Next]_vars => CardInv'
<1> SUFFICES ASSUME TypeInv, AloneInv, CardInv, [Next]_vars PROVE CardInv'
  OBVIOUS
<1>1. CASE UNCHANGED vars
  BY <1>1 DEF vars, CardInv, Orderly, CardsInv, TapsInv, Good, Holders
<1>2. CASE Next
  <2>1. UNCHANGED may
    BY <1>2, NextCases
  <2>2. SUFFICES ASSUME Orderly PROVE CardsInv' /\ TapsInv'
    BY <2>1 DEF CardInv, Orderly
  <2>3. QED
    BY <1>2, <2>1, <2>2, NextCases, CardNextStarts, CardNextWrites, CardNextMoves, CardNextTap
<1>3. QED
  BY <1>1, <1>2

(* A tap is credited to the worker who made it, if requests for one card   *)
(* do not overlap, updates give nobody the card of another, and a card is  *)
(* withdrawn only when its taps have been synced.                          *)
THEOREM TapsAreCredited == Spec => []TapsReachTheHolder
<1>1. Init => CardInv
  <2>1. /\ Idle.step = "idle" /\ Idle.todo = {} /\ NoWorker.card = Null
    BY DEF Idle, NoWorker
  <2>2. QED
    BY <2>1, NamesAssumption DEF Init, CardInv, CardsInv, TapsInv
<1>2. CardInv => TapsReachTheHolder
  BY DEF CardInv, Orderly, TapsInv, TapsReachTheHolder
<1>3. QED
  BY <1>1, <1>2, TypeInit, TypeNext, AloneInit, AloneNext, CardNext, PTL DEF Spec

=============================================================================

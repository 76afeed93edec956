----------------------------- MODULE Directory -----------------------------
(***************************************************************************)
(* The workers and the kiosks of a tenant, and what ties them together:    *)
(* the NFC card of a worker.  A kiosk collects taps of cards, offline if   *)
(* need be, and the backend looks up who has the card when the taps are    *)
(* sent, not when they were made.                                          *)
(*                                                                         *)
(* A handler reads a row and then writes it or inserts another; an index   *)
(* makes employee ids and serial numbers unique, so that rows are named by *)
(* them here.  Nothing makes cards unique.                                 *)
(***************************************************************************)
EXTENDS Naturals

CONSTANTS Calls,        \* concurrent calls of the handlers
          Workers,      \* employee ids
          Cards,        \* NFC cards
          Kiosks,       \* serial numbers
          Left,         \* the statuses a request may give to a worker
          Null,
          Keep,         \* a field that a request does not set
          Environments  \* sets of what clients may do:
                        \*   "overlap"  requests for one worker or one card
                        \*   "recards"  an update gives away another's card
                        \*   "late"     a card is withdrawn before the taps
                        \*              that were made with it are synced
                        \*   "later"    updates of anonymised workers

ASSUME NamesAssumption ==
  /\ Null \notin Cards \cup Workers
  /\ Keep \notin Cards \cup {Null}
  /\ Workers \cap Kiosks = {}

ASSUME StatusesAssumption ==
  "TERMINATED" \in Left /\ Left \subseteq {"INACTIVE", "SUSPENDED", "TERMINATED"}

VARIABLES may,        \* the environment, chosen once
          worker,     \* workers rows: status, card, and whether the name,
                      \* e-mail or phone columns say who it is
          erased,     \* workers with a WORKER_ANONYMIZED row in the audit log
          kiosk,      \* the status column of kiosk_devices
          offline,    \* per kiosk: the taps it has not got an answer for,
                      \* each the card and the worker who had it then
          call        \* per call: its next step and what it works on

vars == <<may, worker, erased, kiosk, offline, call>>

Taps == [card : Cards, by : Workers]
NoWorker == [status |-> "ABSENT", card |-> Null, personal |-> FALSE]
Idle == [step |-> "idle", row |-> Null, card |-> Keep, set |-> Null,
         batch |-> {}, todo |-> {}, tap |-> Null]

Init ==
  /\ may \in Environments
  /\ worker = [w \in Workers |-> NoWorker]
  /\ erased = {}
  /\ kiosk = [d \in Kiosks |-> "ABSENT"]
  /\ offline = [d \in Kiosks |-> {}]
  /\ call = [c \in Calls |-> Idle]

Exists(w) == worker[w].status # "ABSENT"
Holders(k) == {w \in Workers : worker[w].card = k}

Begin(c, step, row, card, set) ==
  /\ call[c] = Idle
  /\ call' = [call EXCEPT ![c] =
                [Idle EXCEPT !.step = step, !.row = row, !.card = card, !.set = set]]

Goto(c, step) == call' = [call EXCEPT ![c] = [@ EXCEPT !.step = step]]

End(c) == call' = [call EXCEPT ![c] = Idle]

(* What clients must see to, unless the environment says otherwise. *)
Alone(w, k) ==
  "overlap" \in may \/ \A c \in Calls : call[c].row # w /\ (k \in Cards => call[c].card # k)

Outstanding(k) ==
  \/ \E d \in Kiosks : \E t \in offline[d] : t.card = k
  \/ \E c \in Calls : \E t \in call[c].todo : t.card = k

MayWithdraw(k) == "late" \in may \/ ~ Outstanding(k)

-----------------------------------------------------------------------------
(* CreateWorkerHandler: two lookups, then the insert, which the index      *)
(* refuses if the employee id has been taken since.                        *)

StartCreate(c, w, k) ==
  /\ ~ Exists(w)
  /\ Alone(w, k)
  /\ Begin(c, IF k = Null THEN "insert" ELSE "check card", w, k, Null)
  /\ UNCHANGED <<worker, erased, kiosk, offline>>

AnyCard(c) ==  \* mutant: no look at who has the card
  /\ call[c].step = "check card"
  /\ Goto(c, "insert")
  /\ UNCHANGED <<worker, erased, kiosk, offline>>

CheckCard(c) ==
  /\ call[c].step = "check card"
  /\ IF Holders(call[c].card) = {} THEN Goto(c, "insert") ELSE End(c)
  /\ UNCHANGED <<worker, erased, kiosk, offline>>

InsertWorker(c) ==
  /\ call[c].step = "insert"
  /\ worker' = IF Exists(call[c].row) THEN worker
               ELSE [worker EXCEPT ![call[c].row] =
                       [status |-> "ACTIVE", card |-> call[c].card, personal |-> TRUE]]
  /\ End(c)
  /\ UNCHANGED <<erased, kiosk, offline>>

-----------------------------------------------------------------------------
(* UpdateWorkerHandler: writes the columns that the request sets. *)

StartUpdate(c, w, k, set) ==
  /\ Exists(w)
  /\ Alone(w, k)
  /\ k # Keep => MayWithdraw(worker[w].card)
  /\ "recards" \in may \/ k \notin Cards \/ Holders(k) \subseteq {w}
  /\ "later" \in may \/ w \notin erased
  /\ Begin(c, "update", w, k, set)
  /\ UNCHANGED <<worker, erased, kiosk, offline>>

UpdateWorker(c) ==
  /\ call[c].step = "update"
  /\ worker' = [worker EXCEPT ![call[c].row] =
                  [status |-> @.status,
                   card |-> IF call[c].card = Keep THEN @.card ELSE call[c].card,
                   personal |-> @.personal \/ call[c].set = "personal"]]
  /\ End(c)
  /\ UNCHANGED <<erased, kiosk, offline>>

(* DeactivateWorkerHandler. *)
StartDeactivate(c, w, status) ==
  /\ Exists(w)
  /\ Alone(w, Keep)
  /\ Begin(c, "deactivate", w, Keep, status)
  /\ UNCHANGED <<worker, erased, kiosk, offline>>

StoreCommand(c) ==  \* mutant: stores the command, not the status
  /\ call[c].step = "deactivate"
  /\ worker' = [worker EXCEPT ![call[c].row] = [@ EXCEPT !.status = call[c].step]]
  /\ End(c)
  /\ UNCHANGED <<erased, kiosk, offline>>

DeactivateWorker(c) ==
  /\ call[c].step = "deactivate"
  /\ worker' = [worker EXCEPT ![call[c].row] = [@ EXCEPT !.status = call[c].set]]
  /\ End(c)
  /\ UNCHANGED <<erased, kiosk, offline>>

(* AnonymizeWorkerHandler: one transaction over the row and the audit log. *)
StartAnonymize(c, w) ==
  /\ Exists(w)
  /\ Alone(w, Keep)
  /\ MayWithdraw(worker[w].card)
  /\ Begin(c, "anonymize", w, Null, Null)
  /\ UNCHANGED <<worker, erased, kiosk, offline>>

CardKept(c) ==  \* mutant: the card stays with the row
  /\ call[c].step = "anonymize"
  /\ worker' = [worker EXCEPT ![call[c].row] =
                  [@ EXCEPT !.status = "TERMINATED", !.personal = FALSE]]
  /\ erased' = erased \cup {call[c].row}
  /\ End(c)
  /\ UNCHANGED <<kiosk, offline>>

AnonymizeWorker(c) ==
  /\ call[c].step = "anonymize"
  /\ worker' = [worker EXCEPT ![call[c].row] =
                  [status |-> "TERMINATED", card |-> Null, personal |-> FALSE]]
  /\ erased' = erased \cup {call[c].row}
  /\ End(c)
  /\ UNCHANGED <<kiosk, offline>>

-----------------------------------------------------------------------------
(* RegisterKioskHandler and ApproveKioskHandler. *)

StartRegister(c, d) ==
  /\ kiosk[d] = "ABSENT"
  /\ Begin(c, "register", d, Keep, Null)
  /\ UNCHANGED <<worker, erased, kiosk, offline>>

UpsertKiosk(c) ==  \* mutant: registers what is registered already
  /\ call[c].step = "register"
  /\ kiosk' = [kiosk EXCEPT ![call[c].row] = "PENDING"]
  /\ End(c)
  /\ UNCHANGED <<worker, erased, offline>>

RegisterKiosk(c) ==
  /\ call[c].step = "register"
  /\ kiosk' = [kiosk EXCEPT ![call[c].row] = IF @ = "ABSENT" THEN "PENDING" ELSE @]
  /\ End(c)
  /\ UNCHANGED <<worker, erased, offline>>

StartApprove(c, d) ==
  /\ kiosk[d] # "ABSENT"
  /\ Begin(c, "approve", d, Keep, Null)
  /\ UNCHANGED <<worker, erased, kiosk, offline>>

ApproveKiosk(c) ==
  /\ call[c].step = "approve"
  /\ kiosk' = [kiosk EXCEPT ![call[c].row] = "ACTIVE"]
  /\ End(c)
  /\ UNCHANGED <<worker, erased, offline>>

-----------------------------------------------------------------------------
(* A worker taps a kiosk; the kiosk keeps the tap. *)
Tap(d, w) ==
  /\ worker[w].card \in Cards
  /\ \/ "late" \in may
     \/ \A c \in Calls : call[c].row = w => call[c].card = Keep
  /\ offline' = [offline EXCEPT ![d] = @ \cup {[card |-> worker[w].card, by |-> w]}]
  /\ UNCHANGED <<worker, erased, kiosk, call>>

(* DeviceJwtStrategy lets an active kiosk in. *)
StartSync(c, d) ==
  /\ kiosk[d] = "ACTIVE"
  /\ offline[d] # {}
  /\ call[c] = Idle
  /\ call' = [call EXCEPT ![c] = [Idle EXCEPT !.step = "sync", !.row = d,
                                    !.batch = offline[d], !.todo = offline[d]]]
  /\ UNCHANGED <<worker, erased, kiosk, offline>>

(* processRecord: some worker who has the card now, if anybody has. *)
ResolveTap(c) ==
  /\ call[c].step = "sync"
  /\ \E t \in call[c].todo :
       \/ \E w \in Holders(t.card) :
            call' = [call EXCEPT ![c] = [@ EXCEPT !.step = "record", !.tap = t, !.set = w]]
       \/ /\ Holders(t.card) = {}
          /\ call' = [call EXCEPT ![c] = [@ EXCEPT !.todo = call[c].todo \ {t}]]
  /\ UNCHANGED <<worker, erased, kiosk, offline>>

(* The attendance record of call[c].set is inserted or closed: see         *)
(* Attendance.tla.                                                         *)
RecordTap(c) ==
  /\ call[c].step = "record"
  /\ call' = [call EXCEPT ![c] = [@ EXCEPT !.step = "sync", !.tap = Null, !.set = Null,
                                    !.todo = call[c].todo \ {call[c].tap}]]
  /\ UNCHANGED <<worker, erased, kiosk, offline>>

(* The kiosk forgets the taps when it gets the answer, and sends them      *)
(* again when it does not.                                                 *)
EndSync(c) ==
  /\ call[c].step = "sync"
  /\ call[c].todo = {}
  /\ \/ offline' = [offline EXCEPT ![call[c].row] = @ \ call[c].batch]
     \/ UNCHANGED offline
  /\ End(c)
  /\ UNCHANGED <<worker, erased, kiosk>>

-----------------------------------------------------------------------------
Next ==
  /\ \/ \E c \in Calls :
          \/ \E w \in Workers :
               \/ \E k \in Cards \cup {Null} : StartCreate(c, w, k)
               \/ \E k \in Cards \cup {Null, Keep}, set \in {"personal", "other"} :
                    StartUpdate(c, w, k, set)
               \/ \E status \in Left : StartDeactivate(c, w, status)
               \/ StartAnonymize(c, w)
          \/ CheckCard(c) \/ InsertWorker(c)
          \/ UpdateWorker(c) \/ DeactivateWorker(c) \/ AnonymizeWorker(c)
          \/ \E d \in Kiosks : StartRegister(c, d) \/ StartApprove(c, d) \/ StartSync(c, d)
          \/ RegisterKiosk(c) \/ ApproveKiosk(c)
          \/ ResolveTap(c) \/ RecordTap(c) \/ EndSync(c)
     \/ \E d \in Kiosks, w \in Workers : Tap(d, w)
  /\ UNCHANGED may

Spec == Init /\ [][Next]_vars

-----------------------------------------------------------------------------
Steps == {"idle", "check card", "insert", "update", "deactivate", "anonymize",
          "register", "approve", "sync", "record"}

WorkerType == [status : {"ABSENT", "ACTIVE"} \cup Left,
               card : Cards \cup {Null}, personal : BOOLEAN]
CallType == [step : Steps, row : Workers \cup Kiosks \cup {Null},
             card : Cards \cup {Null, Keep},
             set : Workers \cup Left \cup {"personal", "other", Null},
             batch : SUBSET Taps, todo : SUBSET Taps, tap : Taps \cup {Null}]

TypeOK ==
  /\ may \in Environments
  /\ worker \in [Workers -> WorkerType]
  /\ erased \subseteq Workers
  /\ kiosk \in [Kiosks -> {"ABSENT", "PENDING", "ACTIVE"}]
  /\ offline \in [Kiosks -> SUBSET Taps]
  /\ call \in [Calls -> CallType]

(* A tap is credited to the worker who made it, although the backend looks *)
(* the card up when the kiosk sends the tap, perhaps for a second time,    *)
(* and anonymised workers and updates set cards free for others.  Requests *)
(* for one card must not overlap, updates must not give away the card of   *)
(* another, and a card is withdrawn only when its taps have been synced.   *)
TapsReachTheHolder ==
  may \cap {"overlap", "recards", "late"} = {} =>
    \A c \in Calls : call[c].step = "record" => call[c].set = call[c].tap.by

(* "GDPR right to erasure": the row of a worker whom the audit log calls   *)
(* anonymised has no name, e-mail address, phone number or card any more.  *)
(* No update of the worker may overlap the request or come after it: the   *)
(* code would not stop it.                                                 *)
ErasureStands ==
  may \cap {"overlap", "later"} = {} =>
    \A w \in erased : ~ worker[w].personal /\ worker[w].card = Null

(* Whatever overlaps, no handler writes back what it read: a worker who    *)
(* was deactivated or anonymised never becomes active again, and a kiosk   *)
(* that was approved never waits for approval again.                       *)
NoWayBack ==
  [][/\ \A w \in Workers : worker[w].status \in Left => worker'[w].status \in Left
     /\ \A d \in Kiosks : kiosk[d] = "ACTIVE" => kiosk'[d] = "ACTIVE"]_vars

=============================================================================

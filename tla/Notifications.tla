---------------------------- MODULE Notifications ----------------------------
(***************************************************************************)
(* Notifications: a request inserts the row and adds a job; a consumer of  *)
(* the queue sends the message and then marks the row; the recipient marks *)
(* it as read.  Row, job and message are three systems without a common    *)
(* transaction, and the queue repeats a job whose consumer died.           *)
(*                                                                         *)
(* Nothing in the repository dispatches SendNotificationCommand yet: the   *)
(* commands are those its type allows.                                     *)
(***************************************************************************)
EXTENDS JobQueue

CONSTANTS Notices,     \* ids of notifications
          Senders,     \* consumers of the queue
          Commands,    \* what clients ask for: a channel, and whether they
                       \* give an address and a number
          Weather      \* sets of troubles that may occur together

(* PUSH and IN_APP are treated alike. *)
Channels == {"EMAIL", "SMS", "IN_APP"}

ASSUME NotificationsAssumption ==
  /\ None \notin Notices
  /\ Commands \subseteq [channel : Channels, email : BOOLEAN, phone : BOOLEAN]
  /\ Weather \subseteq SUBSET {"process", "redis", "smtp", "database", "consumer"}

VARIABLES troubles,    \* the same in every state: a process dies between two
                       \* statements of a request, Redis, the mail server or
                       \* the database fail, consumers die
          notice,      \* notice[n]: the row, of status ABSENT if there is none
          adding,      \* adding[n]: the job that the request of n is about to add
          mailed,      \* mailed[n]: how often the mail server accepted n
          sender       \* sender[k]: the statement consumer k is about to execute

noticeVars == <<troubles, notice, adding, mailed, sender, job>>

NoNotice == [status |-> "ABSENT", channel |-> None, read |-> FALSE]

(* What a job carries. *)
Letters == [notice : Notices, email : BOOLEAN, phone : BOOLEAN]

Resting == [step |-> "idle", job |-> None]

NoticesInit ==
  /\ troubles \in Weather
  /\ notice = [n \in Notices |-> NoNotice]
  /\ adding = [n \in Notices |-> None]
  /\ mailed = [n \in Notices |-> 0]
  /\ sender = [k \in Senders |-> Resting]
  /\ JobsInit

-----------------------------------------------------------------------------
(* SendNotificationHandler.                                                *)

CreateNotice(n, command) ==
  /\ notice[n] = NoNotice
  /\ notice' = [notice EXCEPT ![n] =
                  [status |-> "PENDING", channel |-> command.channel, read |-> FALSE]]
  /\ \/ adding' = [adding EXCEPT ![n] =
                     [notice |-> n, email |-> command.email, phone |-> command.phone]]
     \/ "process" \in troubles /\ UNCHANGED adding
  /\ UNCHANGED <<troubles, mailed, sender, job>>

ForgetJob(n) ==   \* mutant: the row is all there is
  /\ adding[n] # None
  /\ adding' = [adding EXCEPT ![n] = None]
  /\ UNCHANGED <<troubles, notice, mailed, sender, job>>

AddNoticeJob(n) ==
  /\ adding[n] # None
  /\ Add(adding[n]) \/ ("redis" \in troubles /\ UNCHANGED job)
  /\ adding' = [adding EXCEPT ![n] = None]
  /\ UNCHANGED <<troubles, notice, mailed, sender>>

(* NotificationController.markRead. *)
MarkRead(n) ==
  /\ notice[n].status # "ABSENT"
  /\ notice' = [notice EXCEPT ![n].read = TRUE]
  /\ UNCHANGED <<troubles, adding, mailed, sender, job>>

-----------------------------------------------------------------------------
(* NotificationProcessor.                                                  *)

Letter(k) == job[sender[k].job].data
SenderGoes(k, step) == sender' = [sender EXCEPT ![k].step = step]
SenderEnds(k, state) ==
  /\ Settle(sender[k].job, state)
  /\ sender' = [sender EXCEPT ![k] = Resting]

TakeLetter(k, j) ==
  /\ sender[k].step = "idle"
  /\ Take(j)
  /\ sender' = [sender EXCEPT ![k] = [step |-> "find", job |-> j]]
  /\ UNCHANGED <<troubles, notice, adding, mailed>>

(* findUnique is outside of the try block; a job without a row is dropped. *)
FindNotice(k) ==
  /\ sender[k].step = "find"
  /\ \/ notice[Letter(k).notice] # NoNotice /\ SenderGoes(k, "send") /\ UNCHANGED job
     \/ notice[Letter(k).notice] = NoNotice /\ SenderEnds(k, "completed")
     \/ "database" \in troubles /\ SenderEnds(k, "failed")
  /\ UNCHANGED <<troubles, notice, adding, mailed>>

IsMail(letter) == notice[letter.notice].channel = "EMAIL" /\ letter.email

IsText(letter) == notice[letter.notice].channel = "SMS" /\ letter.phone

Posted(n) == [mailed EXCEPT ![n] = @ + 1]

ErrorLogged(k) ==   \* mutant: an error of the mail server is only logged
  mailed' \in {mailed, Posted(Letter(k).notice)} /\ SenderGoes(k, "sent")

(* An error of the mail server may hide that it has accepted the message. *)
sendEmail(k) ==
  \/ mailed' = Posted(Letter(k).notice) /\ SenderGoes(k, "sent")
  \/ /\ "smtp" \in troubles
     /\ mailed' \in {mailed, Posted(Letter(k).notice)}
     /\ SenderGoes(k, "failed")

(* There is no provider: text messages are only logged. *)
sendSms(k) == UNCHANGED mailed /\ SenderGoes(k, "sent")

(* All others need no sending: also a mail to somebody without address. *)
StoredInApp(k) == UNCHANGED mailed /\ SenderGoes(k, "sent")

SendNotice(k) ==
  /\ sender[k].step = "send"
  /\ CASE IsMail(Letter(k)) -> sendEmail(k)
       [] IsText(Letter(k)) -> sendSms(k)
       [] OTHER -> StoredInApp(k)
  /\ UNCHANGED <<troubles, notice, adding, job>>

Mark(k, status) == notice' = [notice EXCEPT ![Letter(k).notice].status = status]

(* The update is in the try block; an error may hide that it was made. *)
MarkSent(k) ==
  /\ sender[k].step = "sent"
  /\ \/ Mark(k, "SENT") /\ SenderGoes(k, "returned")
     \/ /\ "database" \in troubles
        /\ Mark(k, "SENT") \/ UNCHANGED notice
        /\ SenderGoes(k, "failed")
  /\ UNCHANGED <<troubles, adding, mailed, job>>

RethrowOnly(k) ==   \* mutant: the catch block leaves the row alone
  /\ sender[k].step = "failed"
  /\ SenderGoes(k, "thrown")
  /\ UNCHANGED <<troubles, notice, adding, mailed, job>>

(* The catch block: the row is marked and the error thrown again. *)
MarkFailed(k) ==
  /\ sender[k].step = "failed"
  /\ Mark(k, "FAILED") \/ ("database" \in troubles /\ UNCHANGED notice)
  /\ SenderGoes(k, "thrown")
  /\ UNCHANGED <<troubles, adding, mailed, job>>

(* BullMQ learns that the processor returned or threw.  A consumer that    *)
(* dies before leaves a job that is repeated for a row that is marked.     *)
EndLetter(k) ==
  /\ \/ sender[k].step = "returned" /\ SenderEnds(k, "completed")
     \/ sender[k].step = "thrown" /\ SenderEnds(k, "failed")
  /\ UNCHANGED <<troubles, notice, adding, mailed>>

SenderDies(k) ==
  /\ "consumer" \in troubles
  /\ sender[k].step # "idle"
  /\ Stall(sender[k].job)
  /\ sender' = [sender EXCEPT ![k] = Resting]
  /\ UNCHANGED <<troubles, notice, adding, mailed>>

-----------------------------------------------------------------------------
SenderStep(k) ==
  \/ \E j \in Jobs : TakeLetter(k, j)
  \/ FindNotice(k) \/ SendNotice(k) \/ MarkSent(k) \/ MarkFailed(k) \/ EndLetter(k)

NoticesNext ==
  \/ \E n \in Notices :
       \/ \E command \in Commands : CreateNotice(n, command)
       \/ AddNoticeJob(n) \/ MarkRead(n)
  \/ \E k \in Senders : SenderStep(k) \/ SenderDies(k)

(* Requests run on, and a live consumer takes jobs and goes on with its own. *)
NoticesFairness ==
  /\ \A n \in Notices : WF_noticeVars(AddNoticeJob(n))
  /\ \A k \in Senders : WF_noticeVars(SenderStep(k))

NoticesSpec == NoticesInit /\ [][NoticesNext]_noticeVars /\ NoticesFairness

-----------------------------------------------------------------------------
NoticesTypeOK ==
  /\ troubles \in Weather
  /\ notice \in [Notices -> {NoNotice} \cup
       [status : {"PENDING", "SENT", "FAILED"}, channel : Channels, read : BOOLEAN]]
  /\ adding \in [Notices -> Letters \cup {None}]
  /\ mailed \in [Notices -> 0 .. MAX_STALLED + 1]
  /\ sender \in [Senders -> {Resting} \cup
       [step : {"find", "send", "sent", "failed", "returned", "thrown"}, job : Jobs]]
  /\ JobsTypeOK(Letters)

JobsOfNotice(n) == {j \in Jobs : job[j].state # "free" /\ job[j].data.notice = n}

(* However often consumers die and whatever fails between the mail server  *)
(* and the database, a row that says SENT of a mail to an address means    *)
(* that the mail server has accepted it, and nobody gets more copies than  *)
(* the queue has tries.  (Other rows say SENT too: nothing was sent if     *)
(* there is no address, and text messages have no provider.)               *)
SentIsSent ==
  \A n \in Notices : \A j \in JobsOfNotice(n) :
    IsMail(job[j].data) =>
      /\ notice[n].status = "SENT" => mailed[n] > 0
      /\ mailed[n] <= job[j].stalls + 1

(* As long as requests are not cut short and Redis and the database        *)
(* answer, no notification stays PENDING, unless all the consumers that    *)
(* had it have died: of finitely many none is left sooner or later, and no *)
(* later repetition of a job makes one PENDING again.                      *)
NoticesSettle ==
  <>[] \A n \in Notices :
    /\ notice[n].status = "PENDING"
    /\ troubles \cap {"process", "redis", "database"} = {}
    => \E j \in JobsOfNotice(n) : job[j].state = "failed" /\ job[j].stalls = MAX_STALLED

=============================================================================

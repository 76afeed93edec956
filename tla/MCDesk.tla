------------------------------- MODULE MCDesk -------------------------------
(***************************************************************************)
(* Instances of Seed.tla (with Producers.tla), Notifications.tla,          *)
(* Scheduling.tla and Reports.tla (with Lists.tla) for TLC.  These parts   *)
(* share no state, so that every behaviour is one of one of them: the      *)
(* others rest in one initial state.                                       *)
(***************************************************************************)
EXTENDS Seed, Notifications, Scheduling, Reports, TLC

VARIABLE part          \* the part that is at work

deskVars == <<part, tenancyVars, noticeVars, schedulingVars, listVars, reportVars>>

(* One worker, whose factory has a kiosk; the dates are two days, with a   *)
(* time of the first one.                                                  *)
CONSTANTS staff1, plant1, kiosk1
StaffHome == staff1 :> plant1
KioskSite == kiosk1 :> plant1

(* West of Greenwich, at Greenwich, and east of it. *)
SomeZones == {-2, 0, 1}

(* A mail, a mail to somebody without address, and a text message. *)
SomeCommands ==
  {[channel |-> "EMAIL", email |-> TRUE, phone |-> TRUE],
   [channel |-> "EMAIL", email |-> FALSE, phone |-> TRUE],
   [channel |-> "SMS", email |-> TRUE, phone |-> TRUE]}

SomeOf(S) == CHOOSE x \in S : TRUE

(* Clients give at most one optional parameter, and the rows that are      *)
(* there from the beginning leave room for another one in between.         *)
FewLists ==
  /\ Cardinality(given) <= 1
  /\ \A r \in FirstRows : table[r].at = 2 * r - 1

ListsAtRest ==
  /\ list = SomeOf(Lists) /\ bustle = SomeOf(Bustles) /\ given = {} /\ trusting = FALSE
  /\ \A r \in FirstRows : table[r].fails = Unset

ReportsAtRest == zone = SomeOf(Zones) /\ person = [p \in People |-> "ABSENT"]

DeskInit ==
  /\ part \in {"tenancy", "notifications", "scheduling", "lists", "reports"}
  /\ part = "tenancy" \/ may = SomeOf(Environments)
  /\ SeedInit
  /\ part = "notifications" \/ troubles = SomeOf(Weather)
  /\ NoticesInit
  /\ part = "scheduling" \/ habits = SomeOf(HabitSets)
  /\ SchedulingInit
  /\ ListsInit
  /\ FewLists
  /\ part = "lists" \/ ListsAtRest
  /\ part = "reports" \/ ReportsAtRest
  /\ ReportsInit

TenancyWorks ==
  /\ part = "tenancy"
  /\ SeedNext
  /\ UNCHANGED <<part, noticeVars, schedulingVars, listVars, reportVars>>

NotificationsWork ==
  /\ part = "notifications"
  /\ NoticesNext
  /\ UNCHANGED <<part, tenancyVars, schedulingVars, listVars, reportVars>>

SchedulingWorks ==
  /\ part = "scheduling"
  /\ SchedulingNext
  /\ UNCHANGED <<part, tenancyVars, noticeVars, listVars, reportVars>>

ListsWork ==
  /\ part = "lists"
  /\ ListsNext
  /\ UNCHANGED <<part, tenancyVars, noticeVars, schedulingVars, reportVars>>

ReportsWork ==
  /\ part = "reports"
  /\ ReportsNext
  /\ UNCHANGED <<part, tenancyVars, noticeVars, schedulingVars, listVars>>

DeskNext ==
  TenancyWorks \/ NotificationsWork \/ SchedulingWorks \/ ListsWork \/ ReportsWork

DeskSpec ==
  /\ DeskInit /\ [][DeskNext]_deskVars
  /\ ProducersFairness
  /\ NoticesFairness

(* The variables keep their types. *)
DeskTypeOK ==
  /\ ProducersTypeOK /\ SeedTypeOK
  /\ NoticesTypeOK
  /\ SchedulingTypeOK
  /\ ListsTypeOK /\ ReportsTypeOK

=============================================================================

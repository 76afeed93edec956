------------------------------- MODULE Leave -------------------------------
(***************************************************************************)
(* Leave balances and leave requests.  A handler first reads rows, decides *)
(* on what it read, and then writes in one transaction; other handlers may *)
(* commit in between.  A call of a handler is therefore two steps, and the *)
(* transaction updates the balance relative to its current value.          *)
(*                                                                         *)
(* The columns keep tenths of a day, and count in tenths here.  A number   *)
(* of days asked for can be finer: Scale units make one tenth.             *)
(***************************************************************************)
EXTENDS Integers, Functions

CONSTANTS Calls,      \* concurrent calls of the handlers
          Requests,   \* ids of leave requests (a bound on their number)
          Accounts,   \* leave_balances rows: a worker, a leave type, a year
          SentAs,     \* SentAs[a]: the id sent as workerId for a's worker
          Total,      \* Total[a]: the totalDays column
          Days,       \* the values of daysRequested
          Scale,      \* units of daysRequested in a tenth of a day
          Environments  \* sets of calls that may overlap: "submits" to one
                        \* account, "reviews" of one request

NoRow == "none"

ASSUME DaysAssumption ==
  /\ Scale \in Nat \ {0}
  /\ Days \subseteq Nat \ {0}
  /\ Total \in [Accounts -> Nat]

ASSUME IdsAssumption ==
  /\ Accounts \cap Requests = {}
  /\ NoRow \notin Accounts \cup Requests

VARIABLES may,                    \* the environment, chosen once
          used, pending,          \* the balance columns usedDays, pendingDays
          status, owner, days,    \* the request columns status, the account
                                  \* that the request draws on, requestedDays
          op, arg, amount,        \* per call: the transaction it is about to
                                  \* run, on which row, for how much
          refused                 \* accounts whose worker was told that there
                                  \* is no leave balance

balances == <<used, pending>>
requests == <<status, owner, days>>
calls == <<op, arg, amount>>
vars == <<may, balances, requests, calls, refused>>

Statuses == {"ABSENT", "PENDING", "APPROVED", "REJECTED"}

Init ==
  /\ may \in Environments
  /\ used = [a \in Accounts |-> 0]
  /\ pending = [a \in Accounts |-> 0]
  /\ status = [q \in Requests |-> "ABSENT"]
  /\ owner = [q \in Requests |-> NoRow]
  /\ days = [q \in Requests |-> 0]
  /\ op = [c \in Calls |-> "idle"]
  /\ arg = [c \in Calls |-> NoRow]
  /\ amount = [c \in Calls |-> 0]
  /\ refused = {}

Begin(c, what, row, n) ==
  /\ op[c] = "idle"
  /\ op' = [op EXCEPT ![c] = what]
  /\ arg' = [arg EXCEPT ![c] = row]
  /\ amount' = [amount EXCEPT ![c] = n]

End(c) ==
  /\ op' = [op EXCEPT ![c] = "idle"]
  /\ arg' = [arg EXCEPT ![c] = NoRow]
  /\ amount' = [amount EXCEPT ![c] = 0]

-----------------------------------------------------------------------------
(* SubmitLeaveHandler *)

IgnorePending(a) == Total[a] - used[a]  \* mutant: pendingDays not subtracted

Available(a) == Total[a] - used[a] - pending[a]

(* A DECIMAL(5, 1) column takes n units of daysRequested: to the nearest   *)
(* tenth, halves away from zero.                                           *)
Nearest(n) == (2 * n + Scale) \div (2 * Scale)
Rounded(n) == IF n >= 0 THEN Nearest(n) ELSE - Nearest(- n)

BalanceFound(a) == SentAs[a] \in Accounts

(* The worker of account a submits: the balance is read and checked. *)
SubmitCheck(c, a, n) ==
  /\ op[c] = "idle"
  /\ \/ /\ BalanceFound(a)
        /\ "submits" \in may \/
             \A d \in Calls : op[d] = "submit" => arg[d] # SentAs[a]
        /\ Scale * Available(SentAs[a]) >= n
        /\ Begin(c, "submit", SentAs[a], n)
        /\ UNCHANGED refused
     \/ ~ BalanceFound(a) /\ refused' = refused \cup {a} /\ UNCHANGED calls
  /\ UNCHANGED <<balances, requests>>

SubmitCommit(c) ==
  /\ op[c] = "submit"
  /\ pending' = [pending EXCEPT ![arg[c]] = Rounded(Scale * @ + amount[c])]
  /\ \E q \in Requests :
       /\ status[q] = "ABSENT"
       /\ status' = [status EXCEPT ![q] = "PENDING"]
       /\ owner' = [owner EXCEPT ![q] = arg[c]]
       /\ days' = [days EXCEPT ![q] = Rounded(amount[c])]
  /\ End(c)
  /\ UNCHANGED <<used, refused>>

-----------------------------------------------------------------------------
(* ApproveLeaveHandler and RejectLeaveHandler *)

AnyRequest(q) == status[q] # "ABSENT"  \* mutant: the status is not checked

Reviewable(q) == status[q] = "PENDING"

ReviewCheck(c, q, decision) ==
  /\ Reviewable(q)
  /\ "reviews" \in may \/ \A d \in Calls : arg[d] # q
  /\ Begin(c, decision, q, days[q])
  /\ UNCHANGED <<balances, requests, refused>>

StoreCommand(q, decision) ==  \* mutant: stores the command, not the status
  /\ status' = [status EXCEPT ![q] = op[CHOOSE c \in Calls : arg[c] = q]]
  /\ UNCHANGED <<owner, days, refused>>

Review(q, decision) ==
  /\ status' = [status EXCEPT ![q] = decision]
  /\ UNCHANGED <<owner, days, refused>>

ApproveOnly(c) ==  \* mutant: the days stay pending
  /\ op[c] = "approve"
  /\ used' = [used EXCEPT ![owner[arg[c]]] = @ + amount[c]]
  /\ Review(arg[c], "APPROVED")
  /\ End(c)
  /\ UNCHANGED pending

ApproveCommit(c) ==
  /\ op[c] = "approve"
  /\ used' = [used EXCEPT ![owner[arg[c]]] = @ + amount[c]]
  /\ pending' = [pending EXCEPT ![owner[arg[c]]] = @ - amount[c]]
  /\ Review(arg[c], "APPROVED")
  /\ End(c)

RefundOnReject(c) ==  \* mutant: a rejection gives used days back
  /\ op[c] = "reject"
  /\ used' = [used EXCEPT ![owner[arg[c]]] = @ - amount[c]]
  /\ pending' = [pending EXCEPT ![owner[arg[c]]] = @ - amount[c]]
  /\ Review(arg[c], "REJECTED")
  /\ End(c)

RejectCommit(c) ==
  /\ op[c] = "reject"
  /\ pending' = [pending EXCEPT ![owner[arg[c]]] = @ - amount[c]]
  /\ Review(arg[c], "REJECTED")
  /\ End(c)
  /\ UNCHANGED used

-----------------------------------------------------------------------------
Next ==
  /\ \E c \in Calls :
       \/ \E a \in Accounts, n \in Days : SubmitCheck(c, a, n)
       \/ SubmitCommit(c)
       \/ \E q \in Requests, decision \in {"approve", "reject"} : ReviewCheck(c, q, decision)
       \/ ApproveCommit(c)
       \/ RejectCommit(c)
  /\ UNCHANGED may

Spec == Init /\ [][Next]_vars

-----------------------------------------------------------------------------
TypeOK ==
  /\ may \in Environments
  /\ used \in [Accounts -> Int]
  /\ pending \in [Accounts -> Int]
  /\ status \in [Requests -> Statuses]
  /\ owner \in [Requests -> Accounts \cup {NoRow}]
  /\ days \in [Requests -> Nat]
  /\ op \in [Calls -> {"idle", "submit", "approve", "reject"}]
  /\ arg \in [Calls -> Accounts \cup Requests \cup {NoRow}]
  /\ amount \in [Calls -> Nat]
  /\ refused \subseteq Accounts

DaysOf(a, s) == SumFunctionOnSet(days, {q \in Requests : owner[q] = a /\ status[q] = s})

(* The columns never promise more than totalDays, although the check is    *)
(* made on an unrounded number of days before the transaction, and even    *)
(* when reviews of one request overlap.  Submissions to one account must   *)
(* not overlap.                                                            *)
ColumnsFit ==
  "submits" \notin may => \A a \in Accounts : used[a] + pending[a] <= Total[a]

(* No worker has more leave taken and asked for than totalDays: the days   *)
(* of the approved and the pending requests themselves.  Here reviews of   *)
(* one request must not overlap either, because each further review takes  *)
(* the days of the request from pendingDays once more, and what looks free *)
(* afterwards has been given away.                                         *)
LeaveFits ==
  may \cap {"submits", "reviews"} = {} =>
    \A a \in Accounts : DaysOf(a, "APPROVED") + DaysOf(a, "PENDING") <= Total[a]

(* Balances are not overdrawn, in the columns and in the leave granted.    *)
NoOverdraft == ColumnsFit /\ LeaveFits

(* The two columns are the sums of the days of the requests they stand     *)
(* for, to the unit, however submissions overlap.  Reviews of one request  *)
(* must not.                                                               *)
BalancesMatchRequests ==
  "reviews" \notin may =>
    \A a \in Accounts : /\ pending[a] = DaysOf(a, "PENDING")
                        /\ used[a] = DaysOf(a, "APPROVED")

(* A reviewed request is never reviewed again, as long as reviews of one   *)
(* request do not overlap.                                                 *)
ReviewIsFinal ==
  [][\A q \in Requests :
       "reviews" \notin may /\ status[q] \in {"APPROVED", "REJECTED"} =>
         status'[q] = status[q]]_vars

(* Whatever overlaps, no approved leave is free of charge, and days are    *)
(* never held back for longer than their request is pending.               *)
ApprovedIsCharged ==
  \A a \in Accounts : /\ DaysOf(a, "APPROVED") <= used[a]
                      /\ pending[a] <= DaysOf(a, "PENDING")

(* The columns of a balance tell what its requests say.                    *)
BalancesAreRight == BalancesMatchRequests /\ ApprovedIsCharged

(* "Move from pending to used", "Release pending days": the days that a    *)
(* review takes from pendingDays are there.                                *)
PendingIsNotNegative == \A a \in Accounts : pending[a] >= 0

(* A worker is told that there is no leave balance only if there is none.  *)
BalanceIsFound == refused = {}

=============================================================================

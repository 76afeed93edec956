---------------------------- MODULE LeaveProofs ----------------------------
(***************************************************************************)
(* Theorems about Leave.tla, for every set of calls, requests and          *)
(* accounts, every entitlement and every number of days asked for.         *)
(***************************************************************************)
EXTENDS Leave, Sums

-----------------------------------------------------------------------------
(* Rounding.  A number of days that fits into a whole number of tenths     *)
(* still fits after it has been rounded to tenths.                         *)

LEMMA DivBounds ==
  ASSUME NEW n \in Int, NEW d \in Nat \ {0}
  PROVE  /\ n \div d \in Int
         /\ d * (n \div d) <= n
         /\ n < d * (n \div d) + d
BY Z3

LEMMA NearestFits ==
  ASSUME NEW n \in Int, NEW t \in Int, n <= Scale * t
  PROVE  Nearest(n) \in Int /\ Nearest(n) <= t
<1> DEFINE k == Nearest(n)
<1>1. Scale \in Nat \ {0}
  BY DaysAssumption
<1>2. /\ k \in Int
      /\ 2 * Scale * k <= 2 * n + Scale
  <2>1. 2 * n + Scale \in Int /\ 2 * Scale \in Nat \ {0}
    BY <1>1
  <2>2. QED
    BY <2>1, DivBounds DEF Nearest
<1> HIDE DEF k
<1>3. 2 * Scale * k <= 2 * (Scale * t) + Scale
  BY <1>1, <1>2
<1>4. ASSUME k >= t + 1
      PROVE  FALSE
  <2>1. Scale * k >= Scale * (t + 1)
    BY <1>1, <1>2, <1>4
  <2>2. Scale * (t + 1) = Scale * t + Scale
    BY <1>1
  <2>3. Scale * t \in Int /\ Scale * k \in Int /\ 2 * Scale * k = 2 * (Scale * k)
    BY <1>1, <1>2
  <2>4. QED
    BY <1>1, <1>3, <2>1, <2>2, <2>3
<1>5. QED
  BY <1>2, <1>4 DEF k

LEMMA NearestCovers ==
  ASSUME NEW n \in Int, NEW t \in Int, Scale * t <= n
  PROVE  Nearest(n) \in Int /\ t <= Nearest(n)
<1> DEFINE k == Nearest(n)
<1>1. Scale \in Nat \ {0}
  BY DaysAssumption
<1>2. /\ k \in Int
      /\ 2 * n + Scale < 2 * Scale * k + 2 * Scale
  <2>1. 2 * n + Scale \in Int /\ 2 * Scale \in Nat \ {0}
    BY <1>1
  <2>2. QED
    BY <2>1, DivBounds DEF Nearest
<1> HIDE DEF k
<1>3. 2 * (Scale * t) + Scale < 2 * Scale * k + 2 * Scale
  BY <1>1, <1>2
<1>4. ASSUME k <= t - 1
      PROVE  FALSE
  <2>1. Scale * k <= Scale * (t - 1)
    BY <1>1, <1>2, <1>4
  <2>2. Scale * (t - 1) = Scale * t - Scale
    BY <1>1
  <2>3. Scale * t \in Int /\ Scale * k \in Int /\ 2 * Scale * k = 2 * (Scale * k)
    BY <1>1, <1>2
  <2>4. QED
    BY <1>1, <1>3, <2>1, <2>2, <2>3
<1>5. QED
  BY <1>2, <1>4 DEF k

LEMMA RoundedFits ==
  ASSUME NEW n \in Int
  PROVE  /\ Rounded(n) \in Int
         /\ n >= 0 => Rounded(n) >= 0
         /\ \A t \in Int : n <= Scale * t => Rounded(n) <= t
<1>0. Scale \in Nat \ {0}
  BY DaysAssumption
<1>1. CASE n >= 0
  <2>1. Scale * 0 = 0
    BY <1>0
  <2>2. Nearest(n) \in Int /\ 0 <= Nearest(n)
    BY <1>1, <2>1, NearestCovers
  <2>3. QED
    BY <1>1, <2>2, NearestFits DEF Rounded
<1>2. CASE n < 0
  <2>1. ASSUME NEW t \in Int, n <= Scale * t
        PROVE  - Nearest(- n) <= t
    <3>1. Scale * (- t) <= - n
      BY <1>0, <2>1
    <3>2. Nearest(- n) \in Int /\ - t <= Nearest(- n)
      BY <3>1, NearestCovers
    <3>3. QED
      BY <3>2
  <2>2. Nearest(- n) \in Int
    <3>1. Scale * n <= - n
      BY <1>0, <1>2
    <3>2. QED
      BY <3>1, NearestCovers
  <2>3. QED
    BY <1>2, <2>1, <2>2 DEF Rounded
<1>3. QED
  BY <1>1, <1>2

-----------------------------------------------------------------------------
(* Types.  A call about to commit knows an account, or a request that      *)
(* exists and has an account.                                              *)

CallsInv ==
  \A c \in Calls :
    /\ op[c] = "submit" => arg[c] \in Accounts /\ amount[c] > 0
    /\ op[c] \in {"approve", "reject"} => /\ arg[c] \in Requests
                                          /\ status[arg[c]] # "ABSENT"
                                          /\ amount[c] = days[arg[c]]

OwnerInv == \A q \in Requests : status[q] # "ABSENT" => owner[q] \in Accounts

TypeInv == TypeOK /\ CallsInv /\ OwnerInv

LEMMA TypeStep == TypeInv /\ [Next]_vars => TypeInv'
<1> SUFFICES ASSUME TypeInv, [Next]_vars
             PROVE  TypeInv'
  OBVIOUS
<1> USE DaysAssumption, IdsAssumption
        DEF TypeInv, TypeOK, CallsInv, OwnerInv, Statuses, balances, requests, calls
<1>0. UNCHANGED may
  BY DEF Next, vars
<1>1. ASSUME NEW c \in Calls, NEW a \in Accounts, NEW n \in Days, SubmitCheck(c, a, n)
      PROVE  TypeInv'
  BY <1>0, <1>1 DEF SubmitCheck, Begin, BalanceFound
<1>2. ASSUME NEW c \in Calls, SubmitCommit(c)
      PROVE  TypeInv'
  <2>1. arg[c] \in Accounts /\ amount[c] \in Nat
    BY <1>2 DEF SubmitCommit
  <2>2. /\ Rounded(amount[c]) \in Nat
        /\ Rounded(Scale * pending[arg[c]] + amount[c]) \in Int
    BY <2>1, RoundedFits
  <2>3. PICK q \in Requests :
            /\ status[q] = "ABSENT"
            /\ status' = [status EXCEPT ![q] = "PENDING"]
            /\ owner' = [owner EXCEPT ![q] = arg[c]]
            /\ days' = [days EXCEPT ![q] = Rounded(amount[c])]
    BY <1>2 DEF SubmitCommit
  <2>4. TypeOK'
    BY <1>0, <1>2, <2>1, <2>2, <2>3 DEF SubmitCommit, End
  <2>5. CallsInv' /\ OwnerInv'
    BY <1>2, <2>1, <2>3 DEF SubmitCommit, End
  <2>6. QED
    BY <2>4, <2>5
<1>3. ASSUME NEW c \in Calls, NEW q \in Requests, NEW d \in {"approve", "reject"},
             ReviewCheck(c, q, d)
      PROVE  TypeInv'
  BY <1>0, <1>3 DEF ReviewCheck, Reviewable, Begin
<1>4. ASSUME NEW c \in Calls, ApproveCommit(c)
      PROVE  TypeInv'
  BY <1>0, <1>4 DEF ApproveCommit, Review, End
<1>5. ASSUME NEW c \in Calls, RejectCommit(c)
      PROVE  TypeInv'
  BY <1>0, <1>5 DEF RejectCommit, Review, End
<1>6. CASE UNCHANGED vars
  BY <1>6 DEF vars
<1>7. QED
  BY <1>1, <1>2, <1>3, <1>4, <1>5, <1>6 DEF Next

LEMMA TypeInvariant == Spec => []TypeInv
<1>1. Init => TypeInv
  BY DEF Init, TypeInv, TypeOK, CallsInv, OwnerInv, Statuses
<1>2. QED
  BY <1>1, TypeStep, PTL DEF Spec

(* The columns and the pending calls always have their types, although     *)
(* pendingDays may become negative when reviews race.                      *)
THEOREM TypeCorrect == Spec => []TypeOK
<1>1. TypeInv => TypeOK
  BY DEF TypeInv
<1>2. QED
  BY <1>1, TypeInvariant, PTL

-----------------------------------------------------------------------------
(* No overdraft.  Between the check of a submission and its transaction    *)
(* only reviews touch the account, and they never raise usedDays plus      *)
(* pendingDays; so what was available is still available.                  *)

RoomForSubmits ==
  \A c \in Calls : op[c] = "submit" =>
    /\ Scale * Available(arg[c]) >= amount[c]
    /\ \A d \in Calls : op[d] = "submit" /\ arg[d] = arg[c] => d = c

LEMMA Distributes ==
  ASSUME NEW s \in Int, NEW x \in Int, NEW y \in Int
  PROVE  s * (x - y) = s * x - s * y
OBVIOUS

LEMMA OverdraftStep ==
  ASSUME "submits" \notin may
  PROVE  TypeInv /\ ColumnsFit /\ RoomForSubmits /\ [Next]_vars =>
           ColumnsFit' /\ RoomForSubmits'
<1> SUFFICES ASSUME TypeInv, ColumnsFit, RoomForSubmits, [Next]_vars
             PROVE  ColumnsFit' /\ RoomForSubmits'
  OBVIOUS
<1>0. /\ TypeOK /\ CallsInv /\ OwnerInv
      /\ Scale \in Nat \ {0}
      /\ Total \in [Accounts -> Nat]
  BY DaysAssumption DEF TypeInv
<1>1. ASSUME NEW c \in Calls, NEW a \in Accounts, NEW n \in Days, SubmitCheck(c, a, n)
      PROVE  ColumnsFit' /\ RoomForSubmits'
  <2>1. UNCHANGED <<used, pending>>
    BY <1>1 DEF SubmitCheck, balances
  <2>2. ColumnsFit'
    BY <2>1 DEF ColumnsFit
  <2>3. CASE UNCHANGED calls
    <3>1. UNCHANGED <<op, arg, amount>>
      BY <2>3 DEF calls
    <3>2. \A d \in Calls : Available(arg[d])' = Available(arg[d])
      BY <2>1, <3>1 DEF Available
    <3>3. QED
      BY <2>2, <3>1, <3>2 DEF RoomForSubmits
  <2>4. CASE /\ Begin(c, "submit", SentAs[a], n)
             /\ \A d \in Calls : op[d] = "submit" => arg[d] # SentAs[a]
             /\ Scale * Available(SentAs[a]) >= n
    <3>1. /\ op[c] = "idle"
          /\ op'[c] = "submit" /\ arg'[c] = SentAs[a] /\ amount'[c] = n
          /\ \A d \in Calls : d # c => op'[d] = op[d] /\ arg'[d] = arg[d] /\ amount'[d] = amount[d]
      BY <1>0, <2>4 DEF Begin, TypeOK
    <3>2. \A row : Total[row] - used'[row] - pending'[row] = Available(row)
      BY <2>1 DEF Available
    <3>3. ASSUME NEW d \in Calls, op'[d] = "submit"
          PROVE  Scale * Available(arg[d])' >= amount'[d]
      <4>1. CASE d = c
        BY <2>4, <3>1, <3>2, <4>1 DEF Available
      <4>2. CASE d # c
        BY <3>1, <3>2, <3>3, <4>2 DEF RoomForSubmits, Available
      <4>3. QED
        BY <4>1, <4>2
    <3>4. ASSUME NEW d \in Calls, op'[d] = "submit",
                 NEW e \in Calls, op'[e] = "submit", arg'[e] = arg'[d]
          PROVE  e = d
      BY <2>4, <3>1, <3>4 DEF RoomForSubmits
    <3>5. QED
      <4>1. \A d \in Calls : op'[d] = "submit" =>
               /\ Scale * Available(arg[d])' >= amount'[d]
               /\ \A e \in Calls : op'[e] = "submit" /\ arg'[e] = arg'[d] => e = d
        BY <3>3, <3>4
      <4>2. QED
        BY <2>2, <4>1 DEF RoomForSubmits
  <2>5. QED
    BY <1>1, <2>2, <2>3, <2>4 DEF SubmitCheck
<1>2. ASSUME NEW c \in Calls, SubmitCommit(c)
      PROVE  ColumnsFit' /\ RoomForSubmits'
  <2> DEFINE a == arg[c]
             new == Rounded(Scale * pending[a] + amount[c])
  <2>1. /\ op[c] = "submit" /\ a \in Accounts /\ amount[c] \in Nat
        /\ used[a] \in Int /\ pending[a] \in Int
    BY <1>0, <1>2 DEF SubmitCommit, CallsInv, TypeOK
  <2>2. amount[c] <= Scale * (Total[a] - used[a] - pending[a])
    BY <2>1 DEF RoomForSubmits, Available
  <2>3. Scale * pending[a] + amount[c] <= Scale * (Total[a] - used[a])
    <3> DEFINE left == Total[a] - used[a]
    <3>0. left \in Int
      BY <1>0, <2>1
    <3> HIDE DEF left
    <3>1. Scale * (left - pending[a]) = Scale * left - Scale * pending[a]
      BY <1>0, <2>1, <3>0, Distributes
    <3>2. Scale * left \in Int /\ Scale * pending[a] \in Int
      BY <1>0, <2>1, <3>0
    <3>3. amount[c] <= Scale * (left - pending[a])
      BY <2>2 DEF left
    <3>4. Scale * pending[a] + amount[c] <= Scale * left
      BY <2>1, <3>1, <3>2, <3>3
    <3>5. QED
      BY <3>4 DEF left
  <2>4. new \in Int /\ new <= Total[a] - used[a]
    <3>1. Total[a] - used[a] \in Int /\ Scale * pending[a] + amount[c] \in Int
      BY <1>0, <2>1
    <3>2. QED
      BY <2>3, <3>1, RoundedFits
  <2> HIDE DEF new
  <2>5. /\ pending' = [pending EXCEPT ![a] = new]
        /\ UNCHANGED used
        /\ op' = [op EXCEPT ![c] = "idle"]
        /\ arg' = [arg EXCEPT ![c] = NoRow]
        /\ amount' = [amount EXCEPT ![c] = 0]
    BY <1>2 DEF SubmitCommit, End, new
  <2>6. ColumnsFit'
    BY <1>0, <2>1, <2>4, <2>5 DEF ColumnsFit, TypeOK
  <2>7. RoomForSubmits'
    <3> SUFFICES ASSUME NEW d \in Calls, op'[d] = "submit"
                 PROVE  /\ Scale * Available(arg[d])' >= amount'[d]
                        /\ \A e \in Calls : op'[e] = "submit" /\ arg'[e] = arg'[d] => e = d
      BY DEF RoomForSubmits
    <3>1. d # c /\ op[d] = "submit" /\ arg'[d] = arg[d] /\ amount'[d] = amount[d]
      BY <1>0, <2>5 DEF TypeOK
    <3>2. arg[d] # a
      BY <2>1, <3>1 DEF RoomForSubmits
    <3>3. Available(arg[d])' = Available(arg[d])
      BY <1>0, <2>5, <3>1, <3>2 DEF Available, TypeOK, CallsInv
    <3>4. \A e \in Calls : op'[e] = "submit" => op[e] = "submit" /\ arg'[e] = arg[e]
      BY <1>0, <2>5 DEF TypeOK
    <3>5. QED
      BY <3>1, <3>3, <3>4 DEF RoomForSubmits
  <2>8. QED
    BY <2>6, <2>7
<1>3. ASSUME NEW c \in Calls, NEW q \in Requests, NEW d \in {"approve", "reject"},
             ReviewCheck(c, q, d)
      PROVE  ColumnsFit' /\ RoomForSubmits'
  BY <1>0, <1>3
     DEF ReviewCheck, Begin, balances, ColumnsFit, RoomForSubmits, Available, TypeOK
<1>4. ASSUME NEW c \in Calls, ApproveCommit(c) \/ RejectCommit(c)
      PROVE  ColumnsFit' /\ RoomForSubmits'
  <2>1. /\ arg[c] \in Requests /\ owner[arg[c]] \in Accounts /\ amount[c] \in Nat
        /\ op[c] # "submit"
    BY <1>0, <1>4 DEF ApproveCommit, RejectCommit, CallsInv, OwnerInv, TypeOK
  <2>2. \A a \in Accounts : /\ used'[a] \in Int /\ pending'[a] \in Int
                            /\ used'[a] + pending'[a] <= used[a] + pending[a]
    BY <1>0, <1>4, <2>1 DEF ApproveCommit, RejectCommit, TypeOK
  <2>3. ColumnsFit'
    BY <1>0, <2>2 DEF ColumnsFit, TypeOK
  <2>4. \A d \in Calls : op'[d] = "submit" =>
           /\ op[d] = "submit" /\ arg'[d] = arg[d] /\ amount'[d] = amount[d]
           /\ arg[d] \in Accounts
    BY <1>0, <1>4, <2>1 DEF ApproveCommit, RejectCommit, End, TypeOK, CallsInv
  <2>5. \A a \in Accounts : /\ Available(a) \in Int /\ Available(a)' \in Int
                            /\ Available(a) <= Available(a)'
    BY <1>0, <2>2 DEF Available, TypeOK
  <2>6. \A a \in Accounts : Scale * Available(a) <= Scale * Available(a)'
    BY <1>0, <2>5
  <2>7. RoomForSubmits'
    <3> SUFFICES ASSUME NEW d \in Calls, op'[d] = "submit"
                 PROVE  /\ Scale * Available(arg[d])' >= amount'[d]
                        /\ \A e \in Calls : op'[e] = "submit" /\ arg'[e] = arg'[d] => e = d
      BY DEF RoomForSubmits
    <3>1. /\ Scale * Available(arg[d]) >= amount[d]
          /\ arg[d] \in Accounts /\ arg'[d] = arg[d] /\ amount'[d] = amount[d]
      BY <2>4 DEF RoomForSubmits
    <3>2. Available(arg[d])' = Total[arg[d]] - used'[arg[d]] - pending'[arg[d]]
      BY <3>1 DEF Available
    <3>3. Scale * Available(arg[d])' >= amount'[d]
      BY <1>0, <2>5, <2>6, <3>1, <3>2 DEF TypeOK, Available
    <3>4. QED
      BY <2>4, <3>3 DEF RoomForSubmits
  <2>8. QED
    BY <2>3, <2>7
<1>5. CASE UNCHANGED vars
  BY <1>5 DEF vars, balances, calls, ColumnsFit, RoomForSubmits, Available
<1>6. QED
  BY <1>1, <1>2, <1>3, <1>4, <1>5 DEF Next

LEMMA ColumnsNeverOverdrawn == Spec => []ColumnsFit
<1> DEFINE Room == "submits" \notin may => ColumnsFit /\ RoomForSubmits
<1>1. Init => Room
  BY DaysAssumption DEF Init, ColumnsFit, RoomForSubmits
<1>2. TypeInv /\ Room /\ [Next]_vars => Room'
  BY OverdraftStep DEF Next, vars
<1>3. Room => ColumnsFit
  BY DEF ColumnsFit
<1>4. QED
  BY <1>1, <1>2, <1>3, TypeInvariant, PTL DEF Spec

-----------------------------------------------------------------------------
(* Reviews.  A request stays PENDING between the check of its review and   *)
(* the transaction, because no other call is working on it.                *)

ReviewsAlone ==
  \A c \in Calls : op[c] \in {"approve", "reject"} =>
    /\ status[arg[c]] = "PENDING"
    /\ \A d \in Calls : arg[d] = arg[c] => d = c

LEMMA ReviewStep ==
  ASSUME "reviews" \notin may
  PROVE  TypeInv /\ ReviewsAlone /\ [Next]_vars =>
           /\ ReviewsAlone'
           /\ \A q \in Requests : status[q] \in {"APPROVED", "REJECTED"} =>
                 status'[q] = status[q]
<1> SUFFICES ASSUME TypeInv, ReviewsAlone, [Next]_vars
             PROVE  /\ ReviewsAlone'
                    /\ \A q \in Requests : status[q] \in {"APPROVED", "REJECTED"} =>
                          status'[q] = status[q]
  OBVIOUS
<1> DEFINE Final == \A q \in Requests : status[q] \in {"APPROVED", "REJECTED"} =>
                      status'[q] = status[q]
<1>0. TypeOK /\ CallsInv /\ Accounts \cap Requests = {} /\ NoRow \notin Requests
  BY IdsAssumption DEF TypeInv
<1>1. ASSUME NEW c \in Calls, NEW a \in Accounts, NEW n \in Days, SubmitCheck(c, a, n)
      PROVE  ReviewsAlone' /\ Final
  <2>1. UNCHANGED status
    BY <1>1 DEF SubmitCheck, requests
  <2>2. CASE UNCHANGED calls
    BY <2>1, <2>2 DEF calls, ReviewsAlone
  <2>3. CASE Begin(c, "submit", SentAs[a], n) /\ SentAs[a] \in Accounts
    BY <1>0, <2>1, <2>3 DEF Begin, ReviewsAlone, TypeOK, CallsInv
  <2>4. QED
    BY <1>1, <2>2, <2>3, <2>1 DEF SubmitCheck, BalanceFound
<1>2. ASSUME NEW c \in Calls, SubmitCommit(c)
      PROVE  ReviewsAlone' /\ Final
  <2>1. PICK q \in Requests : status[q] = "ABSENT" /\ status' = [status EXCEPT ![q] = "PENDING"]
    BY <1>2 DEF SubmitCommit
  <2>2. \A p \in Requests : status[p] # "ABSENT" => status'[p] = status[p]
    BY <1>0, <2>1 DEF TypeOK
  <2>3. ReviewsAlone'
    BY <1>0, <1>2, <2>2 DEF SubmitCommit, End, ReviewsAlone, TypeOK, CallsInv
  <2>4. QED
    BY <2>2, <2>3
<1>3. ASSUME NEW c \in Calls, NEW q \in Requests, NEW d \in {"approve", "reject"},
             ReviewCheck(c, q, d)
      PROVE  ReviewsAlone' /\ Final
  BY <1>0, <1>3 DEF ReviewCheck, Reviewable, Begin, requests, ReviewsAlone, TypeOK
<1>4. ASSUME NEW c \in Calls, ApproveCommit(c) \/ RejectCommit(c)
      PROVE  ReviewsAlone' /\ Final
  <2>1. op[c] \in {"approve", "reject"} /\ arg[c] \in Requests /\ status[arg[c]] = "PENDING"
    BY <1>0, <1>4 DEF ApproveCommit, RejectCommit, CallsInv, ReviewsAlone
  <2>2. \A q \in Requests : q # arg[c] => status'[q] = status[q]
    BY <1>0, <1>4, <2>1 DEF ApproveCommit, RejectCommit, Review, TypeOK
  <2>3. \A d \in Calls : op'[d] \in {"approve", "reject"} =>
           d # c /\ op[d] = op'[d] /\ arg'[d] = arg[d] /\ arg[d] \in Requests
    BY <1>0, <1>4 DEF ApproveCommit, RejectCommit, End, TypeOK, CallsInv
  <2>4. \A d \in Calls : arg'[d] \in Requests => arg'[d] = arg[d]
    BY <1>0, <1>4 DEF ApproveCommit, RejectCommit, End, TypeOK
  <2>5. ReviewsAlone'
    BY <2>1, <2>2, <2>3, <2>4 DEF ReviewsAlone
  <2>6. QED
    BY <2>1, <2>2, <2>5
<1>5. CASE UNCHANGED vars
  BY <1>5 DEF vars, requests, calls, ReviewsAlone
<1>6. QED
  BY <1>1, <1>2, <1>3, <1>4, <1>5 DEF Next

(* If reviews of one request do not overlap, an approved or rejected       *)
(* request keeps its status for ever.                                      *)
THEOREM ReviewsAreFinal == Spec => ReviewIsFinal
<1> DEFINE Inv == "reviews" \notin may => ReviewsAlone
<1>1. Init => Inv
  BY DEF Init, ReviewsAlone
<1>2. TypeInv /\ Inv /\ [Next]_vars =>
        /\ Inv'
        /\ [\A q \in Requests :
             "reviews" \notin may /\ status[q] \in {"APPROVED", "REJECTED"} =>
               status'[q] = status[q]]_vars
  BY ReviewStep DEF Next, vars
<1>3. QED
  BY <1>1, <1>2, TypeInvariant, PTL DEF Spec, ReviewIsFinal

-----------------------------------------------------------------------------
(* Rounding, once more.  To round after a whole number of tenths has been  *)
(* added is to add what was rounded; if the sum is negative, where halves  *)
(* are rounded downwards, it may be less.                                  *)

LEMMA DivIsUnique ==
  ASSUME NEW n \in Int, NEW d \in Nat \ {0}, NEW k \in Int,
         d * k <= n, n < d * k + d
  PROVE  n \div d = k
<1> DEFINE q == n \div d
<1>1. q \in Int /\ d * q <= n /\ n < d * q + d
  BY DivBounds
<1> HIDE DEF q
<1>2. ASSUME q >= k + 1
      PROVE  FALSE
  <2>1. d * q >= d * (k + 1)
    BY <1>1, <1>2
  <2>2. d * (k + 1) = d * k + d
    OBVIOUS
  <2>3. d * q \in Int /\ d * k \in Int
    BY <1>1
  <2>4. QED
    BY <1>1, <2>1, <2>2, <2>3
<1>3. ASSUME k >= q + 1
      PROVE  FALSE
  <2>1. d * k >= d * (q + 1)
    BY <1>1, <1>3
  <2>2. d * (q + 1) = d * q + d
    BY <1>1
  <2>3. d * q \in Int /\ d * k \in Int
    BY <1>1
  <2>4. QED
    BY <1>1, <2>1, <2>2, <2>3
<1>4. q = k
  BY <1>1, <1>2, <1>3
<1>5. QED
  BY <1>4 DEF q

LEMMA RoundedSum ==
  ASSUME NEW t \in Int, NEW n \in Nat
  PROVE  /\ Rounded(n) \in Int
         /\ Rounded(Scale * t + n) <= t + Rounded(n)
         /\ t >= 0 => Rounded(Scale * t + n) = t + Rounded(n)
<1> DEFINE k == Nearest(n)
           m == Scale * t + n
           d == 2 * Scale
<1>0. Scale \in Nat \ {0}
  BY DaysAssumption
<1>1. d \in Nat \ {0} /\ m \in Int /\ Scale * t \in Int
  BY <1>0
<1>2. k \in Int /\ d * k <= 2 * n + Scale /\ 2 * n + Scale < d * k + d
  <2>1. 2 * n + Scale \in Int
    BY <1>0
  <2>2. QED
    BY <1>1, <2>1, DivBounds DEF Nearest
<1>3. 2 * m = d * t + 2 * n /\ d * t \in Int /\ d * k \in Int
  BY <1>0, <1>2
<1>4. Rounded(n) = k
  BY DEF Rounded
<1> HIDE DEF k, d
<1>5. d * (t + k) = d * t + d * k
  BY <1>1, <1>2
<1>6. CASE m >= 0
  <2>1. d * (t + k) <= 2 * m + Scale /\ 2 * m + Scale < d * (t + k) + d
    BY <1>0, <1>1, <1>2, <1>3, <1>5
  <2>2. (2 * m + Scale) \div d = t + k
    <3>1. 2 * m + Scale \in Int /\ t + k \in Int
      BY <1>0, <1>1, <1>2
    <3> HIDE DEF m
    <3>2. QED
      BY <1>1, <2>1, <3>1, DivIsUnique
  <2>3. Rounded(m) = t + k
    BY <1>6, <2>2 DEF Rounded, Nearest, d
  <2>4. QED
    BY <1>2, <1>4, <2>3
<1>7. CASE m < 0
  <2> DEFINE j == Nearest(- m)
  <2>1. j \in Int /\ 2 * (- m) + Scale < d * j + d
    <3>1. 2 * (- m) + Scale \in Int
      BY <1>0, <1>1
    <3> HIDE DEF m
    <3>2. QED
      BY <1>1, <3>1, DivBounds DEF Nearest, d
  <2>2. Rounded(m) = - j
    BY <1>1, <1>7 DEF Rounded
  <2> HIDE DEF j
  <2>3. ASSUME - j >= t + k + 1
        PROVE  FALSE
    <3>1. d * (- j) >= d * (t + k + 1)
      <4>1. - j \in Int /\ t + k + 1 \in Int
        BY <1>2, <2>1
      <4>2. QED
        BY <1>1, <2>3, <4>1
    <3>2. d * (t + k + 1) = d * t + d * k + d /\ d * (- j) = - (d * j) /\ d * j \in Int
      BY <1>1, <1>2, <2>1
    <3>3. - (d * j) < d * t + 2 * n - Scale + d
      BY <1>0, <1>1, <1>3, <2>1, <3>2
    <3>4. d = 2 * Scale
      BY DEF d
    <3>5. QED
      BY <1>0, <1>1, <1>2, <1>3, <3>1, <3>2, <3>3, <3>4
  <2>4. t < 0
    <3>1. t >= 0 => Scale * t >= 0
      BY <1>0
    <3>2. QED
      BY <1>1, <1>7, <3>1
  <2>5. QED
    BY <1>2, <1>4, <2>1, <2>2, <2>3, <2>4
<1>8. QED
  BY <1>1, <1>6, <1>7

-----------------------------------------------------------------------------
(* The days of an account's requests of one status, before and after a     *)
(* step.  Only finitely many requests are ever there.                      *)

Submitted == {q \in Requests : status[q] # "ABSENT"}
OfStatus(a, s) == {q \in Requests : owner[q] = a /\ status[q] = s}
Counted == Statuses \ {"ABSENT"}
Share(b, s, a, t, n) == IF b = a /\ s = t THEN n ELSE 0

LEMMA DaysAreCounted ==
  ASSUME TypeOK, IsFiniteSet(Submitted), NEW a, NEW s \in Counted
  PROVE  /\ IsFiniteSet(OfStatus(a, s))
         /\ DaysOf(a, s) = SumFunctionOnSet(days, OfStatus(a, s))
         /\ \A q \in Requests : days[q] \in Nat
         /\ DaysOf(a, s) \in Nat
<1>1. OfStatus(a, s) \subseteq Submitted
  BY DEF OfStatus, Submitted, Counted
<1>2. IsFiniteSet(OfStatus(a, s))
  BY <1>1, FS_Subset
<1>3. DaysOf(a, s) = SumFunctionOnSet(days, OfStatus(a, s))
  BY DEF DaysOf, OfStatus
<1>4. \A q \in Requests : days[q] \in Nat
  BY DEF TypeOK
<1>5. OfStatus(a, s) \subseteq Requests
  BY DEF OfStatus
<1>6. SumFunctionOnSet(days, OfStatus(a, s)) \in Nat
  BY <1>2, <1>4, <1>5, SumIsNat
<1>7. QED
  BY <1>2, <1>3, <1>4, <1>6

LEMMA SubmitDays ==
  ASSUME TypeOK, IsFiniteSet(Submitted), NEW q \in Requests, status[q] = "ABSENT",
         NEW a, NEW n \in Int,
         status' = [status EXCEPT ![q] = "PENDING"],
         owner' = [owner EXCEPT ![q] = a],
         days' = [days EXCEPT ![q] = n]
  PROVE  /\ IsFiniteSet(Submitted')
         /\ \A b, s : s \in Counted =>
              DaysOf(b, s)' = DaysOf(b, s) + Share(b, s, a, "PENDING", n)
<1>1. /\ \A p \in Requests : p # q =>
           status'[p] = status[p] /\ owner'[p] = owner[p] /\ days'[p] = days[p]
      /\ status'[q] = "PENDING" /\ owner'[q] = a /\ days'[q] = n
  BY DEF TypeOK
<1>2. IsFiniteSet(Submitted')
  <2>1. Submitted' = Submitted \cup {q}
    BY <1>1 DEF Submitted
  <2>2. QED
    BY <2>1, FS_AddElement
<1>3. ASSUME NEW b, NEW s \in Counted
      PROVE  DaysOf(b, s)' = DaysOf(b, s) + Share(b, s, a, "PENDING", n)
  <2> DEFINE S == OfStatus(b, s)
  <2>0. /\ IsFiniteSet(S)
        /\ DaysOf(b, s) = SumFunctionOnSet(days, S) /\ DaysOf(b, s) \in Nat
        /\ \A p \in Requests : days[p] \in Nat
    BY DaysAreCounted
  <2>1. /\ IsFiniteSet(S) /\ S \subseteq Requests /\ q \notin S
        /\ DaysOf(b, s) = SumFunctionOnSet(days, S) /\ DaysOf(b, s) \in Int
        /\ \A p \in Requests : days[p] \in Int
    BY <2>0 DEF OfStatus, Counted
  <2>2. DaysOf(b, s)' = SumFunctionOnSet(days', OfStatus(b, s)')
    BY DEF DaysOf, OfStatus
  <2>3. SumFunctionOnSet(days', S) = SumFunctionOnSet(days, S)
    <3>1. \A p \in S : days[p] \in Int /\ days'[p] = days[p]
      BY <1>1, <2>1
    <3>2. IsFiniteSet(S)
      BY <2>1
    <3> HIDE DEF S
    <3>3. QED
      BY ONLY <3>1, <3>2, SumEqual
  <2>4. CASE b = a /\ s = "PENDING"
    <3>1. OfStatus(b, s)' = S \cup {q}
      BY <1>1, <2>4 DEF OfStatus
    <3>2. \A p \in S \cup {q} : days'[p] \in Int
      BY <1>1, <2>1
    <3> HIDE DEF S
    <3>3. SumFunctionOnSet(days', S \cup {q}) = SumFunctionOnSet(days', S) + days'[q]
      BY <2>1, <3>2, SumAdd
    <3>4. QED
      BY <1>1, <2>1, <2>2, <2>3, <2>4, <3>1, <3>3 DEF Share
  <2>5. CASE ~ (b = a /\ s = "PENDING")
    <3>1. OfStatus(b, s)' = S
      BY <1>1, <2>5 DEF OfStatus, Counted
    <3> HIDE DEF S
    <3>2. QED
      BY <2>1, <2>2, <2>3, <2>5, <3>1 DEF Share
  <2>6. QED
    BY <2>4, <2>5
<1>4. QED
  BY <1>2, <1>3

LEMMA ReviewDays ==
  ASSUME TypeOK, IsFiniteSet(Submitted), NEW q \in Submitted,
         NEW t \in Counted, Review(q, t)
  PROVE  /\ IsFiniteSet(Submitted')
         /\ \A b, s : s \in Counted =>
              DaysOf(b, s)' = DaysOf(b, s) - Share(b, s, owner[q], status[q], days[q])
                                          + Share(b, s, owner[q], t, days[q])
<1>1. /\ \A p \in Requests : p # q => status'[p] = status[p]
      /\ status'[q] = t /\ q \in Requests /\ UNCHANGED <<owner, days>>
  BY DEF TypeOK, Review, Submitted
<1>2. IsFiniteSet(Submitted')
  <2>1. Submitted' = Submitted
    BY <1>1 DEF Submitted, Counted
  <2>2. QED
    BY <2>1
<1>3. ASSUME NEW b, NEW s \in Counted
      PROVE  DaysOf(b, s)' = DaysOf(b, s) - Share(b, s, owner[q], status[q], days[q])
                                          + Share(b, s, owner[q], t, days[q])
  <2> DEFINE S == OfStatus(b, s)
  <2>0. /\ IsFiniteSet(S)
        /\ DaysOf(b, s) = SumFunctionOnSet(days, S) /\ DaysOf(b, s) \in Nat
        /\ \A p \in Requests : days[p] \in Nat
    BY DaysAreCounted
  <2>1. /\ IsFiniteSet(S) /\ S \subseteq Requests
        /\ DaysOf(b, s) = SumFunctionOnSet(days, S) /\ DaysOf(b, s) \in Int
        /\ \A p \in Requests : days[p] \in Int
    BY <2>0 DEF OfStatus
  <2>2. DaysOf(b, s)' = SumFunctionOnSet(days, OfStatus(b, s)')
    BY <1>1 DEF DaysOf, OfStatus
  <2>3. CASE owner[q] = b /\ status[q] = s /\ t # s
    <3>1. OfStatus(b, s)' = S \ {q} /\ q \in S
      BY <1>1, <2>3 DEF OfStatus
    <3>2. \A p \in S : days[p] \in Int
      BY <2>1
    <3> HIDE DEF S
    <3>3. SumFunctionOnSet(days, S) = SumFunctionOnSet(days, S \ {q}) + days[q]
      BY <2>1, <3>1, <3>2, SumRemove
    <3>4. IsFiniteSet(S \ {q}) /\ \A p \in S \ {q} : days[p] \in Int
      BY <2>1, <3>2, FS_Subset
    <3>5. SumFunctionOnSet(days, S \ {q}) \in Int /\ days[q] \in Int
      BY <1>1, <2>1, <3>4, SumIsInt
    <3>6. QED
      BY <2>1, <2>2, <2>3, <3>1, <3>3, <3>5 DEF Share
  <2>4. CASE owner[q] = b /\ status[q] # s /\ t = s
    <3>1. OfStatus(b, s)' = S \cup {q} /\ q \notin S
      BY <1>1, <2>4 DEF OfStatus
    <3>2. \A p \in S \cup {q} : days[p] \in Int
      BY <1>1, <2>1
    <3> HIDE DEF S
    <3>3. SumFunctionOnSet(days, S \cup {q}) = SumFunctionOnSet(days, S) + days[q]
      BY <2>1, <3>1, <3>2, SumAdd
    <3>4. QED
      BY <1>1, <2>1, <2>2, <2>4, <3>1, <3>3 DEF Share
  <2>5. CASE owner[q] # b \/ (status[q] = s <=> t = s)
    <3>1. OfStatus(b, s)' = S
      BY <1>1, <2>5 DEF OfStatus
    <3>2. days[q] \in Int
      BY <1>1, <2>1
    <3> HIDE DEF S
    <3>3. QED
      BY <2>1, <2>2, <2>5, <3>1, <3>2 DEF Share
  <2>6. QED
    BY <2>3, <2>4, <2>5
<1>4. QED
  BY <1>2, <1>3

(* The invariant: only finitely many requests have been submitted, so that *)
(* their days have a sum, and a review that is alone with its request      *)
(* finds it as it was when the review decided.                             *)
BalanceInv ==
  /\ IsFiniteSet(Submitted)
  /\ ApprovedIsCharged
  /\ BalancesMatchRequests
  /\ "reviews" \notin may => ReviewsAlone

LEMMA SubmitBalance ==
  ASSUME TypeInv, BalanceInv, NEW c \in Calls, SubmitCommit(c), UNCHANGED may
  PROVE  IsFiniteSet(Submitted') /\ ApprovedIsCharged' /\ BalancesMatchRequests'
<1> DEFINE a == arg[c]
           n == Rounded(amount[c])
           new == Rounded(Scale * pending[a] + amount[c])
<1>0. TypeOK /\ IsFiniteSet(Submitted) /\ ApprovedIsCharged /\ BalancesMatchRequests
  BY DEF TypeInv, BalanceInv
<1>1. a \in Accounts /\ amount[c] \in Nat /\ pending[a] \in Int
  BY <1>0 DEF TypeInv, CallsInv, SubmitCommit, TypeOK
<1>2. /\ n \in Int /\ new \in Int
      /\ new <= pending[a] + n
      /\ pending[a] >= 0 => new = pending[a] + n
  <2>1. Scale * pending[a] + amount[c] \in Int
    BY <1>1, DaysAssumption
  <2>2. new \in Int
    BY <2>1, RoundedFits
  <2>3. QED
    BY <1>1, <2>2, RoundedSum
<1>3. PICK q \in Requests :
          /\ status[q] = "ABSENT"
          /\ status' = [status EXCEPT ![q] = "PENDING"]
          /\ owner' = [owner EXCEPT ![q] = a]
          /\ days' = [days EXCEPT ![q] = n]
  BY DEF SubmitCommit
<1>4. UNCHANGED used /\ pending' = [pending EXCEPT ![a] = new]
  BY DEF SubmitCommit
<1> HIDE DEF n, new, a
<1>5. /\ IsFiniteSet(Submitted')
      /\ \A b, s : s \in Counted =>
           DaysOf(b, s)' = DaysOf(b, s) + Share(b, s, a, "PENDING", n)
  <2>1. TypeOK /\ IsFiniteSet(Submitted) /\ n \in Int
    BY <1>0, <1>2
  <2>2. QED
    BY <1>3, <2>1, SubmitDays
<1>6. ASSUME NEW b \in Accounts
      PROVE  /\ DaysOf(b, "APPROVED")' = DaysOf(b, "APPROVED")
             /\ DaysOf(b, "PENDING")' = DaysOf(b, "PENDING") + IF b = a THEN n ELSE 0
             /\ DaysOf(b, "APPROVED") \in Nat /\ DaysOf(b, "PENDING") \in Nat
             /\ used'[b] = used[b] /\ used[b] \in Int /\ pending[b] \in Int
             /\ pending'[b] = IF b = a THEN new ELSE pending[b]
  <2>1. "PENDING" \in Counted /\ "APPROVED" \in Counted
    BY DEF Counted, Statuses
  <2>2. DaysOf(b, "APPROVED") \in Nat /\ DaysOf(b, "PENDING") \in Nat
    BY <1>0, <2>1, DaysAreCounted
  <2>3. DaysOf(b, "APPROVED")' = DaysOf(b, "APPROVED") + 0
    BY <1>5, <2>1 DEF Share
  <2>4. DaysOf(b, "PENDING")' = DaysOf(b, "PENDING") + IF b = a THEN n ELSE 0
    BY <1>5, <2>1 DEF Share
  <2>5. QED
    BY <1>0, <1>4, <2>2, <2>3, <2>4 DEF TypeOK
<1>7. ApprovedIsCharged'
  BY <1>0, <1>2, <1>6 DEF ApprovedIsCharged, Share
<1>8. BalancesMatchRequests'
  BY <1>0, <1>2, <1>6 DEF BalancesMatchRequests, Share
<1>9. QED
  BY <1>5, <1>7, <1>8

LEMMA ReviewBalance ==
  ASSUME TypeInv, BalanceInv, NEW c \in Calls, ApproveCommit(c) \/ RejectCommit(c),
         UNCHANGED may
  PROVE  IsFiniteSet(Submitted') /\ ApprovedIsCharged' /\ BalancesMatchRequests'
<1> DEFINE q == arg[c]
           t == IF op[c] = "approve" THEN "APPROVED" ELSE "REJECTED"
           n == amount[c]
           a == owner[q]
<1>0. TypeOK /\ IsFiniteSet(Submitted) /\ ApprovedIsCharged /\ BalancesMatchRequests
  BY DEF TypeInv, BalanceInv
<1>1. /\ q \in Submitted /\ a \in Accounts /\ n = days[q] /\ n \in Nat
      /\ "reviews" \notin may => status[q] = "PENDING"
  BY <1>0 DEF TypeInv, BalanceInv, CallsInv, OwnerInv, ReviewsAlone, ApproveCommit,
              RejectCommit, Submitted, TypeOK
<1>2. /\ Review(q, t) /\ t \in {"APPROVED", "REJECTED"}
      /\ pending' = [pending EXCEPT ![a] = @ - n]
      /\ used' = [used EXCEPT ![a] = @ + IF t = "APPROVED" THEN n ELSE 0]
  <2>1. CASE ApproveCommit(c)
    BY <2>1 DEF ApproveCommit, Share
  <2>2. CASE RejectCommit(c)
    BY <1>0, <1>1, <2>2 DEF RejectCommit, Share, TypeOK
  <2>3. QED
    BY <2>1, <2>2
<1> HIDE DEF q, t, n, a
<1>3. /\ IsFiniteSet(Submitted')
      /\ \A b, s : s \in Counted =>
           DaysOf(b, s)' = DaysOf(b, s) - Share(b, s, owner[q], status[q], days[q])
                                       + Share(b, s, owner[q], t, days[q])
  BY <1>0, <1>1, <1>2, ReviewDays DEF Counted, Statuses
<1>4. ASSUME NEW b \in Accounts
      PROVE  /\ DaysOf(b, "APPROVED")' = DaysOf(b, "APPROVED")
                   - Share(b, "APPROVED", a, status[q], n) + Share(b, "APPROVED", a, t, n)
             /\ DaysOf(b, "PENDING")' = DaysOf(b, "PENDING")
                   - Share(b, "PENDING", a, status[q], n)
             /\ DaysOf(b, "APPROVED") \in Nat /\ DaysOf(b, "PENDING") \in Nat
             /\ used[b] \in Int /\ pending[b] \in Int
             /\ used'[b] = used[b] + Share(b, "APPROVED", a, t, n)
             /\ pending'[b] = pending[b] - IF a = b THEN n ELSE 0
  <2>1. "PENDING" \in Counted /\ "APPROVED" \in Counted
    BY DEF Counted, Statuses
  <2>2. DaysOf(b, "APPROVED") \in Nat /\ DaysOf(b, "PENDING") \in Nat
    BY <1>0, <2>1, DaysAreCounted
  <2>3. DaysOf(b, "APPROVED")' = DaysOf(b, "APPROVED")
           - Share(b, "APPROVED", a, status[q], n) + Share(b, "APPROVED", a, t, n)
    BY <1>1, <1>3, <2>1 DEF a
  <2>4. DaysOf(b, "PENDING")' = DaysOf(b, "PENDING")
           - Share(b, "PENDING", a, status[q], n) + Share(b, "PENDING", a, t, n)
    BY <1>1, <1>3, <2>1 DEF a
  <2>5. Share(b, "PENDING", a, t, n) = 0 /\ Share(b, "PENDING", a, status[q], n) \in Int
    BY <1>1, <1>2 DEF Share
  <2>6. used[b] \in Int /\ pending[b] \in Int
    BY <1>0 DEF TypeOK
  <2>7. /\ used'[b] = used[b] + Share(b, "APPROVED", a, t, n)
        /\ pending'[b] = pending[b] - IF a = b THEN n ELSE 0
    BY <1>0, <1>1, <1>2, <2>6 DEF TypeOK, Share
  <2>8. QED
    BY <2>2, <2>3, <2>4, <2>5, <2>6, <2>7
<1>5. ApprovedIsCharged'
  BY <1>0, <1>1, <1>4 DEF ApprovedIsCharged, Share
<1>6. BalancesMatchRequests'
  BY <1>0, <1>1, <1>2, <1>4 DEF BalancesMatchRequests, Share
<1>7. QED
  BY <1>3, <1>5, <1>6

LEMMA BalanceStep == TypeInv /\ BalanceInv /\ [Next]_vars => BalanceInv'
<1> SUFFICES ASSUME TypeInv, BalanceInv, [Next]_vars
             PROVE  BalanceInv'
  OBVIOUS
<1>0. UNCHANGED may /\ ("reviews" \notin may => ReviewsAlone')
  BY ReviewStep DEF Next, vars, BalanceInv
<1>1. CASE UNCHANGED <<balances, requests>>
  <2>1. UNCHANGED <<used, pending, status, owner, days>>
    BY <1>1 DEF balances, requests
  <2>2. \A b, s : DaysOf(b, s)' = DaysOf(b, s)
    BY <2>1 DEF DaysOf
  <2>3. Submitted' = Submitted
    BY <2>1 DEF Submitted
  <2>4. ApprovedIsCharged' /\ BalancesMatchRequests'
    BY <1>0, <2>1, <2>2 DEF BalanceInv, ApprovedIsCharged, BalancesMatchRequests
  <2>5. QED
    BY <1>0, <2>3, <2>4 DEF BalanceInv
<1>2. ASSUME NEW c \in Calls, SubmitCommit(c)
      PROVE  BalanceInv'
  BY <1>0, <1>2, SubmitBalance DEF BalanceInv
<1>3. ASSUME NEW c \in Calls, ApproveCommit(c) \/ RejectCommit(c)
      PROVE  BalanceInv'
  BY <1>0, <1>3, ReviewBalance DEF BalanceInv
<1>4. QED
  BY <1>1, <1>2, <1>3 DEF Next, SubmitCheck, ReviewCheck, vars

(* pendingDays and usedDays are the sums of the days of the requests that  *)
(* are PENDING and APPROVED, unless reviews of one request overlap; and    *)
(* when they do, approved leave is still charged and pending days are      *)
(* still released.  However submissions overlap, and for any day counts,   *)
(* although the database adds what it has not rounded yet.                 *)
THEOREM ColumnsAreSums == Spec => []BalancesAreRight
<1>1. Init => BalanceInv
  <2> SUFFICES ASSUME Init
               PROVE  BalanceInv
    OBVIOUS
  <2>1. Submitted = {}
    BY DEF Init, Submitted
  <2>2. \A a : DaysOf(a, "PENDING") = 0 /\ DaysOf(a, "APPROVED") = 0
    <3>1. ASSUME NEW a, NEW s \in Counted
          PROVE  DaysOf(a, s) = 0
      <4>1. {q \in Requests : owner[q] = a /\ status[q] = s} = {}
        BY DEF Init, Counted
      <4>2. QED
        BY <4>1, SumEmpty DEF DaysOf
    <3>2. QED
      BY <3>1 DEF Counted, Statuses
  <2>3. \A a \in Accounts : used[a] = 0 /\ pending[a] = 0
    BY DEF Init
  <2>4. ApprovedIsCharged /\ BalancesMatchRequests
    BY <2>2, <2>3 DEF ApprovedIsCharged, BalancesMatchRequests
  <2>5. ReviewsAlone
    BY DEF Init, ReviewsAlone
  <2>6. QED
    BY <2>1, <2>4, <2>5, FS_EmptySet DEF BalanceInv
<1>2. BalanceInv => BalancesAreRight
  BY DEF BalanceInv, BalancesAreRight
<1>3. QED
  BY <1>1, <1>2, BalanceStep, TypeInvariant, PTL DEF Spec

(* If submissions to one account do not overlap, usedDays plus pendingDays *)
(* never exceeds totalDays: rounding to tenths cannot exceed it, and       *)
(* neither can reviews that race.  If the reviews of a request do not      *)
(* overlap either, the same holds of the days of the approved and pending  *)
(* requests, because the columns are their sums.                           *)
THEOREM NeverOverdrawn == Spec => []NoOverdraft
<1>1. TypeInv /\ ColumnsFit /\ BalancesAreRight => LeaveFits
  <2> SUFFICES ASSUME TypeInv, ColumnsFit, BalancesAreRight,
                      may \cap {"submits", "reviews"} = {}, NEW a \in Accounts
               PROVE  DaysOf(a, "APPROVED") + DaysOf(a, "PENDING") <= Total[a]
    BY DEF LeaveFits
  <2>1. "submits" \notin may /\ "reviews" \notin may
    OBVIOUS
  <2>2. pending[a] = DaysOf(a, "PENDING") /\ used[a] = DaysOf(a, "APPROVED")
    BY <2>1 DEF BalancesAreRight, BalancesMatchRequests
  <2>3. used[a] + pending[a] <= Total[a]
    BY <2>1 DEF ColumnsFit
  <2>4. QED
    BY <2>2, <2>3
<1>2. ColumnsFit /\ LeaveFits => NoOverdraft
  BY DEF NoOverdraft
<1>3. QED
  BY <1>1, <1>2, TypeInvariant, ColumnsNeverOverdrawn, ColumnsAreSums, PTL

=============================================================================

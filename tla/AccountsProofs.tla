--------------------------- MODULE AccountsProofs ---------------------------
(***************************************************************************)
(* Theorems about Accounts.tla, for every set of users, requests, tokens   *)
(* and environments, and every number of attempts and duration of a lock.  *)
(***************************************************************************)
EXTENDS Accounts, TLAPS

(* What tokens and requests refer to. *)
TokensInv ==
  /\ \A t \in Tokens : key[t] # "unborn" =>
       /\ token[t].user \in Users
       /\ token[t].family = t
       /\ token[t].login \in Sessions
       /\ row[token[t].login].user = token[t].user
  /\ \A t \in revoked : key[t] # "unborn"

Refreshing == {"get", "revoke", "delete", "lookup", "renew"}

ForToken == Refreshing \cup {"forget"}

CallInv(c) ==
  /\ call[c].step = "idle" <=> call[c].user = None
  /\ call[c].token # None => key[call[c].token] # "unborn"
  /\ call[c].step \in {"issue", "audit"} =>
       /\ call[c].session \in Sessions
       /\ row[call[c].session].user = call[c].user
  /\ call[c].step = "audit" =>
       /\ call[c].token \in Tokens
       /\ key[call[c].token] # "unborn"
       /\ token[call[c].token].login = call[c].session
  /\ call[c].step \in ForToken => call[c].token \in sent
  /\ call[c].step \in Refreshing => token[call[c].token].user = call[c].user
  /\ call[c].step = "change" => call[c].new \in Passwords

CallsInv == \A c \in Calls : CallInv(c)

OneAtATime ==
  "overlap" \notin may =>
    \A c, d \in Calls, u \in Users : Concerns(c, u) /\ Concerns(d, u) => c = d

TypeInv == TypeOK /\ TokensInv /\ CallsInv /\ OneAtATime

(* What a request has read is still so, as it is the only one of its user. *)
LocalOf(c) ==
  LET u == call[c].user
  IN /\ call[c].step = "count" => call[c].seen = failures[u]
     /\ call[c].step \in {"count", "reset", "session"} => lockedUntil[u] <= now

LocalInv == "overlap" \notin may => \A c \in Calls : LocalOf(c)

AccountInv == TypeInv /\ CounterLocks /\ LocalInv

-----------------------------------------------------------------------------
(* Steps of a request *)

(* What is known of tokens and sessions stays known. *)
Grows ==
  /\ sent \subseteq sent'
  /\ \A t \in Tokens : key[t] # "unborn" => key'[t] # "unborn" /\ token'[t] = token[t]
  /\ \A s \in Sessions : row[s].user # None => row'[s].user = row[s].user

LEMMA IdleType ==
  Idle \in CallType /\ Idle.step = "idle" /\ Idle.user = None /\ Idle.token = None
BY DEF Idle, CallType, Steps

LEMMA GoOnEffect ==
  ASSUME call \in [Calls -> CallType], NEW c \in Calls, NEW from \in Steps, NEW to \in Steps,
         GoOn(c, from, to)
  PROVE  /\ call' \in [Calls -> CallType] /\ call[c].step = from
         /\ call'[c].step = to /\ call'[c].user = call[c].user
         /\ call'[c].seen = call[c].seen
         /\ call'[c].token = call[c].token /\ call'[c].session = call[c].session
         /\ call'[c].new = call[c].new
         /\ \A d \in Calls : d # c => call'[d] = call[d]
<1>1. call[c] \in CallType
  OBVIOUS
<1>2. call'[c] = [call[c] EXCEPT !.step = to]
  BY DEF GoOn
<1>3. call'[c] \in CallType
  BY <1>1, <1>2 DEF CallType
<1>4. QED
  BY <1>1, <1>2, <1>3 DEF GoOn, CallType

LEMMA EndEffect ==
  ASSUME call \in [Calls -> CallType], NEW c \in Calls, NEW from, End(c, from)
  PROVE  /\ call' \in [Calls -> CallType]
         /\ call[c].step = from
         /\ call'[c] = Idle
         /\ \A d \in Calls : d # c => call'[d] = call[d]
BY IdleType DEF End

LEMMA BeginEffect ==
  ASSUME call \in [Calls -> CallType], NEW c \in Calls, NEW u \in Users,
         NEW next \in CallType, Begin(c, u, next)
  PROVE  /\ call' \in [Calls -> CallType]
         /\ call[c].step = "idle" /\ Alone(u)
         /\ call'[c].user = u /\ call'[c].step = next.step
         /\ call'[c].seen = next.seen
         /\ call'[c].token = next.token /\ call'[c].session = next.session
         /\ call'[c].new = next.new
         /\ \A d \in Calls : d # c => call'[d] = call[d]
<1>1. call'[c] = [next EXCEPT !.user = u]
  BY DEF Begin
<1>2. call'[c] \in CallType
  BY <1>1 DEF CallType
<1>3. QED
  BY <1>1, <1>2 DEF Begin, CallType

(* At most one request per user, unless they may overlap. *)
LEMMA StillConcerns ==
  ASSUME TypeInv, Grows, NEW d \in Calls, NEW u \in Users, Concerns(d, u)',
         call'[d].user \in {call[d].user, None}, call'[d].token \in {call[d].token, None}
  PROVE  Concerns(d, u)
<1>1. call[d] \in CallType /\ CallInv(d) /\ u # None
  BY NoneAssumption DEF TypeInv, TypeOK, CallsInv
<1>2. CASE call'[d].user = u
  BY <1>1, <1>2 DEF Concerns
<1>3. CASE call'[d].token # None /\ token'[call'[d].token].user = u
  <2>1. call'[d].token = call[d].token /\ call[d].token \in Tokens /\ key[call[d].token] # "unborn"
    BY <1>1, <1>3 DEF CallInv, CallType
  <2>2. token'[call[d].token] = token[call[d].token]
    BY <2>1 DEF Grows
  <2>3. QED
    BY <1>3, <2>1, <2>2 DEF Concerns
<1>4. QED
  BY <1>2, <1>3 DEF Concerns

LEMMA StillOne ==
  ASSUME TypeInv, Grows, UNCHANGED may,
         \A d \in Calls : /\ call'[d].user \in {call[d].user, None}
                          /\ call'[d].token \in {call[d].token, None}
  PROVE  OneAtATime'
<1>1. \A d \in Calls, u \in Users : Concerns(d, u)' => Concerns(d, u)
  BY StillConcerns
<1>2. QED
  BY <1>1 DEF OneAtATime, TypeInv

LEMMA BegunAlone ==
  ASSUME TypeInv, Grows, UNCHANGED may, NEW c \in Calls,
         \A u \in Users : Concerns(c, u)' => Alone(u),
         \A d \in Calls : d # c => call'[d] = call[d]
  PROVE  OneAtATime'
<1>1. \A d \in Calls, u \in Users : d # c /\ Concerns(d, u)' => Concerns(d, u)
  BY StillConcerns
<1>2. QED
  BY <1>1 DEF OneAtATime, TypeInv, Alone

LEMMA OthersKeep ==
  ASSUME TypeInv, Grows, NEW d \in Calls, call'[d] = call[d]
  PROVE  CallInv(d)'
<1>1. CallInv(d) /\ call[d] \in CallType /\ sent \subseteq Tokens
      /\ \A t \in sent : key[t] # "unborn"
  BY DEF TypeInv, TypeOK, CallsInv
<1>2. call[d].step # "idle" => call[d].user # None
  BY <1>1 DEF CallInv
<1>3. QED
  BY <1>1, <1>2 DEF CallInv, CallType, Grows, ForToken, Refreshing

(* A request that has ended, and a step that leaves all tables alone. *)
LEMMA EndKeeps ==
  ASSUME TypeInv, Grows, NEW c \in Calls, call'[c] = Idle, UNCHANGED may,
         \A d \in Calls : d # c => call'[d] = call[d]
  PROVE  CallsInv' /\ OneAtATime'
<1>1. CallInv(c)'
  BY IdleType DEF CallInv, ForToken, Refreshing
<1>2. OneAtATime'
  BY StillOne, IdleType
<1>3. QED
  BY <1>1, <1>2, OthersKeep DEF CallsInv

LEMMA TablesKeep ==
  ASSUME TypeInv, call' \in [Calls -> CallType],
         UNCHANGED <<may, now, account, row, audited, redis, sent>>
  PROVE  TypeOK' /\ TokensInv' /\ Grows
BY DEF TypeInv, TypeOK, TokensInv, Grows, account, redis

-----------------------------------------------------------------------------
(* Every step preserves types and references. *)

LEMMA BeginType ==
  ASSUME TypeInv, NEW c \in Calls, NEW u \in Users, NEW next \in CallType, Begin(c, u, next),
         next.step \notin {"idle", "issue", "audit"}, next.token \in sent \cup {None},
         next.token # None => Alone(token[next.token].user),
         next.step \in ForToken => next.token # None,
         next.step \in Refreshing => token[next.token].user = u,
         next.step = "change" => next.new \in Passwords,
         UNCHANGED <<may, now, account, row, audited, redis, sent>>
  PROVE  TypeInv'
<1>1. call \in [Calls -> CallType] /\ \A t \in sent : t \in Tokens /\ key[t] # "unborn"
  BY DEF TypeInv, TypeOK
<1>2. /\ call' \in [Calls -> CallType] /\ Alone(u)
      /\ call'[c].user = u /\ call'[c].step = next.step /\ call'[c].token = next.token
      /\ call'[c].new = next.new
      /\ \A d \in Calls : d # c => call'[d] = call[d]
  BY <1>1, BeginEffect
<1>3. TypeOK' /\ TokensInv' /\ Grows
  BY <1>2, TablesKeep
<1>4. key' = key /\ token' = token /\ sent' = sent /\ may' = may
  BY DEF redis
<1>5. CallInv(c)'
  BY <1>1, <1>2, <1>4, NoneAssumption DEF CallInv
<1>6. OneAtATime'
  <2>1. \A v \in Users : Concerns(c, v)' => Alone(v)
    BY <1>2, <1>4 DEF Concerns
  <2>2. QED
    BY <1>2, <1>3, <1>4, <2>1, BegunAlone
<1>7. QED
  BY <1>2, <1>3, <1>5, <1>6, OthersKeep DEF TypeInv, CallsInv

LEMMA StartLoginType ==
  ASSUME TypeInv, NEW c \in Calls, NEW u \in Users, NEW p \in Passwords, StartLogin(c, u, p)
  PROVE  TypeInv'
<1> DEFINE next == [Idle EXCEPT !.step = IF verifyPassword(u, p) THEN "reset" ELSE "count",
                                !.seen = failures[u]]
<1>1. next \in CallType /\ next.step \in {"reset", "count"} /\ next.token = None
  BY DEF TypeInv, TypeOK, Idle, CallType, Steps
<1>2. Begin(c, u, next) /\ UNCHANGED <<may, now, account, row, audited, redis, sent>>
  BY DEF StartLogin
<1> HIDE DEF next
<1>3. QED
  BY <1>1, <1>2, BeginType DEF ForToken, Refreshing

LEMMA CountFailureType ==
  ASSUME TypeInv, NEW c \in Calls, CountFailure(c)
  PROVE  TypeInv'
<1>1. call[c].user \in Users /\ call[c].seen \in Nat
  <2>1. call[c] \in CallType /\ CallInv(c) /\ call[c].step = "count"
    BY DEF TypeInv, TypeOK, CallsInv, CountFailure, End
  <2>2. QED
    BY <2>1 DEF CallInv, CallType
<1>2. /\ call' \in [Calls -> CallType] /\ call'[c] = Idle
      /\ \A d \in Calls : d # c => call'[d] = call[d]
  BY EndEffect DEF CountFailure, TypeInv, TypeOK
<1>3. /\ failures' \in [Users -> Nat] /\ lockedUntil' \in [Users -> Nat]
      /\ UNCHANGED <<may, now, active, password, row, audited, redis, sent>>
  <2> DEFINE n == call[c].seen + 1
             end == now + LOCK_DURATION
  <2>1. n \in Nat /\ end \in Nat
    BY <1>1, NumbersAssumption DEF TypeInv, TypeOK
  <2>2. /\ failures' = [failures EXCEPT ![call[c].user] = n]
        /\ lockedUntil' = IF TooMany(n) THEN [lockedUntil EXCEPT ![call[c].user] = end]
                                        ELSE lockedUntil
        /\ UNCHANGED <<may, now, active, password, row, audited, redis, sent>>
    BY DEF CountFailure
  <2> HIDE DEF n, end
  <2>3. QED
    BY <1>1, <2>1, <2>2 DEF TypeInv, TypeOK
<1>4. TypeOK' /\ TokensInv' /\ Grows
  BY <1>2, <1>3 DEF TypeInv, TypeOK, TokensInv, Grows, redis
<1>5. QED
  BY <1>2, <1>3, <1>4, EndKeeps DEF TypeInv

LEMMA ResetFailuresType ==
  ASSUME TypeInv, NEW c \in Calls, ResetFailures(c)
  PROVE  TypeInv'
<1>1. CallInv(c) /\ call \in [Calls -> CallType]
  BY DEF TypeInv, TypeOK, CallsInv
<1>2. GoOn(c, "reset", "session") /\ "reset" \in Steps /\ "session" \in Steps
  BY DEF ResetFailures, Steps
<1>3. /\ call' \in [Calls -> CallType] /\ call[c].step = "reset"
      /\ call'[c].step = "session" /\ call'[c].user = call[c].user
      /\ call'[c].token = call[c].token
      /\ \A d \in Calls : d # c => call'[d] = call[d]
  BY <1>1, <1>2, GoOnEffect
<1>4. /\ failures' \in [Users -> Nat] /\ lockedUntil' \in [Users -> Nat]
      /\ UNCHANGED <<may, now, active, password, row, audited, redis, sent>>
  <2>1. /\ failures' = [failures EXCEPT ![call[c].user] = 0]
        /\ lockedUntil' = [lockedUntil EXCEPT ![call[c].user] = 0]
        /\ UNCHANGED <<may, now, active, password, row, audited, redis, sent>>
    BY DEF ResetFailures
  <2>2. failures \in [Users -> Nat] /\ lockedUntil \in [Users -> Nat]
    BY DEF TypeInv, TypeOK
  <2>3. QED
    BY <2>1, <2>2
<1>5. TypeOK' /\ TokensInv' /\ Grows
  BY <1>3, <1>4 DEF TypeInv, TypeOK, TokensInv, Grows, redis
<1>6. CallInv(c)'
  BY <1>1, <1>3, <1>4 DEF CallInv, ForToken, Refreshing, redis
<1>7. OneAtATime'
  BY <1>3, <1>4, <1>5, StillOne
<1>8. QED
  BY <1>3, <1>5, <1>6, <1>7, OthersKeep DEF TypeInv, CallsInv

LEMMA CreateSessionType ==
  ASSUME TypeInv, NEW c \in Calls, CreateSession(c)
  PROVE  TypeInv'
<1>1. CallInv(c) /\ call \in [Calls -> CallType] /\ call[c] \in CallType
      /\ row \in [Sessions -> [user : Users \cup {None}, isActive : BOOLEAN]]
      /\ call[c].step = "session"
  BY DEF TypeInv, TypeOK, CallsInv, CreateSession
<1>2. call[c].user \in Users
  BY <1>1 DEF CallInv, CallType
<1>3. PICK s \in Sessions :
        /\ row[s] = NoRow
        /\ row' = [row EXCEPT ![s] = [user |-> call[c].user, isActive |-> TRUE]]
        /\ call' = [call EXCEPT ![c] = [call[c] EXCEPT !.step = "issue", !.session = s]]
  BY DEF CreateSession
<1>4. /\ call'[c] = [call[c] EXCEPT !.step = "issue", !.session = s]
      /\ \A d \in Calls : d # c => call'[d] = call[d]
  BY <1>1, <1>3
<1>5. call'[c] \in CallType /\ call'[c].step = "issue" /\ call'[c].session = s
      /\ call'[c].token = call[c].token
      /\ call'[c].user = call[c].user
  BY <1>1, <1>4 DEF CallType, Steps
<1>6. call' \in [Calls -> CallType]
  BY <1>1, <1>3, <1>4, <1>5
<1>7. /\ row' \in [Sessions -> [user : Users \cup {None}, isActive : BOOLEAN]]
      /\ row'[s].user = call[c].user
      /\ \A r \in Sessions : row[r].user # None => row'[r] = row[r]
  BY <1>1, <1>2, <1>3 DEF NoRow
<1>8. UNCHANGED <<may, now, account, audited, redis, sent>>
  BY DEF CreateSession
<1>9. TypeOK'
  BY <1>6, <1>7, <1>8 DEF TypeInv, TypeOK, account, redis
<1>10. TokensInv' /\ Grows
  BY <1>7, <1>8, NoneAssumption DEF TypeInv, TokensInv, Grows, redis
<1>11. CallInv(c)'
  BY <1>1, <1>2, <1>5, <1>7, <1>8, NoneAssumption DEF CallInv, ForToken, Refreshing, redis
<1>12. OneAtATime'
  BY <1>4, <1>5, <1>8, <1>10, StillOne
<1>13. QED
  BY <1>4, <1>9, <1>10, <1>11, <1>12, OthersKeep DEF TypeInv, CallsInv

(* A token that is issued. *)
LEMMA IssueEffect ==
  ASSUME TypeInv, NEW t \in Tokens, NEW u \in Users, NEW session \in Sessions \cup {None},
         NEW login \in Sessions, row[login].user = u,
         issueRefreshToken(t, u, t, session, login), UNCHANGED row, sent \subseteq sent',
         sent' \subseteq sent \cup {t}
  PROVE  /\ key' \in [Tokens -> {"unborn", "live", "exchanged", "loggedOut", "expired"}]
         /\ token' \in [Tokens -> TokenType]
         /\ sent' \subseteq {r \in Tokens : key'[r] # "unborn"}
         /\ revoked' \subseteq Tokens
         /\ TokensInv' /\ Grows
         /\ key[t] = "unborn" /\ key'[t] = "live"
         /\ token'[t].user = u /\ token'[t].login = login
<1>1. /\ key \in [Tokens -> {"unborn", "live", "exchanged", "loggedOut", "expired"}]
      /\ token \in [Tokens -> TokenType]
      /\ sent \subseteq {r \in Tokens : key[r] # "unborn"}
      /\ revoked \subseteq Tokens /\ TokensInv
  BY DEF TypeInv, TypeOK
<1> DEFINE new == [user |-> u, family |-> t, session |-> session, login |-> login]
<1>2. new \in TokenType /\ new.user = u /\ new.family = t /\ new.login = login
  BY DEF TokenType
<1>3. /\ key[t] = "unborn" /\ key' = [key EXCEPT ![t] = "live"]
      /\ token' = [token EXCEPT ![t] = new] /\ revoked' = revoked
  BY DEF issueRefreshToken
<1> HIDE DEF new
<1>4. /\ key' \in [Tokens -> {"unborn", "live", "exchanged", "loggedOut", "expired"}]
      /\ token' \in [Tokens -> TokenType]
      /\ key'[t] = "live" /\ token'[t] = new
      /\ \A r \in Tokens : r # t => key'[r] = key[r] /\ token'[r] = token[r]
  BY <1>1, <1>2, <1>3
<1>5. Grows
  BY <1>1, <1>3, <1>4 DEF Grows
<1>6. TokensInv'
  BY <1>1, <1>2, <1>3, <1>4 DEF TokensInv
<1>7. QED
  BY <1>1, <1>2, <1>3, <1>4, <1>5, <1>6

LEMMA IssueFirstType ==
  ASSUME TypeInv, NEW c \in Calls, IssueFirst(c)
  PROVE  TypeInv'
<1>1. CallInv(c) /\ call \in [Calls -> CallType] /\ call[c] \in CallType
      /\ call[c].step = "issue"
  BY DEF TypeInv, TypeOK, CallsInv, IssueFirst
<1>2. call[c].user \in Users /\ call[c].session \in Sessions
      /\ row[call[c].session].user = call[c].user
  BY <1>1 DEF CallInv, CallType
<1>3. PICK t \in Tokens :
        /\ issueRefreshToken(t, call[c].user, t, call[c].session, call[c].session)
        /\ call' = [call EXCEPT ![c] = [call[c] EXCEPT !.step = "audit", !.token = t]]
  BY DEF IssueFirst
<1>4. /\ call'[c] = [call[c] EXCEPT !.step = "audit", !.token = t]
      /\ \A d \in Calls : d # c => call'[d] = call[d]
  BY <1>1, <1>3
<1>5. call'[c] \in CallType /\ call'[c].step = "audit" /\ call'[c].token = t
      /\ call'[c].user = call[c].user /\ call'[c].session = call[c].session
  BY <1>1, <1>4 DEF CallType, Steps
<1>6. call' \in [Calls -> CallType]
  BY <1>1, <1>3, <1>4, <1>5
<1>7. UNCHANGED <<may, now, account, row, audited, sent>>
  BY DEF IssueFirst
<1>8. /\ key' \in [Tokens -> {"unborn", "live", "exchanged", "loggedOut", "expired"}]
      /\ token' \in [Tokens -> TokenType]
      /\ sent' \subseteq {r \in Tokens : key'[r] # "unborn"}
      /\ revoked' \subseteq Tokens
      /\ TokensInv' /\ Grows
      /\ key'[t] = "live" /\ token'[t].login = call[c].session /\ token'[t].user = call[c].user
  BY <1>2, <1>3, <1>7, IssueEffect
<1>9. TypeOK'
  BY <1>6, <1>7, <1>8 DEF TypeInv, TypeOK, account
<1>10. CallInv(c)'
  BY <1>2, <1>5, <1>7, <1>8, NoneAssumption DEF CallInv, ForToken, Refreshing
<1>11. OneAtATime'
  <2>1. \A u \in Users : Concerns(c, u)' => Concerns(c, u)
    BY <1>5, <1>8 DEF Concerns
  <2>2. \A d \in Calls, u \in Users : Concerns(d, u)' => Concerns(d, u)
    BY <1>4, <1>8, <2>1, StillConcerns
  <2>3. QED
    BY <1>7, <2>2 DEF OneAtATime, TypeInv
<1>12. QED
  BY <1>4, <1>8, <1>9, <1>10, <1>11, OthersKeep DEF TypeInv, CallsInv

LEMMA WriteAuditType ==
  ASSUME TypeInv, NEW c \in Calls, WriteAudit(c)
  PROVE  TypeInv'
<1>1. CallInv(c) /\ call \in [Calls -> CallType] /\ call[c].step = "audit"
  BY DEF TypeInv, TypeOK, CallsInv, WriteAudit, End
<1>2. /\ call[c].session \in Sessions /\ call[c].token \in Tokens
      /\ key[call[c].token] # "unborn"
  BY <1>1 DEF CallInv
<1>3. /\ call' \in [Calls -> CallType] /\ call'[c] = Idle
      /\ \A d \in Calls : d # c => call'[d] = call[d]
  BY <1>1, EndEffect DEF WriteAudit
<1>4. /\ UNCHANGED <<may, now, account, row, redis>>
      /\ audited' = audited \cup {call[c].session}
      /\ sent \subseteq sent' /\ sent' \subseteq sent \cup {call[c].token}
  BY DEF WriteAudit, Answer
<1>5. TypeOK'
  BY <1>2, <1>3, <1>4 DEF TypeInv, TypeOK, account, redis
<1>6. TokensInv' /\ Grows
  BY <1>4 DEF TypeInv, TokensInv, Grows, redis
<1>7. QED
  BY <1>3, <1>4, <1>5, <1>6, EndKeeps DEF TypeInv

LEMMA TokenCall ==
  ASSUME TypeInv, NEW c \in Calls, call[c].step \in ForToken
  PROVE  /\ call \in [Calls -> CallType]
         /\ call[c].token \in Tokens /\ call[c].token \in sent
         /\ key[call[c].token] # "unborn"
         /\ token[call[c].token].user \in Users
         /\ call[c].step \in Refreshing =>
              token[call[c].token].user = call[c].user /\ call[c].user \in Users
BY DEF TypeInv, TypeOK, TokensInv, CallsInv, CallInv

(* A request that goes on with its token and leaves the tables alone, but  *)
(* for a key that is deleted.                                              *)
LEMMA GoOnType ==
  ASSUME TypeInv, NEW c \in Calls, NEW from \in ForToken, NEW to \in Refreshing \cup {"close"},
         GoOn(c, from, to), to \in Refreshing => from \in Refreshing,
         key' \in [Tokens -> {"unborn", "live", "exchanged", "loggedOut", "expired"}],
         \A t \in Tokens : key'[t] = "unborn" <=> key[t] = "unborn",
         UNCHANGED <<may, now, account, row, audited, token, revoked, sent>>
  PROVE  TypeInv'
<1>1. call \in [Calls -> CallType] /\ CallInv(c) /\ from \in Steps /\ to \in Steps
  BY DEF TypeInv, TypeOK, CallsInv, ForToken, Refreshing, Steps
<1>2. /\ call' \in [Calls -> CallType] /\ call[c].step = from
      /\ call'[c].step = to /\ call'[c].user = call[c].user
      /\ call'[c].token = call[c].token
      /\ \A d \in Calls : d # c => call'[d] = call[d]
  BY <1>1, GoOnEffect
<1>3. TypeOK'
  BY <1>2 DEF TypeInv, TypeOK, account
<1>4. TokensInv' /\ Grows
  BY DEF TypeInv, TypeOK, TokensInv, Grows
<1>5. CallInv(c)'
  <2>1. call[c].token \in sent /\ call[c].token \in Tokens
    BY <1>2, TokenCall
  <2>2. QED
    BY <1>1, <1>2, <2>1 DEF CallInv, ForToken, Refreshing
<1>6. OneAtATime'
  BY <1>2, <1>4, StillOne
<1>7. QED
  BY <1>2, <1>3, <1>4, <1>5, <1>6, OthersKeep DEF TypeInv, CallsInv

LEMMA EndType ==
  ASSUME TypeInv, NEW c \in Calls, NEW from, End(c, from),
         UNCHANGED <<may, now, account, row, audited, redis, sent>>
  PROVE  TypeInv'
<1>1. /\ call' \in [Calls -> CallType] /\ call'[c] = Idle
      /\ \A d \in Calls : d # c => call'[d] = call[d]
  BY EndEffect DEF TypeInv, TypeOK
<1>2. TypeOK' /\ TokensInv' /\ Grows
  BY <1>1, TablesKeep
<1>3. QED
  BY <1>1, <1>2, EndKeeps DEF TypeInv

LEMMA RefreshType ==
  ASSUME TypeInv, NEW c \in Calls, RefreshStep(c)
  PROVE  TypeInv'
<1>1. ASSUME NEW t \in Tokens, StartRefresh(c, t)
      PROVE  TypeInv'
  <2> DEFINE next == [Idle EXCEPT !.step = "get", !.token = t]
  <2>1. next \in CallType /\ next.token = t /\ next.step = "get"
    BY DEF Idle, CallType, Steps
  <2>2. /\ Begin(c, token[t].user, next) /\ Alone(token[t].user)
        /\ t \in sent /\ token[t].user \in Users
        /\ UNCHANGED <<may, now, account, row, audited, redis, sent>>
    BY <1>1 DEF StartRefresh, Begin, TypeInv, TypeOK, TokensInv
  <2> HIDE DEF next
  <2>3. QED
    BY <2>1, <2>2, BeginType, NoneAssumption DEF ForToken, Refreshing, TypeInv, TypeOK
<1>2. CASE getRefreshTokenData(c)
  <2> DEFINE to == IF Found(call[c].token) THEN "delete" ELSE "revoke"
  <2>1. to \in Refreshing /\ "get" \in ForToken /\ "get" \in Refreshing
    BY DEF ForToken, Refreshing
  <2>2. GoOn(c, "get", to) /\ UNCHANGED <<may, now, account, row, audited, redis, sent>>
    BY <1>2 DEF getRefreshTokenData
  <2> HIDE DEF to
  <2>3. key' = key /\ key \in [Tokens -> {"unborn", "live", "exchanged", "loggedOut", "expired"}]
        /\ UNCHANGED <<may, now, account, row, audited, token, revoked, sent>>
    BY <2>2 DEF redis, TypeInv, TypeOK
  <2>4. QED
    BY <2>1, <2>2, <2>3, GoOnType
<1>3. CASE revokeFamily(c)
  <2>1. call[c].step = "revoke" /\ End(c, "revoke")
        /\ revoked' = revoked \cup {token[call[c].token].family}
        /\ UNCHANGED <<may, now, account, row, audited, key, token, sent>>
    BY <1>3 DEF revokeFamily, End
  <2>2. call[c].token \in Tokens /\ key[call[c].token] # "unborn"
        /\ token[call[c].token].family = call[c].token
    BY <2>1, TokenCall DEF ForToken, Refreshing, TypeInv, TokensInv
  <2>3. /\ call' \in [Calls -> CallType] /\ call'[c] = Idle
        /\ \A d \in Calls : d # c => call'[d] = call[d]
    BY <2>1, EndEffect DEF TypeInv, TypeOK
  <2>4. TypeOK' /\ TokensInv' /\ Grows
    BY <2>1, <2>2, <2>3 DEF TypeInv, TypeOK, TokensInv, Grows, account
  <2>5. QED
    BY <2>1, <2>3, <2>4, EndKeeps DEF TypeInv
<1>4. CASE RevokeExchanged(c)
  <2>1. key' \in [Tokens -> {"unborn", "live", "exchanged", "loggedOut", "expired"}]
        /\ \A t \in Tokens : key'[t] = "unborn" <=> key[t] = "unborn"
    BY <1>4 DEF RevokeExchanged, Delete, TypeInv, TypeOK
  <2>2. GoOn(c, "delete", "lookup") /\ "delete" \in ForToken
        /\ "delete" \in Refreshing /\ "lookup" \in Refreshing
        /\ UNCHANGED <<may, now, account, row, audited, token, revoked, sent>>
    BY <1>4 DEF RevokeExchanged, ForToken, Refreshing
  <2>3. QED
    BY <2>1, <2>2, GoOnType
<1>5. CASE ReadUser(c)
  <2>1. UNCHANGED <<may, now, account, row, audited, redis, sent>>
    BY <1>5 DEF ReadUser
  <2>2. CASE End(c, "lookup")
    BY <2>1, <2>2, EndType
  <2>3. CASE GoOn(c, "lookup", "renew")
    <3>1. key' = key /\ key \in [Tokens -> {"unborn", "live", "exchanged", "loggedOut", "expired"}]
          /\ UNCHANGED <<may, now, account, row, audited, token, revoked, sent>>
          /\ "lookup" \in ForToken /\ "lookup" \in Refreshing /\ "renew" \in Refreshing
      BY <2>1 DEF redis, TypeInv, TypeOK, ForToken, Refreshing
    <3>2. QED
      BY <2>3, <3>1, GoOnType
  <2>4. QED
    BY <1>5, <2>2, <2>3 DEF ReadUser
<1>6. CASE IssueNext(c)
  <2> DEFINE old == call[c].token
  <2>1. End(c, "renew") /\ call[c].step = "renew" /\ UNCHANGED <<may, now, account, row, audited>>
    BY <1>6 DEF IssueNext, End
  <2>2. old \in Tokens /\ key[old] # "unborn" /\ token[old].user = call[c].user
        /\ call[c].user \in Users /\ token[old].login \in Sessions
        /\ row[token[old].login].user = call[c].user
    BY <2>1, TokenCall DEF ForToken, Refreshing, TypeInv, TokensInv
  <2>3. PICK t \in Tokens :
          /\ issueRefreshToken(t, call[c].user, t, None, token[old].login)
          /\ Answer(t)
    BY <1>6 DEF IssueNext
  <2>4. sent \subseteq sent' /\ sent' \subseteq sent \cup {t}
    BY <2>3 DEF Answer
  <2> HIDE DEF old
  <2>5. /\ key' \in [Tokens -> {"unborn", "live", "exchanged", "loggedOut", "expired"}]
        /\ token' \in [Tokens -> TokenType]
        /\ sent' \subseteq {r \in Tokens : key'[r] # "unborn"}
        /\ revoked' \subseteq Tokens
        /\ TokensInv' /\ Grows
    BY <2>1, <2>2, <2>3, <2>4, IssueEffect
  <2>6. /\ call' \in [Calls -> CallType] /\ call'[c] = Idle
        /\ \A d \in Calls : d # c => call'[d] = call[d]
    BY <2>1, EndEffect DEF TypeInv, TypeOK
  <2>7. TypeOK'
    BY <2>1, <2>5, <2>6 DEF TypeInv, TypeOK, account
  <2>8. QED
    BY <2>1, <2>5, <2>6, <2>7, EndKeeps DEF TypeInv
<1>7. QED
  BY <1>1, <1>2, <1>3, <1>4, <1>5, <1>6 DEF RefreshStep

LEMMA LoginType ==
  ASSUME TypeInv, NEW c \in Calls, LoginStep(c)
  PROVE  TypeInv'
BY StartLoginType, CountFailureType, ResetFailuresType, CreateSessionType, IssueFirstType,
   WriteAuditType DEF LoginStep

LEMMA LogoutType ==
  ASSUME TypeInv, NEW c \in Calls, LogoutStep(c)
  PROVE  TypeInv'
<1>1. ASSUME NEW a \in Tokens, NEW t \in Tokens \cup {None}, StartLogout(c, a, t)
      PROVE  TypeInv'
  <2> DEFINE given == t # None /\ key[t] # "expired"
             next == [Idle EXCEPT !.step = IF given THEN "forget" ELSE "close",
                                  !.token = t, !.session = token[a].session]
  <2>1. token[a].session \in Sessions \cup {None}
    BY DEF TypeInv, TypeOK, TokenType
  <2>2. next \in CallType /\ next.token = t
        /\ next.step = IF given THEN "forget" ELSE "close"
    BY <2>1 DEF Idle, CallType, Steps
  <2>3. Begin(c, token[a].user, next) /\ a \in sent /\ t \in sent \cup {None}
        /\ (t # None => Alone(token[t].user))
        /\ UNCHANGED <<may, now, account, row, audited, redis, sent>>
    BY <1>1 DEF StartLogout
  <2>4. token[a].user \in Users
    BY <2>3 DEF TypeInv, TypeOK, TokensInv
  <2>5. given => t # None
    OBVIOUS
  <2> HIDE DEF next, given
  <2>6. QED
    BY <2>2, <2>3, <2>4, <2>5, BeginType DEF ForToken, Refreshing
<1>2. CASE RevokeGiven(c)
  <2>1. key' \in [Tokens -> {"unborn", "live", "exchanged", "loggedOut", "expired"}]
        /\ \A t \in Tokens : key'[t] = "unborn" <=> key[t] = "unborn"
    BY <1>2 DEF RevokeGiven, Delete, TypeInv, TypeOK
  <2>2. GoOn(c, "forget", "close") /\ "forget" \in ForToken /\ "close" \notin Refreshing
        /\ UNCHANGED <<may, now, account, row, audited, token, revoked, sent>>
    BY <1>2 DEF RevokeGiven, ForToken, Refreshing
  <2>3. QED
    BY <2>1, <2>2, GoOnType
<1>3. CASE CloseSession(c)
  <2>1. End(c, "close") /\ UNCHANGED <<may, now, account, audited, redis, sent>>
        /\ row' = [s \in Sessions |-> IF s \in Rows(c) THEN [row[s] EXCEPT !.isActive = FALSE]
                                                       ELSE row[s]]
    BY <1>3 DEF CloseSession
  <2>2. /\ row' \in [Sessions -> [user : Users \cup {None}, isActive : BOOLEAN]]
        /\ \A s \in Sessions : row'[s].user = row[s].user
    BY <2>1 DEF TypeInv, TypeOK
  <2>3. /\ call' \in [Calls -> CallType] /\ call'[c] = Idle
        /\ \A d \in Calls : d # c => call'[d] = call[d]
    BY <2>1, EndEffect DEF TypeInv, TypeOK
  <2>4. TypeOK' /\ TokensInv' /\ Grows
    BY <2>1, <2>2, <2>3 DEF TypeInv, TypeOK, TokensInv, Grows, account, redis
  <2>5. QED
    BY <2>1, <2>3, <2>4, EndKeeps DEF TypeInv
<1>4. QED
  BY <1>1, <1>2, <1>3 DEF LogoutStep

LEMMA ChangeType ==
  ASSUME TypeInv, NEW c \in Calls, ChangeStep(c)
  PROVE  TypeInv'
<1>1. ASSUME NEW a \in Tokens, NEW p \in Passwords, NEW new \in Passwords,
             StartChange(c, a, p, new)
      PROVE  TypeInv'
  <2> DEFINE next == [Idle EXCEPT !.step = "change", !.new = new]
  <2>1. next \in CallType /\ next.step = "change" /\ next.new = new /\ next.token = None
    BY DEF Idle, CallType, Steps
  <2>2. Begin(c, token[a].user, next) /\ a \in sent
        /\ UNCHANGED <<may, now, account, row, audited, redis, sent>>
    BY <1>1 DEF StartChange
  <2> HIDE DEF next
  <2>3. token[a].user \in Users
    BY <2>2 DEF TypeInv, TypeOK, TokensInv
  <2>4. QED
    BY <2>1, <2>2, <2>3, BeginType DEF ForToken, Refreshing
<1>2. CASE WritePassword(c)
  <2>1. call[c].step = "change" /\ call[c].new \in Passwords
    BY <1>2 DEF WritePassword, End, TypeInv, CallsInv, CallInv
  <2>2. End(c, "change") /\ password' = [password EXCEPT ![call[c].user] = call[c].new]
        /\ UNCHANGED <<may, now, active, failures, lockedUntil, row, audited, redis, sent>>
    BY <1>2 DEF WritePassword
  <2>3. password' \in [Users -> Passwords]
    BY <2>1, <2>2 DEF TypeInv, TypeOK
  <2>4. /\ call' \in [Calls -> CallType] /\ call'[c] = Idle
        /\ \A d \in Calls : d # c => call'[d] = call[d]
    BY <2>2, EndEffect DEF TypeInv, TypeOK
  <2>5. TypeOK' /\ TokensInv' /\ Grows
    BY <2>2, <2>3, <2>4 DEF TypeInv, TypeOK, TokensInv, Grows, redis
  <2>6. QED
    BY <2>2, <2>4, <2>5, EndKeeps DEF TypeInv
<1>3. QED
  BY <1>1, <1>2 DEF ChangeStep

(* A step that no request takes. *)
LEMMA NoCallType ==
  ASSUME TypeInv, UNCHANGED <<may, call>>, TypeOK', TokensInv', Grows
  PROVE  TypeInv'
BY OthersKeep, StillOne DEF TypeInv, CallsInv

LEMMA EnvironmentType ==
  ASSUME TypeInv, Environment
  PROVE  TypeInv'
<1>1. CASE Tick
  <2>1. now' \in Nat /\ UNCHANGED <<may, account, row, audited, redis, sent, call>>
    BY <1>1, NumbersAssumption DEF Tick
  <2>2. TypeOK' /\ TokensInv' /\ Grows
    BY <2>1 DEF TypeInv, TypeOK, TokensInv, Grows, account, redis
  <2>3. QED
    BY <2>1, <2>2, NoCallType
<1>2. ASSUME NEW c \in Calls, Fail(c)
      PROVE  TypeInv'
  <2>1. End(c, call[c].step) /\ UNCHANGED <<may, now, account, row, audited, redis, sent>>
    BY <1>2 DEF Fail, End
  <2>2. QED
    BY <2>1, EndType
<1>3. ASSUME NEW t \in Tokens, Expire(t)
      PROVE  TypeInv'
  <2>1. /\ key' \in [Tokens -> {"unborn", "live", "exchanged", "loggedOut", "expired"}]
        /\ \A r \in Tokens : key'[r] = "unborn" <=> key[r] = "unborn"
        /\ UNCHANGED <<may, now, account, row, audited, token, revoked, sent, call>>
    BY <1>3 DEF Expire, TypeInv, TypeOK
  <2>2. TypeOK'
    BY <2>1 DEF TypeInv, TypeOK, account
  <2>3. TokensInv' /\ Grows
    BY <2>1 DEF TypeInv, TypeOK, TokensInv, Grows
  <2>4. QED
    BY <2>1, <2>2, <2>3, NoCallType
<1>4. ASSUME NEW u \in Users, Deactivate(u)
      PROVE  TypeInv'
  <2>1. active' \subseteq Users
        /\ UNCHANGED <<may, now, password, failures, lockedUntil, row, audited, redis, sent, call>>
    BY <1>4 DEF Deactivate, TypeInv, TypeOK
  <2>2. TypeOK' /\ TokensInv' /\ Grows
    BY <2>1 DEF TypeInv, TypeOK, TokensInv, Grows, redis
  <2>3. QED
    BY <2>1, <2>2, NoCallType
<1>5. QED
  BY <1>1, <1>2, <1>3, <1>4 DEF Environment

LEMMA TypeInit == Init => TypeInv
<1> SUFFICES ASSUME Init PROVE TypeInv
  OBVIOUS
<1>1. TypeOK
  <2>1. Idle \in CallType /\ Unborn \in TokenType
        /\ NoRow \in [user : Users \cup {None}, isActive : BOOLEAN]
    BY IdleType DEF Unborn, TokenType, NoRow
  <2>2. QED
    BY <2>1 DEF Init, TypeOK
<1>2. TokensInv
  BY DEF Init, TokensInv
<1>3. CallsInv /\ OneAtATime
  BY IdleType, NoneAssumption DEF Init, CallsInv, CallInv, ForToken, Refreshing, OneAtATime, Concerns
<1>4. QED
  BY <1>1, <1>2, <1>3 DEF TypeInv

LEMMA TypeStep == TypeInv /\ [Next]_vars => TypeInv'
<1> SUFFICES ASSUME TypeInv, [Next]_vars PROVE TypeInv'
  OBVIOUS
<1>1. CASE UNCHANGED vars
  <2>1. UNCHANGED <<may, now, account, row, audited, redis, sent, call>>
    BY <1>1 DEF vars
  <2>2. TypeOK' /\ TokensInv' /\ Grows
    BY <2>1, TablesKeep DEF TypeInv, TypeOK
  <2>3. QED
    BY <2>1, <2>2, NoCallType
<1>2. QED
  BY <1>1, LoginType, RefreshType, LogoutType, ChangeType, EnvironmentType DEF Next

(* In every reachable state the columns, keys and requests have their      *)
(* types, and every request works on a token and a session of its user:    *)
(* the handlers pass ids, and look none of them up again.                  *)
THEOREM TypeCorrect == Spec => []TypeOK
<1>1. Spec => []TypeInv
  BY TypeInit, TypeStep, PTL DEF Spec
<1>2. TypeInv => TypeOK
  BY DEF TypeInv
<1>3. QED
  BY <1>1, <1>2, PTL

-----------------------------------------------------------------------------
(* The counter and the lock *)

Reading == {"count", "reset", "session", "change"}

(* A request for a token reads and writes nothing of an account. *)
LEMMA TokenStepsKeep ==
  ASSUME TypeInv, NEW c \in Calls, RefreshStep(c) \/ LogoutStep(c)
  PROVE  /\ UNCHANGED <<may, now, account>>
         /\ call'[c].step \notin Reading
         /\ \A d \in Calls : d # c => call'[d] = call[d]
<1>1. call \in [Calls -> CallType] /\ Idle.step \notin Reading
  BY IdleType DEF TypeInv, TypeOK, Reading
<1>3. ASSUME NEW from \in Steps, NEW to \in Steps, to \notin Reading, GoOn(c, from, to)
      PROVE  /\ call'[c].step \notin Reading
             /\ \A d \in Calls : d # c => call'[d] = call[d]
  BY <1>1, <1>3, GoOnEffect
<1>4. ASSUME NEW from, End(c, from)
      PROVE  /\ call'[c].step \notin Reading
             /\ \A d \in Calls : d # c => call'[d] = call[d]
  BY <1>1, <1>4, EndEffect
<1>5. ASSUME NEW t \in Tokens, StartRefresh(c, t)
      PROVE  /\ call'[c].step \notin Reading
             /\ \A d \in Calls : d # c => call'[d] = call[d]
  BY <1>1, <1>5 DEF StartRefresh, Begin, Idle, Reading
<1>6. ASSUME NEW a \in Tokens, NEW t \in Tokens \cup {None}, StartLogout(c, a, t)
      PROVE  /\ call'[c].step \notin Reading
             /\ \A d \in Calls : d # c => call'[d] = call[d]
  BY <1>1, <1>6 DEF StartLogout, Begin, Idle, Reading
<1>7. {"get", "revoke", "delete", "lookup", "renew", "forget", "close"} \cap Reading = {}
      /\ {"get", "revoke", "delete", "lookup", "renew", "forget", "close"} \subseteq Steps
  BY DEF Reading, Steps
<1>8. /\ call'[c].step \notin Reading
      /\ \A d \in Calls : d # c => call'[d] = call[d]
  <2>1. CASE getRefreshTokenData(c)
    <3> DEFINE to == IF Found(call[c].token) THEN "delete" ELSE "revoke"
    <3>1. GoOn(c, "get", to) /\ to \in Steps /\ to \notin Reading /\ "get" \in Steps
      BY <1>7, <2>1 DEF getRefreshTokenData
    <3> HIDE DEF to
    <3>2. QED
      BY <1>3, <3>1
  <2>2. CASE RevokeExchanged(c)
    BY <1>3, <1>7, <2>2 DEF RevokeExchanged
  <2>3. CASE ReadUser(c)
    BY <1>3, <1>4, <1>7, <2>3 DEF ReadUser
  <2>4. CASE RevokeGiven(c)
    BY <1>3, <1>7, <2>4 DEF RevokeGiven
  <2>5. CASE revokeFamily(c) \/ IssueNext(c) \/ CloseSession(c)
    BY <1>4, <2>5 DEF revokeFamily, IssueNext, CloseSession
  <2>6. QED
    BY <1>5, <1>6, <2>1, <2>2, <2>3, <2>4, <2>5 DEF RefreshStep, LogoutStep
<1>9. UNCHANGED <<may, now, account>>
  BY DEF RefreshStep, LogoutStep, StartRefresh, getRefreshTokenData, revokeFamily, RevokeExchanged,
         ReadUser, IssueNext, StartLogout, RevokeGiven, CloseSession
<1>10. QED
  BY <1>8, <1>9

LEMMA QuietKeeps ==
  ASSUME AccountInv, UNCHANGED <<may, failures, lockedUntil>>, now \in Nat, now' \in Nat,
         now <= now',
         \A d \in Calls : call'[d] = call[d] \/ call'[d].step \notin Reading
  PROVE  CounterLocks' /\ LocalInv'
<1>1. CounterLocks'
  BY DEF AccountInv, CounterLocks
<1>2. ASSUME "overlap" \notin may, NEW d \in Calls, call'[d].step \in Reading
      PROVE  /\ call'[d] = call[d] /\ LocalOf(d)
  BY <1>2 DEF AccountInv, LocalInv
<1>3. ASSUME "overlap" \notin may, NEW d \in Calls, call'[d].step \in {"count", "reset", "session"}
      PROVE  lockedUntil[call[d].user] \in Nat
  <2>1. call'[d] = call[d] /\ call[d].step # "idle"
    BY <1>3 DEF Reading
  <2>2. call[d].user \in Users
    BY <2>1 DEF AccountInv, TypeInv, TypeOK, CallType, CallsInv, CallInv
  <2>3. QED
    BY <2>2 DEF AccountInv, TypeInv, TypeOK
<1>4. ASSUME "overlap" \notin may, NEW d \in Calls
      PROVE  LocalOf(d)'
  BY <1>2, <1>3, <1>4 DEF LocalOf, Reading
<1>5. QED
  BY <1>1, <1>4 DEF LocalInv

(* The steps that read or write an account. *)
LEMMA BeginReading ==
  ASSUME AccountInv, NEW c \in Calls, NEW u \in Users, call'[c].user = u, Alone(u),
         call[c].step = "idle", LocalOf(c)',
         \A d \in Calls : d # c => call'[d] = call[d],
         UNCHANGED <<may, now, account>>
  PROVE  CounterLocks' /\ LocalInv'
<1>1. CounterLocks'
  BY DEF AccountInv, CounterLocks, account
<1>2. ASSUME "overlap" \notin may, NEW d \in Calls
      PROVE  LocalOf(d)'
  BY <1>2 DEF AccountInv, LocalInv, LocalOf, account
<1>3. QED
  BY <1>1, <1>2 DEF LocalInv

(* A step that writes the account of its user, who has no other request. *)
LEMMA WriteReading ==
  ASSUME AccountInv, NEW c \in Calls, call[c].user # None,
         \A d \in Calls : d # c => call'[d] = call[d], LocalOf(c)',
         UNCHANGED <<may, now>>,
         \A u \in Users : u # call[c].user =>
            failures'[u] = failures[u] /\ lockedUntil'[u] = lockedUntil[u]
  PROVE  LocalInv'
<1>1. ASSUME "overlap" \notin may, NEW d \in Calls, d # c
      PROVE  LocalOf(d)'
  <2>1. call'[d] = call[d] /\ LocalOf(d) /\ CallInv(d) /\ call[d] \in CallType
    BY <1>1 DEF AccountInv, LocalInv, TypeInv, TypeOK, CallsInv
  <2>2. CASE call[d].user = None
    BY <2>1, <2>2 DEF CallInv, LocalOf
  <2>3. CASE call[d].user # None
    <3>1. call[d].user \in Users /\ call[d].user # call[c].user
      BY <1>1, <2>1, <2>3 DEF CallType, AccountInv, TypeInv, OneAtATime, Concerns
    <3>2. QED
      BY <2>1, <3>1 DEF LocalOf
  <2>4. QED
    BY <2>2, <2>3
<1>2. QED
  BY <1>1 DEF LocalInv

LEMMA LoginAccount ==
  ASSUME AccountInv, NEW c \in Calls, LoginStep(c)
  PROVE  CounterLocks' /\ LocalInv'
<1>1. /\ TypeInv /\ call \in [Calls -> CallType] /\ call[c] \in CallType /\ CallInv(c)
      /\ failures \in [Users -> Nat] /\ lockedUntil \in [Users -> Nat] /\ now \in Nat
  BY DEF AccountInv, TypeInv, TypeOK, CallsInv
<1>2. ASSUME NEW u \in Users, NEW p \in Passwords, StartLogin(c, u, p)
      PROVE  CounterLocks' /\ LocalInv'
  <2> DEFINE next == [Idle EXCEPT !.step = IF verifyPassword(u, p) THEN "reset" ELSE "count",
                                  !.seen = failures[u]]
  <2>1. next \in CallType /\ next.seen = failures[u]
        /\ next.step = IF verifyPassword(u, p) THEN "reset" ELSE "count"
    BY <1>1 DEF Idle, CallType, Steps
  <2>2. Begin(c, u, next) /\ lockedUntil[u] <= now /\ UNCHANGED <<may, now, account>>
    BY <1>2 DEF StartLogin, NotLocked
  <2> HIDE DEF next
  <2>3. /\ call[c].step = "idle" /\ Alone(u)
        /\ call'[c].user = u /\ call'[c].step = next.step
        /\ call'[c].seen = next.seen
        /\ \A d \in Calls : d # c => call'[d] = call[d]
    BY <1>1, <2>1, <2>2, BeginEffect
  <2>4. LocalOf(c)'
    BY <2>1, <2>2, <2>3 DEF LocalOf, account
  <2>5. QED
    BY <2>2, <2>3, <2>4, BeginReading
<1>3. CASE CountFailure(c)
  <2> DEFINE u == call[c].user
             n == call[c].seen + 1
             end == now + LOCK_DURATION
  <2>1. call[c].step = "count" /\ u \in Users /\ u # None /\ n \in Nat /\ end \in Nat /\ end > 0
    BY <1>1, <1>3, NumbersAssumption, NoneAssumption DEF CountFailure, End, CallInv, CallType
  <2>2. /\ failures' = [failures EXCEPT ![u] = n]
        /\ lockedUntil' = IF TooMany(n) THEN [lockedUntil EXCEPT ![u] = end] ELSE lockedUntil
        /\ UNCHANGED <<may, now, active, password, row, audited, redis, sent>>
        /\ End(c, "count")
    BY <1>3 DEF CountFailure
  <2>3. "overlap" \notin may => n = failures[u] + 1
    BY <2>1 DEF AccountInv, LocalInv, LocalOf
  <2>4. call'[c] = Idle /\ \A d \in Calls : d # c => call'[d] = call[d]
    BY <1>1, <2>2, EndEffect
  <2> HIDE DEF n, end
  <2>5. CounterLocks'
    <3>1. /\ failures'[u] = n
          /\ lockedUntil'[u] = IF n >= MAX_FAILED_ATTEMPTS THEN end ELSE lockedUntil[u]
          /\ \A v \in Users : v # u => failures'[v] = failures[v] /\ lockedUntil'[v] = lockedUntil[v]
      BY <1>1, <2>1, <2>2 DEF TooMany
    <3>2. failures[u] \in Nat /\ lockedUntil[u] \in Nat /\ MAX_FAILED_ATTEMPTS \in Nat /\ may' = may
      BY <1>1, <2>1, <2>2, NumbersAssumption
    <3>3. CounterLocks
      BY DEF AccountInv
    <3>4. QED
      BY <2>1, <2>3, <3>1, <3>2, <3>3 DEF CounterLocks
  <2>6. LocalOf(c)'
    BY <2>4, IdleType DEF LocalOf
  <2>7. QED
    BY <1>1, <2>1, <2>2, <2>4, <2>5, <2>6, WriteReading
<1>4. CASE ResetFailures(c)
  <2> DEFINE u == call[c].user
  <2>1. call[c].step = "reset" /\ u \in Users /\ u # None
    BY <1>1, <1>4, NoneAssumption DEF ResetFailures, GoOn, CallInv, CallType
  <2>2. /\ failures' = [failures EXCEPT ![u] = 0]
        /\ lockedUntil' = [lockedUntil EXCEPT ![u] = 0]
        /\ UNCHANGED <<may, now, active, password, row, audited, redis, sent>>
        /\ GoOn(c, "reset", "session") /\ "reset" \in Steps /\ "session" \in Steps
    BY <1>4 DEF ResetFailures, Steps
  <2>3. call'[c].step = "session" /\ call'[c].user = u
        /\ \A d \in Calls : d # c => call'[d] = call[d]
    BY <1>1, <2>2, GoOnEffect
  <2>4. CounterLocks'
    BY <1>1, <2>1, <2>2, NumbersAssumption DEF AccountInv, CounterLocks
  <2>5. "overlap" \notin may => LocalOf(c)'
    <3>1. lockedUntil'[u] = 0 /\ now' = now
      BY <1>1, <2>1, <2>2
    <3>2. QED
      BY <1>1, <2>3, <3>1 DEF LocalOf
  <2>6. CASE "overlap" \in may
    BY <2>2, <2>4, <2>6 DEF LocalInv
  <2>7. CASE "overlap" \notin may
    BY <1>1, <2>1, <2>2, <2>3, <2>4, <2>5, <2>7, WriteReading
  <2>8. QED
    BY <2>6, <2>7
<1>5. CASE CreateSession(c) \/ IssueFirst(c) \/ WriteAudit(c)
  <2>1. UNCHANGED <<may, now, account>>
    BY <1>5 DEF CreateSession, IssueFirst, WriteAudit
  <2>2. \A d \in Calls : call'[d] = call[d] \/ call'[d].step \notin Reading
    <3>1. CASE CreateSession(c)
      <4>1. PICK s \in Sessions : call' = [call EXCEPT ![c] = [call[c] EXCEPT !.step = "issue", !.session = s]]
        BY <3>1 DEF CreateSession
      <4>2. QED
        BY <1>1, <4>1 DEF Reading, CallType
    <3>2. CASE IssueFirst(c)
      <4>1. PICK t \in Tokens : call' = [call EXCEPT ![c] = [call[c] EXCEPT !.step = "audit", !.token = t]]
        BY <3>2 DEF IssueFirst
      <4>2. QED
        BY <1>1, <4>1 DEF Reading, CallType
    <3>3. CASE WriteAudit(c)
      BY <1>1, <3>3, EndEffect, IdleType DEF WriteAudit, Reading
    <3>4. QED
      BY <1>5, <3>1, <3>2, <3>3
  <2>3. QED
    BY <1>1, <2>1, <2>2, QuietKeeps DEF account
<1>6. QED
  BY <1>2, <1>3, <1>4, <1>5 DEF LoginStep

LEMMA ChangeAccount ==
  ASSUME AccountInv, NEW c \in Calls, ChangeStep(c)
  PROVE  CounterLocks' /\ LocalInv'
<1>1. /\ TypeInv /\ call \in [Calls -> CallType] /\ call[c] \in CallType /\ CallInv(c)
  BY DEF AccountInv, TypeInv, TypeOK, CallsInv
<1>2. ASSUME NEW a \in Tokens, NEW p \in Passwords, NEW new \in Passwords,
             StartChange(c, a, p, new)
      PROVE  CounterLocks' /\ LocalInv'
  <2> DEFINE next == [Idle EXCEPT !.step = "change", !.new = new]
             u == token[a].user
  <2>1. next \in CallType /\ next.step = "change"
    BY DEF Idle, CallType, Steps
  <2>2. Begin(c, u, next) /\ a \in sent /\ UNCHANGED <<may, now, account>>
    BY <1>2 DEF StartChange
  <2>3. u \in Users
    BY <1>1, <2>2 DEF TypeInv, TypeOK, TokensInv
  <2> HIDE DEF next, u
  <2>4. /\ call[c].step = "idle" /\ Alone(u)
        /\ call'[c].user = u /\ call'[c].step = "change"
        /\ \A d \in Calls : d # c => call'[d] = call[d]
    BY <1>1, <2>1, <2>2, <2>3, BeginEffect
  <2>5. LocalOf(c)'
    BY <2>4 DEF LocalOf
  <2>6. QED
    BY <2>2, <2>3, <2>4, <2>5, BeginReading
<1>3. CASE WritePassword(c)
  <2>1. call[c].step = "change" /\ call[c].user \in Users /\ call[c].user # None
    BY <1>1, <1>3, NoneAssumption DEF WritePassword, End, CallInv, CallType
  <2>2. /\ password' = [password EXCEPT ![call[c].user] = call[c].new]
        /\ UNCHANGED <<may, now, active, failures, lockedUntil>> /\ End(c, "change")
    BY <1>3 DEF WritePassword
  <2>3. call'[c] = Idle /\ \A d \in Calls : d # c => call'[d] = call[d]
    BY <1>1, <2>2, EndEffect
  <2>4. CounterLocks'
    BY <2>2 DEF AccountInv, CounterLocks
  <2>5. LocalOf(c)'
    BY <2>3, IdleType DEF LocalOf
  <2>6. QED
    BY <2>1, <2>2, <2>3, <2>4, <2>5, WriteReading
<1>4. QED
  BY <1>2, <1>3 DEF ChangeStep

LEMMA EnvironmentAccount ==
  ASSUME AccountInv, Environment
  PROVE  CounterLocks' /\ LocalInv'
<1>1. now \in Nat /\ call \in [Calls -> CallType]
  BY DEF AccountInv, TypeInv, TypeOK
<1>2. /\ UNCHANGED <<may, failures, lockedUntil>> /\ now' \in {now, now + 1}
      /\ \A d \in Calls : call'[d] \in {call[d], Idle}
  <2>1. CASE Tick
    BY <2>1 DEF Tick, account
  <2>2. ASSUME NEW c \in Calls, Fail(c)
        PROVE  /\ UNCHANGED <<may, failures, lockedUntil, now>>
               /\ \A d \in Calls : call'[d] \in {call[d], Idle}
    BY <1>1, <2>2 DEF Fail, account
  <2>3. ASSUME NEW t \in Tokens, Expire(t)
        PROVE  UNCHANGED <<may, failures, lockedUntil, now, call>>
    BY <2>3 DEF Expire, account
  <2>4. ASSUME NEW u \in Users, Deactivate(u)
        PROVE  UNCHANGED <<may, failures, lockedUntil, now, call>>
    BY <2>4 DEF Deactivate
  <2>5. QED
    BY <2>1, <2>2, <2>3, <2>4 DEF Environment
<1>3. QED
  BY <1>1, <1>2, QuietKeeps, IdleType DEF Reading

LEMMA AccountStep == AccountInv /\ [Next]_vars => AccountInv'
<1> SUFFICES ASSUME AccountInv, [Next]_vars PROVE AccountInv'
  OBVIOUS
<1>1. TypeInv /\ TypeInv' /\ now \in Nat
  BY TypeStep DEF AccountInv, TypeInv, TypeOK
<1>2. ASSUME NEW c \in Calls, RefreshStep(c) \/ LogoutStep(c)
      PROVE  CounterLocks' /\ LocalInv'
  <2>1. UNCHANGED <<may, now, account>>
        /\ \A d \in Calls : call'[d] = call[d] \/ call'[d].step \notin Reading
    BY <1>1, <1>2, TokenStepsKeep
  <2>2. QED
    BY <1>1, <2>1, QuietKeeps DEF account
<1>3. CASE UNCHANGED vars
  <2>1. UNCHANGED <<may, failures, lockedUntil, now, call>>
    BY <1>3 DEF vars, account
  <2>2. now' \in Nat /\ now <= now'
    BY <1>1, <2>1
  <2>3. \A d \in Calls : call'[d] = call[d] \/ call'[d].step \notin Reading
    BY <2>1
  <2>4. UNCHANGED <<may, failures, lockedUntil>>
    BY <2>1
  <2>5. QED
    BY <1>1, <2>2, <2>3, <2>4, QuietKeeps DEF AccountInv
<1>4. QED
  BY <1>1, <1>2, <1>3, LoginAccount, ChangeAccount, EnvironmentAccount DEF Next, AccountInv

LEMMA AccountInit == Init => AccountInv
<1> SUFFICES ASSUME Init PROVE AccountInv
  OBVIOUS
<1>1. CounterLocks /\ LocalInv
  BY IdleType, NumbersAssumption DEF Init, CounterLocks, LocalInv, LocalOf
<1>2. QED
  BY <1>1, TypeInit DEF AccountInv

LEMMA AccountAlways == Spec => []AccountInv
BY AccountInit, AccountStep, PTL DEF Spec

(* A user with too many failures has been locked, however logins overlap;  *)
(* and if they do not overlap, a lock means that there were that many.     *)
THEOREM TooManyFailuresLock == Spec => []CounterLocks
<1>1. AccountInv => CounterLocks
  BY DEF AccountInv
<1>2. QED
  BY <1>1, AccountAlways, PTL

(* Who writes what of an account. *)
LEMMA Writers ==
  ASSUME TypeInv, Next
  PROVE  /\ \/ lockedUntil' = lockedUntil
            \/ \E c \in Calls : /\ call[c].step \in {"count", "reset"}
                                /\ \A u \in Users \ {call[c].user} : lockedUntil'[u] = lockedUntil[u]
         /\ \/ \A s \in Sessions : row'[s].user = row[s].user
            \/ \E c \in Calls : /\ call[c].step = "session"
                                /\ \A s \in Sessions : row'[s].user \in {row[s].user, call[c].user}
<1>1. /\ row \in [Sessions -> [user : Users \cup {None}, isActive : BOOLEAN]]
      /\ lockedUntil \in [Users -> Nat]
  BY DEF TypeInv, TypeOK
<1>2. ASSUME NEW c \in Calls, CountFailure(c)
      PROVE  /\ call[c].step = "count" /\ UNCHANGED row
             /\ \A u \in Users \ {call[c].user} : lockedUntil'[u] = lockedUntil[u]
  BY <1>1, <1>2 DEF CountFailure, End
<1>3. ASSUME NEW c \in Calls, ResetFailures(c)
      PROVE  /\ call[c].step = "reset" /\ UNCHANGED row
             /\ \A u \in Users \ {call[c].user} : lockedUntil'[u] = lockedUntil[u]
  BY <1>1, <1>3 DEF ResetFailures, GoOn
<1>4. ASSUME NEW c \in Calls, CreateSession(c)
      PROVE  /\ call[c].step = "session" /\ UNCHANGED lockedUntil
             /\ \A s \in Sessions : row'[s].user \in {row[s].user, call[c].user}
  BY <1>1, <1>4 DEF CreateSession, account
<1>5. ASSUME NEW c \in Calls, WritePassword(c)
      PROVE  UNCHANGED <<lockedUntil, row>>
  BY <1>5 DEF WritePassword
<1>6. ASSUME NEW c \in Calls, CloseSession(c)
      PROVE  /\ UNCHANGED lockedUntil
             /\ \A s \in Sessions : row'[s].user = row[s].user
  BY <1>1, <1>6 DEF CloseSession, account
<1>7. ASSUME NEW c \in Calls,
             \/ \E u \in Users, p \in Passwords : StartLogin(c, u, p)
             \/ IssueFirst(c) \/ WriteAudit(c)
             \/ \E a \in Tokens, p, new \in Passwords : StartChange(c, a, p, new)
             \/ \E t \in Tokens : StartRefresh(c, t)
             \/ \E a \in Tokens, t \in Tokens \cup {None} : StartLogout(c, a, t)
             \/ getRefreshTokenData(c) \/ revokeFamily(c) \/ RevokeExchanged(c)
             \/ ReadUser(c) \/ IssueNext(c) \/ RevokeGiven(c)
      PROVE  UNCHANGED <<lockedUntil, row>>
  BY <1>7 DEF StartLogin, IssueFirst, WriteAudit, StartChange, StartRefresh, StartLogout,
              getRefreshTokenData, revokeFamily, RevokeExchanged, ReadUser, IssueNext,
              RevokeGiven, account
<1>8. CASE Environment
  BY <1>8 DEF Environment, Tick, Fail, Expire, Deactivate, account
<1>9. QED
  BY <1>2, <1>3, <1>4, <1>5, <1>6, <1>7, <1>8
     DEF Next, LoginStep, RefreshStep, LogoutStep, ChangeStep

(* For as long as a lock lasts, it stays and nobody logs in, if logins of  *)
(* one user do not overlap.                                                *)
THEOREM LocksStand == Spec => LockStands
<1> DEFINE Stands ==
      \A u \in Users :
        lockedUntil[u] > now /\ "overlap" \notin may =>
          /\ lockedUntil'[u] = lockedUntil[u]
          /\ \A s \in Sessions : row'[s].user = u => row[s].user = u
<1>1. AccountInv /\ [Next]_vars => Stands
  <2> SUFFICES ASSUME AccountInv, [Next]_vars, "overlap" \notin may,
                      NEW u \in Users, lockedUntil[u] > now
               PROVE  /\ lockedUntil'[u] = lockedUntil[u]
                      /\ \A s \in Sessions : row'[s].user = u => row[s].user = u
    OBVIOUS
  <2>1. CASE UNCHANGED vars
    BY <2>1 DEF vars, account
  <2>2. CASE Next
    <3>1. TypeInv /\ now \in Nat /\ lockedUntil[u] \in Nat
      BY DEF AccountInv, TypeInv, TypeOK
    <3>2. \A c \in Calls : call[c].step \in {"count", "reset", "session"} => call[c].user # u
      BY <3>1 DEF AccountInv, LocalInv, LocalOf
    <3>3. QED
      BY <2>2, <3>1, <3>2, Writers
  <2>3. QED
    BY <2>1, <2>2
<1>2. QED
  BY <1>1, AccountAlways, PTL DEF Spec, LockStands

-----------------------------------------------------------------------------
(* What a step does to the requests and to the tokens *)

Plain == {"idle", "reset", "count", "session", "get", "forget", "close", "change"}

LEMMA CallEffect ==
  ASSUME TypeInv, NEW c \in Calls,
         LoginStep(c) \/ RefreshStep(c) \/ LogoutStep(c) \/ ChangeStep(c) \/ Fail(c)
  PROVE  /\ \A d \in Calls : d # c => call'[d] = call[d]
         /\ \/ call'[c].step \in Plain
            \/ CreateSession(c) \/ IssueFirst(c)
            \/ getRefreshTokenData(c) \/ RevokeExchanged(c) \/ ReadUser(c)
         /\ call[c].step \in {"lookup", "renew"} => ReadUser(c) \/ IssueNext(c) \/ Fail(c)
<1> DEFINE Others == \A d \in Calls : d # c => call'[d] = call[d]
           Old == call[c].step \notin {"lookup", "renew"}
<1>1. call \in [Calls -> CallType] /\ Idle.step \in Plain
  BY IdleType DEF TypeInv, TypeOK, Plain
<1>2. ASSUME NEW u \in Users, NEW p \in Passwords, StartLogin(c, u, p)
      PROVE  Others /\ Old /\ call'[c].step \in Plain
  BY <1>1, <1>2 DEF StartLogin, Begin, Idle, Plain
<1>3. ASSUME NEW t \in Tokens, StartRefresh(c, t)
      PROVE  Others /\ Old /\ call'[c].step \in Plain
  BY <1>1, <1>3 DEF StartRefresh, Begin, Idle, Plain
<1>4. ASSUME NEW a \in Tokens, NEW t \in Tokens \cup {None}, StartLogout(c, a, t)
      PROVE  Others /\ Old /\ call'[c].step \in Plain
  BY <1>1, <1>4 DEF StartLogout, Begin, Idle, Plain
<1>5. ASSUME NEW a \in Tokens, NEW p \in Passwords, NEW new \in Passwords,
             StartChange(c, a, p, new)
      PROVE  Others /\ Old /\ call'[c].step \in Plain
  BY <1>1, <1>5 DEF StartChange, Begin, Idle, Plain
<1>6. ASSUME NEW from, End(c, from)
      PROVE  Others /\ call[c].step = from /\ call'[c].step \in Plain
  BY <1>1, <1>6, EndEffect
<1>7. ASSUME NEW from, NEW to, GoOn(c, from, to)
      PROVE  Others /\ call[c].step = from /\ call'[c].step = to
  BY <1>1, <1>7 DEF GoOn, CallType
<1>8. CASE CountFailure(c) \/ WriteAudit(c) \/ revokeFamily(c) \/ CloseSession(c)
           \/ WritePassword(c)
  BY <1>6, <1>8 DEF CountFailure, WriteAudit, revokeFamily, CloseSession, WritePassword
<1>9. CASE ResetFailures(c) \/ RevokeGiven(c)
  BY <1>7, <1>9 DEF ResetFailures, RevokeGiven, Plain
<1>10. CASE CreateSession(c) \/ IssueFirst(c)
  BY <1>1, <1>10 DEF CreateSession, IssueFirst
<1>11. CASE getRefreshTokenData(c) \/ RevokeExchanged(c)
  BY <1>7, <1>11 DEF getRefreshTokenData, RevokeExchanged
<1>12. CASE ReadUser(c)
  BY <1>6, <1>7, <1>12 DEF ReadUser
<1>13. CASE IssueNext(c)
  BY <1>6, <1>13 DEF IssueNext
<1>14. CASE Fail(c)
  BY <1>1, <1>14 DEF Fail
<1>15. QED
  BY <1>2, <1>3, <1>4, <1>5, <1>8, <1>9, <1>10, <1>11, <1>12, <1>13, <1>14
     DEF LoginStep, RefreshStep, LogoutStep, ChangeStep

(* Where a request that has moved comes from. *)
LEMMA CameFrom ==
  ASSUME TypeInv, Next, NEW d \in Calls, call'[d] # call[d]
  PROVE  /\ call'[d].step = "issue" => CreateSession(d)
         /\ call'[d].step = "audit" => IssueFirst(d)
         /\ call'[d].step \in {"revoke", "delete"} => getRefreshTokenData(d)
         /\ call'[d].step = "lookup" => RevokeExchanged(d)
         /\ call'[d].step = "renew" => ReadUser(d)
         /\ call[d].step \in {"lookup", "renew"} => ReadUser(d) \/ IssueNext(d) \/ Fail(d)
<1>1. ASSUME \E c \in Calls : LoginStep(c) \/ RefreshStep(c) \/ LogoutStep(c) \/ ChangeStep(c)
                              \/ Fail(c)
      PROVE  LoginStep(d) \/ RefreshStep(d) \/ LogoutStep(d) \/ ChangeStep(d) \/ Fail(d)
  BY <1>1, CallEffect
<1>2. LoginStep(d) \/ RefreshStep(d) \/ LogoutStep(d) \/ ChangeStep(d) \/ Fail(d)
  BY <1>1 DEF Next, Environment, Tick, Expire, Deactivate
<1>3. /\ \/ call'[d].step \in Plain
         \/ CreateSession(d) \/ IssueFirst(d)
         \/ getRefreshTokenData(d) \/ RevokeExchanged(d) \/ ReadUser(d)
      /\ call[d].step \in {"lookup", "renew"} => ReadUser(d) \/ IssueNext(d) \/ Fail(d)
  BY <1>2, CallEffect
<1>4. call \in [Calls -> CallType]
  BY DEF TypeInv, TypeOK
<1>5. CreateSession(d) => call'[d].step = "issue"
  BY <1>4 DEF CreateSession, CallType
<1>6. IssueFirst(d) => call'[d].step = "audit"
  BY <1>4 DEF IssueFirst, CallType
<1>7. getRefreshTokenData(d) => call'[d].step \in {"revoke", "delete"}
  BY <1>4 DEF getRefreshTokenData, GoOn, CallType
<1>8. RevokeExchanged(d) => call'[d].step = "lookup"
  BY <1>4 DEF RevokeExchanged, GoOn, CallType
<1>9. ReadUser(d) => call'[d].step \in {"renew", "idle"}
  BY <1>4 DEF ReadUser, GoOn, End, CallType, Idle
<1>10. QED
  BY <1>3, <1>5, <1>6, <1>7, <1>8, <1>9 DEF Plain

(* Who writes keys and tokens. *)
LEMMA TokenWriters ==
  ASSUME TypeInv, Next
  PROVE  \/ UNCHANGED <<key, token, sent, revoked, audited>>
         \/ \E c \in Calls : \/ IssueFirst(c) \/ IssueNext(c) \/ WriteAudit(c)
                             \/ RevokeExchanged(c) \/ RevokeGiven(c) \/ revokeFamily(c)
         \/ \E t \in Tokens : Expire(t)
<1>1. ASSUME NEW c \in Calls,
             \/ \E u \in Users, p \in Passwords : StartLogin(c, u, p)
             \/ CountFailure(c) \/ ResetFailures(c) \/ CreateSession(c)
             \/ \E a \in Tokens, p, new \in Passwords : StartChange(c, a, p, new)
             \/ \E t \in Tokens : StartRefresh(c, t)
             \/ \E a \in Tokens, t \in Tokens \cup {None} : StartLogout(c, a, t)
             \/ getRefreshTokenData(c) \/ ReadUser(c) \/ CloseSession(c) \/ WritePassword(c)
             \/ Fail(c)
      PROVE  UNCHANGED <<key, token, sent, revoked, audited>>
  BY <1>1 DEF StartLogin, CountFailure, ResetFailures, CreateSession, StartChange, StartRefresh,
              StartLogout, getRefreshTokenData, ReadUser, CloseSession, WritePassword, Fail, redis
<1>2. ASSUME Tick \/ \E u \in Users : Deactivate(u)
      PROVE  UNCHANGED <<key, token, sent, revoked, audited>>
  BY <1>2 DEF Tick, Deactivate, redis
<1>3. QED
  BY <1>1, <1>2 DEF Next, Environment, LoginStep, RefreshStep, LogoutStep, ChangeStep

-----------------------------------------------------------------------------
(* A client has a token that works. *)

(* A token that its client has not received yet is as it was issued. *)
UnsentInv ==
  \A t \in Tokens :
    key[t] # "unborn" /\ t \notin sent => key[t] \in {"live", "expired"} /\ t \notin revoked

(* A family is revoked for a token that is gone. *)
RevokeInv ==
  \A c \in Calls : call[c].step = "revoke" => key[call[c].token] # "live"

WorksInv == TypeInv /\ UnsentInv /\ RevokeInv /\ ATokenWorks /\ LoginsAreAudited

Served(login) ==
  \/ \E r \in sent : token[r].login = login /\ (Works(r) \/ Over(r))
  \/ \E c \in Calls : Exchanging(c, login)

LEMMA FirstIssued ==
  ASSUME TypeInv, NEW c \in Calls, IssueFirst(c)
  PROVE  \E t \in Tokens :
           /\ key[t] = "unborn" /\ key' = [key EXCEPT ![t] = "live"]
           /\ \A r \in Tokens : r # t => token'[r] = token[r]
           /\ token'[t].login = call[c].session /\ token'[t].family = t
           /\ token'[t].user = call[c].user
           /\ UNCHANGED <<revoked, sent, audited, active, row>>
           /\ call[c].step = "issue"
           /\ call'[c] = [call[c] EXCEPT !.step = "audit", !.token = t]
<1>1. PICK t \in Tokens :
        /\ issueRefreshToken(t, call[c].user, t, call[c].session, call[c].session)
        /\ call' = [call EXCEPT ![c] = [call[c] EXCEPT !.step = "audit", !.token = t]]
  BY DEF IssueFirst
<1>2. UNCHANGED <<sent, audited, active, row>> /\ call[c].step = "issue"
  BY DEF IssueFirst, account
<1>3. token \in [Tokens -> TokenType] /\ call \in [Calls -> CallType]
  BY DEF TypeInv, TypeOK
<1>4. token' = [token EXCEPT ![t] = [user |-> call[c].user, family |-> t,
                                     session |-> call[c].session, login |-> call[c].session]]
      /\ key[t] = "unborn" /\ key' = [key EXCEPT ![t] = "live"] /\ revoked' = revoked
  BY <1>1 DEF issueRefreshToken
<1>5. QED
  BY <1>1, <1>2, <1>3, <1>4

LEMMA NextIssued ==
  ASSUME TypeInv, NEW c \in Calls, IssueNext(c)
  PROVE  \E t \in Tokens :
           /\ key[t] = "unborn" /\ key' = [key EXCEPT ![t] = "live"]
           /\ \A r \in Tokens : r # t => token'[r] = token[r]
           /\ token'[t].login = token[call[c].token].login /\ token'[t].family = t
           /\ token'[t].user = call[c].user
           /\ UNCHANGED <<revoked, audited, active, row>>
           /\ sent' = sent \cup {t} \/ ("error" \in may /\ sent' = sent)
           /\ call[c].step = "renew" /\ call'[c] = Idle
<1>1. PICK t \in Tokens :
        /\ issueRefreshToken(t, call[c].user, t, None, token[call[c].token].login)
        /\ Answer(t)
  BY DEF IssueNext
<1>2. UNCHANGED <<audited, active, row>> /\ End(c, "renew")
  BY DEF IssueNext, account
<1>3. token \in [Tokens -> TokenType] /\ call \in [Calls -> CallType]
  BY DEF TypeInv, TypeOK
<1>4. token' = [token EXCEPT ![t] = [user |-> call[c].user, family |-> t,
                                     session |-> None, login |-> token[call[c].token].login]]
      /\ key[t] = "unborn" /\ key' = [key EXCEPT ![t] = "live"] /\ revoked' = revoked
  BY <1>1 DEF issueRefreshToken
<1>5. sent' = sent \cup {t} \/ ("error" \in may /\ sent' = sent)
  BY <1>1 DEF Answer
<1>6. call[c].step = "renew" /\ call'[c] = Idle
  BY <1>2, <1>3 DEF End
<1>7. /\ \A r \in Tokens : r # t => token'[r] = token[r]
      /\ token'[t].login = token[call[c].token].login /\ token'[t].family = t
      /\ token'[t].user = call[c].user
  BY <1>3, <1>4
<1>8. QED
  BY <1>1, <1>2, <1>4, <1>5, <1>6, <1>7

LEMMA AuditWritten ==
  ASSUME TypeInv, NEW c \in Calls, WriteAudit(c)
  PROVE  /\ UNCHANGED <<key, token, revoked, active, row>>
         /\ call[c].step = "audit" /\ call[c].token \in Tokens
         /\ key[call[c].token] # "unborn"
         /\ token[call[c].token].login = call[c].session
         /\ audited' = audited \cup {call[c].session}
         /\ sent \subseteq sent' /\ sent' \subseteq sent \cup {call[c].token}
<1>1. call[c].step = "audit" /\ CallInv(c)
  BY DEF WriteAudit, End, TypeInv, CallsInv
<1>2. QED
  BY <1>1 DEF CallInv, WriteAudit, Answer, redis, account

LEMMA KeyDeleted ==
  ASSUME TypeInv, NEW c \in Calls, RevokeExchanged(c) \/ RevokeGiven(c)
  PROVE  /\ UNCHANGED <<token, sent, revoked, audited, active, row>>
         /\ call[c].step \in {"delete", "forget"} /\ call[c].token \in sent
         /\ \A t \in Tokens : t # call[c].token => key'[t] = key[t]
         /\ \/ key'[call[c].token] = key[call[c].token]
            \/ /\ key[call[c].token] = "live"
               /\ key'[call[c].token] =
                    IF call[c].step = "delete" THEN "exchanged" ELSE "loggedOut"
<1>1. call[c].step \in {"delete", "forget"} /\ CallInv(c)
  BY DEF RevokeExchanged, RevokeGiven, GoOn, TypeInv, CallsInv
<1>2. call[c].token \in sent /\ call[c].token \in Tokens
      /\ key \in [Tokens -> {"unborn", "live", "exchanged", "loggedOut", "expired"}]
  BY <1>1 DEF CallInv, ForToken, Refreshing, TypeInv, TypeOK
<1>3. CASE RevokeExchanged(c)
  <2>1. /\ call[c].step = "delete"
        /\ key' = IF key[call[c].token] = "live"
                  THEN [key EXCEPT ![call[c].token] = "exchanged"] ELSE key
        /\ UNCHANGED <<token, sent, revoked, audited, active, row>>
    BY <1>3 DEF RevokeExchanged, Delete, GoOn, account
  <2>2. QED
    BY <1>2, <2>1
<1>4. CASE RevokeGiven(c)
  <2>1. /\ call[c].step = "forget"
        /\ \/ key' = key
           \/ /\ key[call[c].token] = "live"
              /\ key' = [key EXCEPT ![call[c].token] = "loggedOut"]
        /\ UNCHANGED <<token, sent, revoked, audited, active, row>>
    BY <1>4 DEF RevokeGiven, Delete, GoOn, account
  <2>2. QED
    BY <1>2, <2>1
<1>5. QED
  BY <1>3, <1>4

LEMMA FamilyRevoked ==
  ASSUME TypeInv, NEW c \in Calls, revokeFamily(c)
  PROVE  /\ UNCHANGED <<key, token, sent, audited, active, row>>
         /\ call[c].step = "revoke" /\ call[c].token \in sent
         /\ revoked' = revoked \cup {call[c].token}
<1>1. call[c].step = "revoke"
  BY DEF revokeFamily, End
<1>2. /\ call[c].token \in sent
      /\ token[call[c].token].family = call[c].token
  BY <1>1, TokenCall DEF ForToken, Refreshing, TypeInv, TokensInv
<1>3. QED
  BY <1>1, <1>2 DEF revokeFamily, account

LEMMA UnsentStep ==
  ASSUME TypeInv, UnsentInv, Next
  PROVE  UnsentInv'
<1>1. /\ key \in [Tokens -> {"unborn", "live", "exchanged", "loggedOut", "expired"}]
      /\ \A t \in revoked : t \in Tokens /\ key[t] # "unborn"
  BY DEF TypeInv, TypeOK, TokensInv
<1>2. ASSUME NEW t \in Tokens, key[t] = "unborn", key' = [key EXCEPT ![t] = "live"],
             UNCHANGED revoked, sent \subseteq sent'
      PROVE  UnsentInv'
  BY <1>1, <1>2 DEF UnsentInv
<1>3. CASE UNCHANGED <<key, token, sent, revoked, audited>>
  BY <1>3 DEF UnsentInv
<1>4. ASSUME NEW c \in Calls, IssueFirst(c) PROVE UnsentInv'
  BY <1>2, <1>4, FirstIssued
<1>5. ASSUME NEW c \in Calls, IssueNext(c) PROVE UnsentInv'
  BY <1>2, <1>5, NextIssued
<1>6. ASSUME NEW c \in Calls, WriteAudit(c) PROVE UnsentInv'
  BY <1>6, AuditWritten DEF UnsentInv
<1>7. ASSUME NEW c \in Calls, RevokeExchanged(c) \/ RevokeGiven(c) PROVE UnsentInv'
  BY <1>7, KeyDeleted DEF UnsentInv
<1>8. ASSUME NEW c \in Calls, revokeFamily(c) PROVE UnsentInv'
  BY <1>8, FamilyRevoked DEF UnsentInv
<1>9. ASSUME NEW t \in Tokens, Expire(t) PROVE UnsentInv'
  BY <1>1, <1>9 DEF UnsentInv, Expire
<1>10. QED
  BY <1>3, <1>4, <1>5, <1>6, <1>7, <1>8, <1>9, TokenWriters

(* A token that is not good any more never becomes good again. *)
LEMMA NeverAgain ==
  ASSUME TypeInv, Next, NEW t \in Tokens, key[t] # "unborn"
  PROVE  /\ key[t] # "live" => key'[t] # "live"
         /\ token'[t] = token[t]
<1>1. key \in [Tokens -> {"unborn", "live", "exchanged", "loggedOut", "expired"}]
  BY DEF TypeInv, TypeOK
<1>2. ASSUME NEW r \in Tokens, key[r] = "unborn", key' = [key EXCEPT ![r] = "live"],
             \A q \in Tokens : q # r => token'[q] = token[q]
      PROVE  key'[t] = key[t] /\ token'[t] = token[t]
  BY <1>1, <1>2
<1>3. ASSUME NEW c \in Calls, IssueFirst(c) PROVE key'[t] = key[t] /\ token'[t] = token[t]
  BY <1>2, <1>3, FirstIssued
<1>4. ASSUME NEW c \in Calls, IssueNext(c) PROVE key'[t] = key[t] /\ token'[t] = token[t]
  BY <1>2, <1>4, NextIssued
<1>5. ASSUME NEW c \in Calls, WriteAudit(c) \/ revokeFamily(c)
      PROVE  key'[t] = key[t] /\ token'[t] = token[t]
  BY <1>5, AuditWritten, FamilyRevoked
<1>6. ASSUME NEW c \in Calls, RevokeExchanged(c) \/ RevokeGiven(c)
      PROVE  (key[t] # "live" => key'[t] # "live") /\ token'[t] = token[t]
  BY <1>6, KeyDeleted
<1>7. ASSUME NEW r \in Tokens, Expire(r)
      PROVE  (key[t] # "live" => key'[t] # "live") /\ token'[t] = token[t]
  BY <1>1, <1>7 DEF Expire
<1>8. QED
  BY <1>3, <1>4, <1>5, <1>6, <1>7, TokenWriters

LEMMA RevokeStep ==
  ASSUME TypeInv, RevokeInv, Next
  PROVE  RevokeInv'
<1> SUFFICES ASSUME NEW d \in Calls, call'[d].step = "revoke"
             PROVE  key'[call'[d].token] # "live"
  BY DEF RevokeInv
<1>1. CASE call'[d] = call[d]
  <2>1. call[d].token \in Tokens /\ key[call[d].token] # "unborn"
        /\ key[call[d].token] # "live"
    BY <1>1, TokenCall DEF RevokeInv, ForToken, Refreshing
  <2>2. QED
    BY <1>1, <2>1, NeverAgain
<1>2. CASE call'[d] # call[d]
  <2>1. getRefreshTokenData(d)
    BY <1>2, CameFrom
  <2>2. /\ call \in [Calls -> CallType]
        /\ call' = [call EXCEPT ![d].step = IF Found(call[d].token) THEN "delete" ELSE "revoke"]
        /\ key' = key
    BY <2>1 DEF getRefreshTokenData, GoOn, TypeInv, TypeOK, redis
  <2>3. call'[d].token = call[d].token /\ ~ Found(call[d].token)
    BY <2>2 DEF CallType
  <2>4. QED
    BY <2>2, <2>3 DEF Found
<1>3. QED
  BY <1>1, <1>2

(* What serves a login goes on to serve it. *)
LEMMA TokenServes ==
  ASSUME WorksInv, Next, NEW r \in sent, NEW login, token[r].login = login, Works(r) \/ Over(r)
  PROVE  Served(login)'
<1>1. TypeInv /\ r \in Tokens /\ key[r] # "unborn" /\ token[r].family = r
      /\ call \in [Calls -> CallType]
      /\ key \in [Tokens -> {"unborn", "live", "exchanged", "loggedOut", "expired"}]
  BY DEF WorksInv, TypeInv, TypeOK, TokensInv
<1>2. token'[r] = token[r]
  BY <1>1, NeverAgain
<1>3. ASSUME r \in sent', (Works(r) \/ Over(r))'
      PROVE  Served(login)'
  BY <1>2, <1>3 DEF Served
<1>4. ASSUME key'[r] = key[r], UNCHANGED revoked, sent \subseteq sent'
      PROVE  Served(login)'
  BY <1>2, <1>3, <1>4 DEF Works, Over
<1>5. CASE UNCHANGED <<key, token, sent, revoked, audited>>
  BY <1>4, <1>5
<1>6. ASSUME NEW c \in Calls, IssueFirst(c) PROVE Served(login)'
  BY <1>1, <1>4, <1>6, FirstIssued
<1>7. ASSUME NEW c \in Calls, IssueNext(c) PROVE Served(login)'
  BY <1>1, <1>4, <1>7, NextIssued
<1>8. ASSUME NEW c \in Calls, WriteAudit(c) PROVE Served(login)'
  BY <1>1, <1>4, <1>8, AuditWritten
<1>9. ASSUME NEW c \in Calls, RevokeExchanged(c) \/ RevokeGiven(c) PROVE Served(login)'
  <2>1. CASE key'[r] = key[r]
    BY <1>1, <1>4, <1>9, <2>1, KeyDeleted
  <2>2. CASE key'[r] # key[r]
    <3>1. r = call[c].token /\ token' = token /\ sent' = sent
          /\ call[c].step \in {"delete", "forget"}
          /\ key'[r] = IF call[c].step = "delete" THEN "exchanged" ELSE "loggedOut"
      BY <1>1, <1>9, <2>2, KeyDeleted
    <3>2. CASE call[c].step = "forget"
      BY <1>3, <3>1, <3>2 DEF Over
    <3>3. CASE call[c].step = "delete"
      <4>1. call' = [call EXCEPT ![c].step = "lookup"]
        BY <1>9, <3>3 DEF RevokeExchanged, RevokeGiven, GoOn
      <4>2. call'[c].step = "lookup" /\ call'[c].token = r
        BY <1>1, <3>1, <4>1 DEF CallType
      <4>3. Exchanging(c, login)'
        BY <3>1, <4>2 DEF Exchanging
      <4>4. QED
        BY <4>3 DEF Served
    <3>4. QED
      BY <3>1, <3>2, <3>3
  <2>3. QED
    BY <2>1, <2>2
<1>10. ASSUME NEW c \in Calls, revokeFamily(c) PROVE Served(login)'
  <2>1. /\ UNCHANGED <<key, token, sent>> /\ call[c].step = "revoke"
        /\ revoked' = revoked \cup {call[c].token}
    BY <1>1, <1>10, FamilyRevoked
  <2>2. key[call[c].token] # "live"
    BY <2>1 DEF WorksInv, RevokeInv
  <2>3. (Works(r) \/ Over(r))'
    BY <1>1, <2>1, <2>2 DEF Works, Over
  <2>4. QED
    BY <1>3, <2>1, <2>3
<1>11. ASSUME NEW t \in Tokens, Expire(t) PROVE Served(login)'
  <2>1. UNCHANGED <<token, sent, revoked>> /\ key' = [key EXCEPT ![t] = "expired"]
    BY <1>11 DEF Expire
  <2>2. CASE t = r
    BY <1>1, <1>3, <2>1, <2>2 DEF Over
  <2>3. CASE t # r
    BY <1>1, <1>4, <2>1, <2>3
  <2>4. QED
    BY <2>2, <2>3
<1>12. QED
  BY <1>1, <1>5, <1>6, <1>7, <1>8, <1>9, <1>10, <1>11, TokenWriters

LEMMA ExchangeServes ==
  ASSUME WorksInv, Next, "error" \notin may, NEW d \in Calls, NEW t \in sent,
         Exchanging(d, token[t].login)
  PROVE  Served(token[t].login)' \/ token[t].user \notin active'
<1> DEFINE old == call[d].token
<1>1. /\ TypeInv /\ call \in [Calls -> CallType] /\ t \in Tokens /\ key[t] # "unborn"
      /\ call[d].step \in {"lookup", "renew"} /\ token[old].login = token[t].login
      /\ old \in Tokens /\ key[old] # "unborn" /\ token[old].user = call[d].user
  BY TokenCall DEF WorksInv, Exchanging, TypeInv, TypeOK, ForToken, Refreshing
<1>2. token[t].user = token[old].user
  BY <1>1 DEF TypeInv, TokensInv
<1>3. token'[t] = token[t] /\ token'[old] = token[old]
  BY <1>1, NeverAgain
<1>4. CASE call'[d] = call[d]
  <2>1. Exchanging(d, token[t].login)'
    BY <1>1, <1>3, <1>4 DEF Exchanging
  <2>2. QED
    BY <1>3, <2>1 DEF Served
<1>5. CASE ReadUser(d)
  <2>1. CASE End(d, "lookup")
    BY <1>1, <1>2, <1>5, <2>1 DEF ReadUser, End, GoOn, account, CallType, Idle
  <2>2. CASE GoOn(d, "lookup", "renew")
    <3>1. call'[d].step = "renew" /\ call'[d].token = old
      BY <1>1, <2>2 DEF GoOn, CallType
    <3>2. Exchanging(d, token[t].login)'
      BY <1>1, <1>3, <3>1 DEF Exchanging
    <3>3. QED
      BY <1>3, <3>2 DEF Served
  <2>3. QED
    BY <1>5, <2>1, <2>2 DEF ReadUser
<1>6. CASE IssueNext(d)
  <2>1. PICK r \in Tokens :
          /\ key[r] = "unborn" /\ key' = [key EXCEPT ![r] = "live"]
          /\ token'[r].login = token[old].login /\ token'[r].family = r
          /\ UNCHANGED revoked
          /\ sent' = sent \cup {r}
    BY <1>1, <1>6, NextIssued
  <2>2. r \notin revoked /\ key'[r] = "live"
    BY <1>1, <2>1 DEF TypeInv, TypeOK, TokensInv
  <2>3. r \in sent' /\ token'[r].login = token[t].login /\ Works(r)'
    BY <1>1, <2>1, <2>2 DEF Works
  <2>4. QED
    BY <1>3, <2>3 DEF Served
<1>7. ~ Fail(d)
  BY DEF Fail
<1>8. QED
  BY <1>1, <1>4, <1>5, <1>6, <1>7, CameFrom

(* A token that a client receives. *)
LEMMA Received ==
  ASSUME WorksInv, Next, NEW t \in sent', t \notin sent
  PROVE  /\ (Works(t) \/ Over(t))'
         /\ token'[t].login \in audited'
<1>1. /\ TypeInv /\ UnsentInv
      /\ key \in [Tokens -> {"unborn", "live", "exchanged", "loggedOut", "expired"}]
      /\ \A r \in Tokens : key[r] # "unborn" => token[r].family = r
      /\ \A r \in revoked : r \in Tokens /\ key[r] # "unborn"
      /\ LoginsAreAudited
  BY DEF WorksInv, TypeInv, TypeOK, TokensInv
<1>2. ASSUME NEW c \in Calls, WriteAudit(c)
      PROVE  (Works(t) \/ Over(t))' /\ token'[t].login \in audited'
  <2>1. t = call[c].token
    BY <1>1, <1>2, AuditWritten
  <2>2. UNCHANGED <<key, token, revoked>> /\ t \in Tokens /\ key[t] # "unborn"
        /\ token[t].login \in audited'
    BY <1>1, <1>2, <2>1, AuditWritten
  <2>3. key[t] \in {"live", "expired"} /\ t \notin revoked
    BY <1>1, <2>2 DEF UnsentInv
  <2>4. QED
    BY <1>1, <2>2, <2>3 DEF Works, Over
<1>3. ASSUME NEW c \in Calls, IssueNext(c)
      PROVE  (Works(t) \/ Over(t))' /\ token'[t].login \in audited'
  <2>1. PICK r \in Tokens :
          /\ key[r] = "unborn" /\ key' = [key EXCEPT ![r] = "live"]
          /\ token'[r].login = token[call[c].token].login /\ token'[r].family = r
          /\ UNCHANGED <<revoked, audited>>
          /\ sent' = sent \cup {r} \/ ("error" \in may /\ sent' = sent)
          /\ call[c].step = "renew"
    BY <1>1, <1>3, NextIssued
  <2>2. r = t
    BY <2>1
  <2>3. call[c].token \in sent
    BY <1>1, <2>1, TokenCall DEF ForToken, Refreshing
  <2>4. key'[t] = "live" /\ token'[t].family \notin revoked'
    BY <1>1, <2>1, <2>2
  <2>5. token'[t].login \in audited'
    BY <1>1, <2>1, <2>2, <2>3 DEF LoginsAreAudited
  <2>6. QED
    BY <2>4, <2>5 DEF Works
<1>4. CASE UNCHANGED <<key, token, sent, revoked, audited>>
  BY <1>4
<1>5. ASSUME NEW c \in Calls, \/ IssueFirst(c) \/ RevokeExchanged(c) \/ RevokeGiven(c)
                              \/ revokeFamily(c)
      PROVE  FALSE
  BY <1>1, <1>5, FirstIssued, KeyDeleted, FamilyRevoked
<1>6. ASSUME NEW r \in Tokens, Expire(r)
      PROVE  FALSE
  BY <1>6 DEF Expire
<1>7. QED
  BY <1>1, <1>2, <1>3, <1>4, <1>5, <1>6, TokenWriters

LEMMA SentGrows ==
  ASSUME TypeInv, Next
  PROVE  /\ sent \subseteq sent' /\ audited \subseteq audited' /\ active' \subseteq active
         /\ UNCHANGED may
<1>1. sent \subseteq sent' /\ audited \subseteq audited'
  <2>1. ASSUME NEW c \in Calls, IssueFirst(c) \/ IssueNext(c) \/ WriteAudit(c)
        PROVE  sent \subseteq sent' /\ audited \subseteq audited'
    BY <2>1, FirstIssued, NextIssued, AuditWritten
  <2>2. ASSUME NEW c \in Calls, RevokeExchanged(c) \/ RevokeGiven(c) \/ revokeFamily(c)
        PROVE  sent \subseteq sent' /\ audited \subseteq audited'
    BY <2>2, KeyDeleted, FamilyRevoked
  <2>3. ASSUME NEW t \in Tokens, Expire(t)
        PROVE  sent \subseteq sent' /\ audited \subseteq audited'
    BY <2>3 DEF Expire
  <2>4. QED
    BY <2>1, <2>2, <2>3, TokenWriters
<1>2. active' \subseteq active /\ UNCHANGED may
  <2>1. ASSUME NEW c \in Calls, LoginStep(c) \/ ChangeStep(c)
        PROVE  UNCHANGED <<active, may>>
    BY <2>1 DEF LoginStep, ChangeStep, StartLogin, CountFailure, ResetFailures, CreateSession,
                IssueFirst, WriteAudit, StartChange, WritePassword, account
  <2>2. ASSUME NEW c \in Calls, RefreshStep(c) \/ LogoutStep(c)
        PROVE  UNCHANGED <<active, may>>
    BY <2>2, TokenStepsKeep DEF account
  <2>3. CASE Environment
    BY <2>3 DEF Environment, Tick, Fail, Expire, Deactivate, account
  <2>4. QED
    BY <2>1, <2>2, <2>3 DEF Next
<1>3. QED
  BY <1>1, <1>2

LEMMA WorksStep == WorksInv /\ [Next]_vars => WorksInv'
<1>1. CASE UNCHANGED vars
  BY <1>1, TypeStep DEF WorksInv, UnsentInv, RevokeInv, ATokenWorks, Exchanging, Works, Over,
                        LoginsAreAudited, vars, account, redis
<1>2. ASSUME WorksInv, Next
      PROVE  WorksInv'
  <2>1. TypeInv /\ TypeInv' /\ UnsentInv' /\ RevokeInv'
    BY <1>2, TypeStep, UnsentStep, RevokeStep DEF WorksInv
  <2>2. sent \subseteq Tokens /\ \A t \in sent : key[t] # "unborn"
    BY <2>1 DEF TypeInv, TypeOK
  <2>3. \A t \in sent : token'[t] = token[t]
    BY <1>2, <2>1, <2>2, NeverAgain
  <2>4. LoginsAreAudited'
    BY <1>2, <2>1, <2>3, Received, SentGrows DEF LoginsAreAudited, WorksInv
  <2>5. ATokenWorks'
    <3> SUFFICES ASSUME may \cap {"error", "replay"} = {}, NEW t \in sent'
                 PROVE  Served(token[t].login)' \/ token'[t].user \notin active'
      BY <1>2, <2>1, SentGrows DEF ATokenWorks, Served
    <3>1. CASE t \notin sent
      BY <1>2, <3>1, Received DEF Served
    <3>2. CASE t \in sent
      <4>1. Served(token[t].login) \/ token[t].user \notin active
        BY <1>2, <3>2 DEF WorksInv, ATokenWorks, Served
      <4>0. "error" \notin may
        OBVIOUS
      <4>2. CASE token[t].user \notin active
        BY <1>2, <2>1, <2>3, <3>2, <4>2, SentGrows
      <4>3. ASSUME NEW r \in sent, token[r].login = token[t].login, Works(r) \/ Over(r)
            PROVE  Served(token[t].login)'
        <5>1. PICK login \in {token[t].login} : login = token[t].login
          OBVIOUS
        <5>2. Served(login)'
          BY <1>2, <4>3, <5>1, TokenServes
        <5>3. token'[t].login = login
          BY <2>3, <3>2, <5>1
        <5>4. QED
          BY <5>2, <5>3
      <4>4. ASSUME NEW d \in Calls, Exchanging(d, token[t].login)
            PROVE  Served(token[t].login)' \/ token[t].user \notin active'
        BY <1>2, <3>2, <4>0, <4>4, ExchangeServes
      <4>5. QED
        BY <2>3, <3>2, <4>1, <4>2, <4>3, <4>4 DEF Served
    <3>3. QED
      BY <3>1, <3>2
  <2>6. QED
    BY <2>1, <2>4, <2>5 DEF WorksInv
<1>3. QED
  BY <1>1, <1>2 DEF WorksInv

LEMMA WorksAlways == Spec => []WorksInv
<1>1. Init => WorksInv
  BY TypeInit, IdleType DEF Init, WorksInv, UnsentInv, RevokeInv, ATokenWorks, LoginsAreAudited
<1>2. QED
  BY <1>1, WorksStep, PTL DEF Spec

(* However requests overlap, the client of an active user that neither has *)
(* a request fail half-way nor sends an exchanged token again is never     *)
(* left without a token that works.                                        *)
THEOREM ClientsKeepAToken == Spec => []ATokenWorks
<1>1. WorksInv => ATokenWorks
  BY DEF WorksInv
<1>2. QED
  BY <1>1, WorksAlways, PTL

(* Whatever overlaps and fails, nobody holds a token whose login was not   *)
(* logged.                                                                 *)
THEOREM LoginsAudited == Spec => []LoginsAreAudited
<1>1. WorksInv => LoginsAreAudited
  BY DEF WorksInv
<1>2. QED
  BY <1>1, WorksAlways, PTL

-----------------------------------------------------------------------------
(* One token per login *)

Good(t) == key[t] \in {"live", "loggedOut"}

NoneOf(login) == \A t \in Tokens : key[t] # "unborn" => token[t].login # login

NoGood(login) == \A t \in Tokens : Good(t) => token[t].login # login

OnlyGood(t) ==
  /\ key[t] \in {"live", "expired"}
  /\ \A r \in Tokens : Good(r) /\ token[r].login = token[t].login => r = t

OneGood ==
  \A t, r \in Tokens :
    Good(t) /\ key[r] = "live" /\ token[t].login = token[r].login => t = r

(* While a token is being exchanged, its login has no other. *)
ExchangeInv(c) ==
  /\ call[c].step = "issue" => NoneOf(call[c].session)
  /\ call[c].step = "delete" => OnlyGood(call[c].token)
  /\ call[c].step \in {"lookup", "renew"} => NoGood(token[call[c].token].login)

ChainInv ==
  TypeInv /\ ("overlap" \notin may => OneGood /\ \A c \in Calls : ExchangeInv(c))

(* Requests that do not overlap are of different users. *)
LEMMA Distinct ==
  ASSUME TypeInv, "overlap" \notin may, NEW c \in Calls, NEW d \in Calls, c # d,
         call[c].step # "idle"
  PROVE  call[c].user # call[d].user
<1>1. call[c] \in CallType /\ call[c].user \in Users
  BY DEF TypeInv, TypeOK, CallsInv, CallInv, CallType
<1>2. QED
  BY <1>1 DEF TypeInv, OneAtATime, Concerns

(* A token is issued: its login has no other that is good. *)
LEMMA IssuedAlone ==
  ASSUME ChainInv, Next, "overlap" \notin may, NEW c \in Calls, call[c].step # "idle",
         call'[c].step \in {"audit", "idle"},
         \A d \in Calls : d # c => call'[d] = call[d],
         NEW n \in Tokens, key[n] = "unborn", key' = [key EXCEPT ![n] = "live"],
         \A r \in Tokens : r # n => token'[r] = token[r],
         NoGood(token'[n].login), row[token'[n].login].user = call[c].user
  PROVE  OneGood' /\ \A d \in Calls : ExchangeInv(d)'
<1>1. /\ TypeInv /\ OneGood
      /\ key \in [Tokens -> {"unborn", "live", "exchanged", "loggedOut", "expired"}]
  BY DEF ChainInv, TypeInv, TypeOK
<1>2. key'[n] = "live" /\ \A r \in Tokens : r # n => key'[r] = key[r]
  BY <1>1
<1>3. OneGood'
  <2> SUFFICES ASSUME NEW t \in Tokens, NEW r \in Tokens, Good(t)', key'[r] = "live",
                      token'[t].login = token'[r].login
               PROVE  t = r
    BY DEF OneGood
  <2>1. CASE t # n /\ r # n
    BY <1>1, <1>2, <2>1 DEF OneGood, Good
  <2>2. CASE t = n /\ r # n
    BY <1>1, <1>2, <2>2 DEF NoGood, Good
  <2>3. CASE t # n /\ r = n
    BY <1>1, <1>2, <2>3 DEF NoGood, Good
  <2>4. QED
    BY <2>1, <2>2, <2>3
<1>4. ASSUME NEW d \in Calls
      PROVE  ExchangeInv(d)'
  <2>1. CASE d = c
    BY <2>1 DEF ExchangeInv
  <2>2. CASE d # c
    <3>1. call'[d] = call[d] /\ ExchangeInv(d) /\ CallInv(d) /\ call[d].user # call[c].user
      BY <1>1, <2>2, Distinct DEF ChainInv, TypeInv, CallsInv
    <3>2. CASE call[d].step = "issue"
      <4>1. call[d].session # token'[n].login
        BY <3>1, <3>2 DEF CallInv
      <4>2. NoneOf(call[d].session)
        BY <3>1, <3>2 DEF ExchangeInv
      <4>3. NoneOf(call[d].session)'
        BY <1>2, <3>1, <4>1, <4>2 DEF NoneOf
      <4>4. QED
        BY <3>1, <3>2, <4>3 DEF ExchangeInv
    <3>3. CASE call[d].step \in {"delete", "lookup", "renew"}
      <4>1. PICK old \in Tokens :
              /\ old = call[d].token /\ key[old] # "unborn" /\ old # n
              /\ token[old].login # token'[n].login
        BY <1>1, <3>1, <3>3, TokenCall DEF ForToken, Refreshing, TypeInv, TokensInv
      <4>2. token'[old] = token[old] /\ key'[old] = key[old] /\ call'[d].token = old
        BY <1>2, <3>1, <4>1
      <4>3. OnlyGood(old) => OnlyGood(old)'
        BY <1>2, <4>1, <4>2 DEF OnlyGood, Good
      <4>4. NoGood(token[old].login) => NoGood(token[old].login)'
        BY <1>2, <4>1, <4>2 DEF NoGood, Good
      <4>5. QED
        BY <3>1, <3>3, <4>1, <4>2, <4>3, <4>4 DEF ExchangeInv
    <3>4. QED
      BY <3>1, <3>2, <3>3 DEF ExchangeInv
  <2>3. QED
    BY <2>1, <2>2
<1>5. QED
  BY <1>3, <1>4

(* No step but an issue makes a token good, and a token that a request is  *)
(* about to delete is deleted by nobody else.                              *)
LEMMA NothingNew ==
  ASSUME TypeInv, Next, \A c \in Calls : ~ IssueFirst(c) /\ ~ IssueNext(c), NEW t \in Tokens
  PROVE  /\ key'[t] = "unborn" <=> key[t] = "unborn"
         /\ key'[t] = "live" => key[t] = "live"
         /\ Good(t)' => Good(t)
         /\ token'[t] = token[t]
<1>1. key \in [Tokens -> {"unborn", "live", "exchanged", "loggedOut", "expired"}]
      /\ sent \subseteq Tokens /\ (\A r \in sent : key[r] # "unborn")
  BY DEF TypeInv, TypeOK
<1>2. CASE UNCHANGED <<key, token, sent, revoked, audited>>
  BY <1>2 DEF Good
<1>3. ASSUME NEW c \in Calls, WriteAudit(c) \/ revokeFamily(c)
      PROVE  UNCHANGED <<key, token>>
  BY <1>3, AuditWritten, FamilyRevoked
<1>4. ASSUME NEW c \in Calls, RevokeExchanged(c) \/ RevokeGiven(c)
      PROVE  /\ token' = token
             /\ \/ key'[t] = key[t]
                \/ key[t] = "live" /\ key'[t] \in {"exchanged", "loggedOut"}
  BY <1>1, <1>4, KeyDeleted
<1>5. ASSUME NEW r \in Tokens, Expire(r)
      PROVE  /\ token' = token
             /\ \/ key'[t] = key[t]
                \/ key[t] # "unborn" /\ key'[t] = "expired"
  BY <1>1, <1>5 DEF Expire
<1>6. QED
  BY <1>2, <1>3, <1>4, <1>5, TokenWriters DEF Good

LEMMA OthersLeaveKey ==
  ASSUME TypeInv, Next, "overlap" \notin may, NEW d \in Calls, call[d].step = "delete",
         call'[d] = call[d], key[call[d].token] \in {"live", "expired"}
  PROVE  key'[call[d].token] \in {"live", "expired"}
<1>1. call[d].token \in Tokens /\ key[call[d].token] # "unborn"
      /\ token[call[d].token].user \in Users /\ call[d].token # None
      /\ call \in [Calls -> CallType]
      /\ key \in [Tokens -> {"unborn", "live", "exchanged", "loggedOut", "expired"}]
  BY TokenCall, NoneAssumption DEF ForToken, Refreshing, TypeInv, TypeOK
<1>2. CASE UNCHANGED <<key, token, sent, revoked, audited>>
  BY <1>2
<1>3. ASSUME NEW c \in Calls, WriteAudit(c) \/ revokeFamily(c)
      PROVE  key' = key
  BY <1>3, AuditWritten, FamilyRevoked
<1>4. ASSUME NEW c \in Calls, IssueFirst(c) \/ IssueNext(c)
      PROVE  key'[call[d].token] = key[call[d].token]
  BY <1>1, <1>4, FirstIssued, NextIssued
<1>5. ASSUME NEW c \in Calls, RevokeExchanged(c) \/ RevokeGiven(c)
      PROVE  key'[call[d].token] = key[call[d].token]
  <2>1. call'[c].step \in {"lookup", "close"}
    BY <1>1, <1>5 DEF RevokeExchanged, RevokeGiven, GoOn, CallType
  <2>2. c # d /\ call[c].step \in {"delete", "forget"}
    BY <1>5, <2>1, KeyDeleted
  <2>3. call[c].token # call[d].token
    BY <1>1, <2>2 DEF TypeInv, OneAtATime, Concerns
  <2>4. QED
    BY <1>1, <1>5, <2>3, KeyDeleted
<1>6. ASSUME NEW t \in Tokens, Expire(t)
      PROVE  key'[call[d].token] \in {"live", "expired"}
  BY <1>1, <1>6 DEF Expire
<1>7. QED
  BY <1>2, <1>3, <1>4, <1>5, <1>6, TokenWriters

LEMMA QuietChain ==
  ASSUME ChainInv, Next, "overlap" \notin may,
         \A c \in Calls : ~ IssueFirst(c) /\ ~ IssueNext(c)
  PROVE  OneGood' /\ \A d \in Calls : ExchangeInv(d)'
<1>1. TypeInv /\ OneGood /\ call \in [Calls -> CallType]
  BY DEF ChainInv, TypeInv, TypeOK
<1>2. OneGood'
  BY <1>1, NothingNew DEF OneGood, Good
<1>3. ASSUME NEW d \in Calls, call'[d] = call[d]
      PROVE  ExchangeInv(d)'
  <2>1. ExchangeInv(d)
    BY DEF ChainInv
  <2>2. CASE call[d].step = "issue"
    <3>1. NoneOf(call[d].session)'
      BY <1>1, <1>3, <2>1, <2>2, NothingNew DEF ExchangeInv, NoneOf
    <3>2. QED
      BY <1>3, <2>2, <3>1 DEF ExchangeInv
  <2>3. CASE call[d].step \in {"delete", "lookup", "renew"}
    <3>1. PICK old \in Tokens : old = call[d].token
      BY <1>1, <2>3, TokenCall DEF ForToken, Refreshing
    <3>2. \A t \in Tokens : (Good(t)' => Good(t)) /\ token'[t] = token[t]
      BY <1>1, NothingNew
    <3>3. NoGood(token[old].login) => NoGood(token[old].login)'
      BY <3>1, <3>2 DEF NoGood
    <3>4. call[d].step = "delete" => OnlyGood(old)'
      BY <1>1, <1>3, <2>1, <3>1, <3>2, OthersLeaveKey DEF ExchangeInv, OnlyGood
    <3>5. QED
      BY <1>3, <2>1, <2>3, <3>1, <3>3, <3>4 DEF ExchangeInv
  <2>4. QED
    BY <1>3, <2>2, <2>3 DEF ExchangeInv
<1>4. ASSUME NEW d \in Calls, CreateSession(d)
      PROVE  ExchangeInv(d)'
  <2>1. PICK s \in Sessions :
          /\ row[s] = NoRow
          /\ call' = [call EXCEPT ![d] = [call[d] EXCEPT !.step = "issue", !.session = s]]
    BY <1>4 DEF CreateSession
  <2>2. call'[d].step = "issue" /\ call'[d].session = s
    BY <1>1, <2>1 DEF CallType
  <2>3. NoneOf(s)
    BY <1>1, <2>1, NoneAssumption DEF NoneOf, NoRow, TypeInv, TokensInv
  <2>4. NoneOf(s)'
    BY <1>1, <2>3, NothingNew DEF NoneOf
  <2>5. QED
    BY <2>2, <2>4 DEF ExchangeInv
<1>5. ASSUME NEW d \in Calls, getRefreshTokenData(d)
      PROVE  ExchangeInv(d)'
  <2>1. /\ call' = [call EXCEPT ![d].step = IF Found(call[d].token) THEN "delete" ELSE "revoke"]
        /\ call[d].step = "get" /\ key' = key /\ token' = token
    BY <1>5 DEF getRefreshTokenData, GoOn, redis
  <2>2. PICK old \in Tokens : old = call[d].token
    BY <1>1, <2>1, TokenCall DEF ForToken, Refreshing
  <2>3. /\ call'[d].step = IF key[old] = "live" THEN "delete" ELSE "revoke"
        /\ call'[d].token = old
    BY <1>1, <2>1, <2>2 DEF CallType, Found
  <2>4. key[old] = "live" => OnlyGood(old)
    BY <1>1, <2>2 DEF OneGood, OnlyGood
  <2>5. key[old] = "live" => OnlyGood(old)'
    BY <2>1, <2>4 DEF OnlyGood, Good
  <2>6. QED
    BY <2>3, <2>5 DEF ExchangeInv
<1>6. ASSUME NEW d \in Calls, RevokeExchanged(d)
      PROVE  ExchangeInv(d)'
  <2>1. /\ call' = [call EXCEPT ![d].step = "lookup"] /\ call[d].step = "delete"
        /\ token' = token
    BY <1>6 DEF RevokeExchanged, GoOn
  <2>2. PICK old \in Tokens : old = call[d].token
    BY <1>1, <2>1, TokenCall DEF ForToken, Refreshing
  <2>3. call'[d].step = "lookup" /\ call'[d].token = old
    BY <1>1, <2>1, <2>2 DEF CallType
  <2>4. OnlyGood(old)
    BY <2>1, <2>2 DEF ChainInv, ExchangeInv
  <2>5. ~ Good(old)'
    <3>1. key' = IF key[old] = "live" THEN [key EXCEPT ![old] = "exchanged"] ELSE key
      BY <1>6, <2>2 DEF RevokeExchanged, Delete
    <3>2. key \in [Tokens -> {"unborn", "live", "exchanged", "loggedOut", "expired"}]
      BY <1>1 DEF TypeInv, TypeOK
    <3>3. QED
      BY <2>4, <3>1, <3>2 DEF OnlyGood, Good
  <2>6. \A t \in Tokens : Good(t)' => token[t].login # token[old].login
    BY <1>1, <2>4, <2>5, NothingNew DEF OnlyGood
  <2>7. NoGood(token[old].login)'
    BY <2>1, <2>6 DEF NoGood
  <2>8. QED
    BY <2>3, <2>7 DEF ExchangeInv
<1>7. ASSUME NEW d \in Calls, ReadUser(d), call'[d].step = "renew"
      PROVE  ExchangeInv(d)'
  <2>1. call[d].step = "lookup" /\ UNCHANGED <<key, token>>
        /\ call' = [call EXCEPT ![d].step = "renew"]
    BY <1>1, <1>7, EndEffect, IdleType DEF ReadUser, GoOn, End, redis
  <2>2. call'[d].token = call[d].token
    BY <1>1, <2>1 DEF CallType
  <2>3. NoGood(token[call[d].token].login)
    BY <2>1 DEF ChainInv, ExchangeInv
  <2>4. NoGood(token[call[d].token].login)'
    BY <2>1, <2>2, <2>3 DEF NoGood, Good
  <2>5. QED
    BY <1>7, <2>4 DEF ExchangeInv
<1>8. ASSUME NEW d \in Calls, call'[d] # call[d]
      PROVE  ExchangeInv(d)'
  <2>1. CASE call'[d].step \notin {"issue", "delete", "lookup", "renew"}
    BY <2>1 DEF ExchangeInv
  <2>2. QED
    BY <1>1, <1>4, <1>5, <1>6, <1>7, <1>8, <2>1, CameFrom
<1>9. QED
  BY <1>2, <1>3, <1>8

LEMMA ChainStep == ChainInv /\ [Next]_vars => ChainInv'
<1>1. CASE UNCHANGED vars
  BY <1>1, TypeStep DEF ChainInv, OneGood, ExchangeInv, NoneOf, NoGood, OnlyGood, Good,
                        vars, redis
<1>2. ASSUME ChainInv, Next, "overlap" \notin may
      PROVE  OneGood' /\ \A d \in Calls : ExchangeInv(d)'
  <2>1. TypeInv
    BY <1>2 DEF ChainInv
  <2>2. ASSUME NEW c \in Calls, IssueFirst(c)
        PROVE  OneGood' /\ \A d \in Calls : ExchangeInv(d)'
    <3>1. PICK n \in Tokens :
            /\ key[n] = "unborn" /\ key' = [key EXCEPT ![n] = "live"]
            /\ \A r \in Tokens : r # n => token'[r] = token[r]
            /\ token'[n].login = call[c].session
            /\ call[c].step = "issue"
            /\ call'[c] = [call[c] EXCEPT !.step = "audit", !.token = n]
      BY <2>1, <2>2, FirstIssued
    <3>2. call'[c].step = "audit" /\ \A d \in Calls : d # c => call'[d] = call[d]
      BY <2>1, <2>2, <3>1, CallEffect DEF LoginStep, TypeInv, TypeOK, CallType
    <3>3. NoGood(token'[n].login)
      BY <1>2, <3>1 DEF ChainInv, ExchangeInv, NoneOf, NoGood, Good
    <3>4. row[token'[n].login].user = call[c].user
      BY <2>1, <3>1 DEF TypeInv, CallsInv, CallInv
    <3>5. QED
      BY <1>2, <3>1, <3>2, <3>3, <3>4, IssuedAlone
  <2>3. ASSUME NEW c \in Calls, IssueNext(c)
        PROVE  OneGood' /\ \A d \in Calls : ExchangeInv(d)'
    <3>1. PICK n \in Tokens :
            /\ key[n] = "unborn" /\ key' = [key EXCEPT ![n] = "live"]
            /\ \A r \in Tokens : r # n => token'[r] = token[r]
            /\ token'[n].login = token[call[c].token].login
            /\ call[c].step = "renew" /\ call'[c] = Idle
      BY <2>1, <2>3, NextIssued
    <3>2. call'[c].step = "idle" /\ \A d \in Calls : d # c => call'[d] = call[d]
      BY <2>1, <2>3, <3>1, CallEffect, IdleType DEF RefreshStep
    <3>3. NoGood(token'[n].login)
      BY <1>2, <3>1 DEF ChainInv, ExchangeInv
    <3>4. row[token'[n].login].user = call[c].user
      BY <2>1, <3>1, TokenCall DEF ForToken, Refreshing, TypeInv, TokensInv
    <3>5. QED
      BY <1>2, <3>1, <3>2, <3>3, <3>4, IssuedAlone
  <2>4. QED
    BY <1>2, <2>2, <2>3, QuietChain
<1>3. ASSUME ChainInv, Next
      PROVE  ChainInv'
  <2>1. TypeInv' /\ UNCHANGED may
    BY <1>3, TypeStep, SentGrows DEF ChainInv
  <2>2. QED
    BY <1>2, <1>3, <2>1 DEF ChainInv
<1>4. QED
  BY <1>1, <1>3

LEMMA ChainAlways == Spec => []ChainInv
<1>1. Init => ChainInv
  BY TypeInit, IdleType DEF Init, ChainInv, OneGood, ExchangeInv, Good
<1>2. QED
  BY <1>1, ChainStep, PTL DEF Spec

(* If requests of one user do not overlap, a login has one token that can  *)
(* be exchanged, whichever requests fail half-way.                         *)
THEOREM OneToken == Spec => []OneTokenPerLogin
<1>1. ChainInv => OneTokenPerLogin
  BY DEF ChainInv, OneGood, Good, OneTokenPerLogin
<1>2. QED
  BY <1>1, ChainAlways, PTL

(* If requests of one user do not overlap, a client that has logged out    *)
(* with a token that was good has no other token of that login.            *)
THEOREM LoggedOutStaysOut == Spec => []LoggedOutIsOut
<1>1. ChainInv => LoggedOutIsOut
  BY DEF ChainInv, OneGood, Good, LoggedOutIsOut
<1>2. QED
  BY <1>1, ChainAlways, PTL

=============================================================================

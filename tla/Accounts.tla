------------------------------ MODULE Accounts ------------------------------
(***************************************************************************)
(* Signing in.  A user has a counter of failed logins, a lock and a        *)
(* password (columns of users), a row of sessions per login, and one chain *)
(* of refresh tokens per login: each is a key in Redis, and is exchanged   *)
(* for the next one.  A request is a sequence of calls to the database and *)
(* to Redis, and other requests may act between two of them.               *)
(*                                                                         *)
(* A refresh token is a signed text that is good for seven days            *)
(* (JWT_REFRESH_EXPIRES_IN), as is its key; expiring is one step here.  A  *)
(* family that was revoked stays so for seven days, longer than any token  *)
(* that belongs to it.                                                     *)
(***************************************************************************)
EXTENDS Integers, FiniteSets

CONSTANTS Users, Calls, Tokens, Sessions, Passwords,
          None,          \* no user, token, session or password
          Clock,         \* the moments of the model
          MAX_FAILED_ATTEMPTS,
          LOCK_DURATION,
          MaxFailures,   \* bound on the counter in TLC's instances
          MaxTokens,     \* MaxTokens[e]: bound on the tokens in environment e
          Environments   \* sets of what may happen: "overlap", requests of one
                         \* user overlap; "error", a call fails, a process
                         \* dies, an answer is lost; "mistake", a password is
                         \* mistyped; "expiry", a token comes of age; "replay",
                         \* a token is sent again that has been exchanged

ASSUME NoneAssumption ==
  None \notin Users \cup Tokens \cup Sessions \cup Passwords

ASSUME NumbersAssumption ==
  /\ Clock \subseteq Nat
  /\ MAX_FAILED_ATTEMPTS \in Nat \ {0}
  /\ LOCK_DURATION \in Nat \ {0}

VARIABLES
  may,            \* the environment, chosen once
  now,
  active, password, failures, lockedUntil,     \* the columns of users
  row,            \* row[s]: the row of sessions that a login created
  audited,        \* sessions with an audit log of their login
  key,            \* key[t]: the key of a token in Redis, and why it is gone
  token,          \* token[t]: its user, its family, the session in the
                  \* access token that came with it, the login it goes back to
  sent,           \* tokens that their client has received
  revoked,        \* families
  call            \* call[c]: the request being processed and its local data

account == <<active, password, failures, lockedUntil>>
redis == <<key, token, revoked>>
vars == <<may, now, account, row, audited, redis, sent, call>>

Idle == [step |-> "idle", user |-> None, seen |-> 0, token |-> None,
         session |-> None, new |-> None]

Unborn == [user |-> None, family |-> None, session |-> None, login |-> None]

NoRow == [user |-> None, isActive |-> FALSE]

Init ==
  /\ may \in Environments
  /\ now = 0
  /\ active = Users
  /\ password \in [Users -> Passwords]
  /\ failures = [u \in Users |-> 0]
  /\ lockedUntil = [u \in Users |-> 0]     \* null, or a moment in the past
  /\ row = [s \in Sessions |-> NoRow]
  /\ audited = {}
  /\ key = [t \in Tokens |-> "unborn"]
  /\ token = [t \in Tokens |-> Unborn]
  /\ sent = {}
  /\ revoked = {}
  /\ call = [c \in Calls |-> Idle]

-----------------------------------------------------------------------------
(* Requests *)

(* A logout may bring the refresh token of somebody else. *)
Concerns(c, u) ==
  \/ call[c].user = u
  \/ call[c].token # None /\ token[call[c].token].user = u

Alone(u) == "overlap" \in may \/ \A c \in Calls : ~ Concerns(c, u)

Begin(c, u, next) ==
  /\ call[c].step = "idle"
  /\ Alone(u)
  /\ call' = [call EXCEPT ![c] = [next EXCEPT !.user = u]]

GoOn(c, from, to) ==
  /\ call[c].step = from
  /\ call' = [call EXCEPT ![c].step = to]

End(c, from) ==
  /\ call[c].step = from
  /\ call' = [call EXCEPT ![c] = Idle]

(* The last step of a request that hands out tokens. *)
Answer(t) ==
  \/ sent' = sent \cup {t}
  \/ "error" \in may /\ UNCHANGED sent

-----------------------------------------------------------------------------
(* LoginHandler *)

Unlimited(u) == TRUE  \* mutant: a locked user is not turned away

NotLocked(u) == lockedUntil[u] <= now

verifyPassword(u, p) == password[u] = p

(* Requests that are refused at once change nothing and are left out. *)
StartLogin(c, u, p) ==
  /\ u \in active /\ NotLocked(u)
  /\ \/ verifyPassword(u, p)
     \/ "mistake" \in may /\ failures[u] < MaxFailures
  /\ Begin(c, u, [Idle EXCEPT !.step = IF verifyPassword(u, p) THEN "reset" ELSE "count",
                              !.seen = failures[u]])
  /\ UNCHANGED <<may, now, account, row, audited, redis, sent>>

Above(n) == n > MAX_FAILED_ATTEMPTS  \* mutant: one attempt more

TooMany(n) == n >= MAX_FAILED_ATTEMPTS

CountFailure(c) ==
  LET u == call[c].user
      newAttempts == call[c].seen + 1
  IN /\ End(c, "count")
     /\ failures' = [failures EXCEPT ![u] = newAttempts]
     /\ lockedUntil' = IF TooMany(newAttempts)
                       THEN [lockedUntil EXCEPT ![u] = now + LOCK_DURATION]
                       ELSE lockedUntil
     /\ UNCHANGED <<may, now, active, password, row, audited, redis, sent>>

ResetFailures(c) ==
  LET u == call[c].user
  IN /\ GoOn(c, "reset", "session")
     /\ failures' = [failures EXCEPT ![u] = 0]
     /\ lockedUntil' = [lockedUntil EXCEPT ![u] = 0]
     /\ UNCHANGED <<may, now, active, password, row, audited, redis, sent>>

CreateSession(c) ==
  /\ call[c].step = "session"
  /\ \E s \in Sessions :
       /\ row[s] = NoRow
       /\ row' = [row EXCEPT ![s] = [user |-> call[c].user, isActive |-> TRUE]]
       /\ call' = [call EXCEPT ![c] = [@ EXCEPT !.step = "issue", !.session = s]]
  /\ UNCHANGED <<may, now, account, audited, redis, sent>>

issueRefreshToken(t, u, family, session, login) ==
  /\ key[t] = "unborn"
  /\ Cardinality({r \in Tokens : key[r] # "unborn"}) < MaxTokens[may]
  /\ key' = [key EXCEPT ![t] = "live"]
  /\ token' = [token EXCEPT ![t] =
                 [user |-> u, family |-> family, session |-> session, login |-> login]]
  /\ UNCHANGED revoked

(* A family is named for the first token in it. *)
IssueFirst(c) ==
  /\ call[c].step = "issue"
  /\ \E t \in Tokens :
       /\ issueRefreshToken(t, call[c].user, t, call[c].session, call[c].session)
       /\ call' = [call EXCEPT ![c] = [@ EXCEPT !.step = "audit", !.token = t]]
  /\ UNCHANGED <<may, now, account, row, audited, sent>>

AuditNextTime(c) ==  \* mutant: answers whether or not the log was written
  /\ End(c, "audit")
  /\ Answer(call[c].token)
  /\ audited' = audited \cup {call[c].session} \/ UNCHANGED audited
  /\ UNCHANGED <<may, now, account, row, redis>>

WriteAudit(c) ==
  /\ End(c, "audit")
  /\ Answer(call[c].token)
  /\ audited' = audited \cup {call[c].session}
  /\ UNCHANGED <<may, now, account, row, redis>>

-----------------------------------------------------------------------------
(* RefreshTokenHandler *)

Used(t) ==
  \/ key[t] = "exchanged"
  \/ \E d \in Calls :
       call[d].token = t /\ call[d].step \in {"get", "revoke", "delete", "lookup", "renew"}

(* A client that has lost the answer, or somebody who has found the token, *)
(* may send it again.                                                      *)
StartRefresh(c, t) ==
  /\ t \in sent /\ key[t] # "expired" /\ token[t].family \notin revoked
  /\ Used(t) => "replay" \in may
  /\ Begin(c, token[t].user, [Idle EXCEPT !.step = "get", !.token = t])
  /\ UNCHANGED <<may, now, account, row, audited, redis, sent>>

FoundOrGone(t) == key[t] # "expired"  \* mutant: trusts the signed text alone

Found(t) == key[t] = "live"

getRefreshTokenData(c) ==
  /\ GoOn(c, "get", IF Found(call[c].token) THEN "delete" ELSE "revoke")
  /\ UNCHANGED <<may, now, account, row, audited, redis, sent>>

RevokeSession(c) ==  \* mutant: revokes the id of the session, not of the family
  /\ End(c, "revoke")
  /\ revoked' = revoked \cup {token[call[c].token].session}
  /\ UNCHANGED <<may, now, account, row, audited, key, token, sent>>

revokeFamily(c) ==
  /\ End(c, "revoke")
  /\ revoked' = revoked \cup {token[call[c].token].family}
  /\ UNCHANGED <<may, now, account, row, audited, key, token, sent>>

KeepKey(t, why) == UNCHANGED key  \* mutant: the key is left to expire

(* mutant: the keys of a user are deleted together *)
DeleteAll(t, why) ==
  key' = [r \in Tokens |-> IF key[r] = "live" /\ token[r].user = token[t].user THEN why ELSE key[r]]

(* DEL of a key, which may be gone already. *)
Delete(t, why) ==
  key' = IF key[t] = "live" THEN [key EXCEPT ![t] = why] ELSE key

RevokeExchanged(c) ==
  /\ GoOn(c, "delete", "lookup")
  /\ Delete(call[c].token, "exchanged")
  /\ UNCHANGED <<may, now, account, row, audited, token, revoked, sent>>

ReadUser(c) ==
  /\ \/ call[c].user \in active /\ GoOn(c, "lookup", "renew")
     \/ call[c].user \notin active /\ End(c, "lookup")
  /\ UNCHANGED <<may, now, account, row, audited, redis, sent>>

(* The new token starts a family of its own (newFamilyId), and the new     *)
(* access token names a session that has no row.                           *)
IssueNext(c) ==
  LET old == call[c].token
  IN /\ End(c, "renew")
     /\ \E t \in Tokens :
          /\ issueRefreshToken(t, call[c].user, t, None, token[old].login)
          /\ Answer(t)
     /\ UNCHANGED <<may, now, account, row, audited>>

-----------------------------------------------------------------------------
(* LogoutHandler.  The client presents an access token, which came with    *)
(* token a, and a refresh token t, of whichever user; none, or one that is *)
(* not good, is ignored.                                                   *)

StartLogout(c, a, t) ==
  /\ a \in sent /\ t \in sent \cup {None}
  /\ t # None => Alone(token[t].user)
  /\ Begin(c, token[a].user,
           [Idle EXCEPT !.step = IF t # None /\ key[t] # "expired" THEN "forget" ELSE "close",
                        !.token = t, !.session = token[a].session])
  /\ UNCHANGED <<may, now, account, row, audited, redis, sent>>

(* An error of Redis is caught. *)
RevokeGiven(c) ==
  /\ GoOn(c, "forget", "close")
  /\ \/ Delete(call[c].token, "loggedOut")
     \/ "error" \in may /\ UNCHANGED key
  /\ UNCHANGED <<may, now, account, row, audited, token, revoked, sent>>

Rows(c) == {s \in Sessions : s = call[c].session /\ row[s].user = call[c].user}

CloseSession(c) ==
  /\ End(c, "close")
  /\ row' = [s \in Sessions |-> IF s \in Rows(c) THEN [row[s] EXCEPT !.isActive = FALSE]
                                                 ELSE row[s]]
  /\ UNCHANGED <<may, now, account, audited, redis, sent>>

-----------------------------------------------------------------------------
(* ChangePasswordHandler, for a client with an access token *)

StartChange(c, a, p, new) ==
  /\ a \in sent
  /\ verifyPassword(token[a].user, p)
  /\ Begin(c, token[a].user, [Idle EXCEPT !.step = "change", !.new = new])
  /\ UNCHANGED <<may, now, account, row, audited, redis, sent>>

WritePassword(c) ==
  /\ End(c, "change")
  /\ password' = [password EXCEPT ![call[c].user] = call[c].new]
  /\ UNCHANGED <<may, now, active, failures, lockedUntil, row, audited, redis, sent>>

-----------------------------------------------------------------------------
(* The environment *)

Fail(c) ==
  /\ "error" \in may /\ call[c].step # "idle"
  /\ call' = [call EXCEPT ![c] = Idle]
  /\ UNCHANGED <<may, now, account, row, audited, redis, sent>>

(* Time is only told while somebody is locked. *)
Tick ==
  /\ now + 1 \in Clock
  /\ \E u \in Users : lockedUntil[u] > now
  /\ now' = now + 1
  /\ UNCHANGED <<may, account, row, audited, redis, sent, call>>

Expire(t) ==
  /\ "expiry" \in may
  /\ key[t] \notin {"unborn", "expired"}
  /\ key' = [key EXCEPT ![t] = "expired"]
  /\ UNCHANGED <<may, now, account, row, audited, token, revoked, sent, call>>

(* Nothing in the repository writes isActive; an administrator may. *)
Deactivate(u) ==
  /\ active' = active \ {u}
  /\ UNCHANGED <<may, now, password, failures, lockedUntil, row, audited, redis, sent, call>>

-----------------------------------------------------------------------------
LoginStep(c) ==
  \/ \E u \in Users, p \in Passwords : StartLogin(c, u, p)
  \/ CountFailure(c) \/ ResetFailures(c)
  \/ CreateSession(c) \/ IssueFirst(c) \/ WriteAudit(c)

RefreshStep(c) ==
  \/ \E t \in Tokens : StartRefresh(c, t)
  \/ getRefreshTokenData(c) \/ revokeFamily(c)
  \/ RevokeExchanged(c) \/ ReadUser(c) \/ IssueNext(c)

LogoutStep(c) ==
  \/ \E a \in Tokens, t \in Tokens \cup {None} : StartLogout(c, a, t)
  \/ RevokeGiven(c) \/ CloseSession(c)

ChangeStep(c) ==
  \/ \E a \in Tokens, p, new \in Passwords : StartChange(c, a, p, new)
  \/ WritePassword(c)

Environment ==
  \/ Tick
  \/ \E c \in Calls : Fail(c)
  \/ \E t \in Tokens : Expire(t)
  \/ \E u \in Users : Deactivate(u)

Next ==
  \/ \E c \in Calls : LoginStep(c) \/ RefreshStep(c) \/ LogoutStep(c) \/ ChangeStep(c)
  \/ Environment

Spec == Init /\ [][Next]_vars

-----------------------------------------------------------------------------
Steps == {"idle", "reset", "count", "session", "issue", "audit", "get", "revoke",
          "delete", "lookup", "renew", "forget", "close", "change"}

CallType ==
  [step : Steps, user : Users \cup {None}, seen : Nat, token : Tokens \cup {None},
   session : Sessions \cup {None}, new : Passwords \cup {None}]

TokenType ==
  [user : Users \cup {None}, family : Tokens \cup {None},
   session : Sessions \cup {None}, login : Sessions \cup {None}]

TypeOK ==
  /\ may \in Environments
  /\ now \in Nat
  /\ active \subseteq Users
  /\ password \in [Users -> Passwords]
  /\ failures \in [Users -> Nat]
  /\ lockedUntil \in [Users -> Nat]
  /\ row \in [Sessions -> [user : Users \cup {None}, isActive : BOOLEAN]]
  /\ audited \subseteq Sessions
  /\ key \in [Tokens -> {"unborn", "live", "exchanged", "loggedOut", "expired"}]
  /\ token \in [Tokens -> TokenType]
  /\ sent \subseteq {t \in Tokens : key[t] # "unborn"}
  /\ revoked \subseteq Tokens
  /\ call \in [Calls -> CallType]

(* Whoever has made too many mistakes has been locked, whatever overlaps;  *)
(* and nobody is locked for fewer mistakes, unless a login that is slow to *)
(* fail overwrites the counter.                                            *)
CounterLocks ==
  \A u \in Users :
    /\ failures[u] >= MAX_FAILED_ATTEMPTS => lockedUntil[u] > 0
    /\ lockedUntil[u] > 0 /\ "overlap" \notin may => failures[u] >= MAX_FAILED_ATTEMPTS

(* A lock stands until it ends: nothing shortens or lifts it and no login  *)
(* gets through, unless one was under way when it began.                   *)
LockStands ==
  [][\A u \in Users :
       lockedUntil[u] > now /\ "overlap" \notin may =>
         /\ lockedUntil'[u] = lockedUntil[u]
         /\ \A s \in Sessions : row'[s].user = u => row[s].user = u]_vars

(* A login leaves one token that can be exchanged, however often it is     *)
(* refreshed and whichever of these requests fail half-way.                *)
OneTokenPerLogin ==
  "overlap" \notin may =>
    \A t, r \in Tokens :
      key[t] = "live" /\ key[r] = "live" /\ token[t].login = token[r].login => t = r

(* Who has logged out with a token that was good stays logged out: there   *)
(* is no other token of that login, and none comes into being.             *)
LoggedOutIsOut ==
  "overlap" \notin may =>
    \A t, r \in Tokens :
      key[t] = "loggedOut" /\ token[t].login = token[r].login => key[r] # "live"

Works(t) == key[t] = "live" /\ token[t].family \notin revoked

Over(t) == key[t] \in {"loggedOut", "expired"}

Exchanging(c, login) ==
  call[c].step \in {"lookup", "renew"} /\ token[call[c].token].login = login

(* However requests overlap, and whatever other logins of the user do, the *)
(* client of a login always has a token that works, or is exchanging one,  *)
(* until that login is logged out, its token expires or its user is        *)
(* deactivated; unless a request fails half-way or the client sends a      *)
(* token again that it has exchanged.                                      *)
ATokenWorks ==
  may \cap {"error", "replay"} = {} =>
    \A t \in sent :
      \/ \E r \in sent : token[r].login = token[t].login /\ (Works(r) \/ Over(r))
      \/ \E c \in Calls : Exchanging(c, token[t].login)
      \/ token[t].user \notin active

(* Sending a token again that has been exchanged is taken for theft, and   *)
(* the client has to log in again: no token of that login works any more.  *)
(* The code says so (refresh-token.handler.ts, lines 35 and 44), and gives *)
(* the tokens that came after it families of their own (line 59).          *)
ReuseEndsTheChain ==
  \A t, r \in Tokens :
    token[t].family \in revoked /\ token[t].login = token[r].login => ~ Works(r)

(* Nobody holds a token whose login has not been logged, whatever fails.   *)
LoginsAreAudited == \A t \in sent : token[t].login \in audited

=============================================================================

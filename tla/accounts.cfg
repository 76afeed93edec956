SPECIFICATION Spec
CONSTANTS
  None = None
  u1 = u1
  c1 = c1
  c2 = c2
  t1 = t1
  t2 = t2
  t3 = t3
  s1 = s1
  s2 = s2
  p1 = p1
  p2 = p2
  Users = {u1}
  Calls = {c1, c2}
  Tokens = {t1, t2, t3}
  Sessions = {s1, s2}
  Passwords = {p1, p2}
  LastTime = 1
  Clock <- TimesUpTo
  MAX_FAILED_ATTEMPTS = 2
  LOCK_DURATION = 1
  MaxFailures = 3
  Environments <- SomeEnvironments
  MaxTokens <- TokensFor
SYMMETRY AccountsSymmetry
INVARIANT TypeOK
INVARIANT CounterLocks
INVARIANT OneTokenPerLogin
INVARIANT LoggedOutIsOut
INVARIANT ATokenWorks
INVARIANT LoginsAreAudited
PROPERTY LockStands
CHECK_DEADLOCK FALSE

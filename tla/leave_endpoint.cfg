SPECIFICATION Spec
CONSTANTS
  Calls = {c1, c2}
  c1 = c1
  c2 = c2
  q1 = q1
  q2 = q2
  a1 = a1
  Requests = {q1, q2}
  Accounts = {a1}
  SentAs <- IdsSent
  ByUser = {a1}
  TotalDays = 2
  Total <- SameTotal
  Days = {6, 8}
  Scale = 4
  Environments = {{"submits"}}
INVARIANT BalanceIsFound
CHECK_DEADLOCK FALSE

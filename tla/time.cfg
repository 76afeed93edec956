SPECIFICATION TimeSpec
CONSTANTS
  Calls = {c1, c2}
  c1 = c1
  c2 = c2
  q1 = q1
  q2 = q2
  q3 = q3
  a1 = a1
  a3 = a3
  Requests = {q1, q2, q3}
  Accounts = {a1, a3}
  SentAs <- IdsSent
  ByUser = {a3}
  TotalDays = 2
  Total <- SameTotal
  Days = {1, 6, 8}
  Scale = 4
  Environments = {{}, {"submits"}, {"reviews"}, {"submits", "reviews"}}
  ClockCalls = {c1, c2}
  Workers = {w1}
  w1 = w1
  Records = {i1, i2}
  i1 = i1
  i2 = i2
  None = None
  LastTime = 3
  Times <- TimesUpTo
  Corrections <- SomeCorrections
  Batches <- OneVisit
  TimeScale = 1
  WINDOW = 1
  STANDARD = 1
  MaxHours = 2
  Liberties = {}
SYMMETRY TimeSymmetry
INVARIANT TypeOK
INVARIANT NoOverdraft
INVARIANT BalancesAreRight
PROPERTY ReviewIsFinal
INVARIANT ClockTypeOK
INVARIANT OneOpenRecord
INVARIANT NoRepeatedClockIn
INVARIANT HoursMatchTimes
PROPERTY CorrectionStands
CHECK_DEADLOCK FALSE

SPECIFICATION FairSpec
CONSTANTS
  Periods = {1, 2}
  Workers = {w1, w2}
  w1 = w1
  w2 = w2
  Leavers = {w2}
  Joiners = {w2}
  Calls = {c1, c2}
  c2 = c2
  c1 = c1
  Consumers = {k1}
  k1 = k1
  Jobs = {1, 2}
  None = None
  MAX_STALLED = 1
  LastTime = 1
  Times <- TimesUpTo
  Attendance <- OneRecord
  Spans <- ShortSpans
  Worked = w1
  Salaries = {3}
  Overtimes = {0, 1}
  Scale = 100
  RATE = 120
  Faults = {"death", "error", "lost"}
  Liberties = {}
INVARIANT TypeOK
INVARIANT OpenPeriodsDisjoint
INVARIANT TotalsAddUp
INVARIANT NobodyForgotten
PROPERTY CompletedStays
PROPERTY QueuedIsPaid
CHECK_DEADLOCK FALSE

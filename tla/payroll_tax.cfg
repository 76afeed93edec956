SPECIFICATION Spec
CONSTANTS
  Periods = {1}
  Workers = {w1}
  w1 = w1
  Leavers = {}
  Joiners = {}
  Calls = {c1}
  c1 = c1
  Consumers = {k1}
  k1 = k1
  Jobs = {1}
  None = None
  MAX_STALLED = 1
  LastTime = 1
  Times <- TimesUpTo
  Attendance <- OneRecord
  Spans <- ShortSpans
  Worked = w1
  Salaries = {3}
  Overtimes = {0, 1}
  Scale = 100
  RATE = 120
  Faults = {"death"}
  Liberties = {}
INVARIANT TaxMatchesGross
CHECK_DEADLOCK FALSE

SPECIFICATION Spec
CONSTANTS
  Calls = {c1, c2}
  Workers = {w1, w2}
  Cards = {k1}
  Kiosks = {d1}
  c1 = c1
  c2 = c2
  w1 = w1
  w2 = w2
  k1 = k1
  d1 = d1
  Left = {"INACTIVE", "TERMINATED"}
  Null = Null
  Keep = Keep
  Environments = {{"later"}, {"recards", "late"}, {"overlap", "recards", "late", "later"}}
SYMMETRY DirectorySymmetry
INVARIANT TypeOK
INVARIANT TapsReachTheHolder
INVARIANT ErasureStands
CHECK_DEADLOCK FALSE

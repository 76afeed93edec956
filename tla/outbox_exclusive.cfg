SPECIFICATION FairOrderSpec
CONSTANTS
  Runs = {r1, r2}
  r1 = r1
  r2 = r2
  NoRun = NoRun
  Events = {1, 2, 3}
  BATCH_SIZE = 2
  MAX_ATTEMPTS = 2
  MaxDeliveries = 3
  Environments = {{"kafka", "crash"}}
INVARIANT TypeOK
INVARIANT MutualExclusion
 
 
PROPERTY LockIsFreed
CHECK_DEADLOCK FALSE

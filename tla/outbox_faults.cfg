SPECIFICATION FairSpec
CONSTANTS
  Runs = {r1, r2}
  r1 = r1
  r2 = r2
  NoRun = NoRun
  Events = {1, 2}
  BATCH_SIZE = 2
  MAX_ATTEMPTS = 2
  MaxDeliveries = 2
  Environments = {{"slow", "redis", "kafka", "database", "crash"}, {"slow", "kafka"}}
INVARIANT RowsAreHonest
INVARIANT NoStranding
PROPERTY EventuallySettled

SPECIFICATION FairSpec
CONSTANTS
  s1 = s1
  s2 = s2
  t1 = t1
  t2 = t2
  Nobody = Nobody
  Sessions = {s1, s2}
  Threads = {t1}
  Runs <- TwoRuns
  SESSION_LIMIT = 1
  RUNS_PER_SESSION = 2
  HISTORY = 3
  MaxRestarts = 0
  DiskCanFail = FALSE
INVARIANT WithinLimit
PROPERTIES RunsEnd StrandedIsRefunded
CHECK_DEADLOCK FALSE

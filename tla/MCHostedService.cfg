SPECIFICATION Spec
CONSTANTS
  s1 = s1
  s2 = s2
  t1 = t1
  t2 = t2
  Nobody = Nobody
  Sessions = {s1}
  Threads = {t1, t2}
  Runs <- ThreeRuns
  SESSION_LIMIT = 1
  RUNS_PER_SESSION = 2
  HISTORY = 2
  MaxRestarts = 1
  DiskCanFail = TRUE
SYMMETRY AnyThread
INVARIANTS UnfinishedIsKnown DepositsIndexed OneRefundAtATime NoSettlementBehindRefund
  RefundedOwesNothing ClaimIsOwned
CHECK_DEADLOCK FALSE

SPECIFICATION FairSpec
CONSTANTS
  w = w
  k = k
  Accounts <- AllAccounts
  Contracts <- OnlyContract
  NoAccount = NoAccount
  NoCall = NoCall
  Values = {0, 1}
  Bps = {0, 5000, 10000, 10001}
  MAX_DURATION = 1
  MaxDeals = 2
  LastOffer = 1
  MaxTime = 4
INVARIANTS Solvency OutcomeEarned HandOff
PROPERTIES TermsFixed KeepsPromise DealsEnd EveryoneIsPaid
CHECK_DEADLOCK FALSE

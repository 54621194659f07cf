CONSTANTS
  create = create
  deliver = deliver
  p = p
  q = q
  Commands = {p}
  Actions = {deliver}
  Timed = {}
  MaxTries = 2
  Foreign = Foreign
  Rebroadcast = TRUE
  HasFallback = TRUE
  MaxForks = 1
  MaxForeign = 0
SPECIFICATION FairSpec
PROPERTIES WalletFreed
CHECK_DEADLOCK FALSE

CONSTANTS
  create = create
  deliver = deliver
  p = p
  q = q
  Commands = {p, q}
  Actions = {deliver}
  Timed = {}
  MaxTries = 2
  Foreign = Foreign
  Rebroadcast = TRUE
  HasFallback = TRUE
  MaxForks = 0
  MaxForeign = 0
SPECIFICATION Spec
INVARIANTS ReleasedNeverLive
CHECK_DEADLOCK FALSE

CONSTANTS
  create = create
  deliver = deliver
  p = p
  q = q
  Commands = {p}
  Actions = {create, deliver}
  Timed = {create}
  MaxTries = 1
  Foreign = Foreign
  Rebroadcast = TRUE
  HasFallback = TRUE
  MaxForks = 1
  MaxForeign = 1
SPECIFICATION Spec
INVARIANTS NoGap
CHECK_DEADLOCK FALSE

CONSTANTS
  create = create
  deliver = deliver
  p = p
  q = q
  Commands = {p}
  Actions = {deliver}
  Timed = {}
  MaxTries = 2
  Foreign = Foreign
  Rebroadcast = FALSE
  HasFallback = TRUE
  MaxForks = 1
  MaxForeign = 1
SPECIFICATION Spec
INVARIANTS VerdictsApply
CHECK_DEADLOCK FALSE

CONSTANTS
  create = create
  deliver = deliver
  p = p
  q = q
  Commands = {p, q}
  Actions = {deliver}
  Timed = {}
  MaxTries = 2
  Foreign = Foreign
  Rebroadcast = FALSE
  HasFallback = TRUE
  MaxForks = 1
  MaxForeign = 1
SPECIFICATION Spec
SYMMETRY AnyCommand
INVARIANTS FinalVerdictsTrue ReleasedNeverLive ActsOnce
PROPERTIES SettledStays KeepsItsWord
CHECK_DEADLOCK FALSE

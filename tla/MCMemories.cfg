SPECIFICATION Spec
CONSTANTS
  timed_out = timed_out
  released = released
  Procs = {p1, p2}
  Receipts = {timed_out, released}
  DimensionIds = {d1, d2}
  TypeOf <- TwoTypes
  Nobody = Nobody
  None = None
  MaxCommands = 4
  MaxCrashes = 1
  MaxReinclusions = 1
SYMMETRY Symmetry
CHECK_DEADLOCK FALSE
INVARIANTS TypeOK WholeHistory MarkCovers BodiesAgree OneReading NoCircularWait
PROPERTIES SignedFromMemory

SPECIFICATION Spec
CONSTANTS
  Callers = {c1, c2}
  Links <- SmallLinks
  MaxAsks = 1
  None = None
  Reader = Reader
INVARIANTS SecondArrivalIsBounded
CHECK_DEADLOCK FALSE

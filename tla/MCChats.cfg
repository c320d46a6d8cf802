SPECIFICATION MCSpec
CONSTANTS
  Conns = {c1, c2}
  Names = {s1, s2}
  Devices = {d1}
  ClientFloor = {"device", "write"}
  Standing = {"write"}
  LookThenAct = FALSE
  Asks = {None, {"write"}, {"network"}}
  MaxSessions = 2
  None = None
  Budget = 2
  MaxEvents = 3
  Unpriced = Unpriced
  MaxSwaps = 2
  Profiles = 2
  MaxFaults = 1
  MaxOnWire = 2
  Screens <- Screens4
  Serials = {s1, s2}
  Callers = {c1, c2}
  HelperMode = "helper"
  FrameTTL = 1
  MaxCalls = 4
  MaxChanges = 2
INVARIANTS ChatsStayApart SpendIsTold SearchesAreHonest TurnsAreWitnessed ActsOnWhatWasSeen
SYMMETRY Symmetry
CHECK_DEADLOCK FALSE

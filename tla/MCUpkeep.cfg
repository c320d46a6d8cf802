SPECIFICATION MCSpec
CONSTANTS
  Files = {f1}
  Conf = Conf
  Base = Base
  Keep = 1
  Every = 2
  MaxNow = 2
  MaxVer = 2
  MaxKills = 1
  MaxCmds = 2
  Gone = Gone
  Procs = {p1, p2}
  Day = 2
  Detail = 1
  MaxStatsNow = 3
  MaxCalls = 3
  MaxOwners = 2
  MaxFaults = 1
  None = None
  Cmds = {k1, k2}
  Paths = {q1, q2}
  Evidence = {e1, e2}
  MaxRuns = 4
  MaxEdits = 1
  Tools = {t1, t2}
  Effects = {w, n}
  Servers = {"a", "agent-device"}
  Clients = {c1, c2}
  Capacity = 2
  Room = 1
  MaxSeq = 4
  MaxLives = 2
  Keys = {x1}
  MaxSeen = 3
  MaxFails = 1
  Backends = {b1, b2}
  Callers = {r1}
  MaxNoise = 2
  MaxSweeps = 1
  MaxReports = 2
  Plain = b2
INVARIANTS
  BackupsAreWhole
  StatsAreHonest
  OnlyTheAuthorized
  SettingsAreSound
  HubLosesNothing
  LedgerCountsOnce
  ReadingsAreEarned
CHECK_DEADLOCK FALSE

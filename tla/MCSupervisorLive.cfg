SPECIFICATION FairSpec
CONSTANTS
  Servers = {d}
  Persistent = {}
  Callers = {c1, c2}
  RestartLimit = 1
  NoServer = NoServer
PROPERTIES SupervisorAnswers

SPECIFICATION Spec
CONSTANTS
  Servers = {p, d}
  Persistent = {p}
  Callers = {c1}
  RestartLimit = 1
  NoServer = NoServer
INVARIANTS IInv ServersHeld

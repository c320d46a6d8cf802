SPECIFICATION FairSpec
CONSTANTS
  Conns = {c1, c2}
  Tasks = {t1}
  Stoppers = {s1, s2}
  Nobody = Nobody
INVARIANT StopIsOrderly
PROPERTIES NoAddAfterWait ShutdownReturns
CHECK_DEADLOCK FALSE

SPECIFICATION FairSpec
CONSTANTS
  Callers = {c1, c2}
  Requests = {r1, r2}
  Sizes = {2, 5}
  MaxEntries = 3
  MaxBytes = 4
  MaxGen = 2
  NoCaller = NoCaller
  NoRequest = NoRequest
INVARIANTS CacheInv
PROPERTIES StoreServes WaiterAnswered ImplementsFreshReads

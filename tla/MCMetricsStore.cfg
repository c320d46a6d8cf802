SPECIFICATION FairSpec
CONSTANTS
  Flushers = {f1}
  Keys = {k1}
  Limit = 2
  MaxRows = 3
  Attempts = 2
  FlushLast = FlushLast
  Clearer = Clearer
  Reader = Reader
  AllKeys = AllKeys
  Nobody = Nobody
INVARIANTS StoreInv RowsKept
PROPERTIES FlushesEnd

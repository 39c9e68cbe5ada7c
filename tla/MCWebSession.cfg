SPECIFICATION FairPageSpec
CONSTANTS
  Sessions = {s1, s2}
  Buckets = {"research", "quotes"}
  Budget <- OneEach
  Ttl = 2
  Nil = Nil
  MaxTime = 2
  MaxWork = 3
INVARIANT PurchaseStays
PROPERTY PageCatchesUp
CHECK_DEADLOCK FALSE

SPECIFICATION CachesSpec
CONSTANTS
  t1 = t1  t2 = t2  t3 = t3  k1 = k1  k2 = k2  o1 = o1  o2 = o2
  Thread = {t1, t2}
  Nobody = Nobody
  Key = {k1, k2}
  NoKey = NoKey
  Obj = {o1, o2}
  NoValue = NoValue
  Alias <- AliasKeys
  Policies <- EvictAll
  MAX_EVICT_ITERATIONS = 3
  Slots = 3
  Unused = {0, 1}
  SLOT_ITERATIONS = 2
INVARIANTS
  CacheInv
  ItemsEventuallyExact
  OneCreator
  SameValueWhileHeld
  CompositeInv
  ClosedReleasesAll
PROPERTIES
  NobodyWaitsForever
  FlushComplete
  CallsEnd

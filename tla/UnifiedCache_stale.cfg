SPECIFICATION Spec
CONSTANTS
  t1 = t1  t2 = t2  t3 = t3  k1 = k1  k2 = k2  o1 = o1  o2 = o2
  Thread = {t1, t2}
  Nobody = Nobody
  Key = {k1}
  NoKey = NoKey
  Obj = {o1}
  NoValue = NoValue
  Alias <- AliasKeys
  Policies <- EagerPolicies
  MAX_EVICT_ITERATIONS = 3
INVARIANTS
  NoStaleRead

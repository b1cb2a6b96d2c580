---------------------------- MODULE MCUnifiedCache ----------------------------
(* Small instances of UnifiedCache: k2 is the key whose createObject returns *)
(* the value of k1, as createObject of one locale does for another.          *)
EXTENDS UnifiedCache

CONSTANTS t1, t2, t3, k1, k2, o1, o2

Symmetry == Permutations(Thread) \cup Permutations(Obj)
AliasKeys == [k \in Key |-> IF k = k2 THEN k1 ELSE NoKey]
EagerPolicies == {<<0, 0>>, <<1, 100>>}
EvictAll      == {<<0, 0>>}
===============================================================================

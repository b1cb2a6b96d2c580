------------------------------- MODULE HashTable -------------------------------
(***************************************************************************)
(* The hash table of ICU (uhash.c): open addressing with a second hash for  *)
(* the jump, slots that stay marked when their element is removed, growth   *)
(* on demand (policy U_GROW, the only one in use) that may fail for want of *)
(* memory.  The table owns its keys (keyDeleter is set); a key that is put  *)
(* is a new object, equal to those put before under the same key.           *)
(***************************************************************************)
EXTENDS Integers, SequencesExt

CONSTANTS Key, Copy,     \* equal key objects differ in their Copy
          HashCode,      \* keyHasher, after & 0x7FFFFFFF, also of keys not put
          Value,
          PRIMES, HighPercent  \* table sizes; highWaterRatio

VARIABLES elements,   \* slot -> EmptySlot, DeletedSlot or [key, value], key an object
          count, primeIndex,
          contents,   \* history: the mapping the caller expects
          keyObjects, \* history: key objects that are not deleted
          leaked,     \* history: key objects given away with a null value
          broken      \* history: a deleted key was deleted again, or a null slot used

tableVars == <<elements, count, primeIndex, contents, keyObjects, leaked, broken>>

EmptySlot   == [state |-> "empty"]
DeletedSlot == [state |-> "deleted"]
Used(s)   == s.state = "used"
Object    == Key \X Copy
Element(k, v) == [state |-> "used", key |-> k, value |-> v]
NULL == -1

Length(t)     == Max(DOMAIN t) + 1
HighWaterMark == (Length(elements) * HighPercent) \div 100
Allocated(p)  == [i \in 0..PRIMES[p] - 1 |-> EmptySlot]

Init ==
  /\ primeIndex = 1 /\ elements = Allocated(1) /\ count = 0
  /\ contents = <<>> /\ keyObjects = {} /\ leaked = {} /\ broken = FALSE

-------------------------------------------------------------------------------
(* Where the loop of _uhash_find looks, in order: it jumps from the start    *)
(* until it is back there, which takes Length(t) jumps if that is a prime.   *)
Start(t, k) == (HashCode[k] + 67108864) % Length(t)   \* hashcode ^ 0x4000000
Jump(t, k)  == (HashCode[k] % (Length(t) - 1)) + 1
Probe(t, k, n) == (Start(t, k) + n * Jump(t, k)) % Length(t)
Rounds(t, k) == 1..Min({n \in 1..Length(t) : Probe(t, k, n) = Start(t, k)})

Matches(s, k) == Used(s) /\ s.key[1] = k

(* Mutant: the search ends at a removed element. *)
FindUpToDeleted(t, k) ==
  LET Stop(n) == LET s == t[Probe(t, k, n - 1)] IN Matches(s, k) \/ ~Used(s)
      stops == {n \in Rounds(t, k) : Stop(n)}
  IN  IF stops = {} THEN NULL ELSE Probe(t, k, Min(stops) - 1)

(* _uhash_find: the element with that key, else the first slot to put it in. *)
Find(t, k) ==
  LET At(n)   == t[Probe(t, k, n - 1)]
      stops   == {n \in Rounds(t, k) : Matches(At(n), k) \/ At(n) = EmptySlot}
      visited == IF stops = {} THEN Rounds(t, k) ELSE 1..Min(stops)
      deleted == {n \in visited : At(n) = DeletedSlot}
      Slot(n) == Probe(t, k, n - 1)
  IN  CASE stops # {} /\ Matches(At(Min(stops)), k) -> Slot(Min(stops))
        [] deleted # {}                             -> Slot(Min(deleted))
        [] stops # {}                               -> Slot(Min(stops))
        [] OTHER                                    -> NULL

Get(k) == LET i == Find(elements, k)
          IN  IF i # NULL /\ Used(elements[i]) THEN elements[i].value ELSE NULL

(* The last loop of _uhash_rehash, from the highest slot down. *)
Rehashed(old, new) ==
  LET Move(t, e) == IF Used(e) THEN [t EXCEPT ![Find(t, e.key[1])] = e] ELSE t
  IN  FoldLeft(Move, new, [i \in 1..Length(old) |-> old[Length(old) - i]])

(* _uhash_setElement deletes the key that was in the slot. *)
OldKeys(t, i) == IF Used(t[i]) THEN {t[i].key} ELSE {}
Owned(give, delete) ==
  /\ keyObjects' = (keyObjects \cup give) \ delete
  /\ broken' = (broken \/ ~(delete \subseteq keyObjects \cup give))

Fills(t, n, i) == ~Used(t[i]) /\ n + 1 = Length(t)

(* The end of _uhash_put, in table t: the element is set, unless that would  *)
(* fill the last slot; then, at "err", the caller's key is deleted.          *)
SetIn(t, n, obj, v) ==
  LET i == Find(t, obj[1]) IN
  IF Fills(t, n, i)
  THEN /\ elements' = t /\ count' = n /\ Owned({obj}, {obj}) /\ UNCHANGED contents
  ELSE /\ elements' = [t EXCEPT ![i] = Element(obj, v)]
       /\ count' = IF Used(t[i]) THEN n ELSE n + 1
       /\ contents' = [k \in DOMAIN contents \cup {obj[1]} |-> IF k = obj[1] THEN v ELSE contents[k]]
       /\ Owned({obj}, OldKeys(t, i))

Growing == count > HighWaterMark /\ primeIndex < Len(PRIMES)

(* uhash_put with a value. *)
Put(obj, v) ==
  /\ obj \notin keyObjects
  /\ ~Growing /\ SetIn(elements, count, obj, v) /\ UNCHANGED <<primeIndex, leaked>>
PutGrowing(obj, v) ==
  /\ obj \notin keyObjects
  /\ Growing /\ primeIndex' = primeIndex + 1
  /\ SetIn(Rehashed(elements, Allocated(primeIndex + 1)), count, obj, v) /\ UNCHANGED leaked
(* _uhash_rehash finds no memory; primeIndex keeps its new value. *)
PutWithoutMemory(obj, v) ==
  /\ obj \notin keyObjects
  /\ Growing /\ primeIndex' = primeIndex + 1
  /\ Owned({obj}, {obj}) /\ UNCHANGED <<elements, count, contents, leaked>>

(* _uhash_internalRemoveElement, for each of the slots. *)
RemoveSlots(is) ==
  /\ elements' = [i \in DOMAIN elements |-> IF i \in is THEN DeletedSlot ELSE elements[i]]
  /\ count' = count - Cardinality(is)
  /\ contents' = Restrict(contents, DOMAIN contents \ {elements[i].key[1] : i \in is})

(* _uhash_remove.  Policy U_GROW never shrinks the table. *)
Found(k) == LET i == Find(elements, k) IN IF Used(elements[i]) THEN {i} ELSE {}
RemoveKey(k) ==
  /\ RemoveSlots(Found(k)) /\ Owned({}, {elements[i].key : i \in Found(k)})
  /\ UNCHANGED <<primeIndex, leaked>>

(* uhash_put with a null value: removes, and forgets the key it was given. *)
PutNull(obj) ==
  /\ obj \notin keyObjects /\ leaked = {}   \* bound: once
  /\ RemoveSlots(Found(obj[1])) /\ Owned({obj}, {elements[i].key : i \in Found(obj[1])})
  /\ leaked' = {obj} /\ UNCHANGED primeIndex

(* uhash_nextElement from position pos; uhash_removeAll, and an iteration    *)
(* that removes the elements with value v (uhash_removeElement).             *)
Later(t, pos) == {i \in DOMAIN t : i > pos /\ Used(t[i])}
Walk(t) == LET walk[pos \in -1..Length(t)] ==
                 IF Later(t, pos) = {} THEN {} ELSE {Min(Later(t, pos))} \cup walk[Min(Later(t, pos))]
           IN  walk[-1]
RemoveWhere(v) ==
  LET is == {i \in Walk(elements) : elements[i].value = v} IN
  /\ RemoveSlots(is) /\ Owned({}, {elements[i].key : i \in is})
  /\ UNCHANGED <<primeIndex, leaked>>
RemoveAll ==
  /\ RemoveSlots(Walk(elements)) /\ Owned({}, {elements[i].key : i \in Walk(elements)})
  /\ UNCHANGED <<primeIndex, leaked>>

Next ==
  \/ \E obj \in Object, v \in Value : Put(obj, v) \/ PutGrowing(obj, v) \/ PutWithoutMemory(obj, v)
  \/ \E obj \in Object : PutNull(obj)
  \/ \E k \in Key : RemoveKey(k)
  \/ \E v \in Value : RemoveWhere(v)
  \/ RemoveAll

TableSpec == Init /\ [][Next]_tableVars

-------------------------------------------------------------------------------
(* The table is the mapping the callers built, after any puts, removals,     *)
(* iterations, growths and failures: uhash_get finds each value, each key    *)
(* has one slot, and count is right.                                         *)
TableIsMap ==
  /\ \A k \in Key : Get(k) = IF k \in DOMAIN contents THEN contents[k] ELSE NULL
  /\ count = Cardinality(DOMAIN contents)
  /\ count = Cardinality({i \in DOMAIN elements : Used(elements[i])})

(* Some slot is never used, so _uhash_find always has a place to return      *)
(* ("never happens if uhash_put() behaves").                                 *)
NeverFull == \A k \in DOMAIN HashCode : Find(elements, k) # NULL

(* Each key given to the table is in it or was deleted, once; except the one *)
(* that came with a null value.                                              *)
KeysOwned ==
  /\ ~broken
  /\ keyObjects = leaked \cup {elements[i].key : i \in {j \in DOMAIN elements : Used(elements[j])}}
===============================================================================
